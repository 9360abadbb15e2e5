---------------------------- MODULE Pkcs11Adapter ----------------------------
(***************************************************************************)
(* The shared core of every vendor adapter (internal/pkcs11): its sessions,*)
(* the janitor that reclaims them, the token login held on an anchor       *)
(* session, and Close, all driving one PKCS#11 module from any number of   *)
(* goroutines.                                                             *)
(*                                                                         *)
(* withStateLock and withReadLock run one closure under pkcs11Adapter.mu.  *)
(* A closure that makes one module call is one step taken while mu is      *)
(* free; one that makes a sequence (C_SignInit, C_Sign) takes mu in one    *)
(* step and gives it back in another.  What a method does outside the lock *)
(* (touch, markClosed, the session map) is a step of its own.              *)
(*                                                                         *)
(* The module is external: a set of open session handles, one login state  *)
(* for the whole token that the last session takes with it, and handles it *)
(* does not issue twice.                                                   *)
(***************************************************************************)
EXTENDS Integers, FiniteSets

CONSTANTS
    Users,          \* goroutines that call the adapter
    Handles,        \* session handles; bounds the sessions opened in a run
    IdleTimeout,    \* SessionOptions.IdleTimeout
    MaxTTL,         \* SessionOptions.MaxTTL
    Failures,       \* C_CloseSession and C_Logout may report a device error
    SessionLogins,  \* callers use Login and Logout on their sessions
    MaxTime,        \* bound: the clock stops here
    None            \* nobody, no handle

ASSUME AdapterAssumption ==
    /\ IdleTimeout \in Nat
    /\ MaxTTL \in Nat
    /\ Failures \in BOOLEAN
    /\ SessionLogins \in BOOLEAN
    /\ MaxTime \in Nat
    /\ None \notin Users \cup Handles

VARIABLES
    now,        \* the wall clock
    \* the module
    open,       \* session handles open on the token
    issued,     \* handles C_OpenSession has returned
    auth,       \* the token is authenticated
    finalized,  \* C_Finalize and Destroy ran
    \* pkcs11Adapter
    mu,         \* the caller inside a sequence of module calls, or None
    closed,     \* closed
    sessions,   \* the keys of the session map
    sess,       \* the Session objects, by handle
    loginMu,    \* the holder of loginMu, or None
    anchor,     \* anchorSession; None is tokenLoggedIn = false
    closer,     \* the caller closeOnce chose, or None
    janitor,    \* the janitor goroutine
    user,       \* what each caller is doing
    \* history, read by properties only
    badCall,    \* the module was called after it was finalized
    ignored,    \* handles whose failed C_CloseSession nobody looked at
    ended       \* a session's Logout took the token login away

module == <<open, issued, auth, finalized>>
history == <<badCall, ignored, ended>>
vars == <<now, module, mu, closed, sessions, sess, loginMu, anchor, closer,
          janitor, user, history>>

-----------------------------------------------------------------------------
(* "none": no Session object has been returned for the handle.             *)
Session == [state : {"none", "live", "closed"}, opened : Nat, last : Nat,
            loggedIn : BOOLEAN]
NoSession == [state |-> "none", opened |-> 0, last |-> 0, loggedIn |-> FALSE]

LoginStates == {"loginToken", "logoutToken", "dropAnchor"}
CloseStates == {"wait", "lockLogin", "collect", "finalize"}
OperationStates ==
    {"read", "multi", "active", "login", "setLogin", "logout", "clearLogin"}
UserState == {"idle", "register", "closing", "forget"}
                \cup OperationStates \cup LoginStates \cup CloseStates

(* h: the session the call is about.                                       *)
User == [pc : UserState, h : Handles \cup {None}]
Idle == [pc |-> "idle", h |-> None]

(* todo: handles taken out of the map and not closed yet.                  *)
Janitor == [pc : {"waiting", "sweeping", "stopped"}, todo : SUBSET Handles]

(* The values every variable takes, and who may hold loginMu.              *)
TypeOK ==
    /\ now \in Nat
    /\ open \subseteq issued
    /\ issued \subseteq Handles
    /\ auth \in BOOLEAN /\ finalized \in BOOLEAN
    /\ mu \in Users \cup {None}
    /\ closed \in BOOLEAN
    /\ sessions \subseteq Handles
    /\ sess \in [Handles -> Session]
    /\ loginMu \in Users \cup {None}
    /\ anchor \in Handles \cup {None}
    /\ closer \in Users \cup {None}
    /\ janitor \in Janitor
    /\ user \in [Users -> User]
    /\ badCall \in BOOLEAN
    /\ ignored \subseteq Handles
    /\ ended \in BOOLEAN
    /\ \A u \in Users : user[u].pc \in LoginStates <=> loginMu = u

Init ==
    /\ now = 0
    /\ open = {} /\ issued = {} /\ auth = FALSE /\ finalized = FALSE
    /\ mu = None
    /\ closed = FALSE
    /\ sessions = {}
    /\ sess = [h \in Handles |-> NoSession]
    /\ loginMu = None
    /\ anchor = None
    /\ closer = None
    /\ janitor = [pc |-> "waiting", todo |-> {}]
    /\ user = [u \in Users |-> Idle]
    /\ badCall = FALSE
    /\ ignored = {}
    /\ ended = FALSE

-----------------------------------------------------------------------------
(* The lock helpers                                                        *)

(* mu taken by nobody, or a shared lock where an exclusive one is needed.  *)
LockShared == TRUE

LockFree == mu = None

(* The check on closed left out.                                           *)
UsableAlways == TRUE

(* The check both helpers make once they have the lock.                    *)
Usable == ~closed

(* Every call into the module.                                             *)
Call == badCall' = (badCall \/ finalized)
NoCall == UNCHANGED badCall

(* C_CloseSession released the handle; the last session takes the login    *)
(* with it.                                                                *)
Released(h) ==
    /\ open' = open \ {h}
    /\ auth' = (auth /\ open \ {h} # {})
    /\ UNCHANGED <<issued, finalized>>

Done(u) == user' = [user EXCEPT ![u] = Idle]
Goto(u, pc) == user' = [user EXCEPT ![u].pc = pc]

-----------------------------------------------------------------------------
(* OpenSession: the call under the lock, the map entry after it.           *)

OpenSession(u, h) ==
    /\ user[u].pc = "idle"
    /\ LockFree
    /\ Usable
    /\ h \notin issued
    /\ Call
    /\ open' = open \cup {h}
    /\ issued' = issued \cup {h}
    /\ user' = [user EXCEPT ![u] = [pc |-> "register", h |-> h]]
    /\ UNCHANGED <<now, auth, finalized, mu, closed, sessions, sess, loginMu,
                   anchor, closer, janitor, ignored, ended>>

Register(u) ==
    LET h == user[u].h IN
    /\ user[u].pc = "register"
    /\ sess' = [sess EXCEPT ![h] = [state |-> "live", opened |-> now,
                                    last |-> now, loggedIn |-> FALSE]]
    /\ sessions' = sessions \cup {h}
    /\ Done(u)
    /\ UNCHANGED <<now, module, mu, closed, loginMu, anchor, closer, janitor, history>>

-----------------------------------------------------------------------------
(* Operations on a session                                                 *)

Expired(h) ==
    \/ now - sess[h].opened > MaxTTL
    \/ now - sess[h].last > IdleTimeout

Close1(s) == [s EXCEPT !.state = "closed", !.loggedIn = FALSE]

OperationKinds == {"read", "multi"} \cup (IF SessionLogins THEN {"login", "logout"} ELSE {})

(* touch: an expired session is closed and refused (it stays in the map),  *)
(* another goes on to the lock.  A closed one is refused, and nothing      *)
(* changes.                                                                *)
Touch(u, h, kind) ==
    /\ user[u].pc = "idle"
    /\ sess[h].state = "live"
    /\ \/ /\ Expired(h)
          /\ sess' = [sess EXCEPT ![h] = Close1(@)]
          /\ UNCHANGED user
       \/ /\ ~Expired(h)
          /\ sess' = [sess EXCEPT ![h].last = now]
          /\ user' = [user EXCEPT ![u] = [pc |-> kind, h |-> h]]
    /\ UNCHANGED <<now, module, mu, closed, sessions, loginMu, anchor, closer,
                   janitor, history>>

operationRest == <<now, issued, finalized, closed, sessions, loginMu, anchor,
                   closer, janitor, ignored>>

(* The adapter was closed between touch and the lock: ErrAdapterClosed.    *)
Refused(u) ==
    /\ user[u].pc \in {"read", "multi", "login", "logout"}
    /\ LockFree
    /\ ~Usable
    /\ NoCall
    /\ Done(u)
    /\ UNCHANGED <<operationRest, open, auth, mu, sess, ended>>

(* GenerateKeyPair, DestroyObject, GetAttributes, Wrap, ...: one call that *)
(* leaves no operation in the session.                                     *)
Read(u) ==
    /\ user[u].pc = "read"
    /\ LockFree
    /\ Usable
    /\ Call
    /\ Done(u)
    /\ UNCHANGED <<operationRest, open, auth, mu, sess, ended>>

(* Sign, Verify, Encrypt, Decrypt, FindObjects: the first call of the      *)
(* sequence, on a handle the token may no longer know.                     *)
MultiInit(u) ==
    /\ user[u].pc = "multi"
    /\ LockFree
    /\ Usable
    /\ Call
    /\ \/ /\ Done(u)
          /\ UNCHANGED mu
       \/ /\ user[u].h \in open
          /\ Goto(u, "active")
          /\ mu' = u
    /\ UNCHANGED <<operationRest, open, auth, sess, ended>>

MultiFinish(u) ==
    /\ user[u].pc = "active"
    /\ Call
    /\ mu' = None
    /\ Done(u)
    /\ UNCHANGED <<operationRest, open, auth, sess, ended>>

(* C_Login authenticates the token; the session's flag follows after the   *)
(* unlock.                                                                 *)
LoginCall(u) ==
    /\ user[u].pc = "login"
    /\ LockFree
    /\ Usable
    /\ Call
    /\ \/ /\ user[u].h \in open
          /\ ~auth
          /\ auth' = TRUE
          /\ Goto(u, "setLogin")
       \/ /\ Done(u)
          /\ UNCHANGED auth
    /\ UNCHANGED <<operationRest, open, mu, sess, ended>>

LogoutCall(u) ==
    /\ user[u].pc = "logout"
    /\ LockFree
    /\ Usable
    /\ Call
    /\ \/ /\ user[u].h \in open
          /\ auth
          /\ auth' = FALSE
          /\ ended' = TRUE
          /\ Goto(u, "clearLogin")
       \/ /\ Done(u)
          /\ UNCHANGED <<auth, ended>>
    /\ UNCHANGED <<operationRest, open, mu, sess>>

SetLoggedIn(u) ==
    /\ user[u].pc \in {"setLogin", "clearLogin"}
    /\ sess' = [sess EXCEPT ![user[u].h].loggedIn = (user[u].pc = "setLogin")]
    /\ Done(u)
    /\ UNCHANGED <<operationRest, open, auth, mu, badCall, ended>>

-----------------------------------------------------------------------------
(* CloseSession: marked unusable at once, forgotten once the token has     *)
(* released the handle.                                                    *)

CloseSession(u, h) ==
    /\ user[u].pc = "idle"
    /\ sess[h].state # "none"
    /\ sess' = [sess EXCEPT ![h] = Close1(@)]
    /\ user' = [user EXCEPT ![u] = [pc |-> "closing", h |-> h]]
    /\ UNCHANGED <<now, module, mu, closed, sessions, loginMu, anchor, closer,
                   janitor, history>>

(* The map entry dropped although C_CloseSession failed.                   *)
CloseFailedForgets(u) == Failures /\ user[u].h \in open /\ Goto(u, "forget")

(* The entry kept for the janitor.                                         *)
CloseFailed(u) == Failures /\ user[u].h \in open /\ Done(u)

CloseCall(u) ==
    LET h == user[u].h IN
    /\ user[u].pc = "closing"
    /\ LockFree
    /\ \/ /\ ~Usable
          /\ NoCall
          /\ Goto(u, "forget")
          /\ UNCHANGED module
       \/ /\ Usable
          /\ Call
          /\ \/ Released(h) /\ Goto(u, "forget")
             \/ CloseFailed(u) /\ UNCHANGED module
    /\ UNCHANGED <<now, mu, closed, sessions, sess, loginMu, anchor, closer,
                   janitor, ignored, ended>>

Forget(u) ==
    /\ user[u].pc = "forget"
    /\ sessions' = sessions \ {user[u].h}
    /\ Done(u)
    /\ UNCHANGED <<now, module, mu, closed, sess, loginMu, anchor, closer,
                   janitor, history>>

-----------------------------------------------------------------------------
(* The token login                                                         *)

LoginToken(u) ==
    /\ user[u].pc = "idle"
    /\ loginMu = None
    /\ anchor = None
    /\ loginMu' = u
    /\ Goto(u, "loginToken")
    /\ UNCHANGED <<now, module, mu, closed, sessions, sess, anchor, closer,
                   janitor, history>>

(* The anchor handed to the janitor like any other session.                *)
AnchorRegistered(h) ==
    /\ sessions' = sessions \cup {h}
    /\ sess' = [sess EXCEPT ![h] = [state |-> "live", opened |-> now,
                                    last |-> now, loggedIn |-> TRUE]]

(* The anchor is a raw handle, not a Session.                              *)
AnchorUnregistered(h) == UNCHANGED <<sessions, sess>>

(* An error return without the deferred Unlock.                            *)
LoginFailedKeepsLock(u) == Done(u) /\ UNCHANGED <<loginMu, anchor, sessions, sess>>

LoginFailed(u) == Done(u) /\ loginMu' = None /\ UNCHANGED <<anchor, sessions, sess>>

(* Opening the anchor and C_Login are one closure.  A login refused by the *)
(* token closes the anchor again and does not look at the result.          *)
LoginTokenCall(u, h) ==
    /\ user[u].pc = "loginToken"
    /\ LockFree
    /\ \/ /\ ~Usable
          /\ NoCall
          /\ LoginFailed(u)
          /\ UNCHANGED <<module, ignored, ended>>
       \/ /\ Usable
          /\ h \notin issued
          /\ ~auth
          /\ Call
          /\ open' = open \cup {h}
          /\ issued' = issued \cup {h}
          /\ auth' = TRUE
          /\ anchor' = h
          /\ ended' = FALSE
          /\ AnchorUnregistered(h)
          /\ loginMu' = None
          /\ Done(u)
          /\ UNCHANGED <<finalized, ignored>>
       \/ /\ Usable
          /\ h \notin issued
          /\ Call
          /\ issued' = issued \cup {h}
          /\ \/ UNCHANGED <<open, ignored>>
             \/ /\ Failures
                /\ open' = open \cup {h}
                /\ ignored' = ignored \cup {h}
          /\ LoginFailed(u)
          /\ UNCHANGED <<auth, finalized, ended>>
       \/ /\ Usable   \* C_OpenSession failed
          /\ Call
          /\ LoginFailed(u)
          /\ UNCHANGED <<module, ignored, ended>>
    /\ UNCHANGED <<now, mu, closed, closer, janitor>>

LogoutToken(u) ==
    /\ user[u].pc = "idle"
    /\ loginMu = None
    /\ anchor # None
    /\ loginMu' = u
    /\ Goto(u, "logoutToken")
    /\ UNCHANGED <<now, module, mu, closed, sessions, sess, anchor, closer,
                   janitor, history>>

(* logoutTokenLocked, first closure: C_Logout, whatever it reports.        *)
LogoutAnchor(u) ==
    /\ user[u].pc = "logoutToken"
    /\ LockFree
    /\ \/ /\ ~Usable
          /\ NoCall
          /\ UNCHANGED auth
       \/ /\ Usable
          /\ Call
          /\ \/ auth' = FALSE
             \/ Failures /\ UNCHANGED auth
    /\ Goto(u, "dropAnchor")
    /\ UNCHANGED <<now, open, issued, finalized, mu, closed, sessions, sess,
                   loginMu, anchor, closer, janitor, ignored, ended>>

(* Second closure: the anchor is closed, the result ignored, the fields    *)
(* cleared; Close goes on from here.                                       *)
DropAnchor(u) ==
    /\ user[u].pc = "dropAnchor"
    /\ LockFree
    /\ \/ /\ ~Usable
          /\ NoCall
          /\ UNCHANGED <<module, ignored>>
       \/ /\ Usable
          /\ Call
          /\ Released(anchor)
          /\ UNCHANGED ignored
       \/ /\ Usable
          /\ Failures
          /\ Call
          /\ ignored' = ignored \cup {anchor}
          /\ UNCHANGED module
    /\ anchor' = None
    /\ loginMu' = None
    /\ Goto(u, IF closer = u /\ ~closed THEN "collect" ELSE "idle")
    /\ UNCHANGED <<now, mu, closed, sessions, sess, closer, janitor, ended>>

-----------------------------------------------------------------------------
(* Close.  A second caller waits for the first in closeOnce.               *)

Close(u) ==
    /\ user[u].pc = "idle"
    /\ closer = None
    /\ closer' = u
    /\ Goto(u, "wait")
    /\ UNCHANGED <<now, module, mu, closed, sessions, sess, loginMu, anchor,
                   janitor, history>>

(* janitorDone, then loginMu; nothing to log out goes straight on.         *)
CloseWait(u) ==
    /\ user[u].pc = "wait"
    /\ janitor.pc = "stopped"
    /\ Goto(u, "lockLogin")
    /\ UNCHANGED <<now, module, mu, closed, sessions, sess, loginMu, anchor,
                   closer, janitor, history>>

CloseLockLogin(u) ==
    /\ user[u].pc = "lockLogin"
    /\ loginMu = None
    /\ \/ /\ anchor = None
          /\ Goto(u, "collect")
          /\ UNCHANGED loginMu
       \/ /\ anchor # None
          /\ Goto(u, "logoutToken")
          /\ loginMu' = u
    /\ UNCHANGED <<now, module, mu, closed, sessions, sess, anchor, closer,
                   janitor, history>>

(* Under sessMu: every session is marked closed and leaves the map.        *)
CloseCollect(u) ==
    /\ user[u].pc = "collect"
    /\ sess' = [h \in Handles |-> IF h \in sessions THEN Close1(sess[h]) ELSE sess[h]]
    /\ sessions' = {}
    /\ Goto(u, "finalize")
    /\ UNCHANGED <<now, module, mu, closed, loginMu, anchor, closer, janitor, history>>

(* Under mu: the sessions are closed, the module finalized, the adapter    *)
(* closed and the module thread stopped.                                   *)
CloseFinalize(u) ==
    /\ user[u].pc = "finalize"
    /\ LockFree
    /\ Call
    /\ open' = {}
    /\ auth' = FALSE
    /\ finalized' = TRUE
    /\ closed' = TRUE
    /\ Done(u)
    /\ UNCHANGED <<now, issued, mu, sessions, sess, loginMu, anchor, closer,
                   janitor, ignored, ended>>

-----------------------------------------------------------------------------
(* The janitor                                                             *)

(* Session.expired, as sweepExpired asks it of every entry.                *)
Sweepable == {h \in sessions : sess[h].state = "closed" \/ Expired(h)}

(* The entries dropped and nothing closed on the token.                    *)
SweepForgets(E) == janitor' = janitor

SweepTakes(E) == janitor' = [pc |-> "sweeping", todo |-> E]

(* Under sessMu: marked closed, out of the map, to be closed next.         *)
JanitorSweep ==
    /\ janitor.pc = "waiting"
    /\ Sweepable # {}
    /\ sess' = [h \in Handles |-> IF h \in Sweepable THEN Close1(sess[h]) ELSE sess[h]]
    /\ sessions' = sessions \ Sweepable
    /\ SweepTakes(Sweepable)
    /\ UNCHANGED <<now, module, mu, closed, loginMu, anchor, closer, user, history>>

(* One C_CloseSession per handle; a failure is ignored.                    *)
JanitorClose(h) ==
    /\ janitor.pc = "sweeping"
    /\ h \in janitor.todo
    /\ LockFree
    /\ Usable
    /\ Call
    /\ \/ Released(h) /\ UNCHANGED ignored
       \/ /\ Failures
          /\ h \in open
          /\ ignored' = ignored \cup {h}
          /\ UNCHANGED module
    /\ janitor' = [pc |-> IF janitor.todo = {h} THEN "waiting" ELSE "sweeping",
                   todo |-> janitor.todo \ {h}]
    /\ UNCHANGED <<now, mu, closed, sessions, sess, loginMu, anchor, closer, user, ended>>

(* janitorStop is seen between two sweeps.                                 *)
JanitorStop ==
    /\ janitor.pc = "waiting"
    /\ closer # None
    /\ janitor' = [janitor EXCEPT !.pc = "stopped"]
    /\ UNCHANGED <<now, module, mu, closed, sessions, sess, loginMu, anchor,
                   closer, user, history>>

Tick ==
    /\ now < MaxTime
    /\ now' = now + 1
    /\ UNCHANGED <<module, mu, closed, sessions, sess, loginMu, anchor, closer,
                   janitor, user, history>>

-----------------------------------------------------------------------------
(* What a caller does once it has called.                                  *)
Continue(u) ==
    \/ Register(u)
    \/ Refused(u) \/ Read(u) \/ MultiInit(u) \/ MultiFinish(u)
    \/ LoginCall(u) \/ LogoutCall(u) \/ SetLoggedIn(u)
    \/ CloseCall(u) \/ Forget(u)
    \/ \E h \in Handles : LoginTokenCall(u, h)
    \/ LogoutAnchor(u) \/ DropAnchor(u)
    \/ CloseWait(u) \/ CloseLockLogin(u) \/ CloseCollect(u) \/ CloseFinalize(u)

JanitorStep == JanitorSweep \/ JanitorStop \/ \E h \in Handles : JanitorClose(h)

Next ==
    \/ \E u \in Users, h \in Handles :
          \/ OpenSession(u, h)
          \/ \E kind \in OperationKinds : Touch(u, h, kind)
          \/ CloseSession(u, h)
    \/ \E u \in Users : LoginToken(u) \/ LogoutToken(u) \/ Close(u) \/ Continue(u)
    \/ JanitorStep
    \/ Tick

Spec == Init /\ [][Next]_vars

(* Goroutines run, the ticker keeps firing, and a mutex waiter gets its    *)
(* turn.                                                                   *)
Fairness ==
    /\ \A u \in Users : SF_vars(Continue(u))
    /\ SF_vars(JanitorSweep)
    /\ SF_vars(\E h \in Handles : JanitorClose(h))
    /\ SF_vars(JanitorStop)

FairSpec == Spec /\ Fairness

-----------------------------------------------------------------------------
(* Properties                                                              *)

(* The module is never called once Close has finalized it, by no caller    *)
(* and not by the janitor: the check of closed under mu, and Close waiting *)
(* for the janitor.                                                        *)
NoCallAfterFinalize == ~badCall

(* While a caller is between the first and the last call of a sequence,    *)
(* its session stays open on the token and nobody starts another sequence, *)
(* although the janitor, CloseSession and Close may all want the session.  *)
OperationUndisturbed ==
    \A u \in Users :
        user[u].pc = "active" =>
            /\ user[u].h \in open
            /\ \A v \in Users : user[v].pc = "active" => v = u

(* Once LoginToken has returned, the token stays authenticated until       *)
(* LogoutToken, Close or a session's Logout ends it, however many sessions *)
(* are opened, expire and are closed meanwhile.                            *)
AnchorKeepsLogin ==
    /\ anchor # None
    /\ ~closed
    /\ \A u \in Users : user[u].pc # "dropAnchor"
    => anchor \in open /\ (auth \/ ended)

(* A session open on the token is one the adapter will still close: it is  *)
(* the anchor, it is in the map or on its way there, or the janitor has it *)
(* in hand.  The only exceptions are handles whose failed C_CloseSession   *)
(* the code ignored.                                                       *)
OpenIsAccountedFor ==
    \A h \in open :
        \/ h \in sessions \cup janitor.todo \cup ignored \cup {anchor}
        \/ \E u \in Users : user[u].pc = "register" /\ user[u].h = h
        \/ \E u \in Users : user[u].pc = "finalize"

(* A session in the map that is closed or past its budget does not keep    *)
(* its slot on the token.                                                  *)
ExpiredReclaimed ==
    \A h \in Handles : (h \in Sweepable /\ closer = None) ~> (h \notin open)

(* Close returns: it waits for the janitor, then for loginMu, then for mu, *)
(* and nobody waits for it while holding one of them.                      *)
CloseReturns == closer # None ~> closed
=============================================================================
