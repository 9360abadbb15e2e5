------------------------- MODULE Pkcs11AdapterProofs -------------------------
(***************************************************************************)
(* The safety of the adapter's locks, sessions and token login, for any    *)
(* number of callers and of sessions and for every budget.                 *)
(***************************************************************************)
EXTENDS Pkcs11Adapter, TLAPS

(* A sequence of module calls is under way exactly while its caller holds  *)
(* mu, and its session is open.                                            *)
LockInv ==
    \A u \in Users :
        /\ user[u].pc = "active" <=> mu = u
        /\ user[u].pc = "active" => user[u].h \in open

(* Only the caller closeOnce chose is inside Close, and only until the     *)
(* module is finalized, which takes every session away.                    *)
CloseInv ==
    /\ finalized = closed
    /\ closed => open = {} /\ mu = None /\ closer # None
    /\ \A u \in Users : user[u].pc \in CloseStates => closer = u /\ ~closed

(* What a Session object, the map, the janitor and a caller say about a    *)
(* handle: the token issued it, and it is not the anchor.                  *)
HandleInv ==
    /\ \A h \in Handles : sess[h].state # "none" => h \in issued /\ h # anchor
    /\ \A h \in sessions \cup janitor.todo : sess[h].state # "none"
    /\ anchor # None => anchor \in issued
    /\ janitor.pc # "sweeping" => janitor.todo = {}
    /\ \A u \in Users :
        /\ user[u].pc = "register" =>
              /\ user[u].h \in issued
              /\ user[u].h # anchor
              /\ user[u].h \in Handles
        /\ user[u].pc \in {"closing", "forget"} \cup OperationStates =>
              /\ user[u].h \in Handles
              /\ sess[user[u].h].state # "none"
        /\ user[u].pc = "forget" => user[u].h \notin open

(* loginMu keeps the anchor as its holder found it.                        *)
LoginInv ==
    \A u \in Users :
        /\ user[u].pc = "loginToken" => anchor = None
        /\ user[u].pc \in {"logoutToken", "dropAnchor"} => anchor # None

Inv ==
    /\ TypeOK
    /\ LockInv
    /\ CloseInv
    /\ HandleInv
    /\ LoginInv
    /\ NoCallAfterFinalize
    /\ AnchorKeepsLogin
    /\ OpenIsAccountedFor

-----------------------------------------------------------------------------
(* What marking a session closed does to the object.                       *)
LEMMA Close1Type ==
    ASSUME NEW s \in Session
    PROVE  Close1(s) \in Session /\ Close1(s).state = "closed"
BY DEF Session, Close1

LEMMA OpenSessionStep ==
    ASSUME Inv, NEW u \in Users, NEW h \in Handles, OpenSession(u, h)
    PROVE  Inv'
<1>1. TypeOK'
  BY AdapterAssumption DEF Inv, TypeOK, User, UserState, Session, Janitor, Idle,
      OperationStates, LoginStates, CloseStates, OpenSession, Call
<1>2. LockInv'
  BY AdapterAssumption DEF Inv, TypeOK, LockInv, User, OpenSession
<1>3. CloseInv'
  BY AdapterAssumption DEF Inv, TypeOK, LockInv, CloseInv, User, Idle, CloseStates,
      OpenSession, Usable
<1>4. HandleInv'
  BY AdapterAssumption DEF Inv, TypeOK, CloseInv, HandleInv, User, Session, Janitor,
      Idle, OperationStates, OpenSession
<1>5. LoginInv'
  BY AdapterAssumption DEF Inv, TypeOK, HandleInv, LoginInv, User, Idle, OpenSession
<1>6. NoCallAfterFinalize'
  BY DEF Inv, LockInv, CloseInv, CloseStates, NoCallAfterFinalize, OpenSession,
      Usable, Call
<1>7. AnchorKeepsLogin'
  BY AdapterAssumption DEF Inv, TypeOK, CloseInv, HandleInv, LoginInv,
      AnchorKeepsLogin, User, Idle, OpenSession
<1>8. OpenIsAccountedFor'
  BY DEF Inv, TypeOK, CloseInv, HandleInv, OpenIsAccountedFor, User, OpenSession
<1> QED
  BY <1>1, <1>2, <1>3, <1>4, <1>5, <1>6, <1>7, <1>8 DEF Inv

LEMMA RegisterStep ==
    ASSUME Inv, NEW u \in Users, Register(u)
    PROVE  Inv'
<1>1. TypeOK'
  <2>1. user' \in [Users -> User]
    BY DEF Inv, TypeOK, User, UserState, OperationStates, LoginStates, Idle,
        Register, Done
  <2>2. sess' \in [Handles -> Session]
    BY DEF Inv, TypeOK, Session, HandleInv, Register
  <2>3. \A v \in Users : user'[v].pc \in LoginStates <=> loginMu' = v
    BY AdapterAssumption DEF Inv, TypeOK, LoginStates, Idle, Register, Done
  <2> QED
    BY <2>1, <2>2, <2>3 DEF Inv, TypeOK, Register, module, history
<1>2. LockInv'
  BY AdapterAssumption DEF Inv, TypeOK, LockInv, User, Idle, Register, Done, module
<1>3. CloseInv'
  BY AdapterAssumption DEF Inv, TypeOK, LockInv, CloseInv, User, Idle, CloseStates,
      Register, Done, module
<1>4. HandleInv'
  BY AdapterAssumption DEF Inv, TypeOK, CloseInv, HandleInv, User, Session, Janitor,
      Idle, OperationStates, Register, Done, module
<1>5. LoginInv'
  BY AdapterAssumption DEF Inv, TypeOK, HandleInv, LoginInv, User, Idle, Register,
      Done
<1>6. NoCallAfterFinalize'
  BY DEF Inv, LockInv, CloseInv, CloseStates, NoCallAfterFinalize, Register, history
<1>7. AnchorKeepsLogin'
  BY AdapterAssumption DEF Inv, TypeOK, CloseInv, HandleInv, LoginInv,
      AnchorKeepsLogin, User, Idle, LoginStates, Register, Done, module, history
<1>8. OpenIsAccountedFor'
  BY DEF Inv, TypeOK, CloseInv, HandleInv, OpenIsAccountedFor, User, Idle, Register,
      Done, module, history
<1> QED
  BY <1>1, <1>2, <1>3, <1>4, <1>5, <1>6, <1>7, <1>8 DEF Inv

LEMMA TouchStep ==
    ASSUME Inv, NEW u \in Users, NEW h \in Handles, NEW kind \in OperationKinds, Touch(u, h, kind)
    PROVE  Inv'
<1>1. TypeOK'
  <2>1. user' \in [Users -> User]
    BY DEF Inv, TypeOK, User, UserState, OperationStates, LoginStates, Touch,
        OperationKinds
  <2>2. sess' \in [Handles -> Session]
    <3>1. sess[h] \in Session /\ Close1(sess[h]) \in Session
      BY Close1Type DEF Inv, TypeOK
    <3>2. [sess[h] EXCEPT !.last = now] \in Session
      BY <3>1 DEF Inv, TypeOK, Session
    <3> QED
      BY <3>1, <3>2 DEF Inv, TypeOK, Touch
  <2>3. \A v \in Users : user'[v].pc \in LoginStates <=> loginMu' = v
    BY AdapterAssumption DEF Inv, TypeOK, LoginStates, Touch, OperationKinds
  <2> QED
    BY <2>1, <2>2, <2>3 DEF Inv, TypeOK, Touch, module, history
<1>2. LockInv'
  BY AdapterAssumption DEF Inv, TypeOK, LockInv, User, Idle, Touch, OperationKinds,
      module
<1>3. CloseInv'
  BY AdapterAssumption DEF Inv, TypeOK, LockInv, CloseInv, User, Idle, CloseStates,
      Touch, OperationKinds, module
<1>4. HandleInv'
  <2>1. \A k \in Handles : sess[k].state # "none" <=> sess'[k].state # "none"
    <3>1. sess \in [Handles -> Session] /\ Close1(sess[h]).state = "closed"
      BY Close1Type DEF Inv, TypeOK
    <3> QED
      BY <3>1 DEF Touch, Session
  <2>2. /\ \A v \in Users \ {u} : user'[v] = user[v]
        /\ user'[u] = user[u] \/ user'[u] = [pc |-> kind, h |-> h]
    BY DEF Inv, TypeOK, Touch
  <2>3. kind \in OperationStates \ {"register", "closing", "forget"}
    BY DEF OperationKinds, OperationStates
  <2> QED
    BY <2>1, <2>2, <2>3 DEF Inv, TypeOK, Janitor, HandleInv, Touch, module
<1>5. LoginInv'
  BY AdapterAssumption DEF Inv, TypeOK, HandleInv, LoginInv, User, Idle,
      LoginStates, Touch, OperationKinds
<1>6. NoCallAfterFinalize'
  BY DEF Inv, LockInv, CloseInv, CloseStates, NoCallAfterFinalize, Touch, history
<1>7. AnchorKeepsLogin'
  BY AdapterAssumption DEF Inv, TypeOK, CloseInv, HandleInv, LoginInv,
      AnchorKeepsLogin, User, Idle, LoginStates, Touch, module, history
<1>8. OpenIsAccountedFor'
  BY DEF Inv, TypeOK, CloseInv, HandleInv, OpenIsAccountedFor, User, Idle, Touch,
      module, history
<1> QED
  BY <1>1, <1>2, <1>3, <1>4, <1>5, <1>6, <1>7, <1>8 DEF Inv

LEMMA RefusedStep ==
    ASSUME Inv, NEW u \in Users, Refused(u)
    PROVE  Inv'
<1>1. TypeOK'
  BY AdapterAssumption DEF Inv, TypeOK, User, UserState, Session, Janitor, Idle,
      OperationStates, LoginStates, CloseStates, Refused, LockFree, NoCall, Done,
      operationRest
<1>2. LockInv'
  BY AdapterAssumption DEF Inv, TypeOK, LockInv, User, Idle, Refused, Done
<1>3. CloseInv'
  BY AdapterAssumption DEF Inv, TypeOK, LockInv, CloseInv, User, Idle, CloseStates,
      Refused, LockFree, Done, operationRest
<1>4. HandleInv'
  BY AdapterAssumption DEF Inv, TypeOK, CloseInv, HandleInv, User, Session, Janitor,
      Idle, OperationStates, Refused, LockFree, Done, operationRest
<1>5. LoginInv'
  BY AdapterAssumption DEF Inv, TypeOK, HandleInv, LoginInv, User, Idle,
      LoginStates, Refused, LockFree, Done, operationRest
<1>6. NoCallAfterFinalize'
  BY DEF Inv, LockInv, CloseInv, CloseStates, NoCallAfterFinalize, Refused, NoCall
<1>7. AnchorKeepsLogin'
  BY AdapterAssumption DEF Inv, TypeOK, CloseInv, HandleInv, LoginInv,
      AnchorKeepsLogin, User, Idle, LoginStates, Refused, LockFree, Usable,
      operationRest
<1>8. OpenIsAccountedFor'
  BY DEF Inv, TypeOK, CloseInv, HandleInv, OpenIsAccountedFor, User, Idle, Refused,
      Usable
<1> QED
  BY <1>1, <1>2, <1>3, <1>4, <1>5, <1>6, <1>7, <1>8 DEF Inv

LEMMA ReadStep ==
    ASSUME Inv, NEW u \in Users, Read(u)
    PROVE  Inv'
<1>1. TypeOK'
  BY AdapterAssumption DEF Inv, TypeOK, User, UserState, Session, Janitor, Idle,
      OperationStates, LoginStates, CloseStates, Read, LockFree, Call, Done,
      operationRest
<1>2. LockInv'
  BY AdapterAssumption DEF Inv, TypeOK, LockInv, User, Idle, Read, Done
<1>3. CloseInv'
  BY AdapterAssumption DEF Inv, TypeOK, LockInv, CloseInv, User, Idle, CloseStates,
      Read, LockFree, Done, operationRest
<1>4. HandleInv'
  BY AdapterAssumption DEF Inv, TypeOK, CloseInv, HandleInv, User, Session, Janitor,
      Idle, OperationStates, Read, LockFree, Done, operationRest
<1>5. LoginInv'
  BY AdapterAssumption DEF Inv, TypeOK, HandleInv, LoginInv, User, Idle,
      LoginStates, Read, LockFree, Done, operationRest
<1>6. NoCallAfterFinalize'
  BY DEF Inv, LockInv, CloseInv, CloseStates, NoCallAfterFinalize, Read, Usable,
      Call
<1>7. AnchorKeepsLogin'
  BY AdapterAssumption DEF Inv, TypeOK, CloseInv, HandleInv, LoginInv,
      AnchorKeepsLogin, User, Idle, LoginStates, Read, LockFree, Done, operationRest
<1>8. OpenIsAccountedFor'
  BY DEF Inv, TypeOK, CloseInv, HandleInv, OpenIsAccountedFor, User, Idle, Read,
      LockFree, Done, operationRest
<1> QED
  BY <1>1, <1>2, <1>3, <1>4, <1>5, <1>6, <1>7, <1>8 DEF Inv

LEMMA MultiInitStep ==
    ASSUME Inv, NEW u \in Users, MultiInit(u)
    PROVE  Inv'
<1>1. TypeOK'
  BY AdapterAssumption DEF Inv, TypeOK, User, UserState, Session, Janitor, Idle,
      OperationStates, LoginStates, CloseStates, MultiInit, LockFree, Usable, Call,
      Done, Goto, operationRest
<1>2. LockInv'
  BY AdapterAssumption DEF Inv, TypeOK, LockInv, User, Idle, MultiInit, LockFree,
      Done, Goto
<1>3. CloseInv'
  BY AdapterAssumption DEF Inv, TypeOK, LockInv, CloseInv, User, Idle, CloseStates,
      MultiInit, LockFree, Usable, Done, Goto, operationRest
<1>4. HandleInv'
  BY AdapterAssumption DEF Inv, TypeOK, CloseInv, HandleInv, User, Session, Janitor,
      Idle, OperationStates, MultiInit, LockFree, Usable, Call, Done, Goto,
      operationRest
<1>5. LoginInv'
  BY AdapterAssumption DEF Inv, TypeOK, HandleInv, LoginInv, User, Idle,
      LoginStates, MultiInit, LockFree, Usable, Done, Goto, operationRest
<1>6. NoCallAfterFinalize'
  BY DEF Inv, LockInv, CloseInv, CloseStates, NoCallAfterFinalize, MultiInit,
      LockFree, Usable, Call
<1>7. AnchorKeepsLogin'
  BY AdapterAssumption DEF Inv, TypeOK, CloseInv, HandleInv, LoginInv,
      AnchorKeepsLogin, User, Idle, LoginStates, MultiInit, LockFree, Usable, Done,
      Goto, operationRest
<1>8. OpenIsAccountedFor'
  BY DEF Inv, TypeOK, CloseInv, HandleInv, OpenIsAccountedFor, User, Idle,
      MultiInit, LockFree, Usable, Call, Done, Goto, operationRest
<1> QED
  BY <1>1, <1>2, <1>3, <1>4, <1>5, <1>6, <1>7, <1>8 DEF Inv

LEMMA MultiFinishStep ==
    ASSUME Inv, NEW u \in Users, MultiFinish(u)
    PROVE  Inv'
<1>1. TypeOK'
  BY AdapterAssumption DEF Inv, TypeOK, User, UserState, Session, Janitor, Idle,
      OperationStates, LoginStates, CloseStates, MultiFinish, Call, Done, operationRest
<1>2. LockInv'
  BY AdapterAssumption DEF Inv, TypeOK, LockInv, User, Idle, MultiFinish, Done
<1>3. CloseInv'
  BY AdapterAssumption DEF Inv, TypeOK, LockInv, CloseInv, User, Idle, CloseStates,
      MultiFinish, Done, operationRest
<1>4. HandleInv'
  BY AdapterAssumption DEF Inv, TypeOK, CloseInv, HandleInv, User, Session, Janitor,
      Idle, OperationStates, MultiFinish, Done, operationRest
<1>5. LoginInv'
  BY AdapterAssumption DEF Inv, TypeOK, HandleInv, LoginInv, User, Idle,
      LoginStates, MultiFinish, Done, operationRest
<1>6. NoCallAfterFinalize'
  BY DEF Inv, LockInv, CloseInv, CloseStates, NoCallAfterFinalize, MultiFinish, Call
<1>7. AnchorKeepsLogin'
  BY AdapterAssumption DEF Inv, TypeOK, CloseInv, HandleInv, LoginInv,
      AnchorKeepsLogin, User, Idle, LoginStates, MultiFinish, Done, operationRest
<1>8. OpenIsAccountedFor'
  BY DEF Inv, TypeOK, CloseInv, HandleInv, OpenIsAccountedFor, User, Idle,
      MultiFinish, Done, operationRest
<1> QED
  BY <1>1, <1>2, <1>3, <1>4, <1>5, <1>6, <1>7, <1>8 DEF Inv

LEMMA LoginCallStep ==
    ASSUME Inv, NEW u \in Users, LoginCall(u)
    PROVE  Inv'
<1>1. TypeOK'
  <2>1. user' \in [Users -> User]
    BY DEF Inv, TypeOK, User, UserState, OperationStates, LoginStates, CloseStates,
        Idle, LoginCall, LockFree, Done, Goto
  <2>2. \A v \in Users : user'[v].pc \in LoginStates <=> loginMu' = v
    BY AdapterAssumption DEF Inv, TypeOK, LoginStates, User, Idle, LoginCall,
        LockFree, Usable, Done, Goto, operationRest
  <2> QED
    BY <2>1, <2>2 DEF Inv, TypeOK, LoginCall, Call, operationRest
<1>2. LockInv'
  BY AdapterAssumption DEF Inv, TypeOK, LockInv, User, Idle, LoginCall, LockFree,
      Done, Goto
<1>3. CloseInv'
  BY AdapterAssumption DEF Inv, TypeOK, LockInv, CloseInv, User, Idle, CloseStates,
      LoginCall, LockFree, Usable, Done, Goto, operationRest
<1>4. HandleInv'
  <2>1. /\ user'[u].h \in {user[u].h, None}
        /\ user'[u].pc \in {"idle", "setLogin"}
        /\ user'[u].pc # "idle" => user'[u].h = user[u].h
        /\ \A v \in Users \ {u} : user'[v] = user[v]
    BY DEF Inv, TypeOK, User, Idle, LoginCall, Done, Goto
  <2> QED
    BY <2>1 DEF Inv, HandleInv, OperationStates, LoginCall, operationRest
<1>5. LoginInv'
  BY AdapterAssumption DEF Inv, TypeOK, HandleInv, LoginInv, User, Idle,
      LoginStates, LoginCall, LockFree, Usable, Done, Goto, operationRest
<1>6. NoCallAfterFinalize'
  BY DEF Inv, LockInv, CloseInv, CloseStates, NoCallAfterFinalize, LoginCall,
      LockFree, Usable, Call
<1>7. AnchorKeepsLogin'
  BY AdapterAssumption DEF Inv, TypeOK, CloseInv, HandleInv, LoginInv,
      AnchorKeepsLogin, User, Idle, LoginStates, LoginCall, LockFree, Usable, Done,
      Goto, operationRest
<1>8. OpenIsAccountedFor'
  <2>1. \A v \in Users : user[v].pc \in {"register", "finalize"} => user'[v] = user[v]
    BY DEF Inv, TypeOK, User, LoginCall, Done, Goto
  <2> QED
    BY <2>1 DEF Inv, OpenIsAccountedFor, LoginCall, operationRest
<1> QED
  BY <1>1, <1>2, <1>3, <1>4, <1>5, <1>6, <1>7, <1>8 DEF Inv

LEMMA LogoutCallStep ==
    ASSUME Inv, NEW u \in Users, LogoutCall(u)
    PROVE  Inv'
<1>1. TypeOK'
  <2>1. user' \in [Users -> User]
    BY DEF Inv, TypeOK, User, UserState, OperationStates, LoginStates, CloseStates,
        Idle, LogoutCall, LockFree, Done, Goto
  <2>2. \A v \in Users : user'[v].pc \in LoginStates <=> loginMu' = v
    BY AdapterAssumption DEF Inv, TypeOK, LoginStates, User, Idle, LogoutCall,
        LockFree, Usable, Done, Goto, operationRest
  <2> QED
    BY <2>1, <2>2 DEF Inv, TypeOK, LogoutCall, Call, operationRest
<1>2. LockInv'
  BY AdapterAssumption DEF Inv, TypeOK, LockInv, User, Idle, LogoutCall, LockFree,
      Done, Goto
<1>3. CloseInv'
  BY AdapterAssumption DEF Inv, TypeOK, LockInv, CloseInv, User, Idle, CloseStates,
      LogoutCall, LockFree, Usable, Done, Goto, operationRest
<1>4. HandleInv'
  BY AdapterAssumption DEF Inv, TypeOK, CloseInv, HandleInv, User, Session, Janitor,
      Idle, OperationStates, LogoutCall, LockFree, Usable, Done, Goto, operationRest
<1>5. LoginInv'
  BY AdapterAssumption DEF Inv, TypeOK, HandleInv, LoginInv, User, Idle,
      LoginStates, LogoutCall, LockFree, Usable, Done, Goto, operationRest
<1>6. NoCallAfterFinalize'
  BY DEF Inv, LockInv, CloseInv, CloseStates, NoCallAfterFinalize, LogoutCall,
      LockFree, Usable, Call
<1>7. AnchorKeepsLogin'
  BY AdapterAssumption DEF Inv, TypeOK, CloseInv, HandleInv, LoginInv,
      AnchorKeepsLogin, User, Idle, LoginStates, LogoutCall, LockFree, Usable, Done,
      Goto, operationRest
<1>8. OpenIsAccountedFor'
  <2>1. \A v \in Users : user[v].pc \in {"register", "finalize"} => user'[v] = user[v]
    BY DEF Inv, TypeOK, User, LogoutCall, Done, Goto
  <2> QED
    BY <2>1 DEF Inv, OpenIsAccountedFor, LogoutCall, operationRest
<1> QED
  BY <1>1, <1>2, <1>3, <1>4, <1>5, <1>6, <1>7, <1>8 DEF Inv

LEMMA SetLoggedInStep ==
    ASSUME Inv, NEW u \in Users, SetLoggedIn(u)
    PROVE  Inv'
<1>1. TypeOK'
  <2>1. user' \in [Users -> User]
    BY DEF Inv, TypeOK, User, UserState, OperationStates, LoginStates, Idle,
        SetLoggedIn, Done
  <2>2. sess' \in [Handles -> Session]
    <3>1. /\ user[u].h \in Handles
          /\ sess[user[u].h] \in Session
      BY DEF Inv, TypeOK, HandleInv, OperationStates, SetLoggedIn
    <3>2. [sess[user[u].h] EXCEPT !.loggedIn = (user[u].pc = "setLogin")] \in Session
      BY <3>1 DEF Session
    <3> QED
      BY <3>1, <3>2 DEF Inv, TypeOK, SetLoggedIn
  <2>3. \A v \in Users : user'[v].pc \in LoginStates <=> loginMu' = v
    BY AdapterAssumption DEF Inv, TypeOK, LoginStates, User, Idle, SetLoggedIn,
        Done, operationRest
  <2> QED
    BY <2>1, <2>2, <2>3 DEF Inv, TypeOK, SetLoggedIn, operationRest
<1>2. LockInv'
  BY AdapterAssumption DEF Inv, TypeOK, LockInv, Idle, SetLoggedIn, Done
<1>3. CloseInv'
  BY AdapterAssumption DEF Inv, TypeOK, LockInv, CloseInv, User, Idle, CloseStates,
      SetLoggedIn, Done, operationRest
<1>4. HandleInv'
  BY AdapterAssumption DEF Inv, TypeOK, CloseInv, HandleInv, User, Session, Janitor,
      Idle, OperationStates, SetLoggedIn, Done, operationRest
<1>5. LoginInv'
  BY AdapterAssumption DEF Inv, TypeOK, HandleInv, LoginInv, User, Idle,
      SetLoggedIn, Done, operationRest
<1>6. NoCallAfterFinalize'
  BY DEF Inv, LockInv, CloseInv, NoCallAfterFinalize, SetLoggedIn
<1>7. AnchorKeepsLogin'
  BY AdapterAssumption DEF Inv, TypeOK, CloseInv, HandleInv, LoginInv,
      AnchorKeepsLogin, User, Idle, SetLoggedIn, Done, operationRest
<1>8. OpenIsAccountedFor'
  BY DEF Inv, TypeOK, CloseInv, HandleInv, OpenIsAccountedFor, User, SetLoggedIn,
      Done, operationRest
<1> QED
  BY <1>1, <1>2, <1>3, <1>4, <1>5, <1>6, <1>7, <1>8 DEF Inv

LEMMA CloseSessionStep ==
    ASSUME Inv, NEW u \in Users, NEW h \in Handles, CloseSession(u, h)
    PROVE  Inv'
<1>1. TypeOK'
  <2>1. user' \in [Users -> User]
    BY DEF Inv, TypeOK, User, UserState, OperationStates, CloseSession
  <2>2. sess' \in [Handles -> Session]
    BY DEF Inv, TypeOK, Session, Close1, CloseSession
  <2>3. \A v \in Users : user'[v].pc \in LoginStates <=> loginMu' = v
    BY AdapterAssumption DEF Inv, TypeOK, LoginStates, CloseSession
  <2> QED
    BY <2>1, <2>2, <2>3 DEF Inv, TypeOK, CloseSession, module, history
<1>2. LockInv'
  BY AdapterAssumption DEF Inv, TypeOK, LockInv, User, CloseSession, module
<1>3. CloseInv'
  BY AdapterAssumption DEF Inv, TypeOK, LockInv, CloseInv, User, Idle, CloseStates,
      CloseSession, module
<1>4. HandleInv'
  BY AdapterAssumption DEF Inv, TypeOK, CloseInv, HandleInv, User, Session, Janitor,
      Idle, CloseSession, Close1, module
<1>5. LoginInv'
  BY AdapterAssumption DEF Inv, TypeOK, HandleInv, LoginInv, User, Idle,
      CloseSession
<1>6. NoCallAfterFinalize'
  BY DEF Inv, LockInv, CloseInv, CloseStates, NoCallAfterFinalize, CloseSession,
      history
<1>7. AnchorKeepsLogin'
  BY AdapterAssumption DEF Inv, TypeOK, CloseInv, HandleInv, LoginInv,
      AnchorKeepsLogin, User, Idle, LoginStates, CloseSession, module, history
<1>8. OpenIsAccountedFor'
  BY DEF Inv, TypeOK, CloseInv, HandleInv, OpenIsAccountedFor, User, Idle,
      CloseSession, module, history
<1> QED
  BY <1>1, <1>2, <1>3, <1>4, <1>5, <1>6, <1>7, <1>8 DEF Inv

LEMMA CloseCallStep ==
    ASSUME Inv, NEW u \in Users, CloseCall(u)
    PROVE  Inv'
<1>1. TypeOK'
  <2>1. user' \in [Users -> User]
    BY DEF Inv, TypeOK, User, UserState, OperationStates, LoginStates, CloseStates,
        Idle, CloseCall, LockFree, Usable, Call, NoCall, CloseFailed, Done, Goto
  <2>2. \A v \in Users : user'[v].pc \in LoginStates <=> loginMu' = v
    BY AdapterAssumption DEF Inv, TypeOK, LoginStates, User, Idle, CloseCall,
        LockFree, Usable, Call, NoCall, CloseFailed, Done, Goto
  <2> QED
    BY <2>1, <2>2 DEF Inv, TypeOK, CloseCall, LockFree, Usable, Call, NoCall,
        Released, module
<1>2. LockInv'
  BY AdapterAssumption DEF Inv, TypeOK, LockInv, User, Idle, CloseCall, LockFree,
      Usable, Call, NoCall, CloseFailed, Done, Goto
<1>3. CloseInv'
  BY AdapterAssumption DEF Inv, TypeOK, LockInv, CloseInv, User, Idle, CloseStates,
      CloseCall, LockFree, Usable, Call, NoCall, Released, CloseFailed, Done, Goto,
      module
<1>4. HandleInv'
  BY AdapterAssumption DEF Inv, TypeOK, CloseInv, HandleInv, User, Session, Janitor,
      Idle, OperationStates, CloseCall, LockFree, Usable, Call, NoCall, Released,
      CloseFailed, Done, Goto, module
<1>5. LoginInv'
  BY AdapterAssumption DEF Inv, TypeOK, HandleInv, LoginInv, User, Idle,
      LoginStates, CloseCall, LockFree, Usable, Call, NoCall, CloseFailed, Done, Goto
<1>6. NoCallAfterFinalize'
  BY DEF Inv, LockInv, CloseInv, CloseStates, NoCallAfterFinalize, CloseCall,
      LockFree, Usable, Call, NoCall
<1>7. AnchorKeepsLogin'
  BY AdapterAssumption DEF Inv, TypeOK, CloseInv, HandleInv, LoginInv,
      AnchorKeepsLogin, User, Idle, LoginStates, CloseCall, LockFree, Usable, Call,
      NoCall, Released, CloseFailed, Done, Goto, module
<1>8. OpenIsAccountedFor'
  BY DEF Inv, TypeOK, CloseInv, HandleInv, OpenIsAccountedFor, User, Idle,
      CloseCall, LockFree, Usable, Call, NoCall, Released, CloseFailed, Done, Goto,
      module
<1> QED
  BY <1>1, <1>2, <1>3, <1>4, <1>5, <1>6, <1>7, <1>8 DEF Inv

LEMMA ForgetStep ==
    ASSUME Inv, NEW u \in Users, Forget(u)
    PROVE  Inv'
<1>1. TypeOK'
  BY AdapterAssumption DEF Inv, TypeOK, User, UserState, Session, Janitor, Idle,
      OperationStates, LoginStates, CloseStates, Forget, Done, module, history
<1>2. LockInv'
  BY AdapterAssumption DEF Inv, TypeOK, LockInv, User, Idle, Forget, Done, module
<1>3. CloseInv'
  BY AdapterAssumption DEF Inv, TypeOK, LockInv, CloseInv, User, Idle, CloseStates,
      Forget, Done, module
<1>4. HandleInv'
  BY AdapterAssumption DEF Inv, TypeOK, CloseInv, HandleInv, User, Session, Janitor,
      Idle, OperationStates, Forget, Done, module
<1>5. LoginInv'
  BY AdapterAssumption DEF Inv, TypeOK, HandleInv, LoginInv, User, Idle, Forget,
      Done
<1>6. NoCallAfterFinalize'
  BY DEF Inv, LockInv, CloseInv, CloseStates, NoCallAfterFinalize, Forget, history
<1>7. AnchorKeepsLogin'
  BY AdapterAssumption DEF Inv, TypeOK, CloseInv, HandleInv, LoginInv,
      AnchorKeepsLogin, User, Idle, LoginStates, Forget, Done, module, history
<1>8. OpenIsAccountedFor'
  BY DEF Inv, TypeOK, CloseInv, HandleInv, OpenIsAccountedFor, User, Idle, Forget,
      Done, module, history
<1> QED
  BY <1>1, <1>2, <1>3, <1>4, <1>5, <1>6, <1>7, <1>8 DEF Inv

LEMMA LoginTokenStep ==
    ASSUME Inv, NEW u \in Users, LoginToken(u)
    PROVE  Inv'
<1>1. TypeOK'
  BY AdapterAssumption DEF Inv, TypeOK, User, UserState, Session, Janitor, Idle,
      OperationStates, LoginStates, CloseStates, LoginToken, Goto, module, history
<1>2. LockInv'
  BY AdapterAssumption DEF Inv, TypeOK, LockInv, User, LoginToken, Goto, module
<1>3. CloseInv'
  BY AdapterAssumption DEF Inv, TypeOK, LockInv, CloseInv, User, Idle, CloseStates,
      LoginToken, Goto, module
<1>4. HandleInv'
  BY AdapterAssumption DEF Inv, TypeOK, CloseInv, HandleInv, User, Session, Janitor,
      Idle, OperationStates, LoginToken, Goto, module
<1>5. LoginInv'
  BY AdapterAssumption DEF Inv, TypeOK, HandleInv, LoginInv, User, Idle, LoginToken,
      Goto
<1>6. NoCallAfterFinalize'
  BY DEF Inv, LockInv, CloseInv, CloseStates, NoCallAfterFinalize, LoginToken,
      history
<1>7. AnchorKeepsLogin'
  BY AdapterAssumption DEF Inv, TypeOK, CloseInv, HandleInv, LoginInv,
      AnchorKeepsLogin, User, Idle, LoginToken
<1>8. OpenIsAccountedFor'
  BY DEF Inv, TypeOK, CloseInv, HandleInv, OpenIsAccountedFor, User, Idle,
      LoginToken, Goto, module, history
<1> QED
  BY <1>1, <1>2, <1>3, <1>4, <1>5, <1>6, <1>7, <1>8 DEF Inv

LEMMA LoginTokenCallStep ==
    ASSUME Inv, NEW u \in Users, NEW h \in Handles, LoginTokenCall(u, h)
    PROVE  Inv'
<1>1. TypeOK'
  <2>1. user' \in [Users -> User]
    BY DEF Inv, TypeOK, User, UserState, OperationStates, LoginStates, CloseStates,
        Idle, LoginTokenCall, LockFree, Usable, Call, LoginFailed, Done
  <2>2. \A v \in Users : user'[v].pc \in LoginStates <=> loginMu' = v
    BY AdapterAssumption DEF Inv, TypeOK, LoginStates, User, Idle, LoginTokenCall,
        LockFree, Usable, Call, LoginFailed, Done
  <2> QED
    BY <2>1, <2>2 DEF Inv, TypeOK, LoginTokenCall, LockFree, Usable, Call, NoCall,
        LoginFailed, AnchorUnregistered, module
<1>2. LockInv'
  BY AdapterAssumption DEF Inv, TypeOK, LockInv, User, Idle, LoginTokenCall,
      LockFree, Usable, Call, LoginFailed, Done
<1>3. CloseInv'
  BY AdapterAssumption DEF Inv, TypeOK, LockInv, CloseInv, User, Idle, CloseStates,
      LoginTokenCall, LockFree, Usable, Call, NoCall, LoginFailed, Done, module
<1>4. HandleInv'
  BY AdapterAssumption DEF Inv, TypeOK, CloseInv, HandleInv, User, Session, Janitor,
      Idle, OperationStates, LoginTokenCall, LockFree, Usable, Call, NoCall,
      LoginFailed, AnchorUnregistered, Done, module
<1>5. LoginInv'
  BY AdapterAssumption DEF Inv, TypeOK, HandleInv, LoginInv, User, Idle,
      LoginStates, LoginTokenCall, LockFree, Usable, Call, LoginFailed, Done
<1>6. NoCallAfterFinalize'
  BY DEF Inv, LockInv, CloseInv, CloseStates, NoCallAfterFinalize, LoginTokenCall,
      LockFree, Usable, Call, NoCall
<1>7. AnchorKeepsLogin'
  BY AdapterAssumption DEF Inv, TypeOK, CloseInv, HandleInv, LoginInv,
      AnchorKeepsLogin, User, Idle, LoginStates, LoginTokenCall, LockFree, Usable, Call,
      LoginFailed
<1>8. OpenIsAccountedFor'
  <2>1. \A v \in Users : user[v].pc \in {"register", "finalize"} => user'[v] = user[v]
    BY DEF Inv, TypeOK, User, LoginTokenCall, Done, LoginFailed
  <2>2. anchor \notin open
    BY AdapterAssumption DEF Inv, TypeOK, LoginInv, LoginTokenCall
  <2> QED
    BY <2>1, <2>2 DEF Inv, CloseInv, OpenIsAccountedFor, LoginTokenCall,
        LoginFailed, AnchorUnregistered, module
<1> QED
  BY <1>1, <1>2, <1>3, <1>4, <1>5, <1>6, <1>7, <1>8 DEF Inv

LEMMA LogoutTokenStep ==
    ASSUME Inv, NEW u \in Users, LogoutToken(u)
    PROVE  Inv'
<1>1. TypeOK'
  BY AdapterAssumption DEF Inv, TypeOK, User, UserState, Session, Janitor, Idle,
      OperationStates, LoginStates, CloseStates, LogoutToken, Goto, module, history
<1>2. LockInv'
  BY AdapterAssumption DEF Inv, TypeOK, LockInv, User, LogoutToken, Goto, module
<1>3. CloseInv'
  BY AdapterAssumption DEF Inv, TypeOK, LockInv, CloseInv, User, Idle, CloseStates,
      LogoutToken, Goto, module
<1>4. HandleInv'
  BY AdapterAssumption DEF Inv, TypeOK, CloseInv, HandleInv, User, Session, Janitor,
      Idle, OperationStates, LogoutToken, Goto, module
<1>5. LoginInv'
  BY AdapterAssumption DEF Inv, TypeOK, HandleInv, LoginInv, User, Idle,
      LogoutToken, Goto
<1>6. NoCallAfterFinalize'
  BY DEF Inv, LockInv, CloseInv, CloseStates, NoCallAfterFinalize, LogoutToken,
      history
<1>7. AnchorKeepsLogin'
  BY AdapterAssumption DEF Inv, TypeOK, CloseInv, HandleInv, LoginInv,
      AnchorKeepsLogin, User, Idle, LoginStates, LogoutToken, module, history
<1>8. OpenIsAccountedFor'
  BY DEF Inv, TypeOK, CloseInv, HandleInv, OpenIsAccountedFor, User, Idle,
      LogoutToken, Goto, module, history
<1> QED
  BY <1>1, <1>2, <1>3, <1>4, <1>5, <1>6, <1>7, <1>8 DEF Inv

LEMMA LogoutAnchorStep ==
    ASSUME Inv, NEW u \in Users, LogoutAnchor(u)
    PROVE  Inv'
<1>1. TypeOK'
  <2>1. user' \in [Users -> User]
    BY DEF Inv, TypeOK, User, UserState, OperationStates, LoginStates, CloseStates,
        Idle, LogoutAnchor, LockFree, Goto
  <2>2. \A v \in Users : user'[v].pc \in LoginStates <=> loginMu' = v
    BY AdapterAssumption DEF Inv, TypeOK, LoginStates, User, Idle, LogoutAnchor,
        LockFree, Goto
  <2> QED
    BY <2>1, <2>2 DEF Inv, TypeOK, LogoutAnchor, Call, NoCall
<1>2. LockInv'
  BY AdapterAssumption DEF Inv, TypeOK, LockInv, User, Idle, LogoutAnchor, LockFree,
      Goto
<1>3. CloseInv'
  BY AdapterAssumption DEF Inv, TypeOK, LockInv, CloseInv, User, Idle, CloseStates,
      LogoutAnchor, LockFree, Goto
<1>4. HandleInv'
  BY AdapterAssumption DEF Inv, TypeOK, CloseInv, HandleInv, User, Session, Janitor,
      Idle, OperationStates, LogoutAnchor, LockFree, Goto
<1>5. LoginInv'
  BY AdapterAssumption DEF Inv, TypeOK, HandleInv, LoginInv, User, Idle,
      LoginStates, LogoutAnchor, LockFree, Goto
<1>6. NoCallAfterFinalize'
  BY DEF Inv, LockInv, CloseInv, CloseStates, NoCallAfterFinalize, LogoutAnchor,
      Usable, Call, NoCall
<1>7. AnchorKeepsLogin'
  BY AdapterAssumption DEF Inv, TypeOK, CloseInv, HandleInv, LoginInv,
      AnchorKeepsLogin, User, Idle, LoginStates, LogoutAnchor, LockFree, Goto
<1>8. OpenIsAccountedFor'
  BY DEF Inv, TypeOK, CloseInv, HandleInv, OpenIsAccountedFor, User, Idle,
      LogoutAnchor, LockFree, Goto
<1> QED
  BY <1>1, <1>2, <1>3, <1>4, <1>5, <1>6, <1>7, <1>8 DEF Inv

LEMMA DropAnchorStep ==
    ASSUME Inv, NEW u \in Users, DropAnchor(u)
    PROVE  Inv'
<1>1. TypeOK'
  <2>1. user' \in [Users -> User]
    BY DEF Inv, TypeOK, User, UserState, OperationStates, LoginStates, CloseStates,
        Idle, DropAnchor, LockFree, Usable, Goto
  <2>2. \A v \in Users : user'[v].pc \in LoginStates <=> loginMu' = v
    BY AdapterAssumption DEF Inv, TypeOK, LoginStates, User, Idle, DropAnchor,
        LockFree, Usable, Goto
  <2> QED
    BY <2>1, <2>2, AdapterAssumption DEF Inv, TypeOK, LoginInv, DropAnchor,
        LockFree, Usable, Call, NoCall, Released, module
<1>2. LockInv'
  BY AdapterAssumption DEF Inv, TypeOK, LockInv, User, Idle, DropAnchor, LockFree,
      Usable, Goto
<1>3. CloseInv'
  BY AdapterAssumption DEF Inv, TypeOK, LockInv, CloseInv, User, Idle, CloseStates,
      DropAnchor, LockFree, Usable, Call, Released, Goto, module
<1>4. HandleInv'
  BY AdapterAssumption DEF Inv, TypeOK, CloseInv, HandleInv, User, Session, Janitor,
      Idle, OperationStates, DropAnchor, LockFree, Usable, Call, Released, Goto, module
<1>5. LoginInv'
  BY AdapterAssumption DEF Inv, TypeOK, HandleInv, LoginInv, User, Idle,
      LoginStates, DropAnchor, LockFree, Usable, Goto
<1>6. NoCallAfterFinalize'
  BY DEF Inv, LockInv, CloseInv, CloseStates, NoCallAfterFinalize, DropAnchor,
      LockFree, Usable, Call, NoCall
<1>7. AnchorKeepsLogin'
  BY AdapterAssumption DEF Inv, TypeOK, CloseInv, HandleInv, LoginInv,
      AnchorKeepsLogin, User, Idle, LoginStates, DropAnchor, LockFree, Usable
<1>8. OpenIsAccountedFor'
  BY DEF Inv, TypeOK, CloseInv, HandleInv, OpenIsAccountedFor, User, Idle,
      DropAnchor, LockFree, Usable, Call, Released, Goto, module
<1> QED
  BY <1>1, <1>2, <1>3, <1>4, <1>5, <1>6, <1>7, <1>8 DEF Inv

LEMMA CloseStep ==
    ASSUME Inv, NEW u \in Users, Close(u)
    PROVE  Inv'
<1>1. TypeOK'
  BY AdapterAssumption DEF Inv, TypeOK, User, UserState, Session, Janitor, Idle,
      OperationStates, LoginStates, CloseStates, Close, Goto, module, history
<1>2. LockInv'
  BY AdapterAssumption DEF Inv, TypeOK, LockInv, User, Close, Goto, module
<1>3. CloseInv'
  BY AdapterAssumption DEF Inv, TypeOK, LockInv, CloseInv, User, Idle, Close, Goto,
      module
<1>4. HandleInv'
  BY AdapterAssumption DEF Inv, TypeOK, CloseInv, HandleInv, User, Session, Janitor,
      Idle, OperationStates, Close, Goto, module
<1>5. LoginInv'
  BY AdapterAssumption DEF Inv, TypeOK, HandleInv, LoginInv, User, Idle, Close, Goto
<1>6. NoCallAfterFinalize'
  BY DEF Inv, LockInv, CloseInv, CloseStates, NoCallAfterFinalize, Close, history
<1>7. AnchorKeepsLogin'
  BY AdapterAssumption DEF Inv, TypeOK, CloseInv, HandleInv, LoginInv,
      AnchorKeepsLogin, User, Idle, LoginStates, Close, Goto, module, history
<1>8. OpenIsAccountedFor'
  BY DEF Inv, TypeOK, CloseInv, HandleInv, OpenIsAccountedFor, User, Idle, Close,
      Goto, module, history
<1> QED
  BY <1>1, <1>2, <1>3, <1>4, <1>5, <1>6, <1>7, <1>8 DEF Inv

LEMMA CloseWaitStep ==
    ASSUME Inv, NEW u \in Users, CloseWait(u)
    PROVE  Inv'
<1>1. TypeOK'
  BY AdapterAssumption DEF Inv, TypeOK, User, UserState, Session, Janitor, Idle,
      OperationStates, LoginStates, CloseStates, CloseWait, Goto, module, history
<1>2. LockInv'
  BY AdapterAssumption DEF Inv, TypeOK, LockInv, User, CloseWait, Goto, module
<1>3. CloseInv'
  BY AdapterAssumption DEF Inv, TypeOK, LockInv, CloseInv, User, Idle, CloseStates,
      CloseWait, Goto, module
<1>4. HandleInv'
  BY AdapterAssumption DEF Inv, TypeOK, CloseInv, HandleInv, User, Session, Janitor,
      Idle, OperationStates, CloseWait, Goto, module
<1>5. LoginInv'
  BY AdapterAssumption DEF Inv, TypeOK, HandleInv, LoginInv, User, Idle, CloseWait,
      Goto
<1>6. NoCallAfterFinalize'
  BY DEF Inv, LockInv, CloseInv, CloseStates, NoCallAfterFinalize, CloseWait,
      history
<1>7. AnchorKeepsLogin'
  BY AdapterAssumption DEF Inv, TypeOK, CloseInv, HandleInv, LoginInv,
      AnchorKeepsLogin, User, Idle, LoginStates, CloseWait, Goto, module, history
<1>8. OpenIsAccountedFor'
  BY DEF Inv, TypeOK, CloseInv, HandleInv, OpenIsAccountedFor, User, Idle,
      CloseWait, Goto, module, history
<1> QED
  BY <1>1, <1>2, <1>3, <1>4, <1>5, <1>6, <1>7, <1>8 DEF Inv

LEMMA CloseLockLoginStep ==
    ASSUME Inv, NEW u \in Users, CloseLockLogin(u)
    PROVE  Inv'
<1>1. TypeOK'
  <2>1. user' \in [Users -> User]
    BY DEF Inv, TypeOK, User, UserState, OperationStates, LoginStates, CloseStates,
        CloseLockLogin, Goto
  <2>2. \A v \in Users : user'[v].pc \in LoginStates <=> loginMu' = v
    BY AdapterAssumption DEF Inv, TypeOK, LoginStates, User, CloseLockLogin, Goto
  <2> QED
    BY <2>1, <2>2 DEF Inv, TypeOK, CloseLockLogin, module, history
<1>2. LockInv'
  BY AdapterAssumption DEF Inv, TypeOK, LockInv, User, CloseLockLogin, Goto, module
<1>3. CloseInv'
  BY AdapterAssumption DEF Inv, TypeOK, LockInv, CloseInv, User, Idle, CloseStates,
      CloseLockLogin, Goto, module
<1>4. HandleInv'
  BY AdapterAssumption DEF Inv, TypeOK, CloseInv, HandleInv, User, Session, Janitor,
      Idle, OperationStates, CloseLockLogin, Goto, module
<1>5. LoginInv'
  BY AdapterAssumption DEF Inv, TypeOK, HandleInv, LoginInv, User, Idle,
      CloseLockLogin, Goto
<1>6. NoCallAfterFinalize'
  BY DEF Inv, LockInv, CloseInv, CloseStates, NoCallAfterFinalize, CloseLockLogin,
      history
<1>7. AnchorKeepsLogin'
  BY AdapterAssumption DEF Inv, TypeOK, CloseInv, HandleInv, LoginInv,
      AnchorKeepsLogin, User, Idle, LoginStates, CloseLockLogin, module, history
<1>8. OpenIsAccountedFor'
  BY DEF Inv, TypeOK, CloseInv, HandleInv, OpenIsAccountedFor, User, Idle,
      CloseLockLogin, Goto, module, history
<1> QED
  BY <1>1, <1>2, <1>3, <1>4, <1>5, <1>6, <1>7, <1>8 DEF Inv

LEMMA CloseCollectStep ==
    ASSUME Inv, NEW u \in Users, CloseCollect(u)
    PROVE  Inv'
<1>1. TypeOK'
  <2>1. user' \in [Users -> User]
    BY DEF Inv, TypeOK, User, UserState, OperationStates, LoginStates, CloseStates,
        CloseCollect, Goto
  <2>2. sess' \in [Handles -> Session]
    BY DEF Inv, TypeOK, Session, Close1, CloseCollect
  <2>3. \A v \in Users : user'[v].pc \in LoginStates <=> loginMu' = v
    BY AdapterAssumption DEF Inv, TypeOK, LoginStates, CloseCollect, Goto
  <2> QED
    BY <2>1, <2>2, <2>3 DEF Inv, TypeOK, CloseCollect, module, history
<1>2. LockInv'
  BY AdapterAssumption DEF Inv, TypeOK, LockInv, User, CloseCollect, Goto, module
<1>3. CloseInv'
  BY AdapterAssumption DEF Inv, TypeOK, LockInv, CloseInv, User, Idle, CloseStates,
      CloseCollect, Goto, module
<1>4. HandleInv'
  <2>1. \A k \in Handles : sess[k].state # "none" <=> sess'[k].state # "none"
    <3>1. \A k \in Handles : /\ sess[k] \in Session
                             /\ Close1(sess[k]).state = "closed"
      BY Close1Type DEF Inv, TypeOK
    <3>2. \A k \in sessions : sess[k].state # "none"
      BY DEF Inv, HandleInv
    <3> QED
      BY <3>1, <3>2 DEF CloseCollect
  <2>2. /\ \A v \in Users \ {u} : user'[v] = user[v]
        /\ user'[u].pc = "finalize"
    BY DEF Inv, TypeOK, User, CloseCollect, Goto
  <2> QED
    BY <2>1, <2>2 DEF Inv, TypeOK, Janitor, HandleInv, OperationStates,
        CloseCollect, module
<1>5. LoginInv'
  BY AdapterAssumption DEF Inv, TypeOK, HandleInv, LoginInv, User, Idle,
      CloseCollect, Goto
<1>6. NoCallAfterFinalize'
  BY DEF Inv, LockInv, CloseInv, CloseStates, NoCallAfterFinalize, CloseCollect,
      history
<1>7. AnchorKeepsLogin'
  BY AdapterAssumption DEF Inv, TypeOK, CloseInv, HandleInv, LoginInv,
      AnchorKeepsLogin, User, Idle, LoginStates, CloseCollect, Goto, module, history
<1>8. OpenIsAccountedFor'
  BY DEF Inv, TypeOK, CloseInv, HandleInv, OpenIsAccountedFor, User, CloseCollect,
      Goto
<1> QED
  BY <1>1, <1>2, <1>3, <1>4, <1>5, <1>6, <1>7, <1>8 DEF Inv

LEMMA CloseFinalizeStep ==
    ASSUME Inv, NEW u \in Users, CloseFinalize(u)
    PROVE  Inv'
<1>1. TypeOK'
  BY AdapterAssumption DEF Inv, TypeOK, User, UserState, Session, Janitor, Idle,
      OperationStates, LoginStates, CloseStates, CloseFinalize, Call, Done
<1>2. LockInv'
  BY AdapterAssumption DEF Inv, TypeOK, LockInv, User, Idle, CloseFinalize,
      LockFree, Done
<1>3. CloseInv'
  BY AdapterAssumption DEF Inv, TypeOK, LockInv, CloseInv, User, Idle, CloseStates,
      CloseFinalize, LockFree, Done
<1>4. HandleInv'
  BY AdapterAssumption DEF Inv, TypeOK, CloseInv, HandleInv, User, Session, Janitor,
      Idle, OperationStates, CloseFinalize, Done
<1>5. LoginInv'
  BY AdapterAssumption DEF Inv, TypeOK, HandleInv, LoginInv, User, Idle,
      LoginStates, CloseFinalize, Done
<1>6. NoCallAfterFinalize'
  BY DEF Inv, LockInv, CloseInv, CloseStates, NoCallAfterFinalize, CloseFinalize,
      Call
<1>7. AnchorKeepsLogin'
  BY AdapterAssumption DEF Inv, TypeOK, CloseInv, HandleInv, LoginInv,
      AnchorKeepsLogin, User, Idle, CloseFinalize
<1>8. OpenIsAccountedFor'
  BY DEF Inv, TypeOK, CloseInv, HandleInv, OpenIsAccountedFor, User, CloseFinalize
<1> QED
  BY <1>1, <1>2, <1>3, <1>4, <1>5, <1>6, <1>7, <1>8 DEF Inv

LEMMA JanitorSweepStep ==
    ASSUME Inv, JanitorSweep
    PROVE  Inv'
<1>1. TypeOK'
  <2>1. sess' \in [Handles -> Session]
    BY DEF Inv, TypeOK, Session, Close1, JanitorSweep
  <2>2. \A v \in Users : user'[v].pc \in LoginStates <=> loginMu' = v
    BY AdapterAssumption DEF Inv, TypeOK, LoginStates, JanitorSweep
  <2> QED
    BY <2>1, <2>2 DEF Inv, TypeOK, Janitor, JanitorSweep, Sweepable, SweepTakes,
        module, history
<1>2. LockInv'
  BY AdapterAssumption DEF Inv, TypeOK, LockInv, User, Idle, JanitorSweep, module
<1>3. CloseInv'
  BY AdapterAssumption DEF Inv, TypeOK, LockInv, CloseInv, User, Idle, CloseStates,
      JanitorSweep, module
<1>4. HandleInv'
  <2>1. \A k \in Handles : sess[k].state # "none" <=> sess'[k].state # "none"
    <3>1. \A k \in Handles : /\ sess[k] \in Session
                             /\ Close1(sess[k]).state = "closed"
      BY Close1Type DEF Inv, TypeOK
    <3>2. \A k \in Sweepable : sess[k].state # "none"
      BY DEF Inv, HandleInv, Sweepable
    <3> QED
      BY <3>1, <3>2 DEF JanitorSweep
  <2> QED
    BY <2>1 DEF Inv, TypeOK, HandleInv, User, Idle, OperationStates, Janitor,
        JanitorSweep, Sweepable, SweepTakes, module
<1>5. LoginInv'
  BY AdapterAssumption DEF Inv, TypeOK, HandleInv, LoginInv, User, Idle,
      LoginStates, JanitorSweep
<1>6. NoCallAfterFinalize'
  BY DEF Inv, LockInv, CloseInv, CloseStates, NoCallAfterFinalize, JanitorSweep,
      Sweepable, history
<1>7. AnchorKeepsLogin'
  BY AdapterAssumption DEF Inv, TypeOK, CloseInv, HandleInv, LoginInv,
      AnchorKeepsLogin, User, Idle, LoginStates, JanitorSweep, Sweepable, module,
      history
<1>8. OpenIsAccountedFor'
  BY DEF Inv, TypeOK, CloseInv, HandleInv, OpenIsAccountedFor, User, Idle,
      JanitorSweep, Sweepable, SweepTakes, module, history
<1> QED
  BY <1>1, <1>2, <1>3, <1>4, <1>5, <1>6, <1>7, <1>8 DEF Inv

LEMMA JanitorCloseStep ==
    ASSUME Inv, NEW h \in Handles, JanitorClose(h)
    PROVE  Inv'
<1>1. TypeOK'
  BY AdapterAssumption DEF Inv, TypeOK, User, UserState, Session, Janitor, Idle,
      OperationStates, LoginStates, CloseStates, JanitorClose, LockFree, Call, Released,
      module
<1>2. LockInv'
  BY AdapterAssumption DEF Inv, TypeOK, LockInv, User, Idle, JanitorClose, LockFree
<1>3. CloseInv'
  BY AdapterAssumption DEF Inv, TypeOK, LockInv, CloseInv, User, Idle, CloseStates,
      JanitorClose, LockFree, Released, module
<1>4. HandleInv'
  BY AdapterAssumption DEF Inv, TypeOK, CloseInv, HandleInv, User, Session, Janitor,
      Idle, OperationStates, JanitorClose, LockFree, Released, module
<1>5. LoginInv'
  BY AdapterAssumption DEF Inv, TypeOK, HandleInv, LoginInv, User, Idle,
      LoginStates, JanitorClose
<1>6. NoCallAfterFinalize'
  BY DEF Inv, LockInv, CloseInv, CloseStates, NoCallAfterFinalize, JanitorClose,
      Usable, Call
<1>7. AnchorKeepsLogin'
  BY AdapterAssumption DEF Inv, TypeOK, CloseInv, HandleInv, LoginInv,
      AnchorKeepsLogin, User, Idle, LoginStates, JanitorClose, LockFree, Released,
      module
<1>8. OpenIsAccountedFor'
  BY DEF Inv, TypeOK, CloseInv, HandleInv, OpenIsAccountedFor, User, Idle,
      JanitorClose, LockFree, Released, module
<1> QED
  BY <1>1, <1>2, <1>3, <1>4, <1>5, <1>6, <1>7, <1>8 DEF Inv

LEMMA JanitorStopStep ==
    ASSUME Inv, JanitorStop
    PROVE  Inv'
<1>1. TypeOK'
  BY AdapterAssumption DEF Inv, TypeOK, User, UserState, Session, Janitor, Idle,
      OperationStates, LoginStates, JanitorStop, module, history
<1>2. LockInv'
  BY AdapterAssumption DEF Inv, TypeOK, LockInv, JanitorStop, module
<1>3. CloseInv'
  BY AdapterAssumption DEF Inv, TypeOK, LockInv, CloseInv, User, JanitorStop, module
<1>4. HandleInv'
  BY AdapterAssumption DEF Inv, TypeOK, CloseInv, HandleInv, User, Session, Janitor,
      JanitorStop, module
<1>5. LoginInv'
  BY AdapterAssumption DEF Inv, TypeOK, HandleInv, LoginInv, User, JanitorStop
<1>6. NoCallAfterFinalize'
  BY DEF Inv, LockInv, CloseInv, CloseStates, NoCallAfterFinalize, JanitorStop,
      history
<1>7. AnchorKeepsLogin'
  BY AdapterAssumption DEF Inv, TypeOK, CloseInv, HandleInv, LoginInv,
      AnchorKeepsLogin, User, Idle, JanitorStop, module, history
<1>8. OpenIsAccountedFor'
  BY DEF Inv, TypeOK, CloseInv, HandleInv, OpenIsAccountedFor, User, JanitorStop,
      module, history
<1> QED
  BY <1>1, <1>2, <1>3, <1>4, <1>5, <1>6, <1>7, <1>8 DEF Inv

LEMMA TickStep ==
    ASSUME Inv, Tick
    PROVE  Inv'
<1>1. TypeOK'
  BY AdapterAssumption DEF Inv, TypeOK, User, UserState, Session, Janitor, Idle,
      OperationStates, LoginStates, Tick, module, history
<1>2. LockInv'
  BY AdapterAssumption DEF Inv, TypeOK, LockInv, Tick, module
<1>3. CloseInv'
  BY AdapterAssumption DEF Inv, TypeOK, LockInv, CloseInv, User, Tick, module
<1>4. HandleInv'
  BY AdapterAssumption DEF Inv, TypeOK, CloseInv, HandleInv, User, Session, Janitor,
      Tick, module
<1>5. LoginInv'
  BY AdapterAssumption DEF Inv, TypeOK, HandleInv, LoginInv, User, Tick
<1>6. NoCallAfterFinalize'
  BY DEF Inv, LockInv, CloseInv, CloseStates, NoCallAfterFinalize, Tick, history
<1>7. AnchorKeepsLogin'
  BY AdapterAssumption DEF Inv, TypeOK, CloseInv, HandleInv, LoginInv,
      AnchorKeepsLogin, User, Idle, Tick, module, history
<1>8. OpenIsAccountedFor'
  BY DEF Inv, TypeOK, CloseInv, HandleInv, OpenIsAccountedFor, User, Tick, module,
      history
<1> QED
  BY <1>1, <1>2, <1>3, <1>4, <1>5, <1>6, <1>7, <1>8 DEF Inv

-----------------------------------------------------------------------------
LEMMA InitInv == Init => Inv
<1> SUFFICES ASSUME Init PROVE Inv
  OBVIOUS
<1>1. TypeOK
  BY AdapterAssumption DEF Init, TypeOK, Session, NoSession, Janitor, User,
      UserState, Idle, LoginStates
<1>2. LockInv /\ LoginInv /\ CloseInv
  BY AdapterAssumption DEF Init, LockInv, LoginInv, CloseInv, Idle, CloseStates
<1>3. HandleInv
  BY DEF Init, HandleInv, NoSession, Idle, OperationStates
<1>4. NoCallAfterFinalize /\ AnchorKeepsLogin /\ OpenIsAccountedFor
  BY DEF Init, NoCallAfterFinalize, AnchorKeepsLogin, OpenIsAccountedFor
<1> QED
  BY <1>1, <1>2, <1>3, <1>4 DEF Inv

LEMMA StutterStep ==
    ASSUME Inv, UNCHANGED vars
    PROVE  Inv'
BY DEF Inv, TypeOK, LockInv, CloseInv, HandleInv, LoginInv, NoCallAfterFinalize,
    AnchorKeepsLogin, OpenIsAccountedFor, vars, module, history

LEMMA NextInv == Inv /\ [Next]_vars => Inv'
<1> SUFFICES ASSUME Inv, [Next]_vars PROVE Inv'
  OBVIOUS
<1>1. ASSUME NEW u \in Users, NEW h \in Handles,
             \/ OpenSession(u, h)
             \/ \E kind \in OperationKinds : Touch(u, h, kind)
             \/ CloseSession(u, h)
      PROVE  Inv'
  BY <1>1, OpenSessionStep, TouchStep, CloseSessionStep
<1>2. ASSUME NEW u \in Users, LoginToken(u) \/ LogoutToken(u) \/ Close(u)
      PROVE  Inv'
  BY <1>2, LoginTokenStep, LogoutTokenStep, CloseStep
<1>3. ASSUME NEW u \in Users, Continue(u)
      PROVE  Inv'
  BY <1>3, RegisterStep, RefusedStep, ReadStep, MultiInitStep, MultiFinishStep,
      LoginCallStep, LogoutCallStep, SetLoggedInStep, CloseCallStep, ForgetStep,
      LoginTokenCallStep, LogoutAnchorStep, DropAnchorStep, CloseWaitStep,
      CloseLockLoginStep, CloseCollectStep, CloseFinalizeStep DEF Continue
<1>4. ASSUME JanitorStep
      PROVE  Inv'
  BY <1>4, JanitorSweepStep, JanitorCloseStep, JanitorStopStep DEF JanitorStep
<1> QED
  BY <1>1, <1>2, <1>3, <1>4, TickStep, StutterStep DEF Next

(* The inductive invariant: Spec never leaves it.                          *)
THEOREM Invariance == Spec => []Inv
<1> QED
  BY InitInv, NextInv, PTL DEF Spec

(* Every variable keeps its type, and loginMu is held by exactly the       *)
(* caller that is between its Lock and its Unlock.                         *)
THEOREM TypeCorrect == Spec => []TypeOK
<1>1. Inv => TypeOK
  BY DEF Inv
<1> QED
  BY <1>1, Invariance, PTL

(* However the calls interleave with Close and the janitor, the module is  *)
(* never entered once C_Finalize has run.                                  *)
THEOREM ModuleNotUsedAfterFinalize == Spec => []NoCallAfterFinalize
<1>1. Inv => NoCallAfterFinalize
  BY DEF Inv
<1> QED
  BY <1>1, Invariance, PTL

(* A C_SignInit ... C_Sign sequence keeps its session open to the end, and *)
(* no other sequence starts meanwhile: mu is held by one caller.           *)
THEOREM SequencesUndisturbed == Spec => []OperationUndisturbed
<1>1. Inv => OperationUndisturbed
  BY AdapterAssumption DEF Inv, LockInv, OperationUndisturbed
<1> QED
  BY <1>1, Invariance, PTL

(* The anchor session keeps the token login from one LoginToken to the     *)
(* LogoutToken or Close that ends it, whatever sessions come and go.       *)
THEOREM LoginSurvivesSessions == Spec => []AnchorKeepsLogin
<1>1. Inv => AnchorKeepsLogin
  BY DEF Inv
<1> QED
  BY <1>1, Invariance, PTL

(* Somebody is left to close every open session: the map, the janitor, the *)
(* anchor, or a handle whose failed C_CloseSession the code let go.        *)
THEOREM NoSessionLeaks == Spec => []OpenIsAccountedFor
<1>1. Inv => OpenIsAccountedFor
  BY DEF Inv
<1> QED
  BY <1>1, Invariance, PTL
=============================================================================
