------------------------------ MODULE Ceremony ------------------------------
(***************************************************************************)
(* The key ceremony and the re-issue of the intermediate (internal/ca,     *)
(* cmd/hsm-pki-keytool), and the service loading what they produced        *)
(* (LoadIntermediate).                                                     *)
(*                                                                         *)
(* A command is a process that works through four logins, one after the    *)
(* other: it tries the login of both tokens, generates the intermediate    *)
(* key on its token, and signs on the root's.  Each login is a             *)
(* withTokenLogin: log in, one module call per step, log out.  Commands    *)
(* may run at once; their only meeting point is the tokens.  Which token is *)
(* the root's is a flag of each command.  Two workspaces with different    *)
(* serials may still be one key space.                                     *)
(***************************************************************************)
EXTENDS Integers

CONSTANTS
    Operators,     \* who runs ceremony and reissue-intermediate
    Workspaces,    \* tokens, by the serial they report
    Labels,        \* versioned CKA_LABELs
    Spaces,        \* the key spaces behind the workspaces
    Keys,          \* key pairs, at most this many are generated
    Requests,      \* the flags commands are run with
    RootValidity,  \* DefaultRootValidity
    MaxTime,       \* bound on the clock
    None           \* no label, no key, no certificate

ASSUME CeremonyAssumption ==
    /\ RootValidity \in Nat /\ MaxTime \in Nat
    /\ Requests \subseteq [rootWs : Workspaces, interWs : Workspaces,
                          rootLabel : Labels, label : Labels, validity : Nat]
    /\ None \notin Labels \cup Keys \cup Spaces \cup Workspaces

VARIABLES
    now,         \* the clock
    space,       \* the key space each workspace reaches
    keys,        \* the key space and label of each pair
    op,          \* the command each operator is running
    auth,        \* the workspaces each process holds authenticated
    exit,        \* how each operator's last command ended
    rootCerts,   \* root certificates on disk
    rootCRLs,    \* the root keys whose first CRL is on disk
    interCerts,  \* intermediate certificates on disk
    service      \* what the service has loaded

vars == <<now, space, keys, op, auth, exit, rootCerts, rootCRLs, interCerts, service>>

\* What the checks read of a certificate: whose key, signed by which, until.
Certificate == [key : Keys, issuer : Keys, notAfter : Nat]

\* The logins of a command, in order.
Phases == {"checkRoot", "checkInter", "inter", "root"}

Steps == {"idle", "login", "exists", "generate", "read", "separate", "rootExists",
          "rootGenerate", "rootRead", "signRoot", "signInter", "signCRL",
          "logout", "writeRoot", "writeInter", "writeCRL"}

Idle == [step |-> "idle", phase |-> "checkRoot", reissue |-> FALSE, flags |-> None,
         key |-> None, root |-> None, rootCert |-> None, interCert |-> None]

Commands == [step : Steps, phase : Phases, reissue : BOOLEAN, flags : Requests \cup {None},
             key : Keys \cup {None}, root : Keys \cup {None},
             rootCert : Certificate \cup {None}, interCert : Certificate \cup {None}]

----------------------------------------------------------------------------
(* Looking for a key by its label.                                         *)

Under(ws, L) == {k \in Keys : keys[k] = [space |-> space[ws], label |-> L]}

\* keyPairExists says no; several keys under the label are an error.
KeyPairFree(ws, L) == Under(ws, L) = {}

\* findKeyByLabel, NewSigner and Sign: exactly one key has the label.
FindKeyByLabel(ws, L, k) == Under(ws, L) = {k}

NotMade == [space |-> None, label |-> None]

\* Pairs not made yet are all alike: the next one.
Generate(ws, L, k) ==
    /\ keys[k] = NotMade
    /\ k = CHOOSE j \in Keys : keys[j] = NotMade
    /\ keys' = [keys EXCEPT ![k] = [space |-> space[ws], label |-> L]]

----------------------------------------------------------------------------
(* Starting a command.                                                     *)

At(o, step) == op[o].step = step

\* The workspace a command logs into in its phase.
WorkspaceOf(command) ==
    IF command.phase \in {"checkRoot", "root"} THEN command.flags.rootWs ELSE command.flags.interWs

Goto(o, command) == op' = [op EXCEPT ![o] = command]

\* Subject and issuer compared instead of the signature.
NeverSelfSigned(c) == FALSE

\* The certificate verifies under its own key: it is a root.
SelfSigned(c) == c.issuer = c.key

\* The new intermediate does not outlive the root.
Outlives(root, v) == now + v <= root.notAfter

\* checkRootMaySign: a root, valid, that outlives what it signs.
CheckRootMaySign(root, v) ==
    SelfSigned(root) /\ now <= root.notAfter /\ Outlives(root, v)

\* Only validate checks the root.
NoCheckAtSignature(root, v) == TRUE

\* The same check at the instant the certificate carries.
CheckAtSignature(root, v) == CheckRootMaySign(root, v)

\* One token and one label per tier.
Validate(f) == f.rootWs # f.interWs /\ f.rootLabel # f.label

\* The intermediate must not outlive the root about to be made.
RunCeremony(o, f) ==
    /\ At(o, "idle")
    /\ Validate(f)
    /\ f.validity <= RootValidity
    /\ Goto(o, [Idle EXCEPT !.step = "login", !.flags = f])
    /\ exit' = [exit EXCEPT ![o] = "running"]
    /\ UNCHANGED <<now, space, keys, auth, rootCerts, rootCRLs, interCerts, service>>

ReissueIntermediate(o, f, root) ==
    /\ At(o, "idle")
    /\ Validate(f)
    /\ CheckRootMaySign(root, f.validity)
    /\ Goto(o, [Idle EXCEPT !.step = "login", !.flags = f, !.reissue = TRUE, !.rootCert = root])
    /\ exit' = [exit EXCEPT ![o] = "running"]
    /\ UNCHANGED <<now, space, keys, auth, rootCerts, rootCRLs, interCerts, service>>

----------------------------------------------------------------------------
(* withTokenLogin.                                                         *)

\* The process ends; what it held authenticated goes with it.
Return(o, how) ==
    /\ Goto(o, Idle)
    /\ auth' = [auth EXCEPT ![o] = {}]
    /\ exit' = [exit EXCEPT ![o] = how]

FirstStep(phase) ==
    CASE phase = "inter" -> "exists"
      [] phase = "root"  -> "separate"
      [] OTHER           -> "logout"

NextPhase(phase) ==
    CASE phase = "checkRoot"  -> "checkInter"
      [] phase = "checkInter" -> "inter"
      [] OTHER                -> "root"

\* TokenLoggedIn is false here: LogoutToken clears the flag whatever
\* C_Logout reports.
LoginToken(o) ==
    /\ At(o, "login")
    /\ auth' = [auth EXCEPT ![o] = @ \cup {WorkspaceOf(op[o])}]
    /\ Goto(o, [op[o] EXCEPT !.step = FirstStep(op[o].phase)])
    /\ UNCHANGED <<now, space, keys, exit, rootCerts, rootCRLs, interCerts, service>>

\* The work is done: the next login, or the files.
Proceed(o) ==
    IF op[o].phase = "root"
    THEN Goto(o, [op[o] EXCEPT !.step = IF op[o].reissue THEN "writeInter" ELSE "writeRoot"])
    ELSE Goto(o, [op[o] EXCEPT !.step = "login", !.phase = NextPhase(op[o].phase)])

LogoutToken(o) ==
    /\ At(o, "logout")
    /\ auth' = [auth EXCEPT ![o] = @ \ {WorkspaceOf(op[o])}]
    /\ Proceed(o)
    /\ UNCHANGED <<now, space, keys, exit, rootCerts, rootCRLs, interCerts, service>>

\* A logout error that is swallowed.
LogoutErrorIgnored(o) ==
    /\ At(o, "logout")
    /\ Proceed(o)
    /\ UNCHANGED <<now, space, keys, auth, exit, rootCerts, rootCRLs, interCerts, service>>

\* A logout error that replaces the result.
LogoutErrorDiscards(o) ==
    /\ At(o, "logout")
    /\ Return(o, "returned")
    /\ UNCHANGED <<now, space, keys, rootCerts, rootCRLs, interCerts, service>>

\* C_Logout fails and the token may stay authenticated.  That ends the command,
\* except that signed certificates are written first.
LogoutFailed(o) ==
    /\ At(o, "logout")
    /\ IF op[o].phase = "root"
       THEN Proceed(o) /\ UNCHANGED <<auth, exit>>
       ELSE Return(o, "returned")
    /\ UNCHANGED <<now, space, keys, rootCerts, rootCRLs, interCerts, service>>

----------------------------------------------------------------------------
(* generateCeremonyKey, on the intermediate's token.                       *)

InterExists(o) ==
    /\ At(o, "exists")
    /\ KeyPairFree(op[o].flags.interWs, op[o].flags.label)
    /\ Goto(o, [op[o] EXCEPT !.step = "generate"])
    /\ UNCHANGED <<now, space, keys, auth, exit, rootCerts, rootCRLs, interCerts, service>>

InterGenerate(o, k) ==
    /\ At(o, "generate")
    /\ Generate(op[o].flags.interWs, op[o].flags.label, k)
    /\ Goto(o, [op[o] EXCEPT !.step = "read"])
    /\ UNCHANGED <<now, space, auth, exit, rootCerts, rootCRLs, interCerts, service>>

InterRead(o, k) ==
    /\ At(o, "read")
    /\ FindKeyByLabel(op[o].flags.interWs, op[o].flags.label, k)
    /\ Goto(o, [op[o] EXCEPT !.step = "logout", !.key = k])
    /\ UNCHANGED <<now, space, keys, auth, exit, rootCerts, rootCRLs, interCerts, service>>

----------------------------------------------------------------------------
(* On the root's token.                                                    *)

\* The serials are believed.
SerialsTrusted(ws, L) == TRUE

\* The key just generated is not visible from the root's workspace.
Separate(ws, L) == KeyPairFree(ws, L)

CheckSeparation(o) ==
    /\ At(o, "separate")
    /\ Separate(op[o].flags.rootWs, op[o].flags.label)
    /\ Goto(o, [op[o] EXCEPT !.step = "rootExists"])
    /\ UNCHANGED <<now, space, keys, auth, exit, rootCerts, rootCRLs, interCerts, service>>

\* A ceremony refuses an existing root key, a re-issue requires one.
RootExists(o) ==
    /\ At(o, "rootExists")
    /\ IF op[o].reissue
       THEN /\ \E k \in Keys : FindKeyByLabel(op[o].flags.rootWs, op[o].flags.rootLabel, k)
            /\ Goto(o, [op[o] EXCEPT !.step = "rootRead"])
       ELSE /\ KeyPairFree(op[o].flags.rootWs, op[o].flags.rootLabel)
            /\ Goto(o, [op[o] EXCEPT !.step = "rootGenerate"])
    /\ UNCHANGED <<now, space, keys, auth, exit, rootCerts, rootCRLs, interCerts, service>>

RootGenerate(o, k) ==
    /\ At(o, "rootGenerate")
    /\ Generate(op[o].flags.rootWs, op[o].flags.rootLabel, k)
    /\ Goto(o, [op[o] EXCEPT !.step = "rootRead"])
    /\ UNCHANGED <<now, space, auth, exit, rootCerts, rootCRLs, interCerts, service>>

\* NewSigner; a re-issue checks that the key is the certificate's.
RootRead(o, k) ==
    /\ At(o, "rootRead")
    /\ FindKeyByLabel(op[o].flags.rootWs, op[o].flags.rootLabel, k)
    /\ op[o].reissue => op[o].rootCert.key = k
    /\ Goto(o, [op[o] EXCEPT !.step = IF op[o].reissue THEN "signInter" ELSE "signRoot",
                             !.root = k])
    /\ UNCHANGED <<now, space, keys, auth, exit, rootCerts, rootCRLs, interCerts, service>>

\* Sign finds the private key again; crypto/x509 checks what it signed.
Signs(o) == FindKeyByLabel(op[o].flags.rootWs, op[o].flags.rootLabel, op[o].root)

SignRoot(o) ==
    /\ At(o, "signRoot")
    /\ Signs(o)
    /\ Goto(o, [op[o] EXCEPT !.step = "signInter",
                  !.rootCert = [key |-> op[o].root, issuer |-> op[o].root,
                                notAfter |-> now + RootValidity]])
    /\ UNCHANGED <<now, space, keys, auth, exit, rootCerts, rootCRLs, interCerts, service>>

\* The validity with the wrong sign.
ExpirySubtracts(o) == now - op[o].flags.validity

\* A ceremony dates all it signs from one reading of the clock; a re-issue
\* reads it here and checks the root again.
Expiry(o) ==
    IF op[o].reissue THEN now + op[o].flags.validity
    ELSE op[o].rootCert.notAfter - RootValidity + op[o].flags.validity

SignIntermediate(o) ==
    /\ At(o, "signInter")
    /\ Signs(o)
    /\ op[o].reissue => CheckAtSignature(op[o].rootCert, op[o].flags.validity)
    /\ Goto(o, [op[o] EXCEPT !.step = IF op[o].reissue THEN "logout" ELSE "signCRL",
                  !.interCert = [key |-> op[o].key, issuer |-> op[o].root,
                                 notAfter |-> Expiry(o)]])
    /\ UNCHANGED <<now, space, keys, auth, exit, rootCerts, rootCRLs, interCerts, service>>

\* BuildCRL, the third signature of a ceremony.
SignCRL(o) ==
    /\ At(o, "signCRL")
    /\ Signs(o)
    /\ Goto(o, [op[o] EXCEPT !.step = "logout"])
    /\ UNCHANGED <<now, space, keys, auth, exit, rootCerts, rootCRLs, interCerts, service>>

----------------------------------------------------------------------------
(* The files, and the ends of a command.                                   *)

WriteRoot(o) ==
    /\ At(o, "writeRoot")
    /\ rootCerts' = rootCerts \cup {op[o].rootCert}
    /\ Goto(o, [op[o] EXCEPT !.step = "writeInter"])
    /\ UNCHANGED <<now, space, keys, auth, exit, rootCRLs, interCerts, service>>

WriteIntermediate(o) ==
    /\ At(o, "writeInter")
    /\ interCerts' = interCerts \cup {op[o].interCert}
    /\ IF op[o].reissue
       THEN Return(o, "returned")
       ELSE Goto(o, [op[o] EXCEPT !.step = "writeCRL"]) /\ UNCHANGED <<auth, exit>>
    /\ UNCHANGED <<now, space, keys, rootCerts, rootCRLs, service>>

WriteCRL(o) ==
    /\ At(o, "writeCRL")
    /\ rootCRLs' = rootCRLs \cup {op[o].root}
    /\ Return(o, "returned")
    /\ UNCHANGED <<now, space, keys, rootCerts, interCerts, service>>

\* The signing function has returned its result to withTokenLogin.
Complete(o) ==
    op[o].phase = "root" /\ op[o].step \in {"logout", "writeRoot", "writeInter", "writeCRL"}

\* A module call fails or a check refuses: the deferred logout, and an error.
\* Before the last signature that discards what the earlier ones made.
Refuse(o) ==
    /\ ~At(o, "idle") /\ ~Complete(o)
    /\ Return(o, "returned")
    /\ UNCHANGED <<now, space, keys, rootCerts, rootCRLs, interCerts, service>>

\* The process is killed, or a file cannot be written.
Die(o) ==
    /\ ~At(o, "idle")
    /\ Return(o, "died")
    /\ UNCHANGED <<now, space, keys, rootCerts, rootCRLs, interCerts, service>>

----------------------------------------------------------------------------
(* The service.                                                            *)

\* LoadIntermediate, from whatever the configuration names.
LoadIntermediate(ws, L, c) ==
    /\ ~SelfSigned(c)
    /\ now <= c.notAfter
    /\ FindKeyByLabel(ws, L, c.key)
    /\ service' = [workspace |-> ws, cert |-> c]
    /\ UNCHANGED <<now, space, keys, op, auth, exit, rootCerts, rootCRLs, interCerts>>

Tick ==
    /\ now < MaxTime
    /\ now' = now + 1
    /\ UNCHANGED <<space, keys, op, auth, exit, rootCerts, rootCRLs, interCerts, service>>

----------------------------------------------------------------------------
\* The serials differ; the key spaces behind them may not.
Init ==
    /\ now = 0
    /\ space \in [Workspaces -> Spaces]
    /\ keys = [k \in Keys |-> NotMade]
    /\ op = [o \in Operators |-> Idle]
    /\ auth = [o \in Operators |-> {}]
    /\ exit = [o \in Operators |-> "returned"]
    /\ rootCerts = {} /\ rootCRLs = {} /\ interCerts = {}
    /\ service = [workspace |-> None, cert |-> None]

Command(o) ==
    \/ \E f \in Requests :
        \/ RunCeremony(o, f)
        \/ \E root \in rootCerts \cup interCerts : ReissueIntermediate(o, f, root)
    \/ LoginToken(o) \/ LogoutToken(o) \/ LogoutFailed(o)
    \/ InterExists(o) \/ CheckSeparation(o) \/ RootExists(o)
    \/ \E k \in Keys :
        InterGenerate(o, k) \/ InterRead(o, k) \/ RootGenerate(o, k) \/ RootRead(o, k)
    \/ SignRoot(o) \/ SignIntermediate(o) \/ SignCRL(o)
    \/ WriteRoot(o) \/ WriteIntermediate(o) \/ WriteCRL(o)
    \/ Refuse(o) \/ Die(o)

Next ==
    \/ \E o \in Operators : Command(o)
    \/ \E ws \in Workspaces, L \in Labels, c \in rootCerts \cup interCerts :
        LoadIntermediate(ws, L, c)
    \/ Tick

Spec == Init /\ [][Next]_vars

----------------------------------------------------------------------------
(* Properties.                                                             *)

\* Every variable keeps its type.
TypeOK ==
    /\ now \in 0..MaxTime
    /\ space \in [Workspaces -> Spaces]
    /\ keys \in [Keys -> [space : Spaces \cup {None}, label : Labels \cup {None}]]
    /\ op \in [Operators -> Commands]
    /\ auth \in [Operators -> SUBSET Workspaces]
    /\ exit \in [Operators -> {"running", "returned", "died"}]
    /\ rootCRLs \subseteq Keys
    /\ \A c \in rootCerts \cup interCerts : c \in Certificate
    /\ service \in [workspace : Workspaces \cup {None}, cert : Certificate \cup {None}]

\* One process never holds two tokens authenticated, even when a logout
\* fails (withTokenLogin's error ends the command before the next login).
LoginsDoNotOverlap ==
    \A o \in Operators : \A v, w \in auth[o] : v = w

\* However many commands run at once, on tokens whose serials may lie: the
\* key of an intermediate certificate is never in the key space of the root
\* that signed it (the object search before the root key is touched).
HierarchyIsSplit ==
    \A c \in interCerts : keys[c.key].space # keys[c.issuer].space

\* An intermediate on disk has its root's certificate on disk, was signed by
\* that root's key and does not outlive it (the order of the writes, and
\* checkRootMaySign at the instant of the signature).
ChainHolds ==
    \A c \in interCerts : \E r \in rootCerts :
        r.key = c.issuer /\ c.notAfter <= r.notAfter

\* Whatever workspace, label and certificate the service is configured with,
\* and although tokens may change roles between commands: the root key of the
\* hierarchy it serves is not in the key space it logs into.
RootStaysOffline ==
    service.cert # None =>
        keys[service.cert.issuer].space # space[service.workspace]

\* "A logout failure never discards fn's result": a command whose signing
\* function completed, that was not killed and could write its files, leaves
\* on disk everything it signed; the labels are taken and nothing can be
\* signed again.
NothingDiscarded ==
    [][\A o \in Operators :
        Complete(o) /\ exit'[o] = "returned" =>
            /\ op[o].interCert \in interCerts'
            /\ op[o].rootCert \in rootCerts'
            /\ op[o].reissue \/ op[o].root \in rootCRLs']_vars
=============================================================================
