--------------------------- MODULE CeremonyProofs ---------------------------
(***************************************************************************)
(* The hierarchy the ceremony and the re-issue build, for any number of    *)
(* commands at once, of labels, keys and key spaces, and for every         *)
(* validity.                                                               *)
(***************************************************************************)
EXTENDS Ceremony, TLAPS

(* Where each step of a command is taken; a command has its flags.         *)
PhaseInv ==
    \A o \in Operators :
        /\ op[o].step # "idle" => op[o].flags \in Requests
        /\ op[o].step \in {"exists", "generate", "read"} => op[o].phase = "inter"
        /\ op[o].step \in {"separate", "rootExists", "rootGenerate", "rootRead", "signRoot",
                           "signInter", "signCRL", "writeRoot", "writeInter", "writeCRL"} =>
              op[o].phase = "root"

(* withTokenLogin: a process holds no login outside one, and inside at     *)
(* most the login of its phase.                                            *)
LoginInv ==
    \A o \in Operators :
        /\ \A ws \in auth[o] : ws = WorkspaceOf(op[o])
        /\ op[o].step \in {"idle", "login"} => auth[o] = {}
        /\ op[o].step # "idle" => exit[o] = "running"

(* The intermediate key a command read, and what the object search from    *)
(* the root's workspace established about it.                              *)
KeyInv ==
    \A o \in Operators :
        /\ op[o].phase = "root" \/ (op[o].phase = "inter" /\ op[o].step = "logout") =>
              /\ op[o].step # "idle"
              /\ op[o].key \in Keys
              /\ keys[op[o].key] =
                    [space |-> space[op[o].flags.interWs], label |-> op[o].flags.label]
        /\ op[o].phase = "root" /\ op[o].step \notin {"login", "separate"} =>
              space[op[o].flags.rootWs] # space[op[o].flags.interWs]

(* The steps after the intermediate certificate is signed.                 *)
HasSigned(o) == op[o].step = "signCRL" \/ Complete(o)

(* The root key a command signs with, and the certificate it signs under.  *)
RootInv ==
    \A o \in Operators :
        /\ op[o].step \in {"signRoot", "signInter"} \/ HasSigned(o) =>
              op[o].root \in Keys /\ keys[op[o].root].space = space[op[o].flags.rootWs]
        /\ op[o].step = "signInter" \/ HasSigned(o) =>
              /\ op[o].rootCert \in Certificate
              /\ op[o].rootCert.key = op[o].root
              /\ op[o].rootCert.issuer = op[o].root
              /\ op[o].reissue \/ RootValidity <= op[o].rootCert.notAfter
        /\ op[o].step # "idle" /\ op[o].reissue => op[o].rootCert \in rootCerts
        /\ op[o].step = "signRoot" => ~op[o].reissue
        /\ op[o].step # "idle" => op[o].reissue \/ op[o].flags.validity <= RootValidity

(* What a command signed, and which of it is on disk.                      *)
SignedInv ==
    \A o \in Operators :
        /\ HasSigned(o) =>
              /\ op[o].interCert \in Certificate
              /\ op[o].interCert.key = op[o].key
              /\ op[o].interCert.issuer = op[o].root
              /\ op[o].interCert.notAfter <= op[o].rootCert.notAfter
        /\ op[o].step \in {"writeInter", "writeCRL"} => op[o].rootCert \in rootCerts
        /\ op[o].step = "writeCRL" => op[o].interCert \in interCerts

(* The certificates on disk: their keys were made, roots sign themselves,  *)
(* the key of an intermediate is not in the key space of its issuer's.     *)
FilesInv ==
    /\ \A c \in rootCerts :
        /\ c \in Certificate
        /\ c.issuer = c.key
        /\ keys[c.key].space \in Spaces
    /\ \A c \in interCerts :
        /\ c \in Certificate
        /\ keys[c.issuer].space \in Spaces
        /\ keys[c.key].space \in Spaces
        /\ keys[c.key].space # keys[c.issuer].space

(* The service has an intermediate certificate, and its key is where the   *)
(* service logs in.                                                        *)
ServiceInv ==
    service.cert # None =>
        /\ service.cert \in interCerts
        /\ keys[service.cert.key].space = space[service.workspace]

Inv ==
    /\ TypeOK
    /\ PhaseInv
    /\ LoginInv
    /\ KeyInv
    /\ RootInv
    /\ SignedInv
    /\ FilesInv
    /\ ChainHolds
    /\ ServiceInv

-----------------------------------------------------------------------------
(* The steps of a command: what one of them leaves of the command.         *)

Others(o) ==
    op' \in [Operators -> Commands] /\ \A p \in Operators \ {o} : op'[p] = op[p]

Kept(o) ==
    /\ op'[o].reissue = op[o].reissue
    /\ op'[o].flags = op[o].flags

Moves(o, step, phase) ==
    /\ Others(o) /\ Kept(o)
    /\ op'[o].step = step /\ op'[o].phase = phase
    /\ op'[o].key = op[o].key
    /\ op'[o].root = op[o].root
    /\ op'[o].rootCert = op[o].rootCert
    /\ op'[o].interCert = op[o].interCert

LEMMA StepMoves ==
    ASSUME TypeOK, NEW o \in Operators, NEW step \in Steps,
           Goto(o, [op[o] EXCEPT !.step = step])
    PROVE  Moves(o, step, op[o].phase)
<1>1. op[o] \in Commands
  BY DEF TypeOK
<1>2. [op[o] EXCEPT !.step = step] \in Commands
  BY <1>1 DEF Commands
<1> QED
  BY <1>1, <1>2 DEF TypeOK, Goto, Moves, Others, Kept, Commands

LEMMA PhaseMoves ==
    ASSUME TypeOK, NEW o \in Operators, NEW phase \in Phases,
           Goto(o, [op[o] EXCEPT !.step = "login", !.phase = phase])
    PROVE  Moves(o, "login", phase)
<1>1. op[o] \in Commands
  BY DEF TypeOK
<1>2. [op[o] EXCEPT !.step = "login", !.phase = phase] \in Commands
  BY <1>1 DEF Commands, Steps
<1> QED
  BY <1>1, <1>2 DEF TypeOK, Goto, Moves, Others, Kept, Commands

LEMMA ProceedMoves ==
    ASSUME TypeOK, NEW o \in Operators, Proceed(o)
    PROVE  \/ /\ op[o].phase = "root"
              /\ Moves(o, IF op[o].reissue THEN "writeInter" ELSE "writeRoot", "root")
           \/ /\ op[o].phase # "root"
              /\ Moves(o, "login", NextPhase(op[o].phase))
<1>1. CASE op[o].phase = "root"
  <2>1. (IF op[o].reissue THEN "writeInter" ELSE "writeRoot") \in Steps
    BY DEF Steps
  <2> QED
    BY <1>1, <2>1, StepMoves DEF Proceed
<1>2. CASE op[o].phase # "root"
  <2>1. NextPhase(op[o].phase) \in Phases
    BY DEF NextPhase, Phases
  <2> QED
    BY <1>2, <2>1, PhaseMoves DEF Proceed
<1> QED
  BY <1>1, <1>2

LEMMA ReturnMoves ==
    ASSUME TypeOK, NEW o \in Operators, NEW how, Return(o, how)
    PROVE  Others(o) /\ op'[o] = Idle
<1>1. Idle \in Commands
  BY DEF Idle, Commands, Steps, Phases
<1> QED
  BY <1>1 DEF TypeOK, Return, Goto, Others

(* What a running command was given, and the key spaces it works in.       *)
LEMMA FlagsTyped ==
    ASSUME TypeOK, PhaseInv, NEW o \in Operators, op[o].step # "idle"
    PROVE  /\ op[o].flags.rootWs \in Workspaces /\ op[o].flags.interWs \in Workspaces
           /\ op[o].flags.rootLabel \in Labels /\ op[o].flags.label \in Labels
           /\ op[o].flags.validity \in Nat
           /\ space[op[o].flags.rootWs] \in Spaces /\ space[op[o].flags.interWs] \in Spaces
           /\ WorkspaceOf(op[o]) \in Workspaces
<1>1. op[o].flags \in Requests
  BY DEF PhaseInv
<1> QED
  BY <1>1, CeremonyAssumption DEF TypeOK, WorkspaceOf

(* A key that was generated keeps its key space and its label.             *)
LEMMA GenerateKeeps ==
    ASSUME TypeOK, NEW ws \in Workspaces, NEW L \in Labels, NEW k \in Keys,
           Generate(ws, L, k)
    PROVE  /\ keys' \in [Keys -> [space : Spaces \cup {None}, label : Labels \cup {None}]]
           /\ \A j \in Keys : keys[j].space \in Spaces => keys'[j] = keys[j]
<1>1. None \notin Spaces
  BY CeremonyAssumption
<1>2. space[ws] \in Spaces
  BY DEF TypeOK
<1> QED
  BY <1>1, <1>2 DEF TypeOK, Generate, NotMade

LEMMA RunCeremonyStep ==
    ASSUME Inv, NEW o \in Operators, NEW f \in Requests, RunCeremony(o, f)
    PROVE  Inv'
<1>1. TypeOK'
  BY CeremonyAssumption DEF Inv, TypeOK, Commands, Steps, Phases, RunCeremony, At,
      Goto, Idle
<1>2. PhaseInv'
  BY DEF Inv, TypeOK, PhaseInv, Commands, RunCeremony, At, Goto, Idle
<1>3. LoginInv'
  BY DEF Inv, TypeOK, PhaseInv, LoginInv, Commands, WorkspaceOf, RunCeremony, At,
      Goto, Idle
<1>4. KeyInv'
  BY CeremonyAssumption DEF Inv, TypeOK, PhaseInv, KeyInv, Commands,
      RunCeremony, At, Goto, Idle
<1>5. RootInv'
  BY CeremonyAssumption DEF Inv, TypeOK, PhaseInv, RootInv, FilesInv, HasSigned, Complete,
      Commands, Certificate, RunCeremony, At, Goto, Idle
<1>6. SignedInv'
  BY CeremonyAssumption DEF Inv, TypeOK, PhaseInv, RootInv, SignedInv, HasSigned, Complete,
      Commands, RunCeremony, At, Goto, Idle
<1>7. FilesInv'
  BY CeremonyAssumption DEF Inv, TypeOK, PhaseInv, KeyInv, RootInv, SignedInv,
      FilesInv, HasSigned, Complete, Certificate, RunCeremony, At, Goto, Idle
<1>8. ChainHolds'
  BY DEF Inv, RootInv, SignedInv, HasSigned, Complete, ChainHolds, RunCeremony, At, Goto, Idle
<1>9. ServiceInv'
  BY DEF Inv, TypeOK, FilesInv, ServiceInv, RunCeremony, At, Goto, Idle
<1> QED
  BY <1>1, <1>2, <1>3, <1>4, <1>5, <1>6, <1>7, <1>8, <1>9 DEF Inv

LEMMA ReissueIntermediateStep ==
    ASSUME Inv, NEW o \in Operators, NEW f \in Requests,
           NEW root \in rootCerts \cup interCerts, ReissueIntermediate(o, f, root)
    PROVE  Inv'
<1>1. TypeOK'
  BY CeremonyAssumption DEF Inv, TypeOK, Commands, Steps, Phases,
      ReissueIntermediate, At, Goto, Idle, CheckRootMaySign, SelfSigned
<1>2. PhaseInv'
  BY DEF Inv, TypeOK, PhaseInv, Commands, ReissueIntermediate, At, Goto, Idle,
      CheckRootMaySign, SelfSigned
<1>3. LoginInv'
  BY DEF Inv, TypeOK, PhaseInv, LoginInv, Commands, WorkspaceOf,
      ReissueIntermediate, At, Goto, Idle, CheckRootMaySign, SelfSigned
<1>4. KeyInv'
  BY CeremonyAssumption DEF Inv, TypeOK, PhaseInv, KeyInv, Commands,
      ReissueIntermediate, At, Goto, Idle, CheckRootMaySign, SelfSigned
<1>5. RootInv'
  BY CeremonyAssumption DEF Inv, TypeOK, PhaseInv, RootInv, FilesInv, HasSigned, Complete,
      Commands, Certificate, ReissueIntermediate, At, Goto, Idle,
      CheckRootMaySign, SelfSigned
<1>6. SignedInv'
  BY CeremonyAssumption DEF Inv, TypeOK, PhaseInv, RootInv, SignedInv, HasSigned, Complete,
      Commands, ReissueIntermediate, At, Goto, Idle, CheckRootMaySign,
      SelfSigned
<1>7. FilesInv'
  BY CeremonyAssumption DEF Inv, TypeOK, PhaseInv, KeyInv, RootInv, SignedInv,
      FilesInv, HasSigned, Complete, Certificate, ReissueIntermediate, At, Goto, Idle,
      CheckRootMaySign, SelfSigned
<1>8. ChainHolds'
  BY DEF Inv, RootInv, SignedInv, HasSigned, Complete, ChainHolds, ReissueIntermediate, At,
      Goto, Idle, CheckRootMaySign, SelfSigned
<1>9. ServiceInv'
  BY DEF Inv, TypeOK, FilesInv, ServiceInv, ReissueIntermediate, At,
      Goto, Idle, CheckRootMaySign, SelfSigned
<1> QED
  BY <1>1, <1>2, <1>3, <1>4, <1>5, <1>6, <1>7, <1>8, <1>9 DEF Inv

LEMMA LoginTokenStep ==
    ASSUME Inv, NEW o \in Operators, LoginToken(o)
    PROVE  Inv'
<1>m. Moves(o, FirstStep(op[o].phase), op[o].phase)
  BY StepMoves DEF Inv, FirstStep, Steps, LoginToken
<1>1. TypeOK'
  <2>1. WorkspaceOf(op[o]) \in Workspaces
    BY FlagsTyped DEF Inv, LoginToken, At
  <2> QED
    BY <1>m, <2>1 DEF Inv, TypeOK, Moves, Others, LoginToken
<1>2. PhaseInv'
  BY <1>m DEF Inv, PhaseInv, Moves, Others, Kept, FirstStep, LoginToken, At
<1>3. LoginInv'
  BY <1>m DEF Inv, TypeOK, PhaseInv, LoginInv, WorkspaceOf, Moves, Others, Kept,
      FirstStep, LoginToken, At
<1>4. KeyInv'
  BY <1>m DEF Inv, PhaseInv, KeyInv, Moves, Others, Kept, FirstStep, LoginToken, At
<1>5. RootInv'
  BY <1>m DEF Inv, PhaseInv, RootInv, HasSigned, Complete, Moves, Others, Kept, FirstStep,
      LoginToken, At
<1>6. SignedInv'
  BY <1>m DEF Inv, PhaseInv, RootInv, SignedInv, HasSigned, Complete, Moves, Others,
      Kept, FirstStep, LoginToken, At
<1>7. FilesInv'
  BY DEF Inv, FilesInv, LoginToken, At
<1>8. ChainHolds'
  BY DEF Inv, ChainHolds, LoginToken, At
<1>9. ServiceInv'
  BY DEF Inv, ServiceInv, LoginToken, At
<1> QED
  BY <1>1, <1>2, <1>3, <1>4, <1>5, <1>6, <1>7, <1>8, <1>9 DEF Inv

LEMMA LogoutTokenStep ==
    ASSUME Inv, NEW o \in Operators, LogoutToken(o)
    PROVE  Inv'
<1>m. \/ /\ op[o].phase = "root"
         /\ Moves(o, IF op[o].reissue THEN "writeInter" ELSE "writeRoot", "root")
      \/ /\ op[o].phase # "root"
         /\ Moves(o, "login", NextPhase(op[o].phase))
  BY ProceedMoves DEF Inv, LogoutToken
<1>1. TypeOK'
  BY <1>m DEF Inv, TypeOK, WorkspaceOf, Moves, Others, LogoutToken, At,
      NextPhase
<1>2. PhaseInv'
  BY <1>m DEF Inv, PhaseInv, Moves, Others, Kept, NextPhase, LogoutToken, At,
      NextPhase
<1>3. LoginInv'
  BY <1>m DEF Inv, TypeOK, PhaseInv, LoginInv, WorkspaceOf, Moves, Others, Kept,
      NextPhase, LogoutToken, At, NextPhase
<1>4. KeyInv'
  <2>1. op[o].phase \in Phases
    BY DEF Inv, TypeOK, Commands
  <2>2. CASE op[o].phase \in {"inter", "root"}
    BY <1>m, <2>2 DEF Inv, KeyInv, LogoutToken, At, Moves, Others, Kept, NextPhase
  <2>3. CASE op[o].phase \in {"checkRoot", "checkInter"}
    BY <1>m, <2>3 DEF Inv, KeyInv, LogoutToken, Moves, Others, NextPhase
  <2> QED
    BY <2>1, <2>2, <2>3 DEF Phases
<1>5. RootInv'
  BY <1>m DEF Inv, PhaseInv, RootInv, HasSigned, Complete, Moves, Others, Kept, NextPhase,
      LogoutToken, At, NextPhase
<1>6. SignedInv'
  BY <1>m DEF Inv, PhaseInv, RootInv, SignedInv, HasSigned, Complete, Moves, Others,
      Kept, NextPhase, LogoutToken, At, NextPhase
<1>7. FilesInv'
  BY DEF Inv, FilesInv, LogoutToken, At, NextPhase
<1>8. ChainHolds'
  BY DEF Inv, ChainHolds, LogoutToken, At, NextPhase
<1>9. ServiceInv'
  BY DEF Inv, ServiceInv, LogoutToken, At, NextPhase
<1> QED
  BY <1>1, <1>2, <1>3, <1>4, <1>5, <1>6, <1>7, <1>8, <1>9 DEF Inv

LEMMA LogoutFailedStep ==
    ASSUME Inv, NEW o \in Operators, LogoutFailed(o)
    PROVE  Inv'
<1>m. \/ /\ op[o].phase = "root"
         /\ Moves(o, IF op[o].reissue THEN "writeInter" ELSE "writeRoot", "root")
         /\ UNCHANGED <<auth, exit>>
      \/ Others(o) /\ op'[o] = Idle /\ Return(o, "returned")
  BY ProceedMoves, ReturnMoves DEF Inv, LogoutFailed
<1>1. TypeOK'
  BY <1>m DEF Inv, TypeOK, WorkspaceOf, Moves, Others, Return,
      LogoutFailed, At, NextPhase
<1>2. PhaseInv'
  BY <1>m DEF Inv, PhaseInv, Moves, Others, Kept, Idle, LogoutFailed, At, NextPhase
<1>3. LoginInv'
  BY <1>m DEF Inv, TypeOK, PhaseInv, LoginInv, WorkspaceOf, Moves, Others, Kept,
      Idle, Return, LogoutFailed, At, NextPhase
<1>4. KeyInv'
  BY <1>m DEF Inv, PhaseInv, KeyInv, Moves, Others, Kept, Idle, LogoutFailed, At,
      NextPhase
<1>5. RootInv'
  BY <1>m, CeremonyAssumption DEF Inv, PhaseInv, RootInv, HasSigned, Complete, Moves, Others, Kept, Idle,
      LogoutFailed, At, NextPhase
<1>6. SignedInv'
  BY <1>m DEF Inv, PhaseInv, RootInv, SignedInv, HasSigned, Complete, Moves, Others,
      Kept, Idle, LogoutFailed, At, NextPhase
<1>7. FilesInv'
  BY DEF Inv, FilesInv, LogoutFailed, At, NextPhase
<1>8. ChainHolds'
  BY DEF Inv, ChainHolds, LogoutFailed, At, NextPhase
<1>9. ServiceInv'
  BY DEF Inv, ServiceInv, LogoutFailed, At, NextPhase
<1> QED
  BY <1>1, <1>2, <1>3, <1>4, <1>5, <1>6, <1>7, <1>8, <1>9 DEF Inv

LEMMA InterExistsStep ==
    ASSUME Inv, NEW o \in Operators, InterExists(o)
    PROVE  Inv'
<1>m. Moves(o, "generate", op[o].phase)
  BY StepMoves DEF Inv, Steps, InterExists
<1>1. TypeOK'
  BY <1>m DEF Inv, TypeOK, Moves, Others, InterExists, At
<1>2. PhaseInv'
  BY <1>m DEF Inv, PhaseInv, Moves, Others, Kept, InterExists, At
<1>3. LoginInv'
  BY <1>m DEF Inv, TypeOK, PhaseInv, LoginInv, WorkspaceOf, Moves, Others, Kept,
      InterExists, At
<1>4. KeyInv'
  BY <1>m DEF Inv, PhaseInv, KeyInv, Moves, Others, Kept, InterExists, At
<1>5. RootInv'
  BY <1>m DEF Inv, PhaseInv, RootInv, HasSigned, Complete, Moves, Others, Kept, InterExists,
      At
<1>6. SignedInv'
  BY <1>m DEF Inv, PhaseInv, RootInv, SignedInv, HasSigned, Complete, Moves, Others,
      Kept, InterExists, At
<1>7. FilesInv'
  BY DEF Inv, FilesInv, InterExists, At
<1>8. ChainHolds'
  BY DEF Inv, ChainHolds, InterExists, At
<1>9. ServiceInv'
  BY DEF Inv, ServiceInv, InterExists, At
<1> QED
  BY <1>1, <1>2, <1>3, <1>4, <1>5, <1>6, <1>7, <1>8, <1>9 DEF Inv

LEMMA InterGenerateStep ==
    ASSUME Inv, NEW o \in Operators, NEW k \in Keys, InterGenerate(o, k)
    PROVE  Inv'
<1>m. Moves(o, "read", op[o].phase)
  BY StepMoves DEF Inv, Steps, InterGenerate
<1>g. /\ keys' \in [Keys -> [space : Spaces \cup {None}, label : Labels \cup {None}]]
      /\ \A j \in Keys : keys[j].space \in Spaces => keys'[j] = keys[j]
  BY FlagsTyped, GenerateKeeps DEF Inv, InterGenerate, At
<1>f. \A p \in Operators : op[p].step # "idle" =>
         space[op[p].flags.rootWs] \in Spaces /\ space[op[p].flags.interWs] \in Spaces
  BY FlagsTyped DEF Inv
<1>1. TypeOK'
  BY <1>m, <1>g DEF Inv, TypeOK, Moves, Others, InterGenerate, At
<1>2. PhaseInv'
  BY <1>m DEF Inv, PhaseInv, Moves, Others, Kept, InterGenerate, At
<1>3. LoginInv'
  BY <1>m DEF Inv, TypeOK, PhaseInv, LoginInv, WorkspaceOf, Moves, Others, Kept,
      InterGenerate, At
<1>4. KeyInv'
  BY <1>m, <1>g, <1>f DEF Inv, PhaseInv, KeyInv, Moves, Others, Kept, InterGenerate, At
<1>5. RootInv'
  BY <1>m, <1>g, <1>f DEF Inv, PhaseInv, RootInv, HasSigned, Complete, Moves, Others, Kept, KeyInv,
      InterGenerate, At
<1>6. SignedInv'
  BY <1>m DEF Inv, PhaseInv, RootInv, SignedInv, HasSigned, Complete, Moves, Others,
      Kept, InterGenerate, At
<1>7. FilesInv'
  BY <1>g DEF Inv, FilesInv, Certificate, InterGenerate, At
<1>8. ChainHolds'
  BY DEF Inv, ChainHolds, InterGenerate, At
<1>9. ServiceInv'
  BY <1>g DEF Inv, FilesInv, Certificate, ServiceInv, InterGenerate, At
<1> QED
  BY <1>1, <1>2, <1>3, <1>4, <1>5, <1>6, <1>7, <1>8, <1>9 DEF Inv

LEMMA InterReadStep ==
    ASSUME Inv, NEW o \in Operators, NEW k \in Keys, InterRead(o, k)
    PROVE  Inv'
<1>m. /\ Others(o) /\ Kept(o)
      /\ op'[o].step = "logout" /\ op'[o].phase = op[o].phase
      /\ op'[o].key = k
      /\ op'[o].root = op[o].root
      /\ op'[o].rootCert = op[o].rootCert
      /\ op'[o].interCert = op[o].interCert
  <2>1. op[o] \in Commands
    BY DEF Inv, TypeOK
  <2>2. [op[o] EXCEPT !.step = "logout", !.key = k] \in Commands
    BY <2>1 DEF Commands, Steps
  <2> QED
    BY <2>1, <2>2 DEF Inv, TypeOK, InterRead, Goto, Others, Kept, Commands
<1>1. TypeOK'
  BY <1>m DEF Inv, TypeOK, Others, InterRead, At
<1>2. PhaseInv'
  BY <1>m DEF Inv, PhaseInv, Others, Kept, InterRead, At
<1>3. LoginInv'
  BY <1>m DEF Inv, TypeOK, PhaseInv, LoginInv, WorkspaceOf, Others, Kept, InterRead,
      At
<1>4. KeyInv'
  BY <1>m DEF Inv, PhaseInv, KeyInv, Others, Kept, FindKeyByLabel, Under, InterRead,
      At
<1>5. RootInv'
  BY <1>m DEF Inv, PhaseInv, RootInv, HasSigned, Complete, Others, Kept, InterRead, At
<1>6. SignedInv'
  BY <1>m DEF Inv, PhaseInv, RootInv, SignedInv, HasSigned, Complete, Others, Kept,
      InterRead, At
<1>7. FilesInv'
  BY DEF Inv, FilesInv, InterRead, At
<1>8. ChainHolds'
  BY DEF Inv, ChainHolds, InterRead, At
<1>9. ServiceInv'
  BY DEF Inv, ServiceInv, InterRead, At
<1> QED
  BY <1>1, <1>2, <1>3, <1>4, <1>5, <1>6, <1>7, <1>8, <1>9 DEF Inv

LEMMA CheckSeparationStep ==
    ASSUME Inv, NEW o \in Operators, CheckSeparation(o)
    PROVE  Inv'
<1>m. Moves(o, "rootExists", op[o].phase)
  BY StepMoves DEF Inv, Steps, CheckSeparation
<1>1. TypeOK'
  BY <1>m DEF Inv, TypeOK, Moves, Others, CheckSeparation, At
<1>2. PhaseInv'
  BY <1>m DEF Inv, PhaseInv, Moves, Others, Kept, CheckSeparation, At
<1>3. LoginInv'
  BY <1>m DEF Inv, TypeOK, PhaseInv, LoginInv, WorkspaceOf, Moves, Others, Kept,
      CheckSeparation, At
<1>4. KeyInv'
  BY <1>m DEF Inv, PhaseInv, KeyInv, Moves, Others, Kept, Separate, KeyPairFree,
      Under, CheckSeparation, At
<1>5. RootInv'
  BY <1>m DEF Inv, PhaseInv, RootInv, HasSigned, Complete, Moves, Others, Kept,
      CheckSeparation, At
<1>6. SignedInv'
  BY <1>m DEF Inv, PhaseInv, RootInv, SignedInv, HasSigned, Complete, Moves, Others,
      Kept, CheckSeparation, At
<1>7. FilesInv'
  BY DEF Inv, FilesInv, CheckSeparation, At
<1>8. ChainHolds'
  BY DEF Inv, ChainHolds, CheckSeparation, At
<1>9. ServiceInv'
  BY DEF Inv, ServiceInv, CheckSeparation, At
<1> QED
  BY <1>1, <1>2, <1>3, <1>4, <1>5, <1>6, <1>7, <1>8, <1>9 DEF Inv

LEMMA RootExistsStep ==
    ASSUME Inv, NEW o \in Operators, RootExists(o)
    PROVE  Inv'
<1>m. Moves(o, IF op[o].reissue THEN "rootRead" ELSE "rootGenerate", op[o].phase)
  BY StepMoves DEF Inv, Steps, RootExists
<1>1. TypeOK'
  BY <1>m DEF Inv, TypeOK, Moves, Others, RootExists, At
<1>2. PhaseInv'
  BY <1>m DEF Inv, PhaseInv, Moves, Others, Kept, RootExists, At
<1>3. LoginInv'
  BY <1>m DEF Inv, TypeOK, PhaseInv, LoginInv, WorkspaceOf, Moves, Others, Kept,
      RootExists, At
<1>4. KeyInv'
  BY <1>m DEF Inv, PhaseInv, KeyInv, Moves, Others, Kept, RootExists, At
<1>5. RootInv'
  BY <1>m DEF Inv, PhaseInv, RootInv, HasSigned, Complete, Moves, Others, Kept, RootExists, At
<1>6. SignedInv'
  BY <1>m DEF Inv, PhaseInv, RootInv, SignedInv, HasSigned, Complete, Moves, Others,
      Kept, RootExists, At
<1>7. FilesInv'
  BY DEF Inv, FilesInv, RootExists, At
<1>8. ChainHolds'
  BY DEF Inv, ChainHolds, RootExists, At
<1>9. ServiceInv'
  BY DEF Inv, ServiceInv, RootExists, At
<1> QED
  BY <1>1, <1>2, <1>3, <1>4, <1>5, <1>6, <1>7, <1>8, <1>9 DEF Inv

LEMMA RootGenerateStep ==
    ASSUME Inv, NEW o \in Operators, NEW k \in Keys, RootGenerate(o, k)
    PROVE  Inv'
<1>m. Moves(o, "rootRead", op[o].phase)
  BY StepMoves DEF Inv, Steps, RootGenerate
<1>g. /\ keys' \in [Keys -> [space : Spaces \cup {None}, label : Labels \cup {None}]]
      /\ \A j \in Keys : keys[j].space \in Spaces => keys'[j] = keys[j]
  BY FlagsTyped, GenerateKeeps DEF Inv, RootGenerate, At
<1>f. \A p \in Operators : op[p].step # "idle" =>
         space[op[p].flags.rootWs] \in Spaces /\ space[op[p].flags.interWs] \in Spaces
  BY FlagsTyped DEF Inv
<1>1. TypeOK'
  BY <1>m, <1>g DEF Inv, TypeOK, Moves, Others, RootGenerate, At
<1>2. PhaseInv'
  BY <1>m DEF Inv, PhaseInv, Moves, Others, Kept, RootGenerate, At
<1>3. LoginInv'
  BY <1>m DEF Inv, TypeOK, PhaseInv, LoginInv, WorkspaceOf, Moves, Others, Kept,
      RootGenerate, At
<1>4. KeyInv'
  BY <1>m, <1>g, <1>f DEF Inv, PhaseInv, KeyInv, Moves, Others, Kept, RootGenerate, At
<1>5. RootInv'
  BY <1>m, <1>g, <1>f DEF Inv, PhaseInv, RootInv, HasSigned, Complete, Moves, Others, Kept, KeyInv,
      RootGenerate, At
<1>6. SignedInv'
  BY <1>m DEF Inv, PhaseInv, RootInv, SignedInv, HasSigned, Complete, Moves, Others,
      Kept, RootGenerate, At
<1>7. FilesInv'
  BY <1>g DEF Inv, FilesInv, Certificate, RootGenerate, At
<1>8. ChainHolds'
  BY DEF Inv, ChainHolds, RootGenerate, At
<1>9. ServiceInv'
  BY <1>g DEF Inv, FilesInv, Certificate, ServiceInv, RootGenerate, At
<1> QED
  BY <1>1, <1>2, <1>3, <1>4, <1>5, <1>6, <1>7, <1>8, <1>9 DEF Inv

LEMMA RootReadStep ==
    ASSUME Inv, NEW o \in Operators, NEW k \in Keys, RootRead(o, k)
    PROVE  Inv'
<1>m. /\ Others(o) /\ Kept(o)
      /\ op'[o].step = (IF op[o].reissue THEN "signInter" ELSE "signRoot") /\ op'[o].phase = op[o].phase
      /\ op'[o].key = op[o].key
      /\ op'[o].root = k
      /\ op'[o].rootCert = op[o].rootCert
      /\ op'[o].interCert = op[o].interCert
  <2>1. op[o] \in Commands
    BY DEF Inv, TypeOK
  <2>2. [op[o] EXCEPT !.step = IF op[o].reissue THEN "signInter" ELSE "signRoot",
                       !.root = k] \in Commands
    <3>1. (IF op[o].reissue THEN "signInter" ELSE "signRoot") \in Steps
      BY DEF Steps
    <3> QED
      BY <2>1, <3>1 DEF Commands
  <2> QED
    BY <2>1, <2>2 DEF Inv, TypeOK, RootRead, Goto, Others, Kept, Commands
<1>1. TypeOK'
  BY <1>m DEF Inv, TypeOK, Others, RootRead, At
<1>2. PhaseInv'
  BY <1>m DEF Inv, PhaseInv, Others, Kept, RootRead, At
<1>3. LoginInv'
  BY <1>m DEF Inv, TypeOK, PhaseInv, LoginInv, WorkspaceOf, Others, Kept, RootRead,
      At
<1>4. KeyInv'
  BY <1>m DEF Inv, PhaseInv, KeyInv, Others, Kept, RootRead, At
<1>5. RootInv'
  BY <1>m DEF Inv, PhaseInv, RootInv, HasSigned, Complete, Others, Kept, FindKeyByLabel,
      Under, TypeOK, Certificate, FilesInv, RootRead, At
<1>6. SignedInv'
  BY <1>m DEF Inv, PhaseInv, RootInv, SignedInv, HasSigned, Complete, Others, Kept,
      RootRead, At
<1>7. FilesInv'
  BY DEF Inv, FilesInv, RootRead, At
<1>8. ChainHolds'
  BY DEF Inv, ChainHolds, RootRead, At
<1>9. ServiceInv'
  BY DEF Inv, ServiceInv, RootRead, At
<1> QED
  BY <1>1, <1>2, <1>3, <1>4, <1>5, <1>6, <1>7, <1>8, <1>9 DEF Inv

LEMMA SignRootStep ==
    ASSUME Inv, NEW o \in Operators, SignRoot(o)
    PROVE  Inv'
<1>m. /\ Others(o) /\ Kept(o)
      /\ op'[o].step = "signInter" /\ op'[o].phase = op[o].phase
      /\ op'[o].key = op[o].key
      /\ op'[o].root = op[o].root
      /\ op'[o].rootCert = 
           [key |-> op[o].root, issuer |-> op[o].root, notAfter |-> now + RootValidity]
      /\ op'[o].interCert = op[o].interCert
  <2>1. op[o] \in Commands
    BY DEF Inv, TypeOK
  <2>2. [op[o] EXCEPT !.step = "signInter",
             !.rootCert = [key |-> op[o].root, issuer |-> op[o].root,
                           notAfter |-> now + RootValidity]] \in Commands
    <3>1. op[o].root \in Keys
      BY DEF Inv, RootInv, SignRoot, At
    <3>2. now + RootValidity \in Nat
      BY CeremonyAssumption DEF Inv, TypeOK
    <3> QED
      BY <2>1, <3>1, <3>2 DEF Commands, Steps, Certificate
  <2> QED
    BY <2>1, <2>2 DEF Inv, TypeOK, SignRoot, Goto, Others, Kept, Commands
<1>1. TypeOK'
  BY <1>m DEF Inv, TypeOK, Others, SignRoot, At
<1>2. PhaseInv'
  BY <1>m DEF Inv, PhaseInv, Others, Kept, SignRoot, At
<1>3. LoginInv'
  BY <1>m DEF Inv, TypeOK, PhaseInv, LoginInv, WorkspaceOf, Others, Kept, SignRoot,
      At
<1>4. KeyInv'
  BY <1>m DEF Inv, PhaseInv, KeyInv, Others, Kept, SignRoot, At
<1>5. RootInv'
  <2>1. /\ op'[o].rootCert \in Certificate
        /\ op'[o].rootCert.key = op[o].root
        /\ op'[o].rootCert.issuer = op[o].root
        /\ op'[o].rootCert.notAfter = now + RootValidity
    BY <1>m, CeremonyAssumption DEF Inv, TypeOK, RootInv, SignRoot, At, Certificate
  <2>2. RootValidity <= now + RootValidity
    BY CeremonyAssumption DEF Inv, TypeOK
  <2> QED
    BY <1>m, <2>1, <2>2 DEF Inv, PhaseInv, RootInv, HasSigned, Complete, Others, Kept, SignRoot, At
<1>6. SignedInv'
  BY <1>m DEF Inv, PhaseInv, RootInv, SignedInv, HasSigned, Complete, Others, Kept,
      SignRoot, At
<1>7. FilesInv'
  BY DEF Inv, FilesInv, SignRoot, At
<1>8. ChainHolds'
  BY DEF Inv, ChainHolds, SignRoot, At
<1>9. ServiceInv'
  BY DEF Inv, ServiceInv, SignRoot, At
<1> QED
  BY <1>1, <1>2, <1>3, <1>4, <1>5, <1>6, <1>7, <1>8, <1>9 DEF Inv

LEMMA SignIntermediateStep ==
    ASSUME Inv, NEW o \in Operators, SignIntermediate(o)
    PROVE  Inv'
<1>e. Expiry(o) \in Nat /\ Expiry(o) <= op[o].rootCert.notAfter
  <2>1. /\ op[o].flags.validity \in Nat
        /\ op[o].rootCert.notAfter \in Nat
        /\ op[o].reissue \/ op[o].flags.validity <= RootValidity
        /\ op[o].reissue \/ RootValidity <= op[o].rootCert.notAfter
        /\ op[o].reissue => now + op[o].flags.validity <= op[o].rootCert.notAfter
        /\ now \in Nat
    BY FlagsTyped, CeremonyAssumption DEF Inv, TypeOK, RootInv, Certificate, SignIntermediate, At,
        CheckAtSignature, CheckRootMaySign, Outlives
  <2> QED
    BY <2>1, CeremonyAssumption DEF Expiry
<1>m. /\ Others(o) /\ Kept(o)
      /\ op'[o].step = (IF op[o].reissue THEN "logout" ELSE "signCRL")
      /\ op'[o].phase = op[o].phase
      /\ op'[o].key = op[o].key
      /\ op'[o].root = op[o].root
      /\ op'[o].rootCert = op[o].rootCert
      /\ op'[o].interCert = 
           [key |-> op[o].key, issuer |-> op[o].root, notAfter |-> Expiry(o)]
  <2>1. op[o] \in Commands
    BY DEF Inv, TypeOK
  <2>2. [op[o] EXCEPT !.step = IF op[o].reissue THEN "logout" ELSE "signCRL",
             !.interCert = [key |-> op[o].key, issuer |-> op[o].root,
                            notAfter |-> Expiry(o)]] \in Commands
    <3>1. op[o].key \in Keys /\ op[o].root \in Keys
      BY DEF Inv, PhaseInv, KeyInv, RootInv, SignIntermediate, At
    <3> QED
      BY <1>e, <2>1, <3>1 DEF Commands, Steps, Certificate
  <2> QED
    BY <2>1, <2>2 DEF Inv, TypeOK, SignIntermediate, Goto, Others, Kept, Commands
<1>1. TypeOK'
  BY <1>m DEF Inv, TypeOK, Others, SignIntermediate, At
<1>2. PhaseInv'
  BY <1>m DEF Inv, PhaseInv, Others, Kept, SignIntermediate, At
<1>3. LoginInv'
  BY <1>m DEF Inv, TypeOK, PhaseInv, LoginInv, WorkspaceOf, Others, Kept,
      SignIntermediate, At
<1>4. KeyInv'
  BY <1>m DEF Inv, PhaseInv, KeyInv, Others, Kept, SignIntermediate, At
<1>5. RootInv'
  BY <1>m DEF Inv, PhaseInv, RootInv, HasSigned, Complete, Others, Kept, SignIntermediate, At
<1>6. SignedInv'
  <2>1. /\ op'[o].interCert \in Certificate
        /\ op'[o].interCert.key = op[o].key
        /\ op'[o].interCert.issuer = op[o].root
        /\ op'[o].interCert.notAfter = Expiry(o)
    <3>1. op[o].key \in Keys /\ op[o].root \in Keys
      BY DEF Inv, PhaseInv, KeyInv, RootInv, SignIntermediate, At
    <3> QED
      BY <1>e, <1>m, <3>1 DEF Certificate
  <2>2. op[o].phase = "root"
    BY DEF Inv, PhaseInv, SignIntermediate, At
  <2> QED
    BY <1>e, <1>m, <2>1, <2>2 DEF Inv, SignedInv, HasSigned, Complete, Others, SignIntermediate
<1>7. FilesInv'
  BY DEF Inv, FilesInv, SignIntermediate, At
<1>8. ChainHolds'
  BY DEF Inv, ChainHolds, SignIntermediate, At
<1>9. ServiceInv'
  BY DEF Inv, ServiceInv, SignIntermediate, At
<1> QED
  BY <1>1, <1>2, <1>3, <1>4, <1>5, <1>6, <1>7, <1>8, <1>9 DEF Inv

LEMMA SignCRLStep ==
    ASSUME Inv, NEW o \in Operators, SignCRL(o)
    PROVE  Inv'
<1>m. Moves(o, "logout", op[o].phase)
  BY StepMoves DEF Inv, Steps, SignCRL
<1>1. TypeOK'
  BY <1>m DEF Inv, TypeOK, Moves, Others, SignCRL, At
<1>2. PhaseInv'
  BY <1>m DEF Inv, PhaseInv, Moves, Others, Kept, SignCRL, At
<1>3. LoginInv'
  BY <1>m DEF Inv, TypeOK, PhaseInv, LoginInv, WorkspaceOf, Moves, Others, Kept,
      SignCRL, At
<1>4. KeyInv'
  BY <1>m DEF Inv, PhaseInv, KeyInv, Moves, Others, Kept, SignCRL, At
<1>5. RootInv'
  BY <1>m DEF Inv, PhaseInv, RootInv, HasSigned, Complete, Moves, Others, Kept, SignCRL, At
<1>6. SignedInv'
  BY <1>m DEF Inv, PhaseInv, RootInv, SignedInv, HasSigned, Complete, Moves, Others,
      Kept, SignCRL, At
<1>7. FilesInv'
  BY DEF Inv, FilesInv, SignCRL, At
<1>8. ChainHolds'
  BY DEF Inv, ChainHolds, SignCRL, At
<1>9. ServiceInv'
  BY DEF Inv, ServiceInv, SignCRL, At
<1> QED
  BY <1>1, <1>2, <1>3, <1>4, <1>5, <1>6, <1>7, <1>8, <1>9 DEF Inv

LEMMA WriteRootStep ==
    ASSUME Inv, NEW o \in Operators, WriteRoot(o)
    PROVE  Inv'
<1>m. Moves(o, "writeInter", op[o].phase)
  BY StepMoves DEF Inv, Steps, WriteRoot
<1>1. TypeOK'
  BY <1>m DEF Inv, TypeOK, SignedInv, HasSigned, Complete, RootInv, PhaseInv, Moves, Others,
      WriteRoot, At
<1>2. PhaseInv'
  BY <1>m DEF Inv, PhaseInv, Moves, Others, Kept, WriteRoot, At
<1>3. LoginInv'
  BY <1>m DEF Inv, TypeOK, PhaseInv, LoginInv, WorkspaceOf, Moves, Others, Kept,
      WriteRoot, At
<1>4. KeyInv'
  BY <1>m DEF Inv, PhaseInv, KeyInv, Moves, Others, Kept, WriteRoot, At
<1>5. RootInv'
  BY <1>m DEF Inv, PhaseInv, RootInv, HasSigned, Complete, Moves, Others, Kept, WriteRoot, At
<1>6. SignedInv'
  BY <1>m DEF Inv, PhaseInv, RootInv, SignedInv, HasSigned, Complete, Moves, Others,
      Kept, WriteRoot, At
<1>7. FilesInv'
  BY FlagsTyped DEF Inv, FilesInv, PhaseInv, RootInv, HasSigned, Complete, WriteRoot, At
<1>8. ChainHolds'
  BY DEF Inv, ChainHolds, WriteRoot, At
<1>9. ServiceInv'
  BY DEF Inv, ServiceInv, WriteRoot, At
<1> QED
  BY <1>1, <1>2, <1>3, <1>4, <1>5, <1>6, <1>7, <1>8, <1>9 DEF Inv

LEMMA WriteIntermediateStep ==
    ASSUME Inv, NEW o \in Operators, WriteIntermediate(o)
    PROVE  Inv'
<1>m. \/ ~op[o].reissue /\ Moves(o, "writeCRL", op[o].phase) /\ UNCHANGED <<auth, exit>>
      \/ op[o].reissue /\ Others(o) /\ op'[o] = Idle /\ Return(o, "returned")
  BY StepMoves, ReturnMoves DEF Inv, Steps, WriteIntermediate
<1>1. TypeOK'
  BY <1>m DEF Inv, TypeOK, SignedInv, HasSigned, Complete, RootInv, PhaseInv,
      Moves, Others, Return, WriteIntermediate, At
<1>2. PhaseInv'
  BY <1>m DEF Inv, PhaseInv, Moves, Others, Kept, Idle, WriteIntermediate, At
<1>3. LoginInv'
  BY <1>m DEF Inv, TypeOK, PhaseInv, LoginInv, WorkspaceOf, Moves, Others, Kept,
      Idle, Return, WriteIntermediate, At
<1>4. KeyInv'
  BY <1>m DEF Inv, PhaseInv, KeyInv, Moves, Others, Kept, Idle, WriteIntermediate,
      At
<1>5. RootInv'
  BY <1>m, CeremonyAssumption DEF Inv, PhaseInv, RootInv, HasSigned, Complete, Moves, Others, Kept, Idle,
      WriteIntermediate, At
<1>6. SignedInv'
  BY <1>m DEF Inv, PhaseInv, RootInv, SignedInv, HasSigned, Complete, Moves, Others,
      Kept, Idle, WriteIntermediate, At
<1>7. FilesInv'
  <2>1. HasSigned(o)
    BY DEF Inv, PhaseInv, HasSigned, Complete, WriteIntermediate, At
  <2>2. /\ op[o].interCert \in Certificate
        /\ op[o].interCert.key = op[o].key
        /\ op[o].interCert.issuer = op[o].root
    BY <2>1 DEF Inv, SignedInv
  <2>3. /\ keys[op[o].root].space = space[op[o].flags.rootWs]
        /\ keys[op[o].key].space = space[op[o].flags.interWs]
        /\ space[op[o].flags.rootWs] # space[op[o].flags.interWs]
    <3>1. keys[op[o].key] =
            [space |-> space[op[o].flags.interWs], label |-> op[o].flags.label]
      BY DEF Inv, PhaseInv, KeyInv, WriteIntermediate, At
    <3> QED
      BY <2>1, <3>1 DEF Inv, PhaseInv, KeyInv, RootInv, WriteIntermediate, At
  <2>4. space[op[o].flags.rootWs] \in Spaces /\ space[op[o].flags.interWs] \in Spaces
    BY FlagsTyped DEF Inv, WriteIntermediate, At
  <2> QED
    BY <2>2, <2>3, <2>4 DEF Inv, FilesInv, WriteIntermediate
<1>8. ChainHolds'
  BY DEF Inv, ChainHolds, SignedInv, RootInv, PhaseInv, HasSigned, Complete,
      WriteIntermediate, At
<1>9. ServiceInv'
  BY DEF Inv, ServiceInv, WriteIntermediate, At
<1> QED
  BY <1>1, <1>2, <1>3, <1>4, <1>5, <1>6, <1>7, <1>8, <1>9 DEF Inv

LEMMA WriteCRLStep ==
    ASSUME Inv, NEW o \in Operators, WriteCRL(o)
    PROVE  Inv'
<1>m. Others(o) /\ op'[o] = Idle
  BY ReturnMoves DEF Inv, WriteCRL
<1>1. TypeOK'
  BY <1>m DEF Inv, TypeOK, SignedInv, HasSigned, Complete, RootInv, PhaseInv,
      Others, Return, WriteCRL, At
<1>2. PhaseInv'
  BY <1>m DEF Inv, PhaseInv, Others, Idle, WriteCRL, At
<1>3. LoginInv'
  BY <1>m DEF Inv, TypeOK, PhaseInv, LoginInv, WorkspaceOf, Others, Idle, Return,
      WriteCRL, At
<1>4. KeyInv'
  BY <1>m DEF Inv, PhaseInv, KeyInv, Others, Idle, WriteCRL, At
<1>5. RootInv'
  BY <1>m, CeremonyAssumption DEF Inv, PhaseInv, RootInv, HasSigned, Complete, Others, Idle, WriteCRL, At
<1>6. SignedInv'
  BY <1>m DEF Inv, PhaseInv, RootInv, SignedInv, HasSigned, Complete, Others, Idle,
      WriteCRL, At
<1>7. FilesInv'
  BY DEF Inv, FilesInv, PhaseInv, KeyInv, RootInv, SignedInv, HasSigned, Complete, WriteCRL,
      At
<1>8. ChainHolds'
  BY DEF Inv, ChainHolds, WriteCRL, At
<1>9. ServiceInv'
  BY DEF Inv, ServiceInv, WriteCRL, At
<1> QED
  BY <1>1, <1>2, <1>3, <1>4, <1>5, <1>6, <1>7, <1>8, <1>9 DEF Inv

LEMMA RefuseStep ==
    ASSUME Inv, NEW o \in Operators, Refuse(o)
    PROVE  Inv'
<1>m. Others(o) /\ op'[o] = Idle
  BY ReturnMoves DEF Inv, Refuse
<1>1. TypeOK'
  BY <1>m DEF Inv, TypeOK, Others, Return, Refuse
<1>2. PhaseInv'
  BY <1>m DEF Inv, PhaseInv, Others, Idle, Refuse
<1>3. LoginInv'
  BY <1>m DEF Inv, TypeOK, PhaseInv, LoginInv, WorkspaceOf, Others, Idle, Return,
      Refuse
<1>4. KeyInv'
  BY <1>m DEF Inv, PhaseInv, KeyInv, Others, Idle, Refuse
<1>5. RootInv'
  BY <1>m, CeremonyAssumption DEF Inv, PhaseInv, RootInv, HasSigned, Complete, Others, Idle, Refuse
<1>6. SignedInv'
  BY <1>m DEF Inv, PhaseInv, RootInv, SignedInv, HasSigned, Complete, Others, Idle,
      Refuse
<1>7. FilesInv'
  BY DEF Inv, FilesInv, Refuse
<1>8. ChainHolds'
  BY DEF Inv, ChainHolds, Refuse
<1>9. ServiceInv'
  BY DEF Inv, ServiceInv, Refuse
<1> QED
  BY <1>1, <1>2, <1>3, <1>4, <1>5, <1>6, <1>7, <1>8, <1>9 DEF Inv

LEMMA DieStep ==
    ASSUME Inv, NEW o \in Operators, Die(o)
    PROVE  Inv'
<1>m. Others(o) /\ op'[o] = Idle
  BY ReturnMoves DEF Inv, Die
<1>1. TypeOK'
  BY <1>m DEF Inv, TypeOK, Others, Return, Die
<1>2. PhaseInv'
  BY <1>m DEF Inv, PhaseInv, Others, Idle, Die
<1>3. LoginInv'
  BY <1>m DEF Inv, TypeOK, PhaseInv, LoginInv, WorkspaceOf, Others, Idle, Return,
      Die
<1>4. KeyInv'
  BY <1>m DEF Inv, PhaseInv, KeyInv, Others, Idle, Die
<1>5. RootInv'
  BY <1>m, CeremonyAssumption DEF Inv, PhaseInv, RootInv, HasSigned, Complete, Others, Idle, Die
<1>6. SignedInv'
  BY <1>m DEF Inv, PhaseInv, RootInv, SignedInv, HasSigned, Complete, Others, Idle,
      Die
<1>7. FilesInv'
  BY DEF Inv, FilesInv, Die
<1>8. ChainHolds'
  BY DEF Inv, ChainHolds, Die
<1>9. ServiceInv'
  BY DEF Inv, ServiceInv, Die
<1> QED
  BY <1>1, <1>2, <1>3, <1>4, <1>5, <1>6, <1>7, <1>8, <1>9 DEF Inv

LEMMA LoadIntermediateStep ==
    ASSUME Inv, NEW ws \in Workspaces, NEW L \in Labels, NEW c \in rootCerts \cup
           interCerts, LoadIntermediate(ws, L, c)
    PROVE  Inv'
<1>1. TypeOK'
  BY CeremonyAssumption DEF Inv, TypeOK, Commands, Steps, Phases, LoadIntermediate,
      SelfSigned, FindKeyByLabel, Under
<1>2. PhaseInv'
  BY DEF Inv, TypeOK, PhaseInv, Commands, LoadIntermediate, SelfSigned,
      FindKeyByLabel, Under
<1>3. LoginInv'
  BY DEF Inv, TypeOK, PhaseInv, LoginInv, Commands, WorkspaceOf, LoadIntermediate,
      SelfSigned, FindKeyByLabel, Under
<1>4. KeyInv'
  BY CeremonyAssumption DEF Inv, TypeOK, PhaseInv, KeyInv, Commands,
      LoadIntermediate, SelfSigned, FindKeyByLabel, Under
<1>5. RootInv'
  BY CeremonyAssumption DEF Inv, TypeOK, PhaseInv, RootInv, FilesInv, HasSigned, Complete,
      Commands, Certificate, LoadIntermediate, SelfSigned, FindKeyByLabel,
      Under
<1>6. SignedInv'
  BY CeremonyAssumption DEF Inv, TypeOK, PhaseInv, RootInv, SignedInv, HasSigned, Complete,
      Commands, LoadIntermediate, SelfSigned, FindKeyByLabel, Under
<1>7. FilesInv'
  BY CeremonyAssumption DEF Inv, TypeOK, PhaseInv, KeyInv, RootInv, SignedInv,
      FilesInv, HasSigned, Complete, Certificate, LoadIntermediate, SelfSigned,
      FindKeyByLabel, Under
<1>8. ChainHolds'
  BY DEF Inv, RootInv, SignedInv, HasSigned, Complete, ChainHolds, LoadIntermediate,
      SelfSigned, FindKeyByLabel, Under
<1>9. ServiceInv'
  BY DEF Inv, TypeOK, FilesInv, ServiceInv, LoadIntermediate,
      SelfSigned, FindKeyByLabel, Under
<1> QED
  BY <1>1, <1>2, <1>3, <1>4, <1>5, <1>6, <1>7, <1>8, <1>9 DEF Inv

LEMMA TickStep ==
    ASSUME Inv, Tick
    PROVE  Inv'
<1>1. TypeOK'
  BY CeremonyAssumption DEF Inv, TypeOK, Commands, Steps, Phases, Tick
<1>2. PhaseInv'
  BY DEF Inv, TypeOK, PhaseInv, Commands, Tick
<1>3. LoginInv'
  BY DEF Inv, TypeOK, PhaseInv, LoginInv, Commands, WorkspaceOf, Tick
<1>4. KeyInv'
  BY CeremonyAssumption DEF Inv, TypeOK, PhaseInv, KeyInv, Commands,
      Tick
<1>5. RootInv'
  BY CeremonyAssumption DEF Inv, TypeOK, PhaseInv, RootInv, FilesInv, HasSigned, Complete,
      Commands, Certificate, Tick
<1>6. SignedInv'
  BY CeremonyAssumption DEF Inv, TypeOK, PhaseInv, RootInv, SignedInv, HasSigned, Complete,
      Commands, Tick
<1>7. FilesInv'
  BY CeremonyAssumption DEF Inv, TypeOK, PhaseInv, KeyInv, RootInv, SignedInv,
      FilesInv, HasSigned, Complete, Certificate, Tick
<1>8. ChainHolds'
  BY DEF Inv, RootInv, SignedInv, HasSigned, Complete, ChainHolds, Tick
<1>9. ServiceInv'
  BY DEF Inv, TypeOK, FilesInv, ServiceInv, Tick
<1> QED
  BY <1>1, <1>2, <1>3, <1>4, <1>5, <1>6, <1>7, <1>8, <1>9 DEF Inv

-----------------------------------------------------------------------------
LEMMA InitInv == Init => Inv
<1> SUFFICES ASSUME Init PROVE Inv
  OBVIOUS
<1>1. TypeOK
  <2>1. Idle \in Commands
    BY DEF Idle, Commands, Steps, Phases
  <2> QED
    BY <2>1, CeremonyAssumption DEF Init, TypeOK, NotMade
<1>2. PhaseInv /\ LoginInv /\ KeyInv
  BY DEF Init, PhaseInv, LoginInv, KeyInv, Idle
<1>3. RootInv /\ SignedInv
  BY CeremonyAssumption DEF Init, RootInv, SignedInv, HasSigned, Complete, Idle
<1>4. FilesInv /\ ChainHolds /\ ServiceInv
  BY DEF Init, FilesInv, ChainHolds, ServiceInv
<1> QED
  BY <1>1, <1>2, <1>3, <1>4 DEF Inv

LEMMA StutterStep ==
    ASSUME Inv, UNCHANGED vars
    PROVE  Inv'
BY DEF Inv, TypeOK, PhaseInv, LoginInv, KeyInv, RootInv, SignedInv, HasSigned, Complete,
    FilesInv, ChainHolds, ServiceInv, vars

LEMMA NextInv == Inv /\ [Next]_vars => Inv'
<1> SUFFICES ASSUME Inv, [Next]_vars PROVE Inv'
  OBVIOUS
<1>1. ASSUME NEW o \in Operators, Command(o)
      PROVE  Inv'
  BY <1>1, RunCeremonyStep, ReissueIntermediateStep, LoginTokenStep, LogoutTokenStep,
     LogoutFailedStep, InterExistsStep, InterGenerateStep, InterReadStep,
     CheckSeparationStep, RootExistsStep, RootGenerateStep, RootReadStep, SignRootStep,
     SignIntermediateStep, SignCRLStep, WriteRootStep, WriteIntermediateStep, WriteCRLStep, RefuseStep,
     DieStep DEF Command
<1> QED
  BY <1>1, LoadIntermediateStep, TickStep, StutterStep DEF Next

(* The inductive invariant: Spec never leaves it.                          *)
THEOREM Invariance == Spec => []Inv
<1> QED
  BY InitInv, NextInv, PTL DEF Spec

(* Every variable keeps its type.                                          *)
THEOREM TypeCorrect == Spec => []TypeOK
<1>1. Inv => TypeOK
  BY DEF Inv
<1> QED
  BY <1>1, Invariance, PTL

(* No process ever holds both tokens authenticated, even when a C_Logout   *)
(* fails between two of its logins.                                        *)
THEOREM OneLoginAtATime == Spec => []LoginsDoNotOverlap
<1>1. Inv => LoginsDoNotOverlap
  BY DEF Inv, LoginInv, LoginsDoNotOverlap
<1> QED
  BY <1>1, Invariance, PTL

(* The key of an intermediate certificate is never in the key space of its *)
(* root's key, for any number of ceremonies and re-issues at once.         *)
THEOREM TiersAreSplit == Spec => []HierarchyIsSplit
<1>1. Inv => HierarchyIsSplit
  BY DEF Inv, FilesInv, HierarchyIsSplit
<1> QED
  BY <1>1, Invariance, PTL

(* An intermediate on disk has the root that signed it on disk, and does   *)
(* not outlive it, although a re-issue is checked long before it signs.    *)
THEOREM ChainsVerify == Spec => []ChainHolds
<1>1. Inv => ChainHolds
  BY DEF Inv
<1> QED
  BY <1>1, Invariance, PTL

(* No configuration the service can load from gives it the root key of the *)
(* hierarchy it serves, whatever roles its token has in other commands.    *)
THEOREM ServiceNeverReachesRoot == Spec => []RootStaysOffline
<1>1. Inv => RootStaysOffline
  BY DEF Inv, FilesInv, ServiceInv, RootStaysOffline
<1> QED
  BY <1>1, Invariance, PTL

(* A command whose signing completed and that returns has written it all.  *)
LEMMA ReturnWritten ==
    ASSUME Inv, [Next]_vars, NEW o \in Operators, Complete(o), exit'[o] = "returned"
    PROVE  /\ op[o].interCert \in interCerts'
           /\ op[o].rootCert \in rootCerts'
           /\ op[o].reissue \/ op[o].root \in rootCRLs'
<1>1. op[o].phase = "root" /\ ~At(o, "idle")
  BY DEF Complete, At
<1>2. exit[o] = "running"
  BY <1>1 DEF Inv, LoginInv, At
<1>3. exit'[o] # exit[o]
  BY <1>2
<1>4. \/ LogoutFailed(o) /\ op[o].phase # "root"
      \/ WriteIntermediate(o) /\ op[o].reissue
      \/ WriteCRL(o)
  <2>1. ASSUME NEW p \in Operators, Command(p), p # o
        PROVE  exit'[o] = exit[o]
    BY <2>1 DEF Inv, TypeOK, Command, RunCeremony, ReissueIntermediate, LoginToken, LogoutToken,
        LogoutFailed, InterExists, InterGenerate, InterRead, CheckSeparation, RootExists,
        RootGenerate, RootRead, SignRoot, SignIntermediate, SignCRL, WriteRoot, WriteIntermediate,
        WriteCRL, Refuse, Die, Return
  <2>2. CASE Command(o)
    BY <1>2, <1>3, <2>2 DEF Inv, TypeOK, Command, RunCeremony, ReissueIntermediate, LoginToken,
        LogoutToken, LogoutFailed, InterExists, InterGenerate, InterRead, CheckSeparation,
        RootExists, RootGenerate, RootRead, SignRoot, SignIntermediate, SignCRL, WriteRoot,
        WriteIntermediate, WriteCRL, Refuse, Die, Return
  <2>3. ASSUME NEW ws, NEW L, NEW c, LoadIntermediate(ws, L, c)
        PROVE  exit'[o] = exit[o]
    BY <2>3 DEF LoadIntermediate
  <2> QED
    BY <1>3, <2>1, <2>2, <2>3 DEF Next, Tick, vars
<1>5. CASE LogoutFailed(o) /\ op[o].phase # "root"
  BY <1>1, <1>5
<1>6. CASE WriteIntermediate(o) /\ op[o].reissue
  BY <1>6 DEF Inv, SignedInv, WriteIntermediate, At
<1>7. CASE WriteCRL(o)
  BY <1>7 DEF Inv, SignedInv, WriteCRL, At
<1> QED
  BY <1>4, <1>5, <1>6, <1>7

(* Nothing of a completed signing is lost to a failed logout: it is all on *)
(* disk before the command returns.                                        *)
THEOREM SignedIsWritten == Spec => NothingDiscarded
<1>1. Inv /\ [Next]_vars =>
        [\A o \in Operators :
            Complete(o) /\ exit'[o] = "returned" =>
                /\ op[o].interCert \in interCerts'
                /\ op[o].rootCert \in rootCerts'
                /\ op[o].reissue \/ op[o].root \in rootCRLs']_vars
  BY ReturnWritten
<1> QED
  BY <1>1, Invariance, PTL DEF Spec, NothingDiscarded
=============================================================================
