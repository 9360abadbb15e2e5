------------------------- MODULE SigningKeysProofs -------------------------
(***************************************************************************)
(* What holds of the signing keys for any number of operators running      *)
(* commands at once, any token and any sequence of failures: the types,    *)
(* and that a published retirement is true (RetiredIsGone).                *)
(*                                                                         *)
(* RetiredIsGone is not inductive: a draft, or the document -in was read   *)
(* from, becomes an archived document later.  Truthful says the same of    *)
(* every document any command holds, and adds that the label of an entry   *)
(* is the label of the pair it was read from, so that a search for the     *)
(* label that finds nothing speaks about that pair.                        *)
(***************************************************************************)
EXTENDS SigningKeys, TLAPS

\* What the type invariant needs of the commands under way.
Shape ==
    /\ \A p \in Pairs : token[p].pub => token[p].point \in Points
    /\ \A o \in Operators :
        /\ op[o].pc = "read" => op[o].previous.version < MaxVersion
        /\ op[o].pc = "compare" => op[o].pub \in Pairs

\* What an entry says of the token t.
True(t, e) ==
    /\ t[e.pair].label = e.label
    /\ e.status = "retired" => ~t[e.pair].priv

AllTrue(t, d) == \A e \in d.keys : True(t, e)

Truthful ==
    /\ AllTrue(token, doc)
    /\ \A d \in archive : AllTrue(token, d)
    /\ \A o \in Operators : AllTrue(token, op[o].previous) /\ AllTrue(token, op[o].draft)

\* What a step may do to the objects of a pair that was generated.
Loses ==
    \A p \in Pairs : token[p].label # None =>
        /\ token'[p].label = token[p].label
        /\ token'[p].priv => token[p].priv

----------------------------------------------------------------------------
\* An idle command is well typed.
LEMMA IdleType == Idle \in Commands /\ NoInventory \in Inventories
BY KeysAssumption DEF Idle, Commands, Steps, NoInventory, Inventories, Entries

\* The initial state has the types.
LEMMA InitType == Init => TypeOK /\ Shape
<1> SUFFICES ASSUME Init PROVE TypeOK /\ Shape
  OBVIOUS
<1>1. token \in [Pairs -> Objects]
  BY DEF Init, Objects, NotMade
<1>2. TypeOK
  BY <1>1, IdleType, KeysAssumption DEF Init, TypeOK
<1>3. Shape
  BY DEF Init, Shape, NotMade, Idle
<1> QED  BY <1>2, <1>3

\* Destroying one half keeps the token's type and only loses.
LEMMA Destroying ==
    ASSUME TypeOK, Shape, NEW p \in Pairs, DestroyPub(p) \/ DestroyPriv(p)
    PROVE  /\ token' \in [Pairs -> Objects]
           /\ \A q \in Pairs : token'[q].pub => token'[q].point \in Points
           /\ Loses
<1>1. CASE DestroyPub(p)
  <2>1. \A q \in Pairs : /\ token'[q] \in Objects
                         /\ token'[q].label = token[q].label
                         /\ token'[q].point = token[q].point
                         /\ token'[q].priv = token[q].priv
                         /\ token'[q].pub => token[q].pub
    BY <1>1 DEF DestroyPub, TypeOK, Objects
  <2>2. token' \in [Pairs -> Objects]
    BY <1>1, <2>1 DEF DestroyPub, TypeOK
  <2> QED  BY <2>1, <2>2 DEF Shape, Loses
<1>2. CASE DestroyPriv(p)
  <2>1. \A q \in Pairs : /\ token'[q] \in Objects
                         /\ token'[q].label = token[q].label
                         /\ token'[q].point = token[q].point
                         /\ token'[q].pub = token[q].pub
                         /\ token'[q].priv => token[q].priv
    BY <1>2 DEF DestroyPriv, TypeOK, Objects
  <2>2. token' \in [Pairs -> Objects]
    BY <1>2, <2>1 DEF DestroyPriv, TypeOK
  <2> QED  BY <2>1, <2>2 DEF Shape, Loses
<1> QED  BY <1>1, <1>2

\* A step that leaves the token alone loses nothing.
LEMMA Untouched ==
    ASSUME TypeOK, Shape, UNCHANGED token
    PROVE  /\ token' \in [Pairs -> Objects]
           /\ \A q \in Pairs : token'[q].pub => token'[q].point \in Points
           /\ Loses
BY DEF TypeOK, Shape, Loses

----------------------------------------------------------------------------
\* A command's step keeps the type of everything but the token when its own
\* record and the files it writes keep theirs.
LEMMA CommandType ==
    ASSUME TypeOK, Shape, NEW o \in Operators, NEW c \in Commands, Goto(o, c),
           token' \in [Pairs -> Objects],
           \A q \in Pairs : token'[q].pub => token'[q].point \in Points,
           c.pc = "read" => c.previous.version < MaxVersion,
           c.pc = "compare" => c.pub \in Pairs,
           doc' \in Inventories, sig' \in Inventories, archive' \subseteq Inventories,
           returned' \subseteq Pairs,
           UNCHANGED <<now, policy, rendered, selected>>
    PROVE  TypeOK' /\ Shape'
<1>1. op' \in [Operators -> Commands] /\ op' = [op EXCEPT ![o] = c]
  BY DEF TypeOK, Goto
<1>2. TypeOK'
  BY <1>1 DEF TypeOK
<1>3. \A x \in Operators : op'[x] = IF x = o THEN c ELSE op[x]
  BY <1>1 DEF TypeOK
<1>4. Shape'
  BY <1>3 DEF Shape
<1> QED  BY <1>2, <1>4

\* What a -key spec adds is an entry: read off the token, or copied from the
\* previous document.
LEMMA ReadsEntry ==
    ASSUME TypeOK, Shape, NEW o \in Operators, NEW L \in Labels, NEW u \in Purposes,
           NEW t \in Statuses,
           NEW e \in IF t = "retired" THEN RetiredEntry(L, u, op[o].previous)
                     ELSE LiveEntry(L, u, t, op[o].previous)
    PROVE  e \in Entries
<1>1. CASE t = "retired"
  <2>1. PICK f \in op[o].previous.keys : e = [f EXCEPT !.purpose = u, !.status = "retired"]
    BY <1>1 DEF RetiredEntry, Listed
  <2>2. f \in Entries
    BY DEF TypeOK, Commands, Inventories
  <2> QED  BY <2>1, <2>2 DEF Entries, Statuses
<1>2. CASE t # "retired"
  <2>1. PICK p \in Pairs, n \in 0..MaxTime :
           /\ \E q \in Pairs : Verify(L, p, q)
           /\ e = [label |-> L, purpose |-> u, point |-> token[p].point,
                   status |-> t, from |-> n, pair |-> p]
    BY <1>2 DEF LiveEntry
  <2>2. token[p].pub
    BY <2>1 DEF Verify, Load, Finds, PubUnder
  <2> QED  BY <2>1, <2>2 DEF Shape, Entries
<1> QED  BY <1>1, <1>2

\* Every step keeps the types, and no step gives a generated pair a new
\* label or a private half back.
LEMMA StepType == TypeOK /\ Shape /\ [Next]_vars => TypeOK' /\ Shape' /\ Loses
<1> SUFFICES ASSUME TypeOK, Shape, [Next]_vars PROVE TypeOK' /\ Shape' /\ Loses
  OBVIOUS
<1> USE IdleType
<1>1. ASSUME NEW o \in Operators, NEW L \in Labels, Provision(o, L)
      PROVE  TypeOK' /\ Shape' /\ Loses
  <2> DEFINE c == [Idle EXCEPT !.pc = "generate", !.label = L]
  <2>1. c \in Commands /\ c.pc = "generate"
    BY DEF Idle, Commands, Steps
  <2> HIDE DEF c
  <2> QED  BY <1>1, <2>1, CommandType, Untouched DEF Provision, TypeOK, c
<1>2. ASSUME NEW o \in Operators, NEW L \in Labels, Retire(o, L)
      PROVE  TypeOK' /\ Shape' /\ Loses
  <2>1. PICK e \in doc.keys :
           Goto(o, [Idle EXCEPT !.pc = "retireLoad", !.label = L, !.point = e.point])
    BY <1>2 DEF Retire
  <2> DEFINE c == [Idle EXCEPT !.pc = "retireLoad", !.label = L, !.point = e.point]
  <2>2. e.point \in Points
    BY DEF TypeOK, Inventories, Entries
  <2>3. c \in Commands /\ c.pc = "retireLoad"
    BY <2>2 DEF Idle, Commands, Steps
  <2>4. Goto(o, c)
    BY <2>1
  <2> HIDE DEF c
  <2> QED  BY <1>2, <2>3, <2>4, CommandType, Untouched DEF Retire, TypeOK
<1>3. ASSUME NEW o \in Operators, NEW p \in Pairs, NEW x \in Points, NEW b \in BOOLEAN,
             GenerateKeyPair(o, p, x, b)
      PROVE  TypeOK' /\ Shape' /\ Loses
  <2> DEFINE c == [op[o] EXCEPT !.pc = "load"]
  <2> DEFINE r == [label |-> op[o].label, point |-> x, protected |-> b,
                   pub |-> TRUE, priv |-> TRUE]
  <2>1. c \in Commands /\ c.pc = "load"
    BY DEF TypeOK, Commands, Steps
  <2>2. r \in Objects /\ r.point = x /\ token' = [token EXCEPT ![p] = r]
    BY <1>3 DEF GenerateKeyPair, TypeOK, Commands, Objects
  <2>3. token[p].label = None
    BY <1>3 DEF GenerateKeyPair, NotMade
  <2>4. Goto(o, c)
    BY <1>3 DEF GenerateKeyPair
  <2> HIDE DEF c, r
  <2>5. \A q \in Pairs : token'[q] = IF q = p THEN r ELSE token[q]
    BY <2>2 DEF TypeOK
  <2>6. token' \in [Pairs -> Objects] /\ \A q \in Pairs : token'[q].pub => token'[q].point \in Points
    BY <2>2, <2>5 DEF TypeOK, Shape
  <2>7. Loses
    BY <2>3, <2>5 DEF Loses
  <2> QED  BY <1>3, <2>1, <2>4, <2>6, <2>7, CommandType DEF GenerateKeyPair, TypeOK
<1>4. ASSUME NEW o \in Operators, NEW p \in Pairs, NEW q \in Pairs, ReadBack(o, p, q)
      PROVE  TypeOK' /\ Shape' /\ Loses
  <2> DEFINE c == [op[o] EXCEPT !.pc = "compare", !.point = token[p].point, !.pub = p]
  <2>1. c \in Commands /\ c.pc = "compare" /\ c.pub = p
    BY DEF TypeOK, Commands, Steps, Objects
  <2>2. Goto(o, c)
    BY <1>4 DEF ReadBack
  <2> HIDE DEF c
  <2> QED  BY <1>4, <2>1, <2>2, CommandType, Untouched DEF ReadBack, TypeOK
<1>5. ASSUME NEW o \in Operators, Compare(o)
      PROVE  TypeOK' /\ Shape' /\ Loses
  <2>1. op[o].pub \in Pairs
    BY <1>5 DEF Compare, At, Shape
  <2> DEFINE c == IF Duplicate(op[o].label, op[o].point)
                  THEN [op[o] EXCEPT !.pc = "undoPub"] ELSE Idle
  <2>2. c \in Commands /\ c.pc \in {"undoPub", "idle"}
    BY DEF TypeOK, Commands, Steps, Idle
  <2>3. Goto(o, c) /\ returned' \subseteq Pairs
    BY <1>5, <2>1 DEF Compare, HandOver, TypeOK
  <2> HIDE DEF c
  <2> QED  BY <1>5, <2>2, <2>3, CommandType, Untouched DEF Compare, TypeOK
<1>6. ASSUME NEW o \in Operators, UndoPub(o) \/ UndoPriv(o)
      PROVE  TypeOK' /\ Shape' /\ Loses
  <2> DEFINE c == IF UndoPub(o) THEN [op[o] EXCEPT !.pc = "undoPriv"] ELSE Idle
  <2>1. c \in Commands /\ c.pc \in {"undoPriv", "idle"}
    BY DEF TypeOK, Commands, Steps, Idle
  <2>2. Goto(o, c)
    BY <1>6 DEF UndoPub, UndoPriv
  <2>3. UNCHANGED token \/ \E p \in Pairs : DestroyPub(p) \/ DestroyPriv(p)
    BY <1>6 DEF UndoPub, UndoPriv
  <2> HIDE DEF c
  <2> QED  BY <1>6, <2>1, <2>2, <2>3, CommandType, Untouched, Destroying
           DEF UndoPub, UndoPriv, TypeOK
<1>7. ASSUME NEW o \in Operators, GenerateInventory(o)
      PROVE  TypeOK' /\ Shape' /\ Loses
  <2> DEFINE c == [Idle EXCEPT !.pc = "read", !.previous = doc]
  <2>1. c \in Commands /\ c.pc = "read" /\ c.previous = doc
    BY DEF TypeOK, Commands, Steps, Idle
  <2>2. Goto(o, c) /\ doc.version < MaxVersion
    BY <1>7 DEF GenerateInventory
  <2> HIDE DEF c
  <2> QED  BY <1>7, <2>1, <2>2, CommandType, Untouched DEF GenerateInventory, TypeOK
<1>8. ASSUME NEW o \in Operators, NEW L \in Labels, NEW u \in Purposes, NEW t \in Statuses,
             ReadEntry(o, L, u, t)
      PROVE  TypeOK' /\ Shape' /\ Loses
  <2>1. PICK e \in Entries : Goto(o, [op[o] EXCEPT !.draft.keys = @ \cup {e}])
    BY <1>8, ReadsEntry DEF ReadEntry
  <2> DEFINE c == [op[o] EXCEPT !.draft.keys = @ \cup {e}]
  <2>2. c \in Commands /\ c.pc = "read" /\ c.previous.version < MaxVersion
    BY SMTT(30), <1>8 DEF ReadEntry, At, TypeOK, Shape, Commands, Steps, Inventories
  <2>3. Goto(o, c)
    BY <2>1
  <2> HIDE DEF c
  <2> QED  BY <1>8, <2>2, <2>3, CommandType, Untouched DEF ReadEntry, TypeOK
<1>9. ASSUME NEW o \in Operators, NEW v \in Validities, SealInventory(o, v)
      PROVE  TypeOK' /\ Shape' /\ Loses
  <2> DEFINE c == [op[o] EXCEPT !.pc = "sign",
                                !.draft.version = NextVersion(op[o].previous.version),
                                !.draft.until = now + v]
  <2>1. NextVersion(op[o].previous.version) \in 0..MaxVersion
    BY <1>9, KeysAssumption
       DEF SealInventory, At, NextVersion, TypeOK, Shape, Commands, Inventories
  <2>2. now + v \in Nat
    BY KeysAssumption DEF TypeOK
  <2>3. c \in Commands /\ c.pc = "sign"
    BY ZenonT(60), <2>1, <2>2 DEF TypeOK, Commands, Steps, Inventories
  <2>4. Goto(o, c)
    BY <1>9 DEF SealInventory
  <2> HIDE DEF c
  <2> QED  BY <1>9, <2>3, <2>4, CommandType, Untouched DEF SealInventory, TypeOK
<1>10. ASSUME NEW o \in Operators, WriteDocument(o)
       PROVE  TypeOK' /\ Shape' /\ Loses
  <2> DEFINE c == [op[o] EXCEPT !.pc = "writeSig"]
  <2>1. c \in Commands /\ c.pc = "writeSig"
    BY DEF TypeOK, Commands, Steps
  <2>2. Goto(o, c) /\ doc' \in Inventories /\ archive' \subseteq Inventories
    BY <1>10 DEF WriteDocument, Archived, TypeOK, Commands
  <2> HIDE DEF c
  <2> QED  BY <1>10, <2>1, <2>2, CommandType, Untouched DEF WriteDocument, TypeOK
<1>11. ASSUME NEW o \in Operators, WriteSignature(o)
       PROVE  TypeOK' /\ Shape' /\ Loses
  <2>1. sig' \in Inventories /\ archive' \subseteq Inventories
    BY <1>11 DEF WriteSignature, Archived, TypeOK, Commands
  <2> QED  BY <1>11, <2>1, CommandType, Untouched DEF WriteSignature, TypeOK, Idle
<1>12. ASSUME NEW o \in Operators, RetireLoad(o) \/ SignInventory(o)
       PROVE  TypeOK' /\ Shape' /\ Loses
  <2> DEFINE c == [op[o] EXCEPT !.pc = IF RetireLoad(o) THEN "retireFind" ELSE "writeDoc"]
  <2>1. c \in Commands /\ c.pc \in {"retireFind", "writeDoc"}
    BY DEF TypeOK, Commands, Steps
  <2>2. Goto(o, c)
    BY <1>12 DEF RetireLoad, SignInventory
  <2> HIDE DEF c
  <2> QED  BY <1>12, <2>1, <2>2, CommandType, Untouched DEF RetireLoad, SignInventory, TypeOK
<1>13. ASSUME NEW o \in Operators, NEW p \in Pairs \cup {None}, NEW q \in Pairs \cup {None},
              RetireFind(o, p, q)
       PROVE  TypeOK' /\ Shape' /\ Loses
  <2> DEFINE c == [op[o] EXCEPT !.pc = "retirePriv", !.priv = p, !.pub = q]
  <2>1. c \in Commands /\ c.pc = "retirePriv"
    BY DEF TypeOK, Commands, Steps
  <2>2. Goto(o, c)
    BY <1>13 DEF RetireFind
  <2> HIDE DEF c
  <2> QED  BY <1>13, <2>1, <2>2, CommandType, Untouched DEF RetireFind, TypeOK
<1>14. ASSUME NEW o \in Operators, RetirePriv(o) \/ RetirePub(o)
       PROVE  TypeOK' /\ Shape' /\ Loses
  <2> DEFINE c == IF RetirePriv(o) THEN [op[o] EXCEPT !.pc = "retirePub"] ELSE Idle
  <2>1. c \in Commands /\ c.pc \in {"retirePub", "idle"}
    BY DEF TypeOK, Commands, Steps, Idle
  <2>2. Goto(o, c)
    BY <1>14 DEF RetirePriv, RetirePub
  <2>3. UNCHANGED token \/ \E p \in Pairs : DestroyPub(p) \/ DestroyPriv(p)
    BY <1>14 DEF RetirePriv, RetirePub, TypeOK, Commands
  <2> HIDE DEF c
  <2> QED  BY <1>14, <2>1, <2>2, <2>3, CommandType, Untouched, Destroying
           DEF RetirePriv, RetirePub, TypeOK
<1>15. ASSUME NEW o \in Operators, Stop(o)
       PROVE  TypeOK' /\ Shape' /\ Loses
  BY <1>15, CommandType, Untouched DEF Stop, TypeOK, Idle
<1>16. ASSUME NEW d \in archive, RenderPolicy(d)
       PROVE  TypeOK' /\ Shape' /\ Loses
  <2>1. VerifiableAt(d, "image", now) \subseteq Entries /\ d.version \in 0..MaxVersion
    BY DEF TypeOK, Inventories, VerifiableAt, Verifiable
  <2>2. TypeOK'
    BY <1>16, <2>1 DEF RenderPolicy, TypeOK
  <2> QED  BY <1>16, <2>2, Untouched DEF RenderPolicy, Shape
<1>17. ASSUME NEW d \in archive, NEW u \in Purposes, NEW b \in BOOLEAN,
              NEW n \in 0..MaxTime, SelectKey(d, u, b, n)
       PROVE  TypeOK' /\ Shape' /\ Loses
  <2>1. /\ VerifiableAt(d, u, n) \subseteq Entries /\ ActiveAt(d, u, n) \subseteq Entries
        /\ d.version \in 0..MaxVersion
    BY DEF TypeOK, Inventories, VerifiableAt, ActiveAt, Verifiable, Active
  <2>2. selected' \in [version : 0..MaxVersion, keys : SUBSET Entries]
    BY <1>17, <2>1 DEF SelectKey, TypeOK
  <2>3. TypeOK'
    BY <1>17, <2>2 DEF SelectKey, TypeOK
  <2> QED  BY <1>17, <2>3, Untouched DEF SelectKey, Shape
<1>18. ASSUME Tick PROVE TypeOK' /\ Shape' /\ Loses
  <2>1. TypeOK'
    BY <1>18, KeysAssumption DEF Tick, TypeOK
  <2> QED  BY <1>18, <2>1, Untouched DEF Tick, Shape
<1>19. ASSUME UNCHANGED vars PROVE TypeOK' /\ Shape' /\ Loses
  BY <1>19, Untouched DEF vars, TypeOK, Shape
<1> QED
  BY <1>1, <1>2, <1>3, <1>4, <1>5, <1>6, <1>7, <1>8, <1>9, <1>10, <1>11, <1>12,
     <1>13, <1>14, <1>15, <1>16, <1>17, <1>18, <1>19 DEF Next, Command, Consume

----------------------------------------------------------------------------
\* A true entry stays true: its pair keeps the label and regains no half.
LEMMA StaysTrue ==
    ASSUME TypeOK, Loses, NEW d \in Inventories, AllTrue(token, d)
    PROVE  AllTrue(token', d)
<1> SUFFICES ASSUME NEW e \in d.keys PROVE True(token', e)
  BY DEF AllTrue
<1>1. e \in Entries /\ True(token, e)
  BY DEF AllTrue, Inventories
<1>2. e.pair \in Pairs /\ e.label # None
  BY <1>1, KeysAssumption DEF Entries
<1> QED  BY <1>1, <1>2 DEF True, Loses

\* A -key spec adds a true entry.  For a retired key: the entry it copies
\* names a pair with this label, and no private key has the label.
LEMMA ReadsTrue ==
    ASSUME TypeOK, Truthful, NEW o \in Operators, NEW L \in Labels, NEW u \in Purposes,
           NEW t \in Statuses,
           NEW e \in IF t = "retired" THEN RetiredEntry(L, u, op[o].previous)
                     ELSE LiveEntry(L, u, t, op[o].previous)
    PROVE  True(token, e)
<1>1. CASE t = "retired"
  <2>1. PICK f \in op[o].previous.keys :
           /\ f.label = L /\ PrivUnder(L) = {}
           /\ e = [f EXCEPT !.purpose = u, !.status = "retired"]
    BY <1>1 DEF RetiredEntry, Listed, LabelIsFree
  <2>2. f \in Entries /\ True(token, f)
    BY DEF TypeOK, Commands, Inventories, Truthful, AllTrue
  <2>3. e.pair = f.pair /\ e.label = L /\ f.pair \in Pairs
    BY <2>1, <2>2 DEF Entries
  <2>4. ~token[f.pair].priv
    BY <2>1, <2>2, <2>3 DEF PrivUnder, True
  <2> QED  BY <2>1, <2>2, <2>3, <2>4 DEF True
<1>2. CASE t # "retired"
  <2>1. PICK p \in Pairs, n \in 0..MaxTime :
           /\ \E q \in Pairs : Verify(L, p, q)
           /\ e = [label |-> L, purpose |-> u, point |-> token[p].point,
                   status |-> t, from |-> n, pair |-> p]
    BY <1>2 DEF LiveEntry
  <2>2. token[p].label = L
    BY <2>1 DEF Verify, Load, Finds, PubUnder
  <2> QED  BY <1>2, <2>1, <2>2 DEF True
<1> QED  BY <1>1, <1>2

\* A command whose own documents are true leaves every document true.
LEMMA CommandTruthful ==
    ASSUME TypeOK, Loses, Truthful, NEW o \in Operators, NEW c, Goto(o, c),
           AllTrue(token', c.previous), AllTrue(token', c.draft),
           doc' = doc \/ doc' = op[o].draft,
           archive' \subseteq archive \cup {doc'}
    PROVE  Truthful'
<1>1. AllTrue(token', doc) /\ (\A d \in archive : AllTrue(token', d))
  BY StaysTrue DEF TypeOK, Truthful
<1>2. \A x \in Operators : AllTrue(token', op[x].previous) /\ AllTrue(token', op[x].draft)
  BY StaysTrue DEF TypeOK, Truthful, Commands
<1>3. \A x \in Operators : op'[x] = IF x = o THEN c ELSE op[x]
  BY DEF TypeOK, Goto
<1>4. AllTrue(token', doc')
  BY <1>1, <1>2
<1>5. \A d \in archive' : AllTrue(token', d)
  BY <1>1, <1>4
<1>6. \A x \in Operators : AllTrue(token', op'[x].previous) /\ AllTrue(token', op'[x].draft)
  BY <1>2, <1>3
<1> QED  BY <1>4, <1>5, <1>6 DEF Truthful

\* Every step keeps every document true.
LEMMA StepTruthful ==
    ASSUME TypeOK, Shape, Loses, Truthful, [Next]_vars
    PROVE  Truthful'
<1> DEFINE Held(c) == AllTrue(token', c.previous) /\ AllTrue(token', c.draft)
<1>i. Held(Idle)
  BY DEF AllTrue, Idle, NoInventory
<1>h. \A o \in Operators : Held(op[o])
  BY StaysTrue DEF TypeOK, Truthful, Commands
<1>d. AllTrue(token', doc)
  BY StaysTrue DEF TypeOK, Truthful
\* Commands that neither read nor write a document.
<1>1. ASSUME NEW o \in Operators, Goto(o, op'[o]), UNCHANGED <<doc, archive>>,
             \/ op'[o].previous = NoInventory /\ op'[o].draft = NoInventory
             \/ op'[o].previous = op[o].previous /\ op'[o].draft = op[o].draft
      PROVE  Truthful'
  <2>1. Held(op'[o])
    BY <1>1, <1>i, <1>h DEF Idle
  <2> QED  BY <1>1, <2>1, CommandTruthful
<1>2. ASSUME NEW o \in Operators, NEW L \in Labels, Provision(o, L) \/ Retire(o, L)
      PROVE  Truthful'
  <2>1. CASE Provision(o, L)
    <3>1. Goto(o, op'[o]) /\ op'[o].previous = NoInventory /\ op'[o].draft = NoInventory
      BY <2>1 DEF Provision, Idle, Goto, TypeOK
    <3> QED  BY <1>1, <2>1, <3>1 DEF Provision
  <2>2. CASE Retire(o, L)
    <3>1. PICK e \in doc.keys :
             Goto(o, [Idle EXCEPT !.pc = "retireLoad", !.label = L, !.point = e.point])
      BY <2>2 DEF Retire
    <3>2. Goto(o, op'[o]) /\ op'[o].previous = NoInventory /\ op'[o].draft = NoInventory
      BY <3>1 DEF Idle, Goto, TypeOK
    <3> QED  BY <1>1, <2>2, <3>2 DEF Retire
  <2> QED  BY <1>2, <2>1, <2>2
<1>3. ASSUME NEW o \in Operators,
             \/ \E p \in Pairs, x \in Points, b \in BOOLEAN : GenerateKeyPair(o, p, x, b)
             \/ \E p, q \in Pairs : ReadBack(o, p, q)
             \/ RetireLoad(o) \/ SignInventory(o)
             \/ \E p, q \in Pairs \cup {None} : RetireFind(o, p, q)
      PROVE  Truthful'
  <2>1. \/ Goto(o, [op[o] EXCEPT !.pc = "load"])
        \/ \E p \in Pairs : Goto(o, [op[o] EXCEPT !.pc = "compare",
                                                  !.point = token[p].point, !.pub = p])
        \/ Goto(o, [op[o] EXCEPT !.pc = "retireFind"])
        \/ Goto(o, [op[o] EXCEPT !.pc = "writeDoc"])
        \/ \E p, q \in Pairs \cup {None} :
              Goto(o, [op[o] EXCEPT !.pc = "retirePriv", !.priv = p, !.pub = q])
    BY <1>3 DEF GenerateKeyPair, ReadBack, RetireLoad, SignInventory, RetireFind
  <2>2. Goto(o, op'[o]) /\ op'[o].previous = op[o].previous /\ op'[o].draft = op[o].draft
    <3>1. CASE \/ Goto(o, [op[o] EXCEPT !.pc = "load"])
               \/ Goto(o, [op[o] EXCEPT !.pc = "retireFind"])
               \/ Goto(o, [op[o] EXCEPT !.pc = "writeDoc"])
      BY <3>1 DEF Goto, TypeOK, Commands
    <3>2. ASSUME NEW p \in Pairs,
                 Goto(o, [op[o] EXCEPT !.pc = "compare", !.point = token[p].point, !.pub = p])
          PROVE  /\ Goto(o, op'[o])
                 /\ op'[o].previous = op[o].previous /\ op'[o].draft = op[o].draft
      BY <3>2 DEF Goto, TypeOK, Commands
    <3>3. ASSUME NEW p \in Pairs \cup {None}, NEW q \in Pairs \cup {None},
                 Goto(o, [op[o] EXCEPT !.pc = "retirePriv", !.priv = p, !.pub = q])
          PROVE  /\ Goto(o, op'[o])
                 /\ op'[o].previous = op[o].previous /\ op'[o].draft = op[o].draft
      BY <3>3 DEF Goto, TypeOK, Commands
    <3> QED  BY <2>1, <3>1, <3>2, <3>3
  <2> QED  BY <1>1, <1>3, <2>2 DEF GenerateKeyPair, ReadBack, RetireLoad, SignInventory,
                                      RetireFind
<1>4. ASSUME NEW o \in Operators,
             Compare(o) \/ UndoPub(o) \/ UndoPriv(o) \/ RetirePriv(o) \/ RetirePub(o) \/ Stop(o)
      PROVE  Truthful'
  <2>1. \/ Goto(o, Idle)
        \/ Goto(o, [op[o] EXCEPT !.pc = "undoPub"])
        \/ Goto(o, [op[o] EXCEPT !.pc = "undoPriv"])
        \/ Goto(o, [op[o] EXCEPT !.pc = "retirePub"])
    BY <1>4 DEF Compare, HandOver, UndoPub, UndoPriv, RetirePriv, RetirePub, Stop
  <2>2. /\ Goto(o, op'[o])
        /\ \/ op'[o].previous = NoInventory /\ op'[o].draft = NoInventory
           \/ op'[o].previous = op[o].previous /\ op'[o].draft = op[o].draft
    BY <2>1 DEF Goto, TypeOK, Commands, Idle
  <2> QED  BY <1>1, <1>4, <2>2 DEF Compare, HandOver, UndoPub, UndoPriv, RetirePriv, RetirePub, Stop
<1>5. ASSUME NEW o \in Operators, GenerateInventory(o) PROVE Truthful'
  <2> DEFINE c == [Idle EXCEPT !.pc = "read", !.previous = doc]
  <2>1. c.previous = doc /\ c.draft = Idle.draft /\ Goto(o, c)
    BY <1>5 DEF GenerateInventory, Idle
  <2> HIDE DEF c
  <2> QED  BY <1>5, <1>i, <1>d, <2>1, CommandTruthful DEF GenerateInventory
<1>6. ASSUME NEW o \in Operators, NEW L \in Labels, NEW u \in Purposes, NEW t \in Statuses,
             ReadEntry(o, L, u, t)
      PROVE  Truthful'
  <2>1. PICK e \in IF t = "retired" THEN RetiredEntry(L, u, op[o].previous)
                   ELSE LiveEntry(L, u, t, op[o].previous) :
           Goto(o, [op[o] EXCEPT !.draft.keys = @ \cup {e}])
    BY <1>6 DEF ReadEntry
  <2>2. True(token', e)
    BY <1>6, ReadsTrue DEF ReadEntry
  <2> DEFINE c == [op[o] EXCEPT !.draft.keys = @ \cup {e}]
  <2>3. c.previous = op[o].previous /\ c.draft.keys = op[o].draft.keys \cup {e}
    BY DEF TypeOK, Commands, Inventories
  <2>4. Goto(o, c)
    BY <2>1
  <2> HIDE DEF c
  <2>5. Held(c)
    BY <1>h, <2>2, <2>3 DEF AllTrue
  <2> QED  BY <1>6, <2>4, <2>5, CommandTruthful DEF ReadEntry
<1>7. ASSUME NEW o \in Operators, NEW v \in Validities, SealInventory(o, v) PROVE Truthful'
  <2> DEFINE c == [op[o] EXCEPT !.pc = "sign",
                                !.draft.version = NextVersion(op[o].previous.version),
                                !.draft.until = now + v]
  <2>1. c.previous = op[o].previous /\ c.draft.keys = op[o].draft.keys
    BY DEF TypeOK, Commands, Inventories
  <2>2. Goto(o, c)
    BY <1>7 DEF SealInventory
  <2> HIDE DEF c
  <2>3. Held(c)
    BY <1>h, <2>1 DEF AllTrue
  <2> QED  BY <1>7, <2>2, <2>3, CommandTruthful DEF SealInventory
<1>8. ASSUME NEW o \in Operators, WriteDocument(o) \/ WriteSignature(o) PROVE Truthful'
  <2>1. \/ Goto(o, Idle)
        \/ Goto(o, [op[o] EXCEPT !.pc = "writeSig"])
    BY <1>8 DEF WriteDocument, WriteSignature
  <2>2. PICK c : Goto(o, c) /\ Held(c)
    BY <2>1, <1>i, <1>h DEF TypeOK, Commands
  <2>3. (doc' = doc \/ doc' = op[o].draft) /\ archive' \subseteq archive \cup {doc'}
    BY <1>8 DEF WriteDocument, WriteSignature, Archived
  <2> QED  BY <2>2, <2>3, CommandTruthful
<1>9. ASSUME UNCHANGED <<token, doc, archive, op>> PROVE Truthful'
  BY <1>9 DEF Truthful
<1>10. ASSUME Consume \/ Tick \/ UNCHANGED vars PROVE Truthful'
  BY <1>9, <1>10 DEF Consume, RenderPolicy, SelectKey, Tick, vars
<1> QED
  BY <1>2, <1>3, <1>4, <1>5, <1>6, <1>7, <1>8, <1>10 DEF Next, Command

----------------------------------------------------------------------------
\* The invariant of every run: types, and true documents.
LEMMA Inductive == Spec => [](TypeOK /\ Shape /\ Truthful)
<1>1. Init => TypeOK /\ Shape /\ Truthful
  <2>1. Init => Truthful
    BY DEF Init, Truthful, AllTrue, NoInventory, Idle
  <2> QED  BY <2>1, InitType
<1>2. TypeOK /\ Shape /\ Truthful /\ [Next]_vars => (TypeOK /\ Shape /\ Truthful)'
  BY StepType, StepTruthful
<1> QED  BY <1>1, <1>2, PTL DEF Spec

\* The variables of the commands, the token and the files keep their types
\* for any number of operators.
THEOREM KeysTypeCorrect == Spec => []TypeOK
BY Inductive, PTL

\* Whatever commands run at once and wherever they fail, an inventory that
\* verifies never calls a key retired whose private half is on the token:
\* generate-inventory's search for the label is enough, without a lock
\* between it and the other commands.
THEOREM RetirementIsTrue == Spec => []RetiredIsGone
<1>1. TypeOK /\ Shape /\ Truthful => RetiredIsGone
  BY DEF Truthful, AllTrue, True, RetiredIsGone
<1> QED  BY <1>1, Inductive, PTL
=============================================================================
