----------------------- MODULE SigningOperatorProofs -----------------------
(***************************************************************************)
(* What holds of the signing keys when one operator runs the commands, one *)
(* after the other, each failing or killed anywhere.  Nothing in the code  *)
(* serialises two operators: hsm-pki-keytool takes no lock on the token or *)
(* on the files, so these theorems carry the hypothesis OneOperator, and   *)
(* the ones of SigningKeysProofs do not.                                   *)
(*                                                                         *)
(* None of the properties is inductive.  What a label leads to depends on  *)
(* how far the command under way has come (LabelInv, RetireInv), a key is  *)
(* compared with the returned ones by the public halves that are still     *)
(* there (ReturnInv), an active entry survives because no command holds    *)
(* its label as a target (ActiveInv), and what an old document says of a   *)
(* retired key is settled by the order in which documents were written     *)
(* (VersionInv, OrderInv, ConsumerInv).                                    *)
(***************************************************************************)
EXTENDS SigningKeysProofs

\* The operator of one machine; the commands of two may interleave.
OneOperator == \A a, b \in Operators : a = b

Provisioning == {"generate", "load", "compare", "undoPub", "undoPriv"}
Drafting == {"read", "sign", "writeDoc"}

\* The label of a pair about to be generated is on no object.
LabelInv ==
    /\ LabelNamesOnePair
    /\ \A o \in Operators : op[o].pc = "generate" => LabelUnused(op[o].label)

\* A returned pair that can sign can also be found by its public half, and
\* is not the pair being provisioned.
ReturnInv ==
    /\ ReturnedKeysDiffer
    /\ \A p \in returned : token[p].label # None /\ (token[p].priv => token[p].pub)
    /\ \A o \in Operators :
        /\ op[o].pc \in Provisioning =>
            /\ op[o].label # None
            /\ \A p \in returned : OnToken(p) => token[p].label # op[o].label
        /\ op[o].pc = "compare" =>
            /\ token[op[o].pub].pub
            /\ token[op[o].pub].label = op[o].label
            /\ token[op[o].pub].point = op[o].point

\* What Destroy found: the halves of one pair, the private one going first.
RetireInv ==
    \A o \in Operators :
        /\ op[o].pc = "retirePriv" =>
            /\ op[o].priv # None => token[op[o].priv].label = op[o].label
            /\ op[o].pub # None /\ token[op[o].pub].priv => op[o].priv = op[o].pub
        /\ op[o].pc = "retirePub" /\ op[o].pub # None => ~token[op[o].pub].priv

OneEntryEach(keys) == \A e, f \in keys : e.label = f.label => e = f

ActiveOnToken(keys) == \A e \in keys : e.status = "active" => token[e.pair].priv

\* No command that may destroy a private key holds the label of an active one.
ActiveInv ==
    /\ ActiveOnToken(doc.keys) /\ OneEntryEach(doc.keys)
    /\ \A o \in Operators :
        /\ OneEntryEach(op[o].draft.keys)
        /\ op[o].pc \in Drafting => ActiveOnToken(op[o].draft.keys)
        /\ op[o].pc \in Provisioning \cup {"retireLoad", "retireFind", "retirePriv"} =>
            \A e \in doc.keys : e.status = "active" => e.label # op[o].label

\* Each document written has a version of its own.
VersionInv ==
    /\ sig.version <= doc.version
    /\ \A d \in archive : d.version <= doc.version
    /\ \A o \in Operators :
        /\ op[o].pc \in Drafting => op[o].previous = doc
        /\ op[o].pc \in {"sign", "writeDoc"} => op[o].draft.version = doc.version + 1
        /\ op[o].pc = "writeSig" =>
            op[o].draft = doc /\ \A d \in archive : d.version < doc.version

\* The keys c lists as live, d does not call retired.
NoneRetired(d, c) ==
    \A e \in d.keys, f \in c.keys :
        e.status = "retired" /\ f.status # "retired" => e.pair # f.pair

\* A later document revives no key.
OrderInv ==
    /\ \A d, c \in archive : d.version <= c.version => NoneRetired(d, c)
    /\ \A o \in Operators :
        op[o].pc \in Drafting \cup {"writeSig"} =>
            \A d \in archive : NoneRetired(d, op[o].draft)

LiveIn(keys, d) == \A f \in keys : f \in d.keys /\ f.status # "retired"

\* What the policy trusts is live in one document that verified.
ConsumerInv ==
    /\ rendered = policy.version
    /\ policy.keys # {} =>
        \E d \in archive : d.version = policy.version /\ LiveIn(policy.keys, d)

KeysInv == LabelInv /\ ReturnInv /\ RetireInv
FilesInv == VersionInv /\ OrderInv /\ ConsumerInv
OneInv == KeysInv /\ ActiveInv /\ FilesInv

----------------------------------------------------------------------------
(* One operator: a step of a command sets the only command.                *)

\* The step of the one operator leaves no other command to speak of.
LEMMA TheCommand ==
    ASSUME TypeOK, OneOperator, NEW o \in Operators, NEW c, Goto(o, c)
    PROVE  \A x \in Operators : op'[x] = c
BY DEF TypeOK, OneOperator, Goto

\* What the token and the returned pairs must satisfy after a step of a
\* command that is then c.
LEMMA KeysGoal ==
    ASSUME TypeOK, OneOperator, NEW o \in Operators, NEW c, Goto(o, c),
           LabelNamesOnePair', ReturnedKeysDiffer',
           \A p \in returned' : token'[p].label # None /\ (token'[p].priv => token'[p].pub),
           c.pc = "generate" =>
              \A p \in Pairs : token'[p].label = c.label => ~token'[p].pub /\ ~token'[p].priv,
           c.pc \in Provisioning =>
              /\ c.label # None
              /\ \A p \in returned' : token'[p].pub \/ token'[p].priv => token'[p].label # c.label,
           c.pc = "compare" =>
              /\ token'[c.pub].pub
              /\ token'[c.pub].label = c.label
              /\ token'[c.pub].point = c.point,
           c.pc = "retirePriv" =>
              /\ c.priv # None => token'[c.priv].label = c.label
              /\ c.pub # None /\ token'[c.pub].priv => c.priv = c.pub,
           c.pc = "retirePub" /\ c.pub # None => ~token'[c.pub].priv
    PROVE  KeysInv'
  <1>1. \A x \in Operators : op'[x] = c
    BY TheCommand
  <1>2. LabelInv'
    BY <1>1 DEF LabelInv, LabelUnused, LabelIsFree, PubUnder, PrivUnder
  <1>3. ReturnInv'
    BY <1>1 DEF ReturnInv, OnToken
  <1>4. RetireInv'
    BY <1>1 DEF RetireInv
  <1>5. QED
    BY <1>2, <1>3, <1>4 DEF KeysInv

\* A step that touches neither the token nor the returned pairs.
LEMMA KeysStill ==
    ASSUME TypeOK, OneOperator, KeysInv, NEW o \in Operators, NEW c, Goto(o, c),
           UNCHANGED <<token, returned>>,
           c.pc = "generate" => c.label # None /\ LabelUnused(c.label),
           c.pc \in Provisioning \ {"generate"} =>
              op[o].pc \in Provisioning /\ c.label = op[o].label,
           c.pc = "compare" =>
              /\ token[c.pub].pub
              /\ token[c.pub].label = c.label
              /\ token[c.pub].point = c.point,
           c.pc = "retirePriv" =>
              /\ c.priv # None => token[c.priv].label = c.label
              /\ c.pub # None /\ token[c.pub].priv => c.priv = c.pub,
           c.pc # "retirePub"
    PROVE  KeysInv'
  <1>1. LabelNamesOnePair' /\ ReturnedKeysDiffer'
    BY DEF KeysInv, LabelInv, ReturnInv, LabelNamesOnePair, OnToken, ReturnedKeysDiffer
  <1>2. \A p \in returned' : token'[p].label # None /\ (token'[p].priv => token'[p].pub)
    BY DEF KeysInv, ReturnInv
  <1>3. c.pc = "generate" =>
           \A p \in Pairs : token'[p].label = c.label => ~token'[p].pub /\ ~token'[p].priv
    BY DEF LabelUnused, LabelIsFree, PubUnder, PrivUnder
  <1>4. c.pc \in Provisioning =>
           /\ c.label # None
           /\ \A p \in returned' : token'[p].pub \/ token'[p].priv => token'[p].label # c.label
    <2>1. CASE c.pc = "generate"
      BY <1>3, <2>1 DEF TypeOK
    <2>2. CASE c.pc \in Provisioning \ {"generate"}
      BY <2>2 DEF KeysInv, ReturnInv, OnToken
    <2>3. QED
      BY <2>1, <2>2
  <1>5. QED
    BY <1>1, <1>2, <1>3, <1>4, KeysGoal

\* What the current document and the draft must satisfy.
LEMMA ActiveGoal ==
    ASSUME TypeOK, OneOperator, NEW o \in Operators, NEW c, Goto(o, c),
           \A e \in doc'.keys : e.status = "active" => token'[e.pair].priv,
           OneEntryEach(doc'.keys), OneEntryEach(c.draft.keys),
           c.pc \in Drafting =>
              \A e \in c.draft.keys : e.status = "active" => token'[e.pair].priv,
           c.pc \in Provisioning \cup {"retireLoad", "retireFind", "retirePriv"} =>
              \A e \in doc'.keys : e.status = "active" => e.label # c.label
    PROVE  ActiveInv'
  <1>1. \A x \in Operators : op'[x] = c
    BY TheCommand
  <1>2. QED
    BY <1>1 DEF ActiveInv, ActiveOnToken, OneEntryEach

\* A step that leaves the document alone and destroys no active key.
LEMMA ActiveStill ==
    ASSUME TypeOK, OneOperator, ActiveInv, NEW o \in Operators, NEW c, Goto(o, c),
           UNCHANGED doc,
           \A e \in doc.keys : e.status = "active" => token'[e.pair].priv = token[e.pair].priv,
           OneEntryEach(c.draft.keys),
           c.pc \in Drafting => UNCHANGED token /\ ActiveOnToken(c.draft.keys),
           c.pc \in Provisioning \cup {"retireLoad", "retireFind", "retirePriv"} =>
              \A e \in doc.keys : e.status = "active" => e.label # c.label
    PROVE  ActiveInv'
  <1>1. \A e \in doc'.keys : e.status = "active" => token'[e.pair].priv
    BY DEF ActiveInv, ActiveOnToken
  <1>2. OneEntryEach(doc'.keys)
    BY DEF ActiveInv
  <1>3. c.pc \in Drafting =>
           \A e \in c.draft.keys : e.status = "active" => token'[e.pair].priv
    BY DEF ActiveOnToken
  <1>4. QED
    BY <1>1, <1>2, <1>3, ActiveGoal

\* A step that leaves the files, the clock and the consumers alone.
LEMMA FilesStill ==
    ASSUME TypeOK, OneOperator, FilesInv, NEW o \in Operators, NEW c, Goto(o, c),
           UNCHANGED <<now, doc, sig, archive, policy, rendered, selected>>,
           c.pc # "writeSig",
           c.pc \in Drafting =>
              /\ c.previous = doc
              /\ \A d \in archive : NoneRetired(d, c.draft),
           c.pc \in {"sign", "writeDoc"} =>
              c.draft.version = doc.version + 1
    PROVE  FilesInv'
  <1>1. \A x \in Operators : op'[x] = c
    BY TheCommand
  <1>2. VersionInv'
    BY <1>1 DEF FilesInv, VersionInv, Drafting
  <1>3. OrderInv'
    BY <1>1 DEF FilesInv, OrderInv, NoneRetired
  <1>4. ConsumerInv'
    BY DEF FilesInv, ConsumerInv, LiveIn
  <1>5. QED
    BY <1>2, <1>3, <1>4 DEF FilesInv

----------------------------------------------------------------------------
(* provision-signing-key.                                                  *)

\* The invariant before a step.
Before == TypeOK /\ Shape /\ Truthful /\ OneInv

\* An entry of the current document carries the label of its pair.
LEMMA EntryLabel ==
    ASSUME TypeOK, Truthful, NEW e \in doc.keys
    PROVE  e.pair \in Pairs /\ token[e.pair].label = e.label
BY DEF TypeOK, Truthful, AllTrue, True, Inventories, Entries

\* A command that holds no document: nothing of the files is in its hands.
LEMMA NoDraft == OneEntryEach(NoInventory.keys)
BY DEF NoInventory, OneEntryEach

\* A label that is free is the label of no returned key on the token and of
\* no active entry.
LEMMA ProvisionStep ==
    ASSUME Before, OneOperator, NEW o \in Operators, NEW L \in Labels, Provision(o, L)
    PROVE  OneInv'
  <1> DEFINE c == [Idle EXCEPT !.pc = "generate", !.label = L]
  <1>1. c.pc = "generate" /\ c.label = L /\ c.draft = NoInventory
    BY DEF Idle
  <1>2. Goto(o, c) /\ LabelUnused(L) /\ L # None
    BY KeysAssumption DEF Provision
  <1> HIDE DEF c
  <1>3. KeysInv'
    BY <1>1, <1>2, KeysStill DEF Provision, Before, OneInv
  <1>4. \A e \in doc.keys : e.status = "active" => e.label # L
    BY <1>2, EntryLabel
       DEF Before, OneInv, ActiveInv, ActiveOnToken, LabelUnused, LabelIsFree, PrivUnder
  <1>5. ActiveInv'
    BY <1>1, <1>2, <1>4, NoDraft, ActiveStill DEF Provision, Before, OneInv, Drafting
  <1>6. FilesInv'
    BY <1>1, <1>2, FilesStill DEF Provision, Before, OneInv, Drafting
  <1>7. QED
    BY <1>3, <1>5, <1>6 DEF OneInv

\* The new pair is the only one under its label, and was never returned.
LEMMA GenerateStep ==
    ASSUME Before, OneOperator, NEW o \in Operators, NEW p \in Pairs, NEW x \in Points,
           NEW b \in BOOLEAN, GenerateKeyPair(o, p, x, b)
    PROVE  OneInv'
  <1> DEFINE c == [op[o] EXCEPT !.pc = "load"]
  <1>1. c.pc = "load" /\ c.label = op[o].label /\ c.draft = op[o].draft
    BY DEF Before, TypeOK, Commands
  <1>2. Goto(o, c) /\ op[o].pc = "generate"
    BY DEF GenerateKeyPair, At
  <1> HIDE DEF c
  <1>3. /\ token'[p].label = op[o].label
        /\ \A q \in Pairs \ {p} : token'[q] = token[q]
        /\ token[p].label = None /\ ~token[p].priv
    BY DEF GenerateKeyPair, NotMade, Before, TypeOK
  <1>4. /\ LabelInv /\ ReturnInv /\ ActiveInv /\ FilesInv /\ Truthful /\ TypeOK
        /\ returned \subseteq Pairs
    BY DEF Before, OneInv, KeysInv, TypeOK
  <1>5. p \notin returned
    BY <1>3, <1>4 DEF ReturnInv
  <1>6. \A q \in Pairs : OnToken(q) => token[q].label # op[o].label
    BY <1>2, <1>4 DEF LabelInv, LabelUnused, LabelIsFree, PubUnder, PrivUnder, OnToken
  <1>7. LabelNamesOnePair'
    BY <1>3, <1>4, <1>6 DEF LabelInv, LabelNamesOnePair, OnToken
  <1>8. /\ returned' = returned
        /\ \A q \in returned : token'[q] = token[q]
    BY <1>3, <1>4, <1>5 DEF GenerateKeyPair
  <1>9. KeysInv'
    <2>1. ReturnedKeysDiffer'
      BY <1>4, <1>8 DEF ReturnInv, ReturnedKeysDiffer
    <2>2. \A q \in returned' : token'[q].label # None /\ (token'[q].priv => token'[q].pub)
      BY <1>4, <1>8 DEF ReturnInv
    <2>3. /\ c.label # None
          /\ \A q \in returned' : token'[q].pub \/ token'[q].priv => token'[q].label # c.label
      BY <1>1, <1>2, <1>4, <1>6, <1>8 DEF OnToken, ReturnInv, Provisioning
    <2>4. QED
      BY <1>1, <1>2, <1>4, <1>7, <2>1, <2>2, <2>3, KeysGoal
  <1>10. ActiveInv'
    <2>1. \A e \in doc.keys : e.status = "active" => token'[e.pair].priv = token[e.pair].priv
      BY <1>3, <1>4, EntryLabel DEF ActiveInv, ActiveOnToken
    <2>2. OneEntryEach(c.draft.keys)
      BY <1>1, <1>4 DEF ActiveInv
    <2>3. \A e \in doc.keys : e.status = "active" => e.label # c.label
      BY <1>1, <1>2, <1>4 DEF ActiveInv, Provisioning
    <2>4. QED
      BY <1>1, <1>2, <1>4, <2>1, <2>2, <2>3, ActiveStill DEF GenerateKeyPair, Drafting
  <1>11. FilesInv'
    BY <1>1, <1>2, <1>4, FilesStill DEF GenerateKeyPair, Drafting
  <1>12. QED
    BY <1>9, <1>10, <1>11 DEF OneInv

\* The key read back is the one under the label.
LEMMA ReadBackStep ==
    ASSUME Before, OneOperator, NEW o \in Operators, NEW p \in Pairs, NEW q \in Pairs,
           ReadBack(o, p, q)
    PROVE  OneInv'
  <1> DEFINE c == [op[o] EXCEPT !.pc = "compare", !.point = token[p].point, !.pub = p]
  <1>1. /\ c.pc = "compare" /\ c.label = op[o].label /\ c.draft = op[o].draft
        /\ c.pub = p /\ c.point = token[p].point
    BY DEF Before, TypeOK, Commands
  <1>2. Goto(o, c) /\ op[o].pc = "load"
    BY DEF ReadBack, At
  <1>3. token[p].pub /\ token[p].label = op[o].label
    BY DEF ReadBack, Verify, Load, Finds, PubUnder
  <1> HIDE DEF c
  <1>4. TypeOK /\ KeysInv /\ ActiveInv /\ FilesInv
    BY DEF Before, OneInv
  <1>5. KeysInv'
    BY <1>1, <1>2, <1>3, <1>4, KeysStill DEF ReadBack, Provisioning
  <1>6. ActiveInv'
    <2>1. OneEntryEach(c.draft.keys)
      BY <1>1, <1>4 DEF ActiveInv
    <2>2. \A e \in doc.keys : e.status = "active" => e.label # c.label
      BY <1>1, <1>2, <1>4 DEF ActiveInv, Provisioning
    <2>3. QED
      BY <1>1, <1>2, <1>4, <2>1, <2>2, ActiveStill DEF ReadBack, Drafting
  <1>7. FilesInv'
    BY <1>1, <1>2, <1>4, FilesStill DEF ReadBack, Drafting
  <1>8. QED
    BY <1>5, <1>6, <1>7 DEF OneInv

\* A key is handed over when no public half under another label has its
\* point; a returned key that can sign has its public half on the token.
LEMMA CompareStep ==
    ASSUME Before, OneOperator, NEW o \in Operators, Compare(o)
    PROVE  OneInv'
  <1>t. TypeOK /\ KeysInv /\ ActiveInv /\ FilesInv /\ op[o].pc = "compare"
    BY DEF Before, OneInv, Compare, At
  <1>1. CASE Duplicate(op[o].label, op[o].point)
    <2> DEFINE c == [op[o] EXCEPT !.pc = "undoPub"]
    <2>1. c.pc = "undoPub" /\ c.label = op[o].label /\ c.draft = op[o].draft
      BY DEF Before, TypeOK, Commands
    <2>2. Goto(o, c) /\ UNCHANGED returned
      BY <1>1 DEF Compare
    <2> HIDE DEF c
    <2>3. KeysInv'
      BY <1>t, <2>1, <2>2, KeysStill DEF Compare, Provisioning
    <2>4. ActiveInv'
      <3>1. OneEntryEach(c.draft.keys)
        BY <1>t, <2>1 DEF ActiveInv
      <3>2. \A e \in doc.keys : e.status = "active" => e.label # c.label
        BY <1>t, <2>1 DEF ActiveInv, Provisioning
      <3>3. QED
        BY <1>t, <2>1, <2>2, <3>1, <3>2, ActiveStill DEF Compare, Drafting
    <2>5. FilesInv'
      BY <1>t, <2>1, <2>2, FilesStill DEF Compare, Drafting
    <2>6. QED
      BY <2>3, <2>4, <2>5 DEF OneInv
  <1>2. CASE ~Duplicate(op[o].label, op[o].point)
    <2> DEFINE n == op[o].pub
    <2>1. Goto(o, Idle) /\ returned' = returned \cup {n} /\ UNCHANGED token
      BY <1>2 DEF Compare, HandOver
    <2>2. Idle.pc = "idle" /\ Idle.draft = NoInventory
      BY DEF Idle
    <2>3. /\ n \in Pairs /\ token[n].pub
          /\ token[n].label = op[o].label /\ token[n].point = op[o].point
      BY <1>t DEF Before, Shape, KeysInv, ReturnInv
    <2>4. token[n].label # None
      BY <1>t, <2>3 DEF KeysInv, ReturnInv, Provisioning
    <2>5. \A q \in returned : token[q].priv => token[q].point # token[n].point
      <3> SUFFICES ASSUME NEW q \in returned, token[q].priv, token[q].point = token[n].point
                   PROVE  FALSE
        OBVIOUS
      <3>1. q \in Pairs /\ token[q].pub
        BY <1>t DEF TypeOK, KeysInv, ReturnInv
      <3>2. token[q].label # op[o].label
        BY <1>t DEF KeysInv, ReturnInv, OnToken, Provisioning
      <3>3. QED
        BY <1>2, <2>3, <3>1, <3>2 DEF Duplicate
    <2> HIDE DEF n
    <2>6. ReturnedKeysDiffer'
      BY <1>t, <2>1, <2>5 DEF KeysInv, ReturnInv, ReturnedKeysDiffer
    <2>7. \A p \in returned' : token'[p].label # None /\ (token'[p].priv => token'[p].pub)
      BY <1>t, <2>1, <2>3, <2>4 DEF KeysInv, ReturnInv
    <2>8. LabelNamesOnePair'
      BY <1>t, <2>1 DEF KeysInv, LabelInv, LabelNamesOnePair, OnToken
    <2>9. KeysInv'
      BY <1>t, <2>1, <2>2, <2>6, <2>7, <2>8, KeysGoal DEF Provisioning
    <2>10. ActiveInv'
      BY <1>t, <2>1, <2>2, NoDraft, ActiveStill DEF Compare, Drafting, Provisioning
    <2>11. FilesInv'
      BY <1>t, <2>1, <2>2, FilesStill DEF Compare, Drafting
    <2>12. QED
      BY <2>9, <2>10, <2>11 DEF OneInv
  <1>3. QED
    BY <1>1, <1>2

\* What destroying the public half of p changes.
LEMMA PubDestroyed ==
    ASSUME TypeOK, NEW p \in Pairs, DestroyPub(p)
    PROVE  \A q \in Pairs :
              /\ token'[q].label = token[q].label /\ token'[q].point = token[q].point
              /\ token'[q].priv = token[q].priv
              /\ token'[q].pub => token[q].pub
              /\ q # p => token'[q].pub = token[q].pub
BY DEF DestroyPub, TypeOK, Objects

\* What destroying the private half of p changes.
LEMMA PrivDestroyed ==
    ASSUME TypeOK, NEW p \in Pairs, DestroyPriv(p)
    PROVE  \A q \in Pairs :
              /\ token'[q].label = token[q].label /\ token'[q].point = token[q].point
              /\ token'[q].pub = token[q].pub
              /\ token'[q].priv => token[q].priv
              /\ IF q = p THEN ~token'[q].priv ELSE token'[q].priv = token[q].priv
BY DEF DestroyPriv, TypeOK, Objects

\* A command that has destroyed a half, with the label it did it under, is at
\* undoPriv or retirePub or done; a returned key it stripped of its public
\* half had lost the private one.
LEMMA KeysLost ==
    ASSUME TypeOK, OneOperator, KeysInv, NEW o \in Operators, NEW c, Goto(o, c),
           UNCHANGED returned,
           \A q \in Pairs :
              /\ token'[q].label = token[q].label /\ token'[q].point = token[q].point
              /\ token'[q].pub => token[q].pub
              /\ token'[q].priv => token[q].priv,
           \A q \in returned : token'[q].priv => token'[q].pub = token[q].pub,
           c.pc \in {"undoPriv", "retirePub", "idle"},
           c.pc = "undoPriv" => op[o].pc \in Provisioning /\ c.label = op[o].label,
           c.pc = "retirePub" /\ c.pub # None => ~token'[c.pub].priv
    PROVE  KeysInv'
  <1>1. LabelNamesOnePair'
    BY DEF KeysInv, LabelInv, LabelNamesOnePair, OnToken
  <1>2. returned \subseteq Pairs
    BY DEF TypeOK
  <1>3. ReturnedKeysDiffer'
    BY <1>2 DEF KeysInv, ReturnInv, ReturnedKeysDiffer
  <1>4. \A p \in returned' : token'[p].label # None /\ (token'[p].priv => token'[p].pub)
    BY <1>2 DEF KeysInv, ReturnInv
  <1>5. c.pc \in Provisioning =>
           /\ c.label # None
           /\ \A p \in returned' : token'[p].pub \/ token'[p].priv => token'[p].label # c.label
    BY <1>2 DEF KeysInv, ReturnInv, OnToken, Provisioning
  <1>6. QED
    BY <1>1, <1>3, <1>4, <1>5, KeysGoal

\* destroyKeyPair finds by label the pair that was just generated: not a
\* returned one, and not one the document calls active.
LEMMA UndoPubStep ==
    ASSUME Before, OneOperator, NEW o \in Operators, UndoPub(o)
    PROVE  OneInv'
  <1>t. TypeOK /\ KeysInv /\ ActiveInv /\ FilesInv /\ op[o].pc = "undoPub"
    BY DEF Before, OneInv, UndoPub, At
  <1> DEFINE c == [op[o] EXCEPT !.pc = "undoPriv"]
  <1>1. c.pc = "undoPriv" /\ c.label = op[o].label /\ c.draft = op[o].draft
    BY <1>t DEF TypeOK, Commands
  <1>2. Goto(o, c)
    BY DEF UndoPub
  <1> HIDE DEF c
  <1>3. KeysInv' /\ \A e \in doc.keys : token'[e.pair].priv = token[e.pair].priv
    <2>1. CASE UNCHANGED token
      BY <1>t, <1>1, <1>2, <2>1, KeysStill DEF UndoPub, Provisioning
    <2>2. ASSUME NEW p \in Pairs, Finds(PubUnder(op[o].label), p), DestroyPub(p)
          PROVE  KeysInv' /\ \A e \in doc.keys : token'[e.pair].priv = token[e.pair].priv
      <3>1. token[p].pub /\ token[p].label = op[o].label
        BY <2>2 DEF Finds, PubUnder
      <3>2. p \notin returned
        BY <1>t, <3>1 DEF KeysInv, ReturnInv, OnToken, Provisioning
      <3>3. \A q \in returned : token'[q].pub = token[q].pub
        BY <1>t, <2>2, <3>2, PubDestroyed DEF TypeOK
      <3>4. KeysInv'
        BY <1>t, <1>1, <1>2, <2>2, <3>3, PubDestroyed, KeysLost DEF UndoPub, Provisioning
      <3>5. QED
        BY <1>t, <2>2, <3>4, PubDestroyed, EntryLabel DEF Before
    <2>3. QED
      BY <2>1, <2>2 DEF UndoPub
  <1>4. ActiveInv'
    <2>1. OneEntryEach(c.draft.keys)
      BY <1>t, <1>1 DEF ActiveInv
    <2>2. \A e \in doc.keys : e.status = "active" => e.label # c.label
      BY <1>t, <1>1 DEF ActiveInv, Provisioning
    <2>3. QED
      BY <1>t, <1>1, <1>2, <1>3, <2>1, <2>2, ActiveStill DEF UndoPub, Drafting
  <1>5. FilesInv'
    BY <1>t, <1>1, <1>2, FilesStill DEF UndoPub, Drafting
  <1>6. QED
    BY <1>3, <1>4, <1>5 DEF OneInv

\* The same for the private half.
LEMMA UndoPrivStep ==
    ASSUME Before, OneOperator, NEW o \in Operators, UndoPriv(o)
    PROVE  OneInv'
  <1>t. TypeOK /\ KeysInv /\ ActiveInv /\ FilesInv /\ op[o].pc = "undoPriv"
    BY DEF Before, OneInv, UndoPriv, At
  <1>1. Goto(o, Idle) /\ Idle.pc = "idle" /\ Idle.draft = NoInventory
    BY DEF UndoPriv, Idle
  <1>2. /\ KeysInv'
        /\ \A e \in doc.keys : e.status = "active" => token'[e.pair].priv = token[e.pair].priv
    <2>1. CASE UNCHANGED token
      BY <1>t, <1>1, <2>1, KeysStill DEF UndoPriv, Provisioning
    <2>2. ASSUME NEW p \in Pairs, Finds(PrivUnder(op[o].label), p), DestroyPriv(p)
          PROVE  /\ KeysInv'
                 /\ \A e \in doc.keys :
                       e.status = "active" => token'[e.pair].priv = token[e.pair].priv
      <3>1. token[p].label = op[o].label
        BY <2>2 DEF Finds, PrivUnder
      <3>2. \A q \in returned : token'[q].pub = token[q].pub
        BY <1>t, <2>2, PrivDestroyed DEF TypeOK
      <3>3. KeysInv'
        BY <1>t, <1>1, <2>2, <3>2, PrivDestroyed, KeysLost DEF UndoPriv
      <3>4. \A e \in doc.keys : e.status = "active" => e.label # op[o].label
        BY <1>t DEF ActiveInv, Provisioning
      <3>5. \A e \in doc.keys : e.status = "active" => e.pair \in Pairs \ {p}
        BY <1>t, <3>1, <3>4, EntryLabel DEF Before
      <3>6. QED
        BY <1>t, <2>2, <3>3, <3>5, PrivDestroyed
    <2>3. QED
      BY <2>1, <2>2 DEF UndoPriv
  <1>3. ActiveInv'
    BY <1>t, <1>1, <1>2, NoDraft, ActiveStill DEF UndoPriv, Drafting, Provisioning
  <1>4. FilesInv'
    BY <1>t, <1>1, FilesStill DEF UndoPriv, Drafting
  <1>5. QED
    BY <1>2, <1>3, <1>4 DEF OneInv

----------------------------------------------------------------------------
(* retire-signing-key.                                                     *)

\* The label is listed as verify-only, hence by no active entry.
LEMMA RetireStep ==
    ASSUME Before, OneOperator, NEW o \in Operators, NEW L \in Labels, Retire(o, L)
    PROVE  OneInv'
  <1>t. TypeOK /\ KeysInv /\ ActiveInv /\ FilesInv
    BY DEF Before, OneInv
  <1>1. PICK e \in doc.keys :
           /\ RetirableEntry(e, L)
           /\ Goto(o, [Idle EXCEPT !.pc = "retireLoad", !.label = L, !.point = e.point])
    BY DEF Retire
  <1> DEFINE c == [Idle EXCEPT !.pc = "retireLoad", !.label = L, !.point = e.point]
  <1>2. c.pc = "retireLoad" /\ c.label = L /\ c.draft = NoInventory
    BY DEF Idle
  <1>3. Goto(o, c)
    BY <1>1
  <1> HIDE DEF c
  <1>4. KeysInv'
    BY <1>t, <1>2, <1>3, KeysStill DEF Retire, Provisioning
  <1>5. \A f \in doc.keys : f.status = "active" => f.label # L
    BY <1>t, <1>1 DEF ActiveInv, OneEntryEach, RetirableEntry
  <1>6. ActiveInv'
    BY <1>t, <1>2, <1>3, <1>5, NoDraft, ActiveStill DEF Retire, Drafting
  <1>7. FilesInv'
    BY <1>t, <1>2, <1>3, FilesStill DEF Retire, Drafting
  <1>8. QED
    BY <1>4, <1>6, <1>7 DEF OneInv

\* Reading the key changes nothing it relies on.
LEMMA RetireLoadStep ==
    ASSUME Before, OneOperator, NEW o \in Operators, RetireLoad(o)
    PROVE  OneInv'
  <1>t. TypeOK /\ KeysInv /\ ActiveInv /\ FilesInv /\ op[o].pc = "retireLoad"
    BY DEF Before, OneInv, RetireLoad, At
  <1> DEFINE c == [op[o] EXCEPT !.pc = "retireFind"]
  <1>1. c.pc = "retireFind" /\ c.label = op[o].label /\ c.draft = op[o].draft
    BY <1>t DEF TypeOK, Commands
  <1>2. Goto(o, c)
    BY DEF RetireLoad
  <1> HIDE DEF c
  <1>3. KeysInv'
    BY <1>t, <1>1, <1>2, KeysStill DEF RetireLoad, Provisioning
  <1>4. ActiveInv'
    <2>1. OneEntryEach(c.draft.keys)
      BY <1>t, <1>1 DEF ActiveInv
    <2>2. \A e \in doc.keys : e.status = "active" => e.label # c.label
      BY <1>t, <1>1 DEF ActiveInv
    <2>3. QED
      BY <1>t, <1>1, <1>2, <2>1, <2>2, ActiveStill DEF RetireLoad, Drafting
  <1>5. FilesInv'
    BY <1>t, <1>1, <1>2, FilesStill DEF RetireLoad, Drafting
  <1>6. QED
    BY <1>3, <1>4, <1>5 DEF OneInv

\* The two halves found under one label are halves of one pair.
LEMMA RetireFindStep ==
    ASSUME Before, OneOperator, NEW o \in Operators, NEW priv \in Pairs \cup {None},
           NEW pub \in Pairs \cup {None}, RetireFind(o, priv, pub)
    PROVE  OneInv'
  <1>t. TypeOK /\ KeysInv /\ ActiveInv /\ FilesInv /\ op[o].pc = "retireFind"
    BY DEF Before, OneInv, RetireFind, At
  <1> DEFINE c == [op[o] EXCEPT !.pc = "retirePriv", !.priv = priv, !.pub = pub]
  <1>1. /\ c.pc = "retirePriv" /\ c.label = op[o].label /\ c.draft = op[o].draft
        /\ c.priv = priv /\ c.pub = pub
    BY <1>t DEF TypeOK, Commands
  <1>2. Goto(o, c)
    BY DEF RetireFind
  <1> HIDE DEF c
  <1>3. priv # None => token[priv].priv /\ token[priv].label = op[o].label
    BY DEF RetireFind, FindHalf, Finds, PrivUnder
  <1>4. pub # None => pub \in Pairs /\ token[pub].pub /\ token[pub].label = op[o].label
    BY DEF RetireFind, FindHalf, Finds, PubUnder
  <1>5. pub # None /\ token[pub].priv => priv = pub
    BY <1>4 DEF RetireFind, FindHalf, Finds, LabelIsFree, PrivUnder
  <1>6. KeysInv'
    BY <1>t, <1>1, <1>2, <1>3, <1>5, KeysStill DEF RetireFind, Provisioning
  <1>7. ActiveInv'
    <2>1. OneEntryEach(c.draft.keys)
      BY <1>t, <1>1 DEF ActiveInv
    <2>2. \A e \in doc.keys : e.status = "active" => e.label # c.label
      BY <1>t, <1>1 DEF ActiveInv
    <2>3. QED
      BY <1>t, <1>1, <1>2, <2>1, <2>2, ActiveStill DEF RetireFind, Drafting
  <1>8. FilesInv'
    BY <1>t, <1>1, <1>2, FilesStill DEF RetireFind, Drafting
  <1>9. QED
    BY <1>6, <1>7, <1>8 DEF OneInv

\* The private half goes: of a pair that is not active.
LEMMA RetirePrivStep ==
    ASSUME Before, OneOperator, NEW o \in Operators, RetirePriv(o)
    PROVE  OneInv'
  <1>t. TypeOK /\ KeysInv /\ ActiveInv /\ FilesInv /\ op[o].pc = "retirePriv"
    BY DEF Before, OneInv, RetirePriv, At
  <1> DEFINE c == [op[o] EXCEPT !.pc = "retirePub"]
  <1>1. c.pc = "retirePub" /\ c.pub = op[o].pub /\ c.draft = op[o].draft
    BY <1>t DEF TypeOK, Commands
  <1>2. Goto(o, c)
    BY DEF RetirePriv
  <1> HIDE DEF c
  <1>3. /\ op[o].priv # None => op[o].priv \in Pairs /\ token[op[o].priv].label = op[o].label
        /\ op[o].pub # None => op[o].pub \in Pairs
        /\ op[o].pub # None /\ token[op[o].pub].priv => op[o].priv = op[o].pub
    BY <1>t DEF KeysInv, RetireInv, TypeOK, Commands
  <1>4. /\ KeysInv'
        /\ \A e \in doc.keys : e.status = "active" => token'[e.pair].priv = token[e.pair].priv
    <2>1. CASE op[o].priv = None /\ UNCHANGED token
      <3>1. c.pub # None => ~token'[c.pub].priv
        BY <1>1, <1>3, <2>1
      <3>2. KeysInv'
        BY <1>t, <1>1, <1>2, <2>1, <3>1, KeysLost DEF RetirePriv
      <3>3. QED
        BY <2>1, <3>2
    <2>2. CASE op[o].priv # None /\ DestroyPriv(op[o].priv)
      <3> DEFINE p == op[o].priv
      <3>1. p \in Pairs /\ token[p].label = op[o].label /\ DestroyPriv(p)
        BY <1>3, <2>2
      <3>2. c.pub # None => ~token'[c.pub].priv
        BY <1>t, <1>1, <1>3, <3>1, PrivDestroyed
      <3> HIDE DEF p
      <3>3. \A q \in returned : token'[q].pub = token[q].pub
        BY <1>t, <3>1, PrivDestroyed DEF TypeOK
      <3>4. KeysInv'
        BY <1>t, <1>1, <1>2, <3>1, <3>2, <3>3, PrivDestroyed, KeysLost DEF RetirePriv
      <3>5. \A e \in doc.keys : e.status = "active" => e.label # op[o].label
        BY <1>t DEF ActiveInv
      <3>6. \A e \in doc.keys : e.status = "active" => e.pair \in Pairs \ {p}
        BY <1>t, <3>1, <3>5, EntryLabel DEF Before
      <3>7. QED
        BY <1>t, <3>1, <3>4, <3>6, PrivDestroyed
    <2>3. QED
      BY <2>1, <2>2 DEF RetirePriv
  <1>5. ActiveInv'
    <2>1. OneEntryEach(c.draft.keys)
      BY <1>t, <1>1 DEF ActiveInv
    <2>2. QED
      BY <1>t, <1>1, <1>2, <1>4, <2>1, ActiveStill DEF RetirePriv, Drafting, Provisioning
  <1>6. FilesInv'
    BY <1>t, <1>1, <1>2, FilesStill DEF RetirePriv, Drafting
  <1>7. QED
    BY <1>4, <1>5, <1>6 DEF OneInv

\* The public half goes after the private one: no returned key that can sign
\* loses the point it is compared by.
LEMMA RetirePubStep ==
    ASSUME Before, OneOperator, NEW o \in Operators, RetirePub(o)
    PROVE  OneInv'
  <1>t. TypeOK /\ KeysInv /\ ActiveInv /\ FilesInv /\ op[o].pc = "retirePub"
    BY DEF Before, OneInv, RetirePub, At
  <1>1. Goto(o, Idle) /\ Idle.pc = "idle" /\ Idle.draft = NoInventory
    BY DEF RetirePub, Idle
  <1>2. KeysInv' /\ \A e \in doc.keys : token'[e.pair].priv = token[e.pair].priv
    <2>1. CASE UNCHANGED token
      BY <1>t, <1>1, <2>1, KeysStill DEF RetirePub, Provisioning
    <2>2. CASE op[o].pub # None /\ DestroyPub(op[o].pub)
      <3> DEFINE p == op[o].pub
      <3>1. p \in Pairs /\ DestroyPub(p) /\ ~token[p].priv
        BY <1>t, <2>2 DEF TypeOK, Commands, KeysInv, RetireInv
      <3> HIDE DEF p
      <3>2. \A q \in returned : token'[q].priv => token'[q].pub = token[q].pub
        BY <1>t, <3>1, PubDestroyed DEF TypeOK
      <3>3. KeysInv'
        BY <1>t, <1>1, <3>1, <3>2, PubDestroyed, KeysLost DEF RetirePub
      <3>4. QED
        BY <1>t, <3>1, <3>3, PubDestroyed, EntryLabel DEF Before
    <2>3. QED
      BY <2>1, <2>2 DEF RetirePub
  <1>3. ActiveInv'
    BY <1>t, <1>1, <1>2, NoDraft, ActiveStill DEF RetirePub, Drafting, Provisioning
  <1>4. FilesInv'
    BY <1>t, <1>1, FilesStill DEF RetirePub, Drafting
  <1>5. QED
    BY <1>2, <1>3, <1>4 DEF OneInv

----------------------------------------------------------------------------
(* generate-inventory.                                                     *)

\* The document read is the current one and stays so.
LEMMA GenerateInventoryStep ==
    ASSUME Before, OneOperator, NEW o \in Operators, GenerateInventory(o)
    PROVE  OneInv'
  <1>t. TypeOK /\ KeysInv /\ ActiveInv /\ FilesInv
    BY DEF Before, OneInv
  <1> DEFINE c == [Idle EXCEPT !.pc = "read", !.previous = doc]
  <1>1. c.pc = "read" /\ c.previous = doc /\ c.draft = NoInventory
    BY DEF Idle
  <1>2. Goto(o, c)
    BY DEF GenerateInventory
  <1> HIDE DEF c
  <1>3. KeysInv'
    BY <1>t, <1>1, <1>2, KeysStill DEF GenerateInventory, Provisioning
  <1>4. NoInventory.keys = {}
    BY DEF NoInventory
  <1>5. ActiveInv'
    BY <1>t, <1>1, <1>2, <1>4, NoDraft, ActiveStill
       DEF GenerateInventory, ActiveOnToken, Provisioning
  <1>6. FilesInv'
    BY <1>t, <1>1, <1>2, <1>4, FilesStill DEF GenerateInventory, NoneRetired
  <1>7. QED
    BY <1>3, <1>5, <1>6 DEF OneInv

\* A live entry names a pair whose private half is on the token: the two
\* searches for the label found one pair.
LEMMA LiveIsOnToken ==
    ASSUME Before, NEW o \in Operators, NEW L \in Labels, NEW u \in Purposes,
           NEW s \in Statuses,
           NEW e \in IF s = "retired" THEN RetiredEntry(L, u, op[o].previous)
                     ELSE LiveEntry(L, u, s, op[o].previous)
    PROVE  e.label = L /\ (e.status # "retired" => token[e.pair].priv)
  <1>1. CASE s = "retired"
    <2>1. PICK f \in op[o].previous.keys :
             f.label = L /\ e = [f EXCEPT !.purpose = u, !.status = "retired"]
      BY <1>1 DEF RetiredEntry, Listed
    <2>2. f \in Entries
      BY DEF Before, TypeOK, Commands, Inventories
    <2>3. QED
      BY <2>1, <2>2 DEF Entries
  <1>2. CASE s # "retired"
    <2>1. PICK p \in Pairs, q \in Pairs, n \in 0..MaxTime :
             /\ Verify(L, p, q)
             /\ e = [label |-> L, purpose |-> u, point |-> token[p].point,
                     status |-> s, from |-> n, pair |-> p]
      BY <1>2 DEF LiveEntry
    <2>2. /\ token[p].pub /\ token[p].label = L
          /\ token[q].priv /\ token[q].label = L
      BY <2>1 DEF Verify, Load, Finds, PubUnder, PrivUnder
    <2>3. p = q
      BY <2>2 DEF Before, OneInv, KeysInv, LabelInv, LabelNamesOnePair, OnToken
    <2>4. QED
      BY <2>1, <2>2, <2>3
  <1>3. QED
    BY <1>1, <1>2

\* A key some archived document calls retired has no private half, so no
\* later draft lists it as live.
LEMMA ReadEntryStep ==
    ASSUME Before, OneOperator, NEW o \in Operators, NEW L \in Labels,
           NEW u \in Purposes, NEW s \in Statuses, ReadEntry(o, L, u, s)
    PROVE  OneInv'
  <1>t. TypeOK /\ KeysInv /\ ActiveInv /\ FilesInv /\ op[o].pc = "read"
    BY DEF Before, OneInv, ReadEntry, At
  <1>1. PICK e \in IF s = "retired" THEN RetiredEntry(L, u, op[o].previous)
                   ELSE LiveEntry(L, u, s, op[o].previous) :
           Goto(o, [op[o] EXCEPT !.draft.keys = @ \cup {e}])
    BY DEF ReadEntry
  <1> DEFINE c == [op[o] EXCEPT !.draft.keys = @ \cup {e}]
  <1>2. /\ c.pc = "read" /\ c.previous = op[o].previous
        /\ c.draft.keys = op[o].draft.keys \cup {e}
    BY <1>t DEF TypeOK, Commands, Inventories
  <1>3. Goto(o, c)
    BY <1>1
  <1>4. e.label = L /\ (e.status # "retired" => token[e.pair].priv)
    BY <1>1, LiveIsOnToken
  <1> HIDE DEF c
  <1>5. KeysInv'
    BY <1>t, <1>2, <1>3, KeysStill DEF ReadEntry, Provisioning
  <1>6. ActiveInv'
    <2>1. OneEntryEach(c.draft.keys)
      BY <1>t, <1>2, <1>4 DEF ActiveInv, OneEntryEach, ReadEntry, Listed
    <2>2. ActiveOnToken(c.draft.keys)
      BY <1>t, <1>2, <1>4 DEF ActiveInv, ActiveOnToken, Drafting
    <2>3. QED
      BY <1>t, <1>2, <1>3, <2>1, <2>2, ActiveStill DEF ReadEntry, Provisioning
  <1>7. \A d \in archive : NoneRetired(d, c.draft)
    <2>1. \A d \in archive : NoneRetired(d, op[o].draft)
      BY <1>t DEF FilesInv, OrderInv, Drafting
    <2>2. \A d \in archive : \A f \in d.keys : f.status = "retired" => ~token[f.pair].priv
      BY DEF Before, Truthful, AllTrue, True
    <2>3. QED
      BY <1>2, <1>4, <2>1, <2>2 DEF NoneRetired
  <1>8. FilesInv'
    <2>1. c.previous = doc
      BY <1>t, <1>2 DEF FilesInv, VersionInv, Drafting
    <2>2. QED
      BY <1>t, <1>2, <1>3, <1>7, <2>1, FilesStill DEF ReadEntry
  <1>9. QED
    BY <1>5, <1>6, <1>8 DEF OneInv

\* The version follows the current document's, whatever the validity.
LEMMA SealStep ==
    ASSUME Before, OneOperator, NEW o \in Operators, NEW validity \in Validities,
           SealInventory(o, validity)
    PROVE  OneInv'
  <1>t. TypeOK /\ KeysInv /\ ActiveInv /\ FilesInv /\ op[o].pc = "read"
    BY DEF Before, OneInv, SealInventory, At
  <1> DEFINE c == [op[o] EXCEPT !.pc = "sign",
                                !.draft.version = NextVersion(op[o].previous.version),
                                !.draft.until = now + validity]
  <1>1. /\ c.pc = "sign" /\ c.previous = op[o].previous
        /\ c.draft.keys = op[o].draft.keys
        /\ c.draft.version = NextVersion(op[o].previous.version)
    <2> DEFINE v == NextVersion(op[o].previous.version)
    <2> DEFINE w == now + validity
    <2> DEFINE r == op[o]
    <2>1. r \in Commands /\ r.draft \in Inventories
      BY <1>t DEF TypeOK, Commands
    <2>2. c = [r EXCEPT !.pc = "sign", !.draft = [@ EXCEPT !.version = v, !.until = w]]
      OBVIOUS
    <2> HIDE DEF v, w, r, c
    <2>3. /\ c.pc = "sign" /\ c.previous = r.previous
          /\ c.draft = [r.draft EXCEPT !.version = v, !.until = w]
      BY <2>1, <2>2 DEF Commands
    <2>4. c.draft.keys = r.draft.keys /\ c.draft.version = v
      BY <2>1, <2>3 DEF Inventories
    <2>5. QED
      BY <2>3, <2>4 DEF v, r
  <1>2. Goto(o, c)
    BY DEF SealInventory
  <1> HIDE DEF c
  <1>3. KeysInv'
    BY <1>t, <1>1, <1>2, KeysStill DEF SealInventory, Provisioning
  <1>4. ActiveInv'
    <2>1. OneEntryEach(c.draft.keys) /\ ActiveOnToken(c.draft.keys)
      BY <1>t, <1>1 DEF ActiveInv, Drafting
    <2>2. QED
      BY <1>t, <1>1, <1>2, <2>1, ActiveStill DEF SealInventory, Provisioning
  <1>5. FilesInv'
    <2>1. c.previous = doc /\ c.draft.version = doc.version + 1
      BY <1>t, <1>1 DEF FilesInv, VersionInv, Drafting, NextVersion
    <2>2. \A d \in archive : NoneRetired(d, c.draft)
      BY <1>t, <1>1 DEF FilesInv, OrderInv, Drafting, NoneRetired
    <2>3. QED
      BY <1>t, <1>1, <1>2, <2>1, <2>2, FilesStill DEF SealInventory
  <1>6. QED
    BY <1>3, <1>4, <1>5 DEF OneInv

\* Signing changes no document.
LEMMA SignStep ==
    ASSUME Before, OneOperator, NEW o \in Operators, SignInventory(o)
    PROVE  OneInv'
  <1>t. TypeOK /\ KeysInv /\ ActiveInv /\ FilesInv /\ op[o].pc = "sign"
    BY DEF Before, OneInv, SignInventory, At
  <1> DEFINE c == [op[o] EXCEPT !.pc = "writeDoc"]
  <1>1. c.pc = "writeDoc" /\ c.previous = op[o].previous /\ c.draft = op[o].draft
    BY <1>t DEF TypeOK, Commands
  <1>2. Goto(o, c)
    BY DEF SignInventory
  <1> HIDE DEF c
  <1>3. KeysInv'
    BY <1>t, <1>1, <1>2, KeysStill DEF SignInventory, Provisioning
  <1>4. ActiveInv'
    <2>1. OneEntryEach(c.draft.keys) /\ ActiveOnToken(c.draft.keys)
      BY <1>t, <1>1 DEF ActiveInv, Drafting
    <2>2. QED
      BY <1>t, <1>1, <1>2, <2>1, ActiveStill DEF SignInventory, Provisioning
  <1>5. FilesInv'
    <2>1. c.previous = doc /\ c.draft.version = doc.version + 1
      BY <1>t, <1>1 DEF FilesInv, VersionInv, Drafting
    <2>2. \A d \in archive : NoneRetired(d, c.draft)
      BY <1>t, <1>1 DEF FilesInv, OrderInv, Drafting
    <2>3. QED
      BY <1>t, <1>1, <1>2, <2>1, <2>2, FilesStill DEF SignInventory
  <1>6. QED
    BY <1>3, <1>4, <1>5 DEF OneInv

\* The document goes out under a version no signature was made for yet, so
\* it does not verify before its own signature is written.
LEMMA WriteDocumentStep ==
    ASSUME Before, OneOperator, NEW o \in Operators, WriteDocument(o)
    PROVE  OneInv'
  <1>t. TypeOK /\ KeysInv /\ ActiveInv /\ FilesInv /\ op[o].pc = "writeDoc"
    BY DEF Before, OneInv, WriteDocument, At
  <1> DEFINE c == [op[o] EXCEPT !.pc = "writeSig"]
  <1>1. c.pc = "writeSig" /\ c.draft = op[o].draft
    BY <1>t DEF TypeOK, Commands
  <1>2. Goto(o, c) /\ doc' = c.draft
    BY <1>1 DEF WriteDocument
  <1> HIDE DEF c
  <1>3. KeysInv'
    BY <1>t, <1>1, <1>2, KeysStill DEF WriteDocument, Provisioning
  <1>4. ActiveInv'
    <2>1. OneEntryEach(c.draft.keys) /\ ActiveOnToken(c.draft.keys)
      BY <1>t, <1>1 DEF ActiveInv, Drafting
    <2>2. \A e \in doc'.keys : e.status = "active" => token'[e.pair].priv
      BY <1>2, <2>1 DEF WriteDocument, ActiveOnToken
    <2>3. QED
      BY <1>t, <1>1, <1>2, <2>1, <2>2, ActiveGoal DEF Drafting, Provisioning
  <1>5. /\ doc.version \in Nat /\ sig.version \in Nat
        /\ \A d \in archive : d.version \in Nat
    BY <1>t DEF TypeOK, Inventories
  <1>6. doc'.version = doc.version + 1 /\ sig.version <= doc.version
    BY <1>t, <1>1, <1>2 DEF FilesInv, VersionInv
  <1>7. archive' = archive /\ sig' = sig
    BY <1>5, <1>6 DEF WriteDocument, Archived
  <1>8. \A d \in archive : d.version < doc'.version
    BY <1>t, <1>5, <1>6 DEF FilesInv, VersionInv
  <1>9. \A x \in Operators : op'[x] = c
    BY <1>t, <1>2, TheCommand
  <1>10. VersionInv'
    BY <1>1, <1>2, <1>5, <1>6, <1>7, <1>8, <1>9 DEF VersionInv, Drafting
  <1>11. OrderInv'
    <2>1. \A d \in archive : NoneRetired(d, c.draft)
      BY <1>t, <1>1 DEF FilesInv, OrderInv, Drafting
    <2>2. QED
      BY <1>t, <1>1, <1>7, <1>9, <2>1 DEF FilesInv, OrderInv, WriteDocument, NoneRetired
  <1>12. ConsumerInv'
    BY <1>t, <1>7 DEF FilesInv, ConsumerInv, LiveIn, WriteDocument
  <1>13. QED
    BY <1>3, <1>4, <1>10, <1>11, <1>12 DEF OneInv, FilesInv

\* The document that now verifies is the latest, and its retired and live
\* entries are of different pairs.
LEMMA WriteSignatureStep ==
    ASSUME Before, OneOperator, NEW o \in Operators, WriteSignature(o)
    PROVE  OneInv'
  <1>t. TypeOK /\ KeysInv /\ ActiveInv /\ FilesInv /\ op[o].pc = "writeSig"
    BY DEF Before, OneInv, WriteSignature, At
  <1>1. Goto(o, Idle) /\ Idle.pc = "idle" /\ Idle.draft = NoInventory
    BY DEF WriteSignature, Idle
  <1>2. KeysInv'
    BY <1>t, <1>1, KeysStill DEF WriteSignature, Provisioning
  <1>3. ActiveInv'
    BY <1>t, <1>1, NoDraft, ActiveStill DEF WriteSignature, Drafting, Provisioning
  <1>4. op[o].draft = doc /\ \A d \in archive : d.version < doc.version
    BY <1>t DEF FilesInv, VersionInv
  <1>5. sig' = doc /\ doc' = doc /\ archive' = archive \cup {doc}
    BY <1>4 DEF WriteSignature, Archived
  <1>6. doc.version \in Nat /\ \A d \in archive : d.version \in Nat
    BY <1>t, KeysAssumption DEF TypeOK, Inventories
  <1>7. \A x \in Operators : op'[x] = Idle
    BY <1>t, <1>1, TheCommand
  <1>8. VersionInv'
    BY <1>1, <1>4, <1>5, <1>6, <1>7 DEF VersionInv, Drafting
  <1>9. NoneRetired(doc, doc)
    <2> SUFFICES ASSUME NEW e \in doc.keys, NEW f \in doc.keys, e.status = "retired",
                        f.status # "retired", e.pair = f.pair
                 PROVE  FALSE
      BY DEF NoneRetired
    <2>1. e.label = f.label
      BY EntryLabel DEF Before
    <2>2. QED
      BY <1>t, <2>1 DEF ActiveInv, OneEntryEach
  <1>10. \A d \in archive : NoneRetired(d, doc)
    BY <1>t, <1>4 DEF FilesInv, OrderInv
  <1>11. \A d, e \in archive' : d.version <= e.version => NoneRetired(d, e)
    <2>1. \A d, e \in archive : d.version <= e.version => NoneRetired(d, e)
      BY <1>t DEF FilesInv, OrderInv
    <2>2. \A d \in archive : ~(doc.version <= d.version)
      BY <1>4, <1>6
    <2>3. QED
      BY <1>5, <1>9, <1>10, <2>1, <2>2
  <1>12. OrderInv'
    BY <1>1, <1>7, <1>11 DEF OrderInv, Drafting, NoneRetired
  <1>13. ConsumerInv'
    BY <1>t, <1>5 DEF FilesInv, ConsumerInv, LiveIn, WriteSignature
  <1>14. QED
    BY <1>2, <1>3, <1>8, <1>12, <1>13 DEF OneInv, FilesInv

----------------------------------------------------------------------------
(* Stopping, the consumers and the clock.                                  *)

\* A command that stops leaves behind what it has done, which is what the
\* invariant says of an idle operator.
LEMMA StopStep ==
    ASSUME Before, OneOperator, NEW o \in Operators, Stop(o)
    PROVE  OneInv'
  <1>t. TypeOK /\ KeysInv /\ ActiveInv /\ FilesInv
    BY DEF Before, OneInv
  <1>1. Goto(o, Idle) /\ Idle.pc = "idle" /\ Idle.draft = NoInventory
    BY DEF Stop, Idle
  <1>2. KeysInv'
    BY <1>t, <1>1, KeysStill DEF Stop, Provisioning
  <1>3. ActiveInv'
    BY <1>t, <1>1, NoDraft, ActiveStill DEF Stop, Drafting, Provisioning
  <1>4. FilesInv'
    BY <1>t, <1>1, FilesStill DEF Stop, Drafting
  <1>5. QED
    BY <1>2, <1>3, <1>4 DEF OneInv

\* Consumers change neither the token nor a file.
LEMMA KeysApart ==
    ASSUME OneInv, UNCHANGED <<token, doc, op, returned>>
    PROVE  KeysInv' /\ ActiveInv'
  <1>1. LabelInv'
    BY DEF OneInv, KeysInv, LabelInv, LabelNamesOnePair, OnToken, LabelUnused, LabelIsFree,
           PubUnder, PrivUnder
  <1>2. ReturnInv'
    BY DEF OneInv, KeysInv, ReturnInv, ReturnedKeysDiffer, OnToken
  <1>3. RetireInv'
    BY DEF OneInv, KeysInv, RetireInv
  <1>4. ActiveInv'
    BY DEF OneInv, ActiveInv, ActiveOnToken, OneEntryEach
  <1>5. QED
    BY <1>1, <1>2, <1>3, <1>4 DEF KeysInv

\* The rollback check makes the version last rendered the highest one.
LEMMA RenderStep ==
    ASSUME Before, NEW d \in archive, RenderPolicy(d)
    PROVE  OneInv'
  <1>1. KeysInv' /\ ActiveInv'
    BY KeysApart DEF Before, RenderPolicy
  <1>2. VersionInv' /\ OrderInv'
    BY DEF Before, OneInv, FilesInv, VersionInv, OrderInv, NoneRetired, RenderPolicy
  <1>3. /\ rendered = policy.version /\ d.version >= policy.version
        /\ d.version \in Nat /\ policy.version \in Nat
    BY DEF Before, OneInv, FilesInv, ConsumerInv, RenderPolicy, NotARollback, TypeOK,
           Inventories
  <1>4. policy'.version = d.version /\ policy'.keys = VerifiableAt(d, "image", now)
    BY DEF RenderPolicy
  <1>5. rendered' = policy'.version
    BY <1>3, <1>4 DEF RenderPolicy
  <1>6. LiveIn(policy'.keys, d)
    BY <1>4 DEF LiveIn, VerifiableAt, Verifiable
  <1>7. ConsumerInv'
    BY <1>4, <1>5, <1>6 DEF Before, OneInv, FilesInv, ConsumerInv, LiveIn, RenderPolicy
  <1>8. QED
    BY <1>1, <1>2, <1>7 DEF OneInv, FilesInv

\* select-key and the clock change neither the files nor the policy.
LEMMA SelectStep ==
    ASSUME Before, NEW d \in archive, NEW u \in Purposes, NEW b \in BOOLEAN,
           NEW n \in 0..MaxTime, SelectKey(d, u, b, n)
    PROVE  OneInv'
  <1>1. KeysInv' /\ ActiveInv'
    BY KeysApart DEF Before, SelectKey
  <1>2. VersionInv' /\ OrderInv' /\ ConsumerInv'
    BY DEF Before, OneInv, FilesInv, VersionInv, OrderInv, ConsumerInv, LiveIn, NoneRetired,
           SelectKey
  <1>3. QED
    BY <1>1, <1>2 DEF OneInv, FilesInv

LEMMA TickStep ==
    ASSUME Before, Tick
    PROVE  OneInv'
  <1>1. KeysInv' /\ ActiveInv'
    BY KeysApart DEF Before, Tick
  <1>2. VersionInv' /\ OrderInv' /\ ConsumerInv'
    BY DEF Before, OneInv, FilesInv, VersionInv, OrderInv, ConsumerInv, LiveIn, NoneRetired,
           Tick
  <1>3. QED
    BY <1>1, <1>2 DEF OneInv, FilesInv

\* Nothing changes.
LEMMA StutterStep ==
    ASSUME Before, UNCHANGED vars
    PROVE  OneInv'
  <1>1. KeysInv' /\ ActiveInv'
    BY KeysApart DEF Before, vars
  <1>2. FilesInv'
    BY DEF Before, OneInv, FilesInv, VersionInv, OrderInv, NoneRetired, ConsumerInv, LiveIn, vars
  <1>3. QED
    BY <1>1, <1>2 DEF OneInv

----------------------------------------------------------------------------
\* The empty token and no document satisfy the invariant.
LEMMA OneInit == Init => OneInv
  <1> SUFFICES ASSUME Init PROVE OneInv
    OBVIOUS
  <1>1. \A o \in Operators : op[o].pc = "idle" /\ op[o].draft.keys = {}
    BY DEF Init, Idle, NoInventory
  <1>2. \A p \in Pairs : ~token[p].pub /\ ~token[p].priv
    BY DEF Init, NotMade
  <1>3. KeysInv
    BY <1>1, <1>2 DEF Init, KeysInv, LabelInv, LabelNamesOnePair, OnToken, ReturnInv,
                      ReturnedKeysDiffer, RetireInv, Provisioning
  <1>4. ActiveInv
    BY <1>1 DEF Init, NoInventory, ActiveInv, ActiveOnToken, OneEntryEach, Drafting, Provisioning
  <1>5. FilesInv
    BY <1>1 DEF Init, NoInventory, FilesInv, VersionInv, OrderInv, ConsumerInv, Drafting
  <1>6. QED
    BY <1>3, <1>4, <1>5 DEF OneInv

\* Every step of the one operator's commands keeps it.
LEMMA OneCommand ==
    ASSUME Before, OneOperator, NEW o \in Operators, Command(o)
    PROVE  OneInv'
BY ProvisionStep, RetireStep, GenerateStep, ReadBackStep, CompareStep, UndoPubStep,
   UndoPrivStep, GenerateInventoryStep, ReadEntryStep, SealStep, SignStep,
   WriteDocumentStep, WriteSignatureStep, RetireLoadStep, RetireFindStep, RetirePrivStep,
   RetirePubStep, StopStep DEF Command

\* The inductive invariant of the properties that need one operator.
THEOREM OneOperatorInvariance == OneOperator => (Spec => []OneInv)
  <1> SUFFICES ASSUME OneOperator PROVE Spec => []OneInv
    OBVIOUS
  <1>1. TypeOK /\ Shape /\ Truthful /\ OneInv /\ [Next]_vars => OneInv'
    <2> SUFFICES ASSUME Before, [Next]_vars PROVE OneInv'
      BY DEF Before
    <2>1. CASE \E o \in Operators : Command(o)
      BY <2>1, OneCommand
    <2>2. CASE Consume
      BY <2>2, RenderStep, SelectStep DEF Consume
    <2>3. CASE Tick
      BY <2>3, TickStep
    <2>4. CASE UNCHANGED vars
      BY <2>4, StutterStep
    <2>5. QED
      BY <2>1, <2>2, <2>3, <2>4 DEF Next
  <1>2. QED
    BY <1>1, OneInit, Inductive, PTL DEF Spec

\* With one operator, wherever commands fail: the objects under a label are
\* of one generation, so a search by label leads Load, destroyKeyPair and
\* Destroy to the key that is meant.
THEOREM LabelsAreUnambiguous == OneOperator => (Spec => []LabelNamesOnePair)
  <1>1. OneInv => LabelNamesOnePair
    BY DEF OneInv, KeysInv, LabelInv
  <1>2. QED
    BY <1>1, OneOperatorInvariance, PTL

\* With one operator, whatever the token's RNG repeats: two keys handed to
\* the operator that can both sign are different keys (findDuplicatePoint).
THEOREM ProvisionedKeysDiffer == OneOperator => (Spec => []ReturnedKeysDiffer)
  <1>1. OneInv => ReturnedKeysDiffer
    BY DEF OneInv, KeysInv, ReturnInv
  <1>2. QED
    BY <1>1, OneOperatorInvariance, PTL

\* With one operator: the key the current document tells signers to use is on
\* the token; retire-signing-key and an undone provisioning spare it.
THEOREM ActiveKeysSurvive == OneOperator => (Spec => []ActiveIsOnToken)
  <1>1. OneInv => ActiveIsOnToken
    BY DEF OneInv, ActiveInv, ActiveOnToken, ActiveIsOnToken
  <1>2. QED
    BY <1>1, OneOperatorInvariance, PTL

\* With one operator: a policy rendered over one that already knew of a
\* key's retirement does not trust the key.
THEOREM NoRetiredKeyInPolicy == OneOperator => (Spec => []RetiredNeverRendered)
  <1>1. TypeOK /\ OneInv => RetiredNeverRendered
    <2> SUFFICES ASSUME TypeOK, OneInv, NEW d \in archive, NEW e \in d.keys,
                        NEW f \in policy.keys, d.version <= rendered,
                        e.status = "retired", e.pair = f.pair
                 PROVE  FALSE
      BY DEF RetiredNeverRendered
    <2>1. rendered = policy.version
      BY DEF OneInv, FilesInv, ConsumerInv
    <2>2. PICK c \in archive : c.version = policy.version /\ LiveIn(policy.keys, c)
      BY DEF OneInv, FilesInv, ConsumerInv
    <2>3. NoneRetired(d, c)
      BY <2>1, <2>2 DEF OneInv, FilesInv, OrderInv
    <2>4. QED
      BY <2>2, <2>3 DEF NoneRetired, LiveIn
  <1>2. QED
    BY <1>1, OneOperatorInvariance, KeysTypeCorrect, PTL
=============================================================================
