---------------------------- MODULE SigningKeys ----------------------------
(***************************************************************************)
(* The life of the supply-chain signing keys: hsm-pki-keytool generates    *)
(* them on a token (provision-signing-key), lists them in a signed         *)
(* document (generate-inventory) and destroys them (retire-signing-key);   *)
(* generate-image-policy and select-key read the document and decide what  *)
(* is trusted (internal/signingkey, internal/inventory,                    *)
(* cmd/hsm-pki-keytool, ci).                                               *)
(*                                                                         *)
(* Each command is a process that makes one token or file call per step.   *)
(* It may fail or be killed before any of them (Stop), which is also how a *)
(* command ends whose check says no.  Logging in and out brackets the      *)
(* steps and decides only the exit code.  A key pair is the two objects of *)
(* one generation; its identity is a ghost, since the code sees labels     *)
(* (which PKCS#11 does not keep unique) and public points (which a token   *)
(* whose RNG repeats does not keep unique).  A signature is the document   *)
(* it was made over.                                                       *)
(***************************************************************************)
EXTENDS Integers, FiniteSets

CONSTANTS
    Operators,   \* who runs keytool commands
    Labels,      \* versioned CKA_LABELs
    Pairs,       \* the generations of the token, at most this many
    Points,      \* public points the token's RNG may produce
    Purposes,    \* what a key may sign; "image" is one of them
    Validities,  \* -validity of a regeneration, in ticks
    MaxVersion,  \* bound on the documents generated
    MaxTime,     \* bound on the clock
    None         \* no label, no object

ASSUME KeysAssumption ==
    /\ Validities \subseteq Nat \ {0} /\ MaxVersion \in Nat /\ MaxTime \in Nat
    /\ "image" \in Purposes
    /\ None \notin Labels \cup Pairs \cup Points

VARIABLES
    now,       \* the clock
    token,     \* the supply-chain token: the objects of each pair
    doc,       \* key-inventory.json
    sig,       \* key-inventory.json.sig: the document it was made over
    archive,   \* every document that stood beside its own signature
    op,        \* the command each operator is running
    returned,  \* the pairs provision-signing-key handed to an operator
    policy,    \* the rendering of generate-image-policy
    rendered,  \* the highest version it was ever rendered from
    selected   \* what select-key last selected, and from what

vars == <<now, token, doc, sig, archive, op, returned, policy, rendered, selected>>

Statuses == {"active", "verify-only", "retired"}

Entries == [label : Labels, purpose : Purposes, point : Points, status : Statuses,
            from : 0..MaxTime, pair : Pairs]

Inventories == [version : 0..MaxVersion, until : Nat, keys : SUBSET Entries]

\* The file that does not exist yet.
NoInventory == [version |-> 0, until |-> 0, keys |-> {}]

Objects == [label : Labels \cup {None}, point : Points \cup {None},
            protected : BOOLEAN, pub : BOOLEAN, priv : BOOLEAN]

NotMade == [label |-> None, point |-> None, protected |-> FALSE,
            pub |-> FALSE, priv |-> FALSE]

Steps == {"idle", "generate", "load", "compare", "undoPub", "undoPriv",
          "read", "sign", "writeDoc", "writeSig",
          "retireLoad", "retireFind", "retirePriv", "retirePub"}

Commands == [pc : Steps, label : Labels \cup {None}, point : Points \cup {None},
             pub : Pairs \cup {None}, priv : Pairs \cup {None},
             previous : Inventories, draft : Inventories]

Idle == [pc |-> "idle", label |-> None, point |-> None, pub |-> None, priv |-> None,
         previous |-> NoInventory, draft |-> NoInventory]

----------------------------------------------------------------------------
(* Searching the token.                                                    *)

PubUnder(L) == {p \in Pairs : token[p].pub /\ token[p].label = L}
PrivUnder(L) == {p \in Pairs : token[p].priv /\ token[p].label = L}

\* FindKeyByLabel succeeds: exactly one object of the class has the label.
Finds(objects, p) == objects = {p}

LabelIsFree(objects) == objects = {}

\* Load: the public half gives the point, the private half the protection.
Load(L, pub, priv) == Finds(PubUnder(L), pub) /\ Finds(PrivUnder(L), priv)

\* verifyProtection: sensitive and not extractable.
Verify(L, pub, priv) == Load(L, pub, priv) /\ token[priv].protected

NeverDuplicate(L, point) == FALSE

\* findDuplicatePoint: another label's public key is the same point.
Duplicate(L, point) ==
    \E p \in Pairs : token[p].pub /\ token[p].label # L /\ token[p].point = point

----------------------------------------------------------------------------
(* provision-signing-key.                                                  *)

At(o, step) == op[o].pc = step

Goto(o, command) == op' = [op EXCEPT ![o] = command]

PrivLabelUnused(L) == LabelIsFree(PrivUnder(L))

\* A label is taken if either half holds it.
LabelUnused(L) == LabelIsFree(PubUnder(L)) /\ LabelIsFree(PrivUnder(L))

Provision(o, L) ==
    /\ At(o, "idle")
    /\ LabelUnused(L)
    /\ Goto(o, [Idle EXCEPT !.pc = "generate", !.label = L])
    /\ UNCHANGED <<now, token, doc, sig, archive, returned, policy, rendered, selected>>

\* The token may repeat a point and may ignore the protection attributes.
GenerateKeyPair(o, p, point, protected) ==
    /\ At(o, "generate")
    /\ token[p] = NotMade
    /\ token' = [token EXCEPT ![p] = [label |-> op[o].label, point |-> point,
                                      protected |-> protected,
                                      pub |-> TRUE, priv |-> TRUE]]
    /\ Goto(o, [op[o] EXCEPT !.pc = "load"])
    /\ UNCHANGED <<now, doc, sig, archive, returned, policy, rendered, selected>>

\* The key is read back and refused unless the token honoured the template.
ReadBack(o, pub, priv) ==
    /\ At(o, "load")
    /\ Verify(op[o].label, pub, priv)
    /\ Goto(o, [op[o] EXCEPT !.pc = "compare", !.point = token[pub].point, !.pub = pub])
    /\ UNCHANGED <<now, token, doc, sig, archive, returned, policy, rendered, selected>>

\* A new key is returned, and its public half written, whatever the logout
\* says: its label cannot be used again.
HandOver(o) ==
    /\ Goto(o, Idle)
    /\ returned' = returned \cup {op[o].pub}

\* A duplicate is destroyed.
Compare(o) ==
    /\ At(o, "compare")
    /\ IF Duplicate(op[o].label, op[o].point)
       THEN /\ Goto(o, [op[o] EXCEPT !.pc = "undoPub"])
            /\ UNCHANGED returned
       ELSE HandOver(o)
    /\ UNCHANGED <<now, token, doc, sig, archive, policy, rendered, selected>>

DestroyPub(p) == token' = [token EXCEPT ![p].pub = FALSE]
DestroyPriv(p) == token' = [token EXCEPT ![p].priv = FALSE]

\* destroyKeyPair, the public half first; a half that is not there is passed.
UndoPub(o) ==
    /\ At(o, "undoPub")
    /\ \/ LabelIsFree(PubUnder(op[o].label)) /\ UNCHANGED token
       \/ \E p \in Pairs : Finds(PubUnder(op[o].label), p) /\ DestroyPub(p)
    /\ Goto(o, [op[o] EXCEPT !.pc = "undoPriv"])
    /\ UNCHANGED <<now, doc, sig, archive, returned, policy, rendered, selected>>

UndoPriv(o) ==
    /\ At(o, "undoPriv")
    /\ \/ LabelIsFree(PrivUnder(op[o].label)) /\ UNCHANGED token
       \/ \E p \in Pairs : Finds(PrivUnder(op[o].label), p) /\ DestroyPriv(p)
    /\ Goto(o, Idle)
    /\ UNCHANGED <<now, doc, sig, archive, returned, policy, rendered, selected>>

----------------------------------------------------------------------------
(* generate-inventory.                                                     *)

\* -in names the current document; without one the first is generated.
GenerateInventory(o) ==
    /\ At(o, "idle")
    /\ doc.version < MaxVersion
    /\ Goto(o, [Idle EXCEPT !.pc = "read", !.previous = doc])
    /\ UNCHANGED <<now, token, doc, sig, archive, returned, policy, rendered, selected>>

Listed(keys, L) == {e \in keys : e.label = L}

\* valid_from is that of the previous document, for a label it lists.
ValidFrom(L, from, previous) ==
    IF Listed(previous.keys, L) = {} THEN from = now
    ELSE \E f \in Listed(previous.keys, L) : from = f.from

\* A -key spec for a live key: the public half comes off the token.
LiveEntry(L, purpose, status, previous) ==
    {[label |-> L, purpose |-> purpose, point |-> token[pub].point,
      status |-> status, from |-> from, pair |-> pub] :
        pub \in {p \in Pairs : \E priv \in Pairs : Verify(L, p, priv)},
        from \in {t \in 0..MaxTime : ValidFrom(L, t, previous)}}

\* A -key spec for a retired key: its entry comes from the previous document,
\* and its private half must be gone.
RetiredUnchecked(L, purpose, previous) ==
    {[f EXCEPT !.purpose = purpose, !.status = "retired"] : f \in Listed(previous.keys, L)}

RetiredEntry(L, purpose, previous) ==
    {[f EXCEPT !.purpose = purpose, !.status = "retired"] :
        f \in {g \in Listed(previous.keys, L) : LabelIsFree(PrivUnder(L))}}

\* One -key spec.  A label given twice would be refused by Validate.
ReadEntry(o, L, purpose, status) ==
    /\ At(o, "read")
    /\ Listed(op[o].draft.keys, L) = {}
    /\ \E e \in IF status = "retired"
                THEN RetiredEntry(L, purpose, op[o].previous)
                ELSE LiveEntry(L, purpose, status, op[o].previous) :
        Goto(o, [op[o] EXCEPT !.draft.keys = @ \cup {e}])
    /\ UNCHANGED <<now, token, doc, sig, archive, returned, policy, rendered, selected>>

\* No key pair under two labels, retired entries included.
Validate(keys) ==
    /\ keys # {}
    /\ \A e, f \in keys : e.label = f.label \/ e.point = f.point => e = f

\* The version of a regeneration.
NextVersion(v) == v + 1

\* The document is stamped and, by Marshal, validated.
SealInventory(o, validity) ==
    /\ At(o, "read")
    /\ Validate(op[o].draft.keys)
    /\ Goto(o, [op[o] EXCEPT !.pc = "sign",
                             !.draft.version = NextVersion(op[o].previous.version),
                             !.draft.until = now + validity])
    /\ UNCHANGED <<now, token, doc, sig, archive, returned, policy, rendered, selected>>

\* One signature on the offline token; nothing is written if its logout fails.
SignInventory(o) ==
    /\ At(o, "sign")
    /\ Goto(o, [op[o] EXCEPT !.pc = "writeDoc"])
    /\ UNCHANGED <<now, token, doc, sig, archive, returned, policy, rendered, selected>>

\* The documents a consumer can be handed: those that verify.
Archived(d, s) == IF d = s THEN archive \cup {d} ELSE archive

WriteDocument(o) ==
    /\ At(o, "writeDoc")
    /\ doc' = op[o].draft
    /\ archive' = Archived(doc', sig)
    /\ Goto(o, [op[o] EXCEPT !.pc = "writeSig"])
    /\ UNCHANGED <<now, token, sig, returned, policy, rendered, selected>>

WriteSignature(o) ==
    /\ At(o, "writeSig")
    /\ sig' = op[o].draft
    /\ archive' = Archived(doc, sig')
    /\ Goto(o, Idle)
    /\ UNCHANGED <<now, token, doc, returned, policy, rendered, selected>>

----------------------------------------------------------------------------
(* retire-signing-key.                                                     *)

LiveEntryRetirable(e, L) == e.label = L /\ e.status # "retired"

\* The document must list the label as verify-only.
RetirableEntry(e, L) == e.label = L /\ e.status = "verify-only"

Retire(o, L) ==
    /\ At(o, "idle")
    /\ \E e \in doc.keys :
        /\ RetirableEntry(e, L)
        /\ Goto(o, [Idle EXCEPT !.pc = "retireLoad", !.label = L, !.point = e.point])
    /\ UNCHANGED <<now, token, doc, sig, archive, returned, policy, rendered, selected>>

\* Load, not Verify; and what is on the token must be what is listed.
RetireLoad(o) ==
    /\ At(o, "retireLoad")
    /\ \E pub, priv \in Pairs :
        Load(op[o].label, pub, priv) /\ token[pub].point = op[o].point
    /\ Goto(o, [op[o] EXCEPT !.pc = "retireFind"])
    /\ UNCHANGED <<now, token, doc, sig, archive, returned, policy, rendered, selected>>

\* Destroy finds both halves before it destroys either; one may be missing.
FindHalf(objects, h) == Finds(objects, h) \/ (LabelIsFree(objects) /\ h = None)

RetireFind(o, priv, pub) ==
    /\ At(o, "retireFind")
    /\ FindHalf(PrivUnder(op[o].label), priv)
    /\ FindHalf(PubUnder(op[o].label), pub)
    /\ priv # None \/ pub # None
    /\ Goto(o, [op[o] EXCEPT !.pc = "retirePriv", !.priv = priv, !.pub = pub])
    /\ UNCHANGED <<now, token, doc, sig, archive, returned, policy, rendered, selected>>

\* The private half goes first.  A handle whose object is gone is an error.
RetirePriv(o) ==
    /\ At(o, "retirePriv")
    /\ \/ op[o].priv = None /\ UNCHANGED token
       \/ op[o].priv # None /\ token[op[o].priv].priv /\ DestroyPriv(op[o].priv)
    /\ Goto(o, [op[o] EXCEPT !.pc = "retirePub"])
    /\ UNCHANGED <<now, doc, sig, archive, returned, policy, rendered, selected>>

RetirePub(o) ==
    /\ At(o, "retirePub")
    /\ \/ op[o].pub = None /\ UNCHANGED token
       \/ op[o].pub # None /\ token[op[o].pub].pub /\ DestroyPub(op[o].pub)
    /\ Goto(o, Idle)
    /\ UNCHANGED <<now, doc, sig, archive, returned, policy, rendered, selected>>

\* A call fails, a check refuses or the process is killed.
Stop(o) ==
    /\ ~At(o, "idle")
    /\ Goto(o, Idle)
    /\ UNCHANGED <<now, token, doc, sig, archive, returned, policy, rendered, selected>>

----------------------------------------------------------------------------
(* The consumers of the document.                                          *)

\* checkFresh, at the instant t.
Fresh(d, t) == t <= d.until

\* What verifiers and signers may use; valid_from must be reached.
Verifiable(d, purpose) == {e \in d.keys : e.purpose = purpose /\ e.status # "retired"}
Active(d, purpose) == {e \in d.keys : e.purpose = purpose /\ e.status = "active"}

VerifiableAt(d, purpose, t) == {e \in Verifiable(d, purpose) : e.from <= t}
ActiveAt(d, purpose, t) == {e \in Active(d, purpose) : e.from <= t}

AnyVersion(d) == TRUE

\* The floor is the version in the header of the file being replaced.
NotARollback(d) == d.version >= policy.version

\* generate-image-policy -out: signature, expiry, rollback, nothing to trust.
RenderPolicy(d) ==
    /\ d \in archive /\ Fresh(d, now) /\ NotARollback(d)
    /\ VerifiableAt(d, "image", now) # {}
    /\ policy' = [version |-> d.version, keys |-> VerifiableAt(d, "image", now)]
    /\ rendered' = IF d.version > rendered THEN d.version ELSE rendered
    /\ UNCHANGED <<now, token, doc, sig, archive, op, returned, selected>>

\* select-key, after its caller checked the signature, for now or for the
\* instant -at names.
SelectKey(d, purpose, activeOnly, t) ==
    LET chosen == IF activeOnly THEN ActiveAt(d, purpose, t) ELSE VerifiableAt(d, purpose, t) IN
    /\ d \in archive /\ Fresh(d, t)
    /\ chosen # {}
    /\ selected' = [version |-> d.version, keys |-> chosen]
    /\ UNCHANGED <<now, token, doc, sig, archive, op, returned, policy, rendered>>

Tick ==
    /\ now < MaxTime
    /\ now' = now + 1
    /\ UNCHANGED <<token, doc, sig, archive, op, returned, policy, rendered, selected>>

----------------------------------------------------------------------------
Init ==
    /\ now = 0
    /\ token = [p \in Pairs |-> NotMade]
    /\ doc = NoInventory /\ sig = NoInventory /\ archive = {}
    /\ op = [o \in Operators |-> Idle]
    /\ returned = {}
    /\ policy = [version |-> 0, keys |-> {}] /\ rendered = 0
    /\ selected = [version |-> 0, keys |-> {}]

Command(o) ==
    \/ \E L \in Labels : Provision(o, L) \/ Retire(o, L)
    \/ \E p \in Pairs, point \in Points, protected \in BOOLEAN :
        GenerateKeyPair(o, p, point, protected)
    \/ \E pub, priv \in Pairs : ReadBack(o, pub, priv)
    \/ Compare(o) \/ UndoPub(o) \/ UndoPriv(o)
    \/ GenerateInventory(o)
    \/ \E L \in Labels, purpose \in Purposes, status \in Statuses :
        ReadEntry(o, L, purpose, status)
    \/ \E validity \in Validities : SealInventory(o, validity)
    \/ SignInventory(o) \/ WriteDocument(o) \/ WriteSignature(o)
    \/ RetireLoad(o)
    \/ \E priv, pub \in Pairs \cup {None} : RetireFind(o, priv, pub)
    \/ RetirePriv(o) \/ RetirePub(o)
    \/ Stop(o)

Consume ==
    \E d \in archive :
        \/ RenderPolicy(d)
        \/ \E purpose \in Purposes, activeOnly \in BOOLEAN, t \in 0..MaxTime :
              SelectKey(d, purpose, activeOnly, t)

Next == (\E o \in Operators : Command(o)) \/ Consume \/ Tick

Spec == Init /\ [][Next]_vars

----------------------------------------------------------------------------
(* Properties.                                                             *)

\* Every variable keeps its type; versions stay within the generations run.
TypeOK ==
    /\ now \in 0..MaxTime
    /\ token \in [Pairs -> Objects]
    /\ doc \in Inventories /\ sig \in Inventories /\ archive \subseteq Inventories
    /\ op \in [Operators -> Commands]
    /\ returned \subseteq Pairs
    /\ policy \in [version : 0..MaxVersion, keys : SUBSET Entries]
    /\ rendered \in 0..MaxVersion
    /\ selected \in [version : 0..MaxVersion, keys : SUBSET Entries]

\* With one operator, whatever command stops half way: all the objects under
\* a label belong to one generation, so a label leads Load, destroyKeyPair
\* and Destroy to the key the operator means (LabelIsFree on both classes).
OnToken(p) == token[p].pub \/ token[p].priv
LabelNamesOnePair ==
    \A p, q \in Pairs :
        OnToken(p) /\ OnToken(q) /\ token[p].label = token[q].label => p = q

\* Two keys provision-signing-key returned, both still able to sign, are two
\* keys even when the token's RNG repeats itself (findDuplicatePoint, and
\* Destroy taking the private half first).
ReturnedKeysDiffer ==
    \A p, q \in returned :
        token[p].priv /\ token[q].priv /\ token[p].point = token[q].point => p = q

\* A document that verifies and lists a key as retired tells the truth: the
\* private half of the pair it listed is not on the token, now or later.
RetiredIsGone ==
    \A d \in archive : \A e \in d.keys : e.status = "retired" => ~token[e.pair].priv

\* With one operator: the key the current document tells signers to use is
\* on the token; neither a retirement nor the undoing of a provisioning
\* takes it away (retirableEntry refuses an active key).
ActiveIsOnToken ==
    \A e \in doc.keys : e.status = "active" => token[e.pair].priv

\* With one operator: once a policy was rendered from a document that retired
\* a pair, or a later one, no rendering over it trusts that pair again (the
\* rollback check, and live entries being read off the token).
RetiredNeverRendered ==
    \A d \in archive : \A e \in d.keys, f \in policy.keys :
        d.version <= rendered /\ e.status = "retired" => e.pair # f.pair

\* "Version is monotonic so a rollback is detectable.  Consumers enforce
\* both": select-key, having acted on a document, acts on no older one.
SelectRefusesRollback ==
    [][selected' # selected => selected'.version >= selected.version]_vars
=============================================================================
