-------------------------- MODULE RevocationLedger --------------------------
(***************************************************************************)
(* What the CA promises its relying parties about revocation, whatever     *)
(* caches, locks and restarts lie between: a set of revocations that only  *)
(* grows and never changes an entry, and CRLs whose numbers increase and   *)
(* whose contents never lose an entry (RFC 5280 5.2.3, as the comments on  *)
(* Store.Revoke and Store.NextCRLNumber state it).                         *)
(***************************************************************************)
EXTENDS Integers

CONSTANT Serials

VARIABLES
    revoked,     \* entries [serial, at, reason]
    published    \* CRLs [number, entries]

Init ==
    /\ revoked = {}
    /\ published = {}

(* One serial enters the ledger, once.                                     *)
Enter(s, at, reason) ==
    /\ \A e \in revoked : e.serial # s
    /\ revoked' = revoked \cup {[serial |-> s, at |-> at, reason |-> reason]}
    /\ UNCHANGED published

(* A CRL above every earlier one, in number and in content.                *)
Publish(l) ==
    /\ l.entries \subseteq revoked
    /\ \A p \in published : /\ p.number < l.number
                            /\ p.entries \subseteq l.entries
    /\ published' = published \cup {l}
    /\ UNCHANGED revoked

Next ==
    \/ \E s \in Serials : \E e \in revoked' :
          e.serial = s /\ Enter(s, e.at, e.reason)
    \/ \E l \in published' : Publish(l)

Spec == Init /\ [][Next]_<<revoked, published>>
=============================================================================
