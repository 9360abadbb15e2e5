------------------------------ MODULE CertStore ------------------------------
(***************************************************************************)
(* The durable store of internal/store: one row per issued certificate and *)
(* the single CRL counter row.  Every operation is one SQLite transaction  *)
(* on a pool of one connection, so each operator below is one atomic step. *)
(*                                                                         *)
(* The operators constrain only the variable the operation writes; the     *)
(* module that composes the store with its callers says what else is left  *)
(* unchanged.  A failed operation (I/O error, cancelled request context)   *)
(* rolls back, and is a disjunct of the caller's step that leaves the      *)
(* store alone.                                                            *)
(***************************************************************************)
EXTENDS Integers, FiniteSets

CONSTANTS
    Serials,          \* serial numbers GenerateSerial may draw
    Reasons,          \* reason codes a revoke request may carry
    MillisPerTick,    \* milliseconds of wall clock in one tick of now
    CRLNumberFloor,   \* ca.crl_number_floor; 0 when unset
    MaxTime,          \* bound: the clock stops here
    MaxNumber         \* bound: no CRL number above this one is handed out

ASSUME StoreAssumption ==
    /\ Reasons \subseteq Nat
    /\ MillisPerTick \in Nat
    /\ CRLNumberFloor \in Nat
    /\ MaxTime \in Nat
    /\ MaxNumber \in Nat

VARIABLES
    now,          \* the wall clock, in ticks
    records,      \* the certificates table
    crlCounter    \* crl_counter.number; 0 when the row does not exist

storeVars == <<now, records, crlCounter>>

-----------------------------------------------------------------------------
(* A row.  "absent" stands for a serial with no row at all.                *)
Status == {"absent", "valid", "revoked"}
CertRecord == [status : Status, at : Nat, reason : Nat]

Absent == [status |-> "absent", at |-> 0, reason |-> 0]
ValidRecord == [status |-> "valid", at |-> 0, reason |-> 0]

(* RevocationReason.Valid: 7 is unassigned and 8 (removeFromCRL) belongs   *)
(* to delta CRLs.                                                          *)
ValidReason(r) == r \in (0..6) \cup {9, 10}

(* What Revoked returns, as the entries BuildCRL makes of it.              *)
Entry == [serial : Serials, at : Nat, reason : Nat]
RevokedEntries ==
    {[serial |-> s, at |-> records[s].at, reason |-> records[s].reason] :
        s \in {u \in Serials : records[u].status = "revoked"}}

-----------------------------------------------------------------------------
StoreTypeOK ==
    /\ now \in Nat
    /\ records \in [Serials -> CertRecord]
    /\ crlCounter \in Nat

StoreInit ==
    /\ now = 0
    /\ records = [s \in Serials |-> Absent]
    /\ crlCounter = 0

(* An upsert in place of the plain INSERT.                                 *)
RecordUpsert(s) == records' = [records EXCEPT ![s] = ValidRecord]

(* A plain INSERT.  The primary key refuses a serial that has a row.       *)
Record(s) ==
    /\ records[s].status = "absent"
    /\ records' = [records EXCEPT ![s] = ValidRecord]

(* The status check of the transaction left out.                           *)
RevokeOverwrites(s, reason, at) ==
    /\ ValidReason(reason)
    /\ records[s].status # "absent"
    /\ records' = [records EXCEPT ![s] =
                      [status |-> "revoked", at |-> at, reason |-> reason]]

(* Read and write in one transaction; an already revoked certificate keeps *)
(* its original time and reason.                                           *)
Revoke(s, reason, at) ==
    /\ ValidReason(reason)
    /\ records[s].status # "absent"
    /\ records' = IF records[s].status = "revoked"
                    THEN records
                    ELSE [records EXCEPT ![s] =
                             [status |-> "revoked", at |-> at, reason |-> reason]]

(* seedCRLNumber, raised to the configured floor.                          *)
SeedCRLNumber(t) ==
    LET ms == IF t * MillisPerTick < 1 THEN 1 ELSE t * MillisPerTick
    IN  IF CRLNumberFloor > ms THEN CRLNumberFloor ELSE ms

(* The number NextCRLNumber returns, and persists before it returns.       *)
NextNumber == IF crlCounter = 0 THEN SeedCRLNumber(now) ELSE crlCounter + 1

(* The increment kept in memory and never written.                         *)
NextCRLNumberUnwritten ==
    /\ NextNumber <= MaxNumber
    /\ UNCHANGED crlCounter

NextCRLNumber ==
    /\ NextNumber <= MaxNumber
    /\ crlCounter' = NextNumber
=============================================================================
