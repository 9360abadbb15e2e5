------------------------------ MODULE CAServer ------------------------------
(***************************************************************************)
(* The CA service of internal/api over its store and its OCSP responder:   *)
(* issuance, revocation and the CRL, requests interleaved step by step,    *)
(* and a process that may crash between any two steps and start again on   *)
(* the same store.                                                         *)
(*                                                                         *)
(* server.crlMu is held across the store calls and the token signature of  *)
(* currentCRL, so its holder is a variable.                                *)
(***************************************************************************)
EXTENDS Responder

CONSTANTS
    CRLClients,     \* GET /crl requests the server may be answering at once
    Writers,        \* POST requests the server may be answering at once
    CRLValidity,    \* Config.CRLValidity
    LeafTTL,        \* validity of the profiles the API issues under
    KeytoolFailures \* bound: certificates keytool writes without a row

ASSUME ServerAssumption ==
    /\ CRLValidity \in Nat \ {0}
    /\ LeafTTL \in Nat
    /\ KeytoolFailures \in Nat
    /\ None \notin CRLClients

VARIABLES
    up,                \* the process is running
    crlMu,             \* the GET /crl request holding server.crlMu, or None
    cachedCRL,         \* server.cachedCRL
    cachedNextUpdate,  \* server.cachedNextUpdate
    crl,               \* the state of each GET /crl request
    writer,            \* the state of each POST request
    \* history, read by properties only
    ackedAt,           \* when a revocation was first answered 204; -1 before
    held,              \* serials of the certificates handed to somebody
    unrecorded,        \* of those, the ones keytool wrote without a row
    signed,            \* every CRL signed
    raced              \* serials with a lookup in flight at their Invalidate

serverVars == <<up, crlMu, cachedCRL, cachedNextUpdate, crl, writer>>
history == <<ackedAt, held, unrecorded, signed, raced>>
vars == <<storeVars, responderVars, serverVars, history>>

-----------------------------------------------------------------------------
(* A CRL; numbers are positive, so NoCRL is the nil cachedCRL.             *)
CRL == [number : Nat, entries : SUBSET Entry, next : Nat]
NoCRL == [number |-> 0, entries |-> {}, next |-> 0]
SerialsOf(c) == {e.serial : e \in c.entries}

Acked == {s \in Serials : ackedAt[s] >= 0}

(* got, until: the CRL answered (NoCRL after an error) and the end of the  *)
(* lifetime its Cache-Control gives it (0 for max-age=0).  acked: those    *)
(* revoked with an answer before the request arrived (for properties).     *)
CRLRequest ==
    [pc : {"idle", "lock", "list", "number", "sign", "header"}, t : Nat,
     entries : SUBSET Entry, number : Nat, got : CRL, until : Nat,
     acked : SUBSET Serials]
IdleCRL ==
    [pc |-> "idle", t |-> 0, entries |-> {}, number |-> 0, got |-> NoCRL,
     until |-> 0, acked |-> {}]

(* client: the serial of the TLS client certificate.  serial: the one to   *)
(* revoke, or the one Issue drew.  withdrawn: the client certificate's     *)
(* revocation had been answered when the request arrived (read by          *)
(* properties only).                                                       *)
WriterState ==
    {"idle", "auth", "revoke", "dropCRL", "dropOCSP", "issue", "record"}
WriteRequest ==
    [pc : WriterState, client : Serials \cup {None},
     serial : Serials \cup {None}, t : Nat, withdrawn : BOOLEAN]
IdleWriter ==
    [pc |-> "idle", client |-> None, serial |-> None, t |-> 0, withdrawn |-> FALSE]

(* The values every variable takes.                                        *)
TypeOK ==
    /\ StoreTypeOK
    /\ ResponderTypeOK
    /\ up \in BOOLEAN
    /\ crlMu \in CRLClients \cup {None}
    /\ cachedCRL \in CRL
    /\ cachedNextUpdate \in Nat
    /\ crl \in [CRLClients -> CRLRequest]
    /\ writer \in [Writers -> WriteRequest]
    /\ \A w \in Writers :
          /\ writer[w].pc = "auth" => writer[w].client # None
          /\ writer[w].pc \in {"revoke", "dropCRL", "dropOCSP", "record"}
             => writer[w].serial # None
    /\ ackedAt \in [Serials -> Nat \cup {-1}]
    /\ held \subseteq Serials
    /\ unrecorded \subseteq Serials
    /\ signed \subseteq CRL
    /\ raced \subseteq Serials

Init ==
    /\ StoreInit
    /\ ResponderInit
    /\ up = FALSE
    /\ crlMu = None
    /\ cachedCRL = NoCRL
    /\ cachedNextUpdate = 0
    /\ crl = [c \in CRLClients |-> IdleCRL]
    /\ writer = [w \in Writers |-> IdleWriter]
    /\ ackedAt = [s \in Serials |-> -1]
    /\ held = {}
    /\ unrecorded = {}
    /\ signed = {}
    /\ raced = {}

-----------------------------------------------------------------------------
(* GET /crl                                                                *)

CRLArrive(c) ==
    /\ up
    /\ crl[c].pc = "idle"
    /\ crl' = [crl EXCEPT ![c] = [IdleCRL EXCEPT !.pc = "lock", !.acked = Acked]]
    /\ UNCHANGED <<storeVars, responderVars, up, crlMu, cachedCRL,
                   cachedNextUpdate, writer, history>>

(* currentCRL without the lock.                                            *)
LockIgnored == TRUE

LockFree == crlMu = None

CacheFresh == cachedCRL # NoCRL /\ now < cachedNextUpdate

(* The top of currentCRL: the lock, then the cache.                        *)
CRLLock(c) ==
    /\ crl[c].pc = "lock"
    /\ LockFree
    /\ \/ /\ CacheFresh
          /\ crl' = [crl EXCEPT ![c].pc = "header", ![c].got = cachedCRL]
          /\ UNCHANGED crlMu
       \/ /\ ~CacheFresh
          /\ crl' = [crl EXCEPT ![c].pc = "list", ![c].t = now]
          /\ crlMu' = c
    /\ UNCHANGED <<storeVars, responderVars, up, cachedCRL, cachedNextUpdate,
                   writer, history>>

(* The error path with the lock kept.                                      *)
CRLFailKeepsLock(c) ==
    /\ crl' = [crl EXCEPT ![c] = IdleCRL]
    /\ UNCHANGED <<storeVars, crlMu>>

(* An error out of currentCRL: the deferred Unlock runs, the client gets a *)
(* 500.                                                                    *)
CRLFail(c) ==
    /\ crl' = [crl EXCEPT ![c] = IdleCRL]
    /\ crlMu' = None
    /\ UNCHANGED storeVars

CRLList(c) ==
    /\ crl[c].pc = "list"
    /\ \/ CRLFail(c)
       \/ /\ crl' = [crl EXCEPT ![c].pc = "number", ![c].entries = RevokedEntries]
          /\ UNCHANGED <<storeVars, crlMu>>
    /\ UNCHANGED <<responderVars, up, cachedCRL, cachedNextUpdate, writer, history>>

CRLNumber(c) ==
    /\ crl[c].pc = "number"
    /\ \/ CRLFail(c)
       \/ /\ NextCRLNumber
          /\ crl' = [crl EXCEPT ![c].pc = "sign", ![c].number = NextNumber]
          /\ UNCHANGED <<now, records, crlMu>>
    /\ UNCHANGED <<responderVars, up, cachedCRL, cachedNextUpdate, writer, history>>

(* nextUpdate, clamped to the issuer's NotAfter.                           *)
CRLNextUpdate(t) ==
    IF t + CRLValidity > IssuerNotAfter THEN IssuerNotAfter ELSE t + CRLValidity

(* BuildCRL refuses an empty window or fails to sign; the number is spent. *)
(* Otherwise the CRL is cached and the lock released.                      *)
CRLSign(c) ==
    LET next == CRLNextUpdate(crl[c].t)
        new  == [number |-> crl[c].number, entries |-> crl[c].entries, next |-> next]
    IN  /\ crl[c].pc = "sign"
        /\ \/ /\ CRLFail(c)
              /\ UNCHANGED <<cachedCRL, cachedNextUpdate, signed>>
           \/ /\ next > crl[c].t - ClockSkew
              /\ signed' = signed \cup {new}
              /\ cachedCRL' = new
              /\ cachedNextUpdate' = next
              /\ crl' = [crl EXCEPT ![c] = [IdleCRL EXCEPT !.pc = "header",
                                             !.got = new, !.acked = crl[c].acked]]
              /\ crlMu' = None
              /\ UNCHANGED storeVars
        /\ UNCHANGED <<responderVars, up, writer, ackedAt, held, unrecorded, raced>>

(* max-age from the configured validity.                                   *)
CRLHeaderFullValidity(c) ==
    /\ crl[c].pc = "header"
    /\ LockFree
    /\ crl' = [crl EXCEPT ![c].pc = "idle", ![c].until = now + CRLValidity]
    /\ UNCHANGED <<storeVars, responderVars, up, crlMu, cachedCRL,
                   cachedNextUpdate, writer, history>>

(* crlNextUpdate takes the lock a second time; max-age lasts until what it *)
(* reads, or is 0 when that has passed.                                    *)
CRLHeader(c) ==
    /\ crl[c].pc = "header"
    /\ LockFree
    /\ crl' = [crl EXCEPT ![c].pc = "idle",
                  ![c].until = IF cachedNextUpdate < now THEN 0 ELSE cachedNextUpdate]
    /\ UNCHANGED <<storeVars, responderVars, up, crlMu, cachedCRL,
                   cachedNextUpdate, writer, history>>

CRLStep(c) ==
    CRLLock(c) \/ CRLList(c) \/ CRLNumber(c) \/ CRLSign(c) \/ CRLHeader(c)

-----------------------------------------------------------------------------
(* POST /certificates and POST /certificates/{serial}/revoke               *)

writeRest == <<responderVars, up, crlMu, cachedCRL, cachedNextUpdate, crl>>

(* Somebody holding a certificate of this CA opens a TLS connection.       *)
WriteArrive(w, client, s) ==
    /\ up
    /\ writer[w].pc = "idle"
    /\ client \in held
    /\ writer' = [writer EXCEPT ![w] =
                    [IdleWriter EXCEPT !.pc = "auth", !.client = client,
                                       !.serial = s, !.withdrawn = client \in Acked]]
    /\ UNCHANGED <<storeVars, writeRest, history>>

WriteFail(w) == writer' = [writer EXCEPT ![w] = IdleWriter]

(* authenticate without the check on the record's status.                  *)
ClientRecorded(w) == records[writer[w].client].status # "absent"

ClientValid(w) == records[writer[w].client].status = "valid"

(* The issuance route bound to handleRevoke.                               *)
RoutedToRevoke(w) == TRUE

(* A serial in the path: the request is for handleRevoke.                  *)
ForRevocation(w) == writer[w].serial # None

(* authenticate and the refusals before the handler touches shared state:  *)
(* the identity lists, the entitlement, the body.  The clock handleRevoke  *)
(* passes to Revoke is read here; nothing shared happens in between.       *)
RequireClient(w) ==
    /\ writer[w].pc = "auth"
    /\ \/ WriteFail(w)
       \/ /\ ClientValid(w)
          /\ ~ForRevocation(w)
          /\ writer' = [writer EXCEPT ![w].pc = "issue", ![w].client = None]
       \/ /\ ClientValid(w)
          /\ ForRevocation(w)
          /\ writer' = [writer EXCEPT ![w].pc = "revoke", ![w].client = None,
                                      ![w].t = now]
    /\ UNCHANGED <<storeVars, writeRest, history>>

(* store.Revoke: unknown serial, bad reason and store failure answer an    *)
(* error.                                                                  *)
RevokeCommit(w, reason) ==
    /\ writer[w].pc = "revoke"
    /\ \/ /\ WriteFail(w)
          /\ UNCHANGED records
       \/ /\ Revoke(writer[w].serial, reason, writer[w].t)
          /\ writer' = [writer EXCEPT ![w].pc = "dropCRL", ![w].t = 0]
    /\ UNCHANGED <<now, crlCounter, writeRest, history>>

(* invalidateCRLCache without the lock.                                    *)
DropCRLUnlocked(w) ==
    /\ writer[w].pc = "dropCRL"
    /\ cachedCRL' = NoCRL
    /\ writer' = [writer EXCEPT ![w].pc = "dropOCSP"]
    /\ UNCHANGED <<storeVars, responderVars, up, crlMu, cachedNextUpdate, crl, history>>

(* invalidateCRLCache.                                                     *)
DropCRL(w) ==
    /\ writer[w].pc = "dropCRL"
    /\ crlMu = None
    /\ cachedCRL' = NoCRL
    /\ writer' = [writer EXCEPT ![w].pc = "dropOCSP"]
    /\ UNCHANGED <<storeVars, responderVars, up, crlMu, cachedNextUpdate, crl, history>>

(* Lookups that have read the row of s as valid and not inserted yet.      *)
InFlight(s) ==
    \E o \in OCSPClients : /\ ocsp[o].pc \in {"sign", "insert"}
                           /\ ocsp[o].serial = s
                           /\ ocsp[o].rec.status = "valid"

(* responder.Invalidate, and the 204.                                      *)
DropOCSP(w) ==
    LET s == writer[w].serial IN
    /\ writer[w].pc = "dropOCSP"
    /\ IF ResponderEnabled THEN Invalidate ELSE UNCHANGED responderVars
    /\ ackedAt' = [ackedAt EXCEPT ![s] = IF @ = -1 THEN now ELSE @]
    /\ raced' = IF InFlight(s) THEN raced \cup {s} ELSE raced
    /\ writer' = [writer EXCEPT ![w] = IdleWriter]
    /\ UNCHANGED <<storeVars, up, crlMu, cachedCRL, cachedNextUpdate, crl, held,
                   unrecorded, signed>>

(* CA.Issue signs a leaf under a serial drawn at random.                   *)
IssueSign(w, s) ==
    /\ writer[w].pc = "issue"
    /\ \/ WriteFail(w)
       \/ /\ IssuerCanCover(now, LeafTTL)
          /\ writer' = [writer EXCEPT ![w].pc = "record", ![w].serial = s]
    /\ UNCHANGED <<storeVars, writeRest, history>>

(* The certificate handed over although Record failed.                     *)
IssueRecordUnchecked(w) ==
    /\ writer[w].pc = "record"
    /\ held' = held \cup {writer[w].serial}
    /\ WriteFail(w)
    /\ UNCHANGED <<storeVars, writeRest, ackedAt, unrecorded, signed, raced>>

(* store.Record before the certificate is returned; a failed write fails   *)
(* the request and the certificate is never handed over.                   *)
IssueRecord(w) ==
    /\ writer[w].pc = "record"
    /\ \/ UNCHANGED <<records, held>>
       \/ /\ Record(writer[w].serial)
          /\ held' = held \cup {writer[w].serial}
    /\ WriteFail(w)
    /\ UNCHANGED <<now, crlCounter, writeRest, ackedAt, unrecorded, signed, raced>>

WriteStep(w) ==
    \/ RequireClient(w)
    \/ \E reason \in Reasons : RevokeCommit(w, reason)
    \/ DropCRL(w)
    \/ DropOCSP(w)
    \/ \E s \in Serials : IssueSign(w, s)
    \/ IssueRecord(w)

-----------------------------------------------------------------------------
(* The process                                                             *)

(* run: the store is opened and, when a responder is configured, its first *)
(* certificate is issued and recorded before anything listens.  A start    *)
(* that fails after Record leaves the row behind.                          *)
Start(s) ==
    /\ ~up
    /\ IF ResponderEnabled
         THEN /\ IssuerCanCover(now, ResponderTTL)
              /\ Record(s)
              /\ \/ /\ up' = TRUE
                    /\ cert' = ResponderCert(s, now)
                 \/ UNCHANGED <<up, cert>>
         ELSE /\ up' = TRUE
              /\ UNCHANGED <<records, cert>>
    /\ UNCHANGED <<now, crlCounter, cache, ocsp, renewal, crlMu, cachedCRL,
                   cachedNextUpdate, crl, writer, history>>

(* run returns an error before it served anything or wrote a row.          *)
StartFails ==
    /\ ~up
    /\ UNCHANGED vars

(* The process stops: everything but the store is gone.                    *)
Crash ==
    /\ up
    /\ up' = FALSE
    /\ cert' = NoCert
    /\ cache' = EmptyCache
    /\ ocsp' = [o \in OCSPClients |-> IdleOCSP]
    /\ renewal' = IdleRenewal
    /\ crlMu' = None
    /\ cachedCRL' = NoCRL
    /\ cachedNextUpdate' = 0
    /\ crl' = [c \in CRLClients |-> IdleCRL]
    /\ writer' = [w \in Writers |-> IdleWriter]
    /\ UNCHANGED <<storeVars, history>>

(* keytool issue-client-cert and provision-tls-identity, run with the      *)
(* service stopped.  recordAndWrite writes the certificate whatever the    *)
(* record did, and reports the failure; the write may fail too.            *)
KeytoolIssue(s) ==
    /\ ~up
    /\ IssuerCanCover(now, LeafTTL)
    /\ \/ /\ Record(s)
          /\ held' \in {held, held \cup {s}}
          /\ UNCHANGED unrecorded
       \/ /\ Cardinality(unrecorded) < KeytoolFailures
          /\ held' = held \cup {s}
          /\ unrecorded' = unrecorded \cup {s}
          /\ UNCHANGED records
    /\ UNCHANGED <<now, crlCounter, responderVars, serverVars, ackedAt, signed, raced>>

Tick ==
    /\ now < MaxTime
    /\ now' = now + 1
    /\ UNCHANGED <<records, crlCounter, responderVars, serverVars, history>>

-----------------------------------------------------------------------------
OCSPNext ==
    \/ \E o \in OCSPClients, s \in Serials :
          up /\ ResponderEnabled /\ OCSPArrive(o, s, s \in Acked)
    \/ \E o \in OCSPClients : RespondStep(o)

OCSPAction == OCSPNext /\ UNCHANGED <<storeVars, serverVars, history>>

RenewAction ==
    /\ \/ \E s \in Serials : up /\ ResponderEnabled /\ RenewIssue(s) /\ UNCHANGED records
       \/ RenewRecord
       \/ RenewRecordFails
       \/ RenewSwap /\ UNCHANGED records
    /\ UNCHANGED <<now, crlCounter, serverVars, history>>

Next ==
    \/ \E c \in CRLClients : CRLArrive(c) \/ CRLStep(c)
    \/ \E w \in Writers, client \in Serials, s \in Serials \cup {None} :
          WriteArrive(w, client, s)
    \/ \E w \in Writers : WriteStep(w)
    \/ OCSPAction
    \/ RenewAction
    \/ \E s \in Serials : Start(s) \/ KeytoolIssue(s)
    \/ StartFails
    \/ Crash
    \/ Tick

Spec == Init /\ [][Next]_vars

(* A goroutine that can run does, and sync.Mutex does not starve a waiter. *)
Fairness ==
    /\ \A c \in CRLClients : /\ WF_vars(CRLList(c) \/ CRLNumber(c) \/ CRLSign(c))
                             /\ SF_vars(CRLLock(c))
                             /\ SF_vars(CRLHeader(c))
    /\ \A w \in Writers : WF_vars(WriteStep(w)) /\ SF_vars(DropCRL(w))

FairSpec == Spec /\ Fairness

-----------------------------------------------------------------------------
(* Properties                                                              *)

(* currentCRL is past the cache and has not returned.                      *)
Generating(c) == crl[c].pc \in {"list", "number", "sign"}
Listed(c) == crl[c].pc \in {"number", "sign"}
EntriesOf(c) == crl[c].entries

(* A generation owns crlMu from the cache check to the unlock.             *)
LockInv == \A c \in CRLClients : Generating(c) => crlMu = c

(* What was signed came from the counter and from rows that are still      *)
(* there.                                                                  *)
SignedInv ==
    \A l \in signed : /\ l.number >= 1
                      /\ l.number <= crlCounter
                      /\ l.entries \subseteq RevokedEntries

(* A CRL about to be signed lists everything signed before, under a number *)
(* above all of them.                                                      *)
PendingInv ==
    \A c \in CRLClients :
        Listed(c) =>
            /\ EntriesOf(c) \subseteq RevokedEntries
            /\ \A l \in signed : l.entries \subseteq EntriesOf(c)
            /\ crl[c].pc = "sign" =>
                  /\ crl[c].number >= 1
                  /\ crl[c].number <= crlCounter
                  /\ \A l \in signed : l.number < crl[c].number

(* The cached CRL has been dropped since the revocation of s.              *)
Dropped(s) ==
    \/ s \in Acked
    \/ \E w \in Writers : writer[w].pc = "dropOCSP" /\ writer[w].serial = s

(* A dropped revocation is on whatever can still be answered: the cached   *)
(* CRL, and the one being generated.                                       *)
DroppedInv ==
    /\ \A w \in Writers :
          writer[w].pc \in {"dropCRL", "dropOCSP"}
          => records[writer[w].serial].status = "revoked"
    /\ \A s \in Serials :
          Dropped(s) =>
              /\ records[s].status = "revoked"
              /\ cachedCRL # NoCRL => s \in SerialsOf(cachedCRL)
              /\ \A c \in CRLClients :
                    Listed(c) => \E e \in EntriesOf(c) : e.serial = s
    /\ \A c \in CRLClients : crl[c].acked \subseteq Acked

(* The inductive invariant of CRL generation, with crlMu as its heart.     *)
GenerationInv == LockInv /\ SignedInv /\ PendingInv /\ DroppedInv

(* A CRL answered to a request that arrived after POST .../revoke had been *)
(* answered 204 lists that revocation: currentCRL, invalidateCRLCache and  *)
(* the order Revoke, drop, answer in handleRevoke.                         *)
CRLComplete ==
    \A c \in CRLClients :
        crl[c].got # NoCRL => crl[c].acked \subseteq SerialsOf(crl[c].got)

(* Of two signed CRLs the one with the higher number lists everything the  *)
(* other lists, with the same date and reason, across concurrent requests, *)
(* failed generations and restarts: the single flight of currentCRL.       *)
CRLOrdered ==
    \A a, b \in signed : a.number < b.number => a.entries \subseteq b.entries

(* The CRLs the service publishes are those of the abstract ledger: entries*)
(* are only added, numbers grow, and each CRL carries all earlier entries. *)
Published == {[number |-> l.number, entries |-> l.entries] : l \in signed}
Ledger == INSTANCE RevocationLedger WITH
              revoked <- RevokedEntries, published <- Published
ImplementsLedger == Ledger!Spec

(* No number is signed twice: NextCRLNumber persists it before it is used, *)
(* and a generation that fails after it has spent it.                      *)
CRLNumberUnique ==
    \A a, b \in signed : a.number = b.number => a = b

(* Nothing turns a revoked certificate back into a valid one, or changes   *)
(* when and why it was revoked: Record refuses a serial that has a row,    *)
(* and Revoke keeps the original.                                          *)
RevocationPermanent ==
    [][\A s \in Serials :
          records[s].status = "revoked" => records'[s] = records[s]]_records

(* Every certificate somebody holds has a row, so it can be revoked: the   *)
(* row is written before the certificate leaves handleIssueCertificate.    *)
(* The one exception is a certificate keytool wrote with an error.         *)
HeldIsRecorded ==
    \A s \in held \ unrecorded : records[s].status # "absent"

(* A request made with a client certificate whose revocation was answered  *)
(* before the request arrived never gets past requireClient.               *)
RevokedClientRefused ==
    \A w \in Writers :
        writer[w].pc \notin {"idle", "auth"} => ~writer[w].withdrawn

(* Every cached response was signed under the certificate now in use:      *)
(* Renew empties the cache with the swap, and Respond does not insert what *)
(* it signed under the certificate Renew has replaced.                     *)
CacheSignedByCurrent ==
    \A s \in Serials : Cached(s) => cache[s].signer = cert.serial

(* A request about a serial that had a row when it arrived is never        *)
(* answered "unknown": unknown answers are not cached.                     *)
IssuedNeverUnknown ==
    \A o \in OCSPClients :
        /\ ocsp[o].reply # NoResponse
        /\ ocsp[o].known
        => ocsp[o].reply.rec.status # "absent"

(* After a revocation was answered, "good" is answered to a later request  *)
(* only if a lookup that had already read the row was still in flight when *)
(* Invalidate ran.                                                         *)
OCSPStaleOnlyByRace ==
    \A o \in OCSPClients :
        /\ ocsp[o].acked
        /\ ocsp[o].reply.rec.status = "valid"
        => ocsp[o].serial \in raced

(* However it came about, a "good" response about a revoked certificate    *)
(* ends at most ResponseWindow after the revocation was answered.          *)
OCSPStaleBounded ==
    /\ \A s \in Serials :
          cache[s].rec.status = "valid" /\ s \in Acked
          => cache[s].next <= ackedAt[s] + ResponseWindow
    /\ \A o \in OCSPClients :
          ocsp[o].reply.rec.status = "valid" /\ ocsp[o].serial \in Acked
          => ocsp[o].reply.next <= ackedAt[ocsp[o].serial] + ResponseWindow

(* A "revoked" answer, given or cached, carries the time and the reason of *)
(* the row, which are those of every CRL that lists the certificate: a     *)
(* repeated revocation keeps the first ones, so the two channels agree.    *)
ChannelsAgree ==
    /\ \A s \in Serials :
          cache[s].rec.status = "revoked" => cache[s].rec = records[s]
    /\ \A o \in OCSPClients :
          ocsp[o].reply.rec.status = "revoked"
          => ocsp[o].reply.rec = records[ocsp[o].serial]

(* Every GET /crl is answered: crlMu is released on every path out of      *)
(* currentCRL.                                                             *)
CRLAnswered ==
    \A c \in CRLClients : crl[c].pc = "lock" ~> crl[c].pc = "idle"

(* Every revocation that was committed is answered, although it waits for  *)
(* the lock a CRL generation holds.                                        *)
RevokeAnswered ==
    \A w \in Writers : writer[w].pc = "dropCRL" ~> writer[w].pc = "idle"

(* What the comment on Invalidate says: after a revocation the next        *)
(* request for that serial is answered from the store.                     *)
OCSPFresh ==
    \A o \in OCSPClients :
        ~(ocsp[o].acked /\ ocsp[o].reply.rec.status = "valid")

(* What the comment in handleCRL says: the cache lifetime of an answered   *)
(* CRL is bound to that CRL's own nextUpdate.                              *)
CRLLifetimeIsItsOwn ==
    \A c \in CRLClients :
        crl[c].pc = "idle" /\ crl[c].got # NoCRL => crl[c].until <= crl[c].got.next

(* How far it goes in fact: when another request regenerated between the   *)
(* two times handleCRL takes crlMu, a cache may keep the older of two CRLs *)
(* until the nextUpdate of the newer, and never longer than that of some   *)
(* CRL the service had signed.                                             *)
CRLLifetimeBounded ==
    \A c \in CRLClients :
        /\ crl[c].pc = "idle"
        /\ crl[c].got # NoCRL
        => \E l \in signed : l.number >= crl[c].got.number /\ crl[c].until <= l.next
=============================================================================
