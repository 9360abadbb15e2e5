--------------------------- MODULE CAServerProofs ---------------------------
(***************************************************************************)
(* Proofs about CAServer, for every value of its constants: the type       *)
(* invariant, the invariant of CRL generation and what follows from it,    *)
(* and the refinement of RevocationLedger.                                 *)
(***************************************************************************)
EXTENDS CAServer, TLAPS


(* seedCRLNumber and the increment both give a positive number, and the    *)
(* increment gives one above the counter.                                  *)
LEMMA NextNumberPositive ==
    ASSUME StoreTypeOK
    PROVE  /\ NextNumber \in Nat
           /\ NextNumber >= 1
           /\ crlCounter # 0 => NextNumber > crlCounter
  <1>1. now * MillisPerTick \in Nat
    BY StoreAssumption DEF StoreTypeOK
  <1>2. SeedCRLNumber(now) \in Nat /\ SeedCRLNumber(now) >= 1
    BY <1>1, StoreAssumption DEF SeedCRLNumber
  <1>3. QED
    BY <1>2 DEF NextNumber, StoreTypeOK

(* The empty values have the types of what they stand for.                 *)
LEMMA EmptyTypes ==
    /\ Absent \in CertRecord /\ ValidRecord \in CertRecord
    /\ NoCert \in Cert /\ NoResponse \in Response
    /\ IdleOCSP \in OCSPRequest /\ IdleRenewal \in Renewal
    /\ NoCRL \in CRL /\ IdleCRL \in CRLRequest /\ IdleWriter \in WriteRequest
  <1>1. Absent \in CertRecord /\ ValidRecord \in CertRecord
    BY DEF Absent, ValidRecord, CertRecord, Status
  <1>2. NoCert \in Cert
    BY DEF NoCert, Cert
  <1>3. NoResponse \in Response
    BY <1>1 DEF NoResponse, Response
  <1>4. IdleOCSP \in OCSPRequest
    BY <1>1, <1>2, <1>3 DEF IdleOCSP, OCSPRequest, OCSPState
  <1>5. IdleRenewal \in Renewal
    BY <1>2 DEF IdleRenewal, Renewal
  <1>6. NoCRL \in CRL
    BY DEF NoCRL, CRL
  <1>7. IdleCRL \in CRLRequest
    BY <1>6 DEF IdleCRL, CRLRequest
  <1>8. IdleWriter \in WriteRequest
    BY DEF IdleWriter, WriteRequest, WriterState
  <1>9. QED
    BY <1>1, <1>2, <1>3, <1>4, <1>5, <1>6, <1>7, <1>8

(* The process before its first start is well typed.                       *)
LEMMA TypeInit == Init => TypeOK
  <1> SUFFICES ASSUME Init PROVE TypeOK
    OBVIOUS
  <1>1. StoreTypeOK
    BY EmptyTypes DEF Init, StoreInit, StoreTypeOK
  <1>2. ResponderTypeOK
    BY EmptyTypes DEF Init, ResponderInit, ResponderTypeOK, EmptyCache, IdleOCSP
  <1>3. QED
    BY <1>1, <1>2, EmptyTypes DEF Init, TypeOK, IdleWriter

(* What Revoked returns are entries, one per revoked row.                  *)
LEMMA EntriesTyped ==
    ASSUME StoreTypeOK
    PROVE  RevokedEntries \in SUBSET Entry
  BY DEF StoreTypeOK, RevokedEntries, Entry, CertRecord

(* A step that leaves the store alone keeps the store's types.             *)
LEMMA TypeStoreUnchanged ==
    ASSUME StoreTypeOK, UNCHANGED storeVars
    PROVE  StoreTypeOK'
  BY DEF StoreTypeOK, storeVars

(* A step that leaves the responder alone keeps the responder's types.     *)
LEMMA TypeResponderUnchanged ==
    ASSUME ResponderTypeOK, UNCHANGED responderVars
    PROVE  ResponderTypeOK'
  BY DEF ResponderTypeOK, responderVars

(* Every step of handleCRL and currentCRL keeps the types.                 *)
LEMMA TypeCRLStep ==
    ASSUME TypeOK, NEW c \in CRLClients, CRLArrive(c) \/ CRLStep(c)
    PROVE  TypeOK'
  <1> USE DEF TypeOK
  <1>r. ResponderTypeOK'
    BY TypeResponderUnchanged
       DEF CRLArrive, CRLStep, CRLLock, CRLList, CRLNumber, CRLSign, CRLHeader
  <1>f. ASSUME CRLFail(c)
        PROVE  /\ StoreTypeOK' /\ crl' \in [CRLClients -> CRLRequest]
               /\ crlMu' \in CRLClients \cup {None}
    BY <1>f, TypeStoreUnchanged, EmptyTypes DEF CRLFail
  <1>1. CASE CRLArrive(c)
    <2>1. [IdleCRL EXCEPT !.pc = "lock", !.acked = Acked] \in CRLRequest
      BY EmptyTypes DEF IdleCRL, CRLRequest, Acked
    <2>2. QED
      BY <1>1, <1>r, <2>1, TypeStoreUnchanged DEF CRLArrive, history
  <1>2. CASE CRLLock(c)
    BY <1>2, <1>r, TypeStoreUnchanged DEF CRLLock, CRLRequest, history, StoreTypeOK
  <1>3. CASE CRLList(c)
    <2>1. StoreTypeOK' /\ crlMu' \in CRLClients \cup {None}
      BY <1>3, <1>f, TypeStoreUnchanged DEF CRLList
    <2>2. crl' \in [CRLClients -> CRLRequest]
      BY <1>3, <1>f, EntriesTyped DEF CRLList, CRLRequest
    <2>3. QED
      BY <1>3, <1>r, <2>1, <2>2 DEF CRLList, history
  <1>4. CASE CRLNumber(c)
    <2>1. StoreTypeOK' /\ crlMu' \in CRLClients \cup {None}
      BY <1>4, <1>f, NextNumberPositive DEF CRLNumber, NextCRLNumber, StoreTypeOK
    <2>2. crl' \in [CRLClients -> CRLRequest]
      BY <1>4, <1>f, NextNumberPositive DEF CRLNumber, CRLRequest
    <2>3. QED
      BY <1>4, <1>r, <2>1, <2>2 DEF CRLNumber, history
  <1>5. CASE CRLSign(c)
    <2> DEFINE next == CRLNextUpdate(crl[c].t)
               new  == [number |-> crl[c].number, entries |-> crl[c].entries,
                        next |-> next]
    <2>1. next \in Nat
      BY ServerAssumption, ResponderAssumption DEF CRLNextUpdate, CRLRequest
    <2>2. new \in CRL
      BY <2>1 DEF CRL, CRLRequest
    <2>3. [IdleCRL EXCEPT !.pc = "header", !.got = new, !.acked = crl[c].acked]
             \in CRLRequest
      BY <2>2, EmptyTypes DEF IdleCRL, CRLRequest
    <2> HIDE DEF next, new
    <2>4. \/ CRLFail(c) /\ UNCHANGED <<cachedCRL, cachedNextUpdate, signed>>
          \/ /\ signed' = signed \cup {new}
             /\ cachedCRL' = new
             /\ cachedNextUpdate' = next
             /\ crl' = [crl EXCEPT ![c] = [IdleCRL EXCEPT !.pc = "header",
                                            !.got = new, !.acked = crl[c].acked]]
             /\ crlMu' = None
             /\ UNCHANGED storeVars
      BY <1>5 DEF CRLSign, next, new
    <2>5. QED
      BY <1>5, <1>r, <1>f, <2>1, <2>2, <2>3, <2>4, TypeStoreUnchanged
         DEF CRLSign, history
  <1>6. CASE CRLHeader(c)
    <2> DEFINE until == IF cachedNextUpdate < now THEN 0 ELSE cachedNextUpdate
    <2>1. until \in Nat
      OBVIOUS
    <2>2. crl' = [crl EXCEPT ![c].pc = "idle", ![c].until = until]
      BY <1>6 DEF CRLHeader
    <2> HIDE DEF until
    <2>3. crl' \in [CRLClients -> CRLRequest]
      BY ZenonT(60), <2>1, <2>2 DEF CRLRequest
    <2>4. StoreTypeOK'
      BY <1>6, TypeStoreUnchanged DEF CRLHeader
    <2>5. QED
      BY <1>6, <1>r, <2>3, <2>4 DEF CRLHeader, history
  <1>7. QED
    BY <1>1, <1>2, <1>3, <1>4, <1>5, <1>6 DEF CRLStep

(* The writer's conjuncts of TypeOK, for a step that changes one writer.   *)
LEMMA TypeWriter ==
    ASSUME TypeOK, NEW w \in Writers, NEW r \in WriteRequest,
           r.pc = "auth" => r.client # None,
           r.pc \in {"revoke", "dropCRL", "dropOCSP", "record"} => r.serial # None,
           writer' = [writer EXCEPT ![w] = r]
    PROVE  /\ writer' \in [Writers -> WriteRequest]
           /\ \A v \in Writers :
                 /\ writer'[v].pc = "auth" => writer'[v].client # None
                 /\ writer'[v].pc \in {"revoke", "dropCRL", "dropOCSP", "record"}
                    => writer'[v].serial # None
  BY DEF TypeOK

(* Every step of the issuance and revocation handlers keeps the types.     *)
LEMMA TypeWriteStep ==
    ASSUME TypeOK, NEW w \in Writers,
           \/ \E client \in Serials, s \in Serials \cup {None} : WriteArrive(w, client, s)
           \/ WriteStep(w)
    PROVE  TypeOK'
  <1> DEFINE Typed ==
        /\ writer' \in [Writers -> WriteRequest]
        /\ \A v \in Writers :
              /\ writer'[v].pc = "auth" => writer'[v].client # None
              /\ writer'[v].pc \in {"revoke", "dropCRL", "dropOCSP", "record"}
                 => writer'[v].serial # None
  <1>t. writer[w] \in WriteRequest
    BY DEF TypeOK
  <1>f. ASSUME WriteFail(w) PROVE Typed
    BY <1>f, EmptyTypes, TypeWriter DEF WriteFail, IdleWriter
  <1>1. ASSUME NEW client \in Serials, NEW s \in Serials \cup {None},
               WriteArrive(w, client, s)
        PROVE  TypeOK'
    <2> DEFINE b == client \in Acked
               r == [IdleWriter EXCEPT !.pc = "auth", !.client = client,
                                       !.serial = s, !.withdrawn = b]
    <2>1. b \in BOOLEAN
      OBVIOUS
    <2>2. writer' = [writer EXCEPT ![w] = r]
      BY <1>1 DEF WriteArrive
    <2> HIDE DEF b
    <2>3. r \in WriteRequest /\ r.pc = "auth" /\ r.client # None
      BY <2>1, ResponderAssumption DEF IdleWriter, WriteRequest, WriterState
    <2> HIDE DEF r
    <2>4. Typed
      BY <2>2, <2>3, TypeWriter
    <2>5. QED
      BY <1>1, <2>4, TypeStoreUnchanged, TypeResponderUnchanged
         DEF WriteArrive, writeRest, history, TypeOK
  <1>2. CASE RequireClient(w)
    <2>1. ASSUME WriteFail(w) PROVE Typed
      BY <2>1, <1>f
    <2>2. ASSUME writer' = [writer EXCEPT ![w].pc = "issue", ![w].client = None]
          PROVE  Typed
      <3> DEFINE r == [writer[w] EXCEPT !.pc = "issue", !.client = None]
      <3>1. r \in WriteRequest /\ r.pc = "issue"
        BY <1>t DEF WriteRequest, WriterState
      <3>2. writer' = [writer EXCEPT ![w] = r]
        BY <2>2 DEF TypeOK, WriteRequest
      <3> HIDE DEF r
      <3>3. QED
        BY <3>1, <3>2, TypeWriter
    <2>3. ASSUME writer[w].serial # None,
                 writer' = [writer EXCEPT ![w].pc = "revoke", ![w].client = None,
                                          ![w].t = now]
          PROVE  Typed
      <3> DEFINE r == [writer[w] EXCEPT !.pc = "revoke", !.client = None, !.t = now]
      <3>1. r \in WriteRequest /\ r.pc = "revoke" /\ r.serial # None
        BY <1>t, <2>3 DEF WriteRequest, WriterState, TypeOK, StoreTypeOK
      <3>2. writer' = [writer EXCEPT ![w] = r]
        BY <2>3 DEF TypeOK, WriteRequest
      <3> HIDE DEF r
      <3>3. QED
        BY <3>1, <3>2, TypeWriter
    <2>4. Typed
      BY <1>2, <2>1, <2>2, <2>3 DEF RequireClient, ForRevocation
    <2>5. QED
      BY <1>2, <2>4, TypeStoreUnchanged, TypeResponderUnchanged
         DEF RequireClient, writeRest, history, TypeOK
  <1>3. ASSUME NEW reason \in Reasons, RevokeCommit(w, reason)
        PROVE  TypeOK'
    <2>1. ASSUME writer' = [writer EXCEPT ![w].pc = "dropCRL", ![w].t = 0]
          PROVE  Typed
      <3> DEFINE r == [writer[w] EXCEPT !.pc = "dropCRL", !.t = 0]
      <3>1. r \in WriteRequest /\ r.pc = "dropCRL" /\ r.serial # None
        BY <1>t, <1>3 DEF WriteRequest, WriterState, TypeOK, RevokeCommit
      <3>2. writer' = [writer EXCEPT ![w] = r]
        BY <2>1 DEF TypeOK, WriteRequest
      <3> HIDE DEF r
      <3>3. QED
        BY <3>1, <3>2, TypeWriter
    <2>2. Typed
      BY <1>3, <1>f, <2>1 DEF RevokeCommit
    <2>3. [status |-> "revoked", at |-> writer[w].t, reason |-> reason] \in CertRecord
      BY <1>t, StoreAssumption DEF CertRecord, Status, WriteRequest
    <2>4. records' \in [Serials -> CertRecord]
      BY <1>3, <2>3 DEF RevokeCommit, Revoke, TypeOK, StoreTypeOK
    <2>5. QED
      BY <1>3, <2>2, <2>4, TypeResponderUnchanged
         DEF RevokeCommit, writeRest, history, TypeOK, StoreTypeOK
  <1>4. CASE DropCRL(w)
    <2> DEFINE r == [writer[w] EXCEPT !.pc = "dropOCSP"]
    <2>1. r \in WriteRequest /\ r.pc = "dropOCSP" /\ r.serial # None
      BY <1>t, <1>4 DEF WriteRequest, WriterState, TypeOK, DropCRL
    <2>2. writer' = [writer EXCEPT ![w] = r]
      BY <1>4 DEF DropCRL
    <2> HIDE DEF r
    <2>3. Typed
      BY <2>1, <2>2, TypeWriter
    <2>4. QED
      BY <1>4, <2>3, EmptyTypes, TypeStoreUnchanged, TypeResponderUnchanged
         DEF DropCRL, history, TypeOK
  <1>5. CASE DropOCSP(w)
    <2>1. Typed
      BY <1>5, <1>f DEF DropOCSP, WriteFail
    <2>2. ResponderTypeOK'
      BY <1>5, EmptyTypes, TypeResponderUnchanged
         DEF DropOCSP, Invalidate, ResponderTypeOK, EmptyCache, TypeOK
    <2>3. ackedAt' \in [Serials -> Nat \cup {-1}]
      BY <1>5 DEF DropOCSP, StoreTypeOK, TypeOK
    <2>4. writer[w].serial \in Serials
      BY <1>t, <1>5 DEF DropOCSP, TypeOK, WriteRequest
    <2>5. QED
      BY <1>5, <2>1, <2>2, <2>3, <2>4, TypeStoreUnchanged DEF DropOCSP, TypeOK
  <1>6. ASSUME NEW s \in Serials, IssueSign(w, s)
        PROVE  TypeOK'
    <2>1. ASSUME writer' = [writer EXCEPT ![w].pc = "record", ![w].serial = s]
          PROVE  Typed
      <3> DEFINE r == [writer[w] EXCEPT !.pc = "record", !.serial = s]
      <3>1. r \in WriteRequest /\ r.pc = "record" /\ r.serial # None
        BY <1>t, ResponderAssumption DEF WriteRequest, WriterState
      <3>2. writer' = [writer EXCEPT ![w] = r]
        BY <2>1 DEF TypeOK, WriteRequest
      <3> HIDE DEF r
      <3>3. QED
        BY <3>1, <3>2, TypeWriter
    <2>2. Typed
      BY <1>6, <1>f, <2>1 DEF IssueSign
    <2>3. QED
      BY <1>6, <2>2, TypeStoreUnchanged, TypeResponderUnchanged
         DEF IssueSign, writeRest, history, TypeOK
  <1>7. CASE IssueRecord(w)
    <2>1. writer[w].serial \in Serials
      BY <1>t, <1>7 DEF IssueRecord, TypeOK, WriteRequest
    <2>2. records' \in [Serials -> CertRecord]
      BY <1>7, <2>1, EmptyTypes DEF IssueRecord, Record, TypeOK, StoreTypeOK
    <2>3. QED
      BY <1>7, <1>f, <2>1, <2>2, TypeResponderUnchanged
         DEF IssueRecord, writeRest, TypeOK, StoreTypeOK
  <1>8. QED
    BY <1>1, <1>2, <1>3, <1>4, <1>5, <1>6, <1>7 DEF WriteStep

(* The conjuncts on ocsp, for a step that changes one request.             *)
LEMMA TypeRequest ==
    ASSUME ResponderTypeOK, NEW o \in OCSPClients, NEW r \in OCSPRequest,
           r.pc # "idle" => r.serial # None,
           ocsp' = [ocsp EXCEPT ![o] = r]
    PROVE  /\ ocsp' \in [OCSPClients -> OCSPRequest]
           /\ \A p \in OCSPClients : ocsp'[p].pc # "idle" => ocsp'[p].serial # None
  BY DEF ResponderTypeOK

(* Answering an OCSP request keeps the types of the requests.              *)
LEMMA TypeReply ==
    ASSUME ResponderTypeOK, NEW o \in OCSPClients, NEW x \in Response, Reply(o, x)
    PROVE  /\ ocsp' \in [OCSPClients -> OCSPRequest]
           /\ \A p \in OCSPClients : ocsp'[p].pc # "idle" => ocsp'[p].serial # None
  <1> DEFINE r == [IdleOCSP EXCEPT !.serial = ocsp[o].serial, !.reply = x,
                                   !.known = ocsp[o].known, !.acked = ocsp[o].acked]
  <1>1. ocsp[o] \in OCSPRequest
    BY DEF ResponderTypeOK
  <1>2. ocsp[o].serial \in Serials \cup {None}
    BY <1>1 DEF OCSPRequest
  <1>3. ocsp[o].known \in BOOLEAN /\ ocsp[o].acked \in BOOLEAN
    BY <1>1, Zenon DEF OCSPRequest
  <1>4. r.pc = "idle"
    BY DEF IdleOCSP
  <1>5. r \in OCSPRequest
    BY <1>2, <1>3, EmptyTypes DEF OCSPRequest, OCSPState, IdleOCSP
  <1>6. ocsp' = [ocsp EXCEPT ![o] = r]
    BY DEF Reply
  <1> HIDE DEF r
  <1>7. QED
    BY <1>4, <1>5, <1>6, TypeRequest

(* What Respond signs is a response.                                       *)
LEMMA TypeSigned ==
    ASSUME ResponderTypeOK, NEW o \in OCSPClients
    PROVE  Signed(o) \in Response
  <1>1. ocsp[o] \in OCSPRequest
    BY DEF ResponderTypeOK
  <1>2. NextUpdate(o) \in Nat
    BY <1>1, ResponderAssumption DEF OCSPRequest, NextUpdate
  <1>3. QED
    BY <1>1, <1>2 DEF OCSPRequest, Signed, Response, Cert

(* Every step of Respond keeps the types.                                  *)
LEMMA TypeOCSP ==
    ASSUME TypeOK, OCSPAction
    PROVE  TypeOK'
  <1> USE DEF TypeOK
  <1> DEFINE Typed == /\ ocsp' \in [OCSPClients -> OCSPRequest]
                      /\ \A p \in OCSPClients :
                            ocsp'[p].pc # "idle" => ocsp'[p].serial # None
  <1>s. StoreTypeOK'
    BY TypeStoreUnchanged DEF OCSPAction
  <1>q. SUFFICES ResponderTypeOK'
    BY <1>s DEF OCSPAction, serverVars, history
  <1>1. ASSUME NEW o \in OCSPClients, NEW s \in Serials, OCSPArrive(o, s, s \in Acked)
        PROVE  ResponderTypeOK'
    <2> DEFINE b == s \in Acked
               k == records[s].status # "absent"
               r == [IdleOCSP EXCEPT !.pc = "cache", !.serial = s, !.t = now,
                                     !.known = k, !.acked = b]
    <2>1. b \in BOOLEAN /\ k \in BOOLEAN
      OBVIOUS
    <2>2. ocsp' = [ocsp EXCEPT ![o] = r]
      BY <1>1 DEF OCSPArrive
    <2> HIDE DEF b, k
    <2>3. r \in OCSPRequest /\ r.serial # None
      BY <2>1, EmptyTypes, ResponderAssumption
         DEF IdleOCSP, OCSPRequest, OCSPState, StoreTypeOK
    <2> HIDE DEF r
    <2>4. Typed
      BY <2>2, <2>3, TypeRequest
    <2>5. QED
      BY <1>1, <2>4 DEF OCSPArrive, ResponderTypeOK
  <1>2. ASSUME NEW o \in OCSPClients, RespondStep(o)
        PROVE  ResponderTypeOK'
    <2>t. ocsp[o] \in OCSPRequest
      BY DEF ResponderTypeOK
    <2>l. TryLater(o) => Typed
      BY EmptyTypes, TypeReply DEF TryLater
    <2>1. CASE OCSPLookup(o)
      <3> DEFINE r == [ocsp[o] EXCEPT !.pc = "get", !.cert = cert]
      <3>0. ocsp[o].serial \in Serials
        BY <2>1, <2>t DEF OCSPLookup, OCSPRequest, ResponderTypeOK
      <3>1. Reply(o, cache[ocsp[o].serial]) => Typed
        BY <3>0, TypeReply DEF ResponderTypeOK
      <3>2. r \in OCSPRequest /\ r.serial # None
        BY <2>t, <3>0, ResponderAssumption DEF OCSPRequest, OCSPState, ResponderTypeOK
      <3>3. ASSUME ocsp' = [ocsp EXCEPT ![o].pc = "get", ![o].cert = cert]
            PROVE  Typed
        <4>1. ocsp' = [ocsp EXCEPT ![o] = r]
          BY <3>3
        <4> HIDE DEF r
        <4>2. QED
          BY <3>2, <4>1, TypeRequest
      <3>4. Typed
        BY <2>1, <2>l, <3>1, <3>3 DEF OCSPLookup
      <3>5. QED
        BY <2>1, <3>4 DEF OCSPLookup, ResponderTypeOK
    <2>2. CASE OCSPGet(o)
      <3> DEFINE r == [ocsp[o] EXCEPT !.pc = "sign", !.rec = records[ocsp[o].serial]]
      <3>0. ocsp[o].serial \in Serials
        BY <2>2, <2>t DEF OCSPGet, OCSPRequest, ResponderTypeOK
      <3>2. r \in OCSPRequest /\ r.serial # None
        BY <2>t, <3>0, ResponderAssumption DEF OCSPRequest, OCSPState, StoreTypeOK
      <3>3. ASSUME ocsp' = [ocsp EXCEPT ![o].pc = "sign",
                                        ![o].rec = records[ocsp[o].serial]]
            PROVE  Typed
        <4>1. ocsp' = [ocsp EXCEPT ![o] = r]
          BY <3>3
        <4> HIDE DEF r
        <4>2. QED
          BY <3>2, <4>1, TypeRequest
      <3>4. Typed
        BY <2>2, <2>l, <3>3 DEF OCSPGet
      <3>5. QED
        BY <2>2, <3>4 DEF OCSPGet, ResponderTypeOK
    <2>3. CASE OCSPSign(o)
      <3> DEFINE r == [ocsp[o] EXCEPT !.pc = "insert"]
      <3>1. r \in OCSPRequest /\ r.serial # None
        BY <2>3, <2>t DEF OCSPSign, OCSPRequest, OCSPState, ResponderTypeOK
      <3>2. ASSUME ocsp' = [ocsp EXCEPT ![o].pc = "insert"]
            PROVE  Typed
        <4>1. ocsp' = [ocsp EXCEPT ![o] = r]
          BY <3>2
        <4> HIDE DEF r
        <4>2. QED
          BY <3>1, <4>1, TypeRequest
      <3>3. Typed
        BY <2>3, <2>l, <3>2, TypeSigned, TypeReply DEF OCSPSign
      <3>4. QED
        BY <2>3, <3>3 DEF OCSPSign, ResponderTypeOK
    <2>4. CASE OCSPInsert(o)
      <3>1. Typed
        BY <2>4, TypeSigned, TypeReply DEF OCSPInsert
      <3>2. cache' \in [Serials -> Response]
        BY <2>4, TypeSigned DEF OCSPInsert, ResponderTypeOK
      <3>3. QED
        BY <2>4, <3>1, <3>2 DEF OCSPInsert, ResponderTypeOK
    <2>5. QED
      BY <1>2, <2>1, <2>2, <2>3, <2>4 DEF RespondStep
  <1>3. QED
    BY <1>1, <1>2 DEF OCSPAction, OCSPNext

(* Renewal, start, crash, keytool and the clock keep the types.            *)
LEMMA TypeProcess ==
    ASSUME TypeOK,
           \/ RenewAction
           \/ \E s \in Serials : Start(s) \/ KeytoolIssue(s)
           \/ StartFails \/ Crash \/ Tick
    PROVE  TypeOK'
  <1> USE DEF TypeOK
  <1>c. ASSUME NEW s \in Serials PROVE ResponderCert(s, now) \in Cert
    BY ResponderAssumption DEF ResponderCert, Cert, StoreTypeOK
  <1>r. ASSUME NEW s \in Serials \cup {None}, Record(s)
        PROVE  records' \in [Serials -> CertRecord]
    BY <1>r, EmptyTypes DEF Record, StoreTypeOK
  <1>1. CASE RenewAction
    <2>1. records' \in [Serials -> CertRecord]
      BY <1>1, <1>r DEF RenewAction, RenewRecord, RenewRecordFails, StoreTypeOK,
                       ResponderTypeOK, Renewal, Cert
    <2>2. ResponderTypeOK'
      BY <1>1, <1>c, EmptyTypes
         DEF RenewAction, RenewIssue, RenewRecord, RenewRecordFails, RenewSwap,
             ResponderTypeOK, Renewal, EmptyCache
    <2>3. QED
      BY <1>1, <2>1, <2>2 DEF RenewAction, serverVars, history, StoreTypeOK
  <1>2. ASSUME NEW s \in Serials, Start(s) PROVE TypeOK'
    BY <1>2, <1>c, <1>r DEF Start, StoreTypeOK, ResponderTypeOK, history
  <1>3. ASSUME NEW s \in Serials, KeytoolIssue(s) PROVE TypeOK'
    BY <1>3, <1>r, TypeResponderUnchanged DEF KeytoolIssue, StoreTypeOK, serverVars
  <1>4. CASE StartFails
    BY <1>4, TypeStoreUnchanged, TypeResponderUnchanged
       DEF StartFails, vars, serverVars, history
  <1>5. CASE Crash
    <2>1. ResponderTypeOK'
      BY <1>5, EmptyTypes DEF Crash, ResponderTypeOK, EmptyCache, IdleOCSP
    <2>2. QED
      BY <1>5, <2>1, EmptyTypes, TypeStoreUnchanged DEF Crash, history, IdleWriter
  <1>6. CASE Tick
    BY <1>6, TypeResponderUnchanged DEF Tick, StoreTypeOK, serverVars, history
  <1>7. QED
    BY <1>1, <1>2, <1>3, <1>4, <1>5, <1>6

(* TypeOK is an invariant of the service for every value of the constants. *)
THEOREM TypeCorrect == Spec => []TypeOK
  <1>1. TypeOK /\ [Next]_vars => TypeOK'
    <2> SUFFICES ASSUME TypeOK, [Next]_vars PROVE TypeOK'
      OBVIOUS
    <2>1. CASE UNCHANGED vars
      BY <2>1, TypeStoreUnchanged, TypeResponderUnchanged
         DEF TypeOK, vars, serverVars, history
    <2>2. CASE Next
      BY <2>2, TypeCRLStep, TypeWriteStep, TypeOCSP, TypeProcess DEF Next
    <2>3. QED
      BY <2>1, <2>2
  <1>2. QED
    BY TypeInit, <1>1, PTL DEF Spec

-----------------------------------------------------------------------------
(* Rows of the store that are revoked stay as they are in every step of    *)
(* every handler: Record refuses a serial that has a row, Revoke keeps the *)
(* original.                                                               *)
Kept == \A s \in Serials : records[s].status = "revoked" => records'[s] = records[s]

(* store.Record keeps every revoked row.                                   *)
LEMMA RecordKeeps ==
    ASSUME TypeOK, NEW s, Record(s)
    PROVE  Kept
  BY DEF Kept, Record, TypeOK, StoreTypeOK

(* store.Revoke keeps every revoked row and leaves its serial revoked.     *)
LEMMA RevokeKeeps ==
    ASSUME TypeOK, NEW s \in Serials, NEW reason, NEW at, Revoke(s, reason, at)
    PROVE  Kept /\ records'[s].status = "revoked"
  BY DEF Kept, Revoke, TypeOK, StoreTypeOK

(* The same for whole steps.                                               *)
LEMMA StepKeeps ==
    ASSUME TypeOK, [Next]_vars
    PROVE  Kept
  <1>u. ASSUME UNCHANGED records PROVE Kept
    BY <1>u DEF Kept
  <1>1. ASSUME NEW c \in CRLClients, CRLArrive(c) \/ CRLStep(c) PROVE Kept
    BY <1>1, <1>u DEF CRLArrive, CRLStep, CRLLock, CRLList, CRLNumber, CRLSign,
                      CRLHeader, CRLFail, storeVars
  <1>2. ASSUME NEW w \in Writers, NEW client \in Serials,
               NEW s \in Serials \cup {None}, WriteArrive(w, client, s)
        PROVE  Kept
    BY <1>2, <1>u DEF WriteArrive, storeVars
  <1>3. ASSUME NEW w \in Writers, WriteStep(w) PROVE Kept
    <2>1. CASE RequireClient(w)
      BY <2>1, <1>u DEF RequireClient, storeVars
    <2>2. ASSUME NEW reason \in Reasons, RevokeCommit(w, reason) PROVE Kept
      <3>1. writer[w].serial \in Serials
        BY <2>2 DEF RevokeCommit, TypeOK, WriteRequest
      <3>2. QED
        BY <2>2, <3>1, <1>u, RevokeKeeps DEF RevokeCommit
    <2>3. CASE DropCRL(w) \/ DropOCSP(w)
      BY <2>3, <1>u DEF DropCRL, DropOCSP, storeVars
    <2>4. ASSUME NEW s \in Serials, IssueSign(w, s) PROVE Kept
      BY <2>4, <1>u DEF IssueSign, storeVars
    <2>5. CASE IssueRecord(w)
      BY <2>5, <1>u, RecordKeeps DEF IssueRecord
    <2>6. QED
      BY <1>3, <2>1, <2>2, <2>3, <2>4, <2>5 DEF WriteStep
  <1>4. CASE OCSPAction
    BY <1>4, <1>u DEF OCSPAction, storeVars
  <1>5. CASE RenewAction
    BY <1>5, <1>u, RecordKeeps DEF RenewAction, RenewRecord, RenewRecordFails
  <1>6. ASSUME NEW s \in Serials, Start(s) \/ KeytoolIssue(s) PROVE Kept
    BY <1>6, <1>u, RecordKeeps DEF Start, KeytoolIssue
  <1>7. CASE StartFails \/ Crash \/ Tick \/ UNCHANGED vars
    BY <1>7, <1>u DEF StartFails, Crash, Tick, vars, storeVars
  <1>8. QED
    BY <1>1, <1>2, <1>3, <1>4, <1>5, <1>6, <1>7 DEF Next

(* Nothing turns a revoked certificate back into a valid one or changes    *)
(* its entry, in any interleaving and across any number of restarts.       *)
THEOREM RevocationIsPermanent == Spec => RevocationPermanent
  <1>1. TypeOK /\ [Next]_vars
        => [\A s \in Serials :
               records[s].status = "revoked" => records'[s] = records[s]]_records
    BY StepKeeps DEF Kept
  <1>2. QED
    BY TypeCorrect, <1>1, PTL DEF Spec, RevocationPermanent

-----------------------------------------------------------------------------
(* Entries of revoked rows stay entries while the rows are kept.           *)
LEMMA EntriesGrow ==
    ASSUME TypeOK, Kept
    PROVE  RevokedEntries \subseteq RevokedEntries'
  BY DEF TypeOK, StoreTypeOK, Kept, RevokedEntries

(* A revoked serial has an entry.                                          *)
LEMMA RevokedHasEntry ==
    ASSUME NEW s \in Serials, records[s].status = "revoked"
    PROVE  \E e \in RevokedEntries : e.serial = s
  <1> DEFINE e == [serial |-> s, at |-> records[s].at, reason |-> records[s].reason]
  <1>1. e \in RevokedEntries
    BY DEF RevokedEntries
  <1>2. e.serial = s
    OBVIOUS
  <1>3. QED
    BY <1>1, <1>2

(* Before the first start there is no CRL, no request and no revocation.   *)
LEMMA GenerationInit == Init => GenerationInv
  <1> SUFFICES ASSUME Init PROVE GenerationInv
    OBVIOUS
  <1>1. \A c \in CRLClients : crl[c].pc = "idle" /\ crl[c].acked = {}
    BY DEF Init, IdleCRL
  <1>2. \A w \in Writers : writer[w].pc = "idle"
    BY DEF Init, IdleWriter
  <1>3. Acked = {} /\ signed = {}
    BY DEF Init, Acked
  <1>4. QED
    BY <1>1, <1>2, <1>3
       DEF GenerationInv, LockInv, SignedInv, PendingInv, DroppedInv, Dropped,
           Generating, Listed

(* A step that does not touch the CRL or its lock, and moves no writer to  *)
(* dropOCSP, keeps the invariant.                                          *)
LEMMA QuietStep ==
    ASSUME TypeOK, GenerationInv, Kept,
           UNCHANGED <<crlCounter, crlMu, cachedCRL, crl, ackedAt, signed>>,
           \A w \in Writers :
              /\ writer'[w].pc \in {"dropCRL", "dropOCSP"}
                 => records'[writer'[w].serial].status = "revoked"
              /\ writer'[w].pc = "dropOCSP" => writer'[w] = writer[w]
    PROVE  GenerationInv'
  <1>1. LockInv'
    BY DEF GenerationInv, LockInv, Generating
  <1>2. SignedInv'
    BY EntriesGrow DEF GenerationInv, SignedInv
  <1>3. PendingInv'
    BY EntriesGrow DEF GenerationInv, PendingInv, Listed, EntriesOf
  <1>4. DroppedInv'
    <2>1. Acked' = Acked
      BY DEF Acked
    <2>2. \A s \in Serials : Dropped(s)' => Dropped(s)
      BY <2>1 DEF Dropped
    <2>3. ASSUME NEW s \in Serials, Dropped(s) PROVE records'[s].status = "revoked"
      BY <2>3 DEF GenerationInv, DroppedInv, Kept
    <2>4. QED
      BY <2>1, <2>2, <2>3
         DEF GenerationInv, DroppedInv, Listed, EntriesOf, SerialsOf
  <1>5. QED
    BY <1>1, <1>2, <1>3, <1>4 DEF GenerationInv

(* Every step of handleCRL and currentCRL keeps the invariant.             *)
LEMMA GenerationCRLStep ==
    ASSUME TypeOK, GenerationInv, NEW c \in CRLClients, CRLArrive(c) \/ CRLStep(c)
    PROVE  GenerationInv'
  <1>t. crl \in [CRLClients -> CRLRequest] /\ crlMu \in CRLClients \cup {None}
    BY DEF TypeOK
  <1>n. None \notin CRLClients
    BY ServerAssumption
  <1>w. UNCHANGED <<records, writer, ackedAt>>
    BY DEF CRLArrive, CRLStep, CRLLock, CRLList, CRLNumber, CRLSign, CRLHeader,
           CRLFail, storeVars, history
  <1>e. RevokedEntries' = RevokedEntries /\ Acked' = Acked
    BY <1>w DEF RevokedEntries, Acked
  <1>d. \A s \in Serials : Dropped(s)' <=> Dropped(s)
    BY <1>w, <1>e DEF Dropped
  <1>g. ASSUME UNCHANGED cachedCRL,
               \A d \in CRLClients : crl'[d].acked = crl[d].acked,
               \A d \in CRLClients, s \in Serials :
                  Listed(d)' /\ Dropped(s) => \E e \in EntriesOf(d)' : e.serial = s
        PROVE  DroppedInv'
    <2>1. \A w \in Writers :
             writer'[w].pc \in {"dropCRL", "dropOCSP"}
             => records'[writer'[w].serial].status = "revoked"
      BY <1>w DEF GenerationInv, DroppedInv
    <2>2. ASSUME NEW s \in Serials, Dropped(s)
          PROVE  /\ records'[s].status = "revoked"
                 /\ cachedCRL' # NoCRL => s \in SerialsOf(cachedCRL)'
      BY <2>2, <1>g, <1>w DEF GenerationInv, DroppedInv, SerialsOf
    <2>3. \A d \in CRLClients : crl'[d].acked \subseteq Acked'
      BY <1>g, <1>e DEF GenerationInv, DroppedInv
    <2>4. QED
      BY <2>1, <2>2, <2>3, <1>g, <1>d DEF DroppedInv
  <1>q. ASSUME NEW r \in CRLRequest, ~(r.pc \in {"list", "number", "sign"}),
               r.acked \subseteq Acked, crl' = [crl EXCEPT ![c] = r],
               crlMu' = crlMu \/ Generating(c),
               UNCHANGED <<crlCounter, cachedCRL, signed>>
        PROVE  GenerationInv'
    <2>1. LockInv'
      BY <1>q, <1>t DEF GenerationInv, LockInv, Generating
    <2>2. SignedInv'
      BY <1>q, <1>e DEF GenerationInv, SignedInv
    <2>3. PendingInv'
      BY <1>q, <1>t, <1>e DEF GenerationInv, PendingInv, Listed, EntriesOf
    <2>4. DroppedInv'
      BY <1>q, <1>t, <1>w, <1>e, <1>d
         DEF GenerationInv, DroppedInv, Listed, EntriesOf, SerialsOf
    <2>5. QED
      BY <2>1, <2>2, <2>3, <2>4 DEF GenerationInv
  <1>f. ASSUME CRLFail(c), Generating(c), UNCHANGED <<cachedCRL, signed>>
        PROVE  GenerationInv'
    <2>1. IdleCRL \in CRLRequest /\ IdleCRL.pc = "idle" /\ IdleCRL.acked = {}
      BY EmptyTypes DEF IdleCRL
    <2>2. QED
      BY <1>f, <1>q, <2>1 DEF CRLFail, storeVars
  <1>1. CASE CRLArrive(c)
    <2> DEFINE r == [IdleCRL EXCEPT !.pc = "lock", !.acked = Acked]
    <2>1. r \in CRLRequest /\ r.pc = "lock" /\ r.acked = Acked
      BY EmptyTypes DEF IdleCRL, CRLRequest, Acked
    <2>2. crl' = [crl EXCEPT ![c] = r]
      BY <1>1 DEF CRLArrive
    <2> HIDE DEF r
    <2>3. QED
      BY <1>1, <1>q, <2>1, <2>2 DEF CRLArrive, storeVars, history
  <1>2. CASE CRLLock(c)
    <2>1. CASE CacheFresh
      <3> DEFINE r == [crl[c] EXCEPT !.pc = "header", !.got = cachedCRL]
      <3>1. r \in CRLRequest /\ r.pc = "header" /\ r.acked = crl[c].acked
        BY <1>t DEF CRLRequest, TypeOK
      <3>2. crl' = [crl EXCEPT ![c] = r]
        BY <1>2, <2>1, <1>t DEF CRLLock, CRLRequest
      <3>3. crl[c].acked \subseteq Acked
        BY DEF GenerationInv, DroppedInv
      <3> HIDE DEF r
      <3>4. QED
        BY <1>2, <2>1, <1>q, <3>1, <3>2, <3>3 DEF CRLLock, storeVars, history
    <2>2. CASE ~CacheFresh
      <3>1. crl' = [crl EXCEPT ![c].pc = "list", ![c].t = now] /\ crlMu' = c
        BY <1>2, <2>2 DEF CRLLock
      <3>2. \A d \in CRLClients : ~Generating(d)
        BY <1>2, <1>n DEF CRLLock, LockFree, GenerationInv, LockInv
      <3>3. LockInv'
        BY <3>1, <3>2, <1>t DEF LockInv, Generating
      <3>4. \A d \in CRLClients : ~Listed(d)' /\ crl'[d].acked = crl[d].acked
        BY <3>1, <3>2, <1>t DEF Generating, Listed, CRLRequest
      <3>5. UNCHANGED <<crlCounter, cachedCRL, signed>>
        BY <1>2 DEF CRLLock, storeVars, history
      <3>6. SignedInv' /\ PendingInv'
        BY <3>4, <3>5, <1>e DEF GenerationInv, SignedInv, PendingInv
      <3>7. DroppedInv'
        BY <3>4, <3>5, <1>w, <1>e, <1>d DEF GenerationInv, DroppedInv, SerialsOf
      <3>8. QED
        BY <3>3, <3>6, <3>7 DEF GenerationInv
    <2>3. QED
      BY <2>1, <2>2
  <1>6. CASE CRLHeader(c)
    <2> DEFINE r == [crl[c] EXCEPT !.pc = "idle",
                       !.until = IF cachedNextUpdate < now THEN 0 ELSE cachedNextUpdate]
    <2>1. r \in CRLRequest /\ r.pc = "idle" /\ r.acked = crl[c].acked
      BY <1>t DEF CRLRequest, TypeOK
    <2>2. crl' = [crl EXCEPT ![c] = r]
      BY <1>6, <1>t DEF CRLHeader, CRLRequest
    <2>3. crl[c].acked \subseteq Acked
      BY DEF GenerationInv, DroppedInv
    <2> HIDE DEF r
    <2>4. QED
      BY <1>6, <1>q, <2>1, <2>2, <2>3 DEF CRLHeader, storeVars, history
  <1>3. CASE CRLList(c)
    <2>1. CASE CRLFail(c)
      BY <1>3, <2>1, <1>f DEF CRLList, Generating, history
    <2>2. CASE ~CRLFail(c)
      <3>1. /\ crl' = [crl EXCEPT ![c].pc = "number", ![c].entries = RevokedEntries]
            /\ UNCHANGED <<crlCounter, crlMu, cachedCRL, signed>>
        BY <1>3, <2>2 DEF CRLList, storeVars, history
      <3>2. crlMu = c
        BY <1>3 DEF CRLList, GenerationInv, LockInv, Generating
      <3>3. \A d \in CRLClients :
              /\ d # c => crl'[d] = crl[d]
              /\ crl'[d].acked = crl[d].acked
        BY <3>1, <1>t DEF CRLRequest
      <3>4. crl'[c].pc = "number" /\ crl'[c].entries = RevokedEntries
        BY <3>1, <1>t DEF CRLRequest
      <3>5. LockInv'
        BY <3>1, <3>2, <3>3 DEF GenerationInv, LockInv, Generating
      <3>6. SignedInv'
        BY <3>1, <1>e DEF GenerationInv, SignedInv
      <3>7. PendingInv'
        BY <3>1, <3>3, <3>4, <1>e
           DEF GenerationInv, SignedInv, PendingInv, Listed, EntriesOf
      <3>8. DroppedInv'
        <4>1. ASSUME NEW s \in Serials, Dropped(s)
              PROVE  \E e \in RevokedEntries : e.serial = s
          BY <4>1, RevokedHasEntry DEF GenerationInv, DroppedInv
        <4>2. ASSUME NEW d \in CRLClients, NEW s \in Serials, Listed(d)', Dropped(s)
              PROVE  \E e \in EntriesOf(d)' : e.serial = s
          <5>1. CASE d = c
            BY <5>1, <4>1, <4>2, <3>4 DEF EntriesOf
          <5>2. CASE d # c
            BY <5>2, <4>2, <3>3 DEF GenerationInv, DroppedInv, Listed, EntriesOf
          <5>3. QED
            BY <5>1, <5>2
        <4>3. QED
          BY <4>2, <3>1, <3>3, <1>g
      <3>9. QED
        BY <3>5, <3>6, <3>7, <3>8 DEF GenerationInv
    <2>3. QED
      BY <2>1, <2>2
  <1>4. CASE CRLNumber(c)
    <2>1. CASE CRLFail(c)
      BY <1>4, <2>1, <1>f DEF CRLNumber, Generating, history
    <2>2. CASE ~CRLFail(c)
      <3>1. /\ crl' = [crl EXCEPT ![c].pc = "sign", ![c].number = NextNumber]
            /\ crlCounter' = NextNumber
            /\ UNCHANGED <<crlMu, cachedCRL, signed>>
        BY <1>4, <2>2 DEF CRLNumber, NextCRLNumber, history
      <3>2. NextNumber \in Nat /\ NextNumber >= 1 /\ NextNumber > crlCounter
        BY NextNumberPositive DEF TypeOK, StoreTypeOK
      <3>3. \A d \in CRLClients :
              /\ d # c => crl'[d] = crl[d]
              /\ crl'[d].acked = crl[d].acked
              /\ crl'[d].entries = crl[d].entries
        BY <3>1, <1>t DEF CRLRequest
      <3>4. crl[c].pc = "number" /\ crl'[c].pc = "sign" /\ crl'[c].number = NextNumber
        BY <1>4, <3>1, <1>t DEF CRLNumber, CRLRequest
      <3>5. LockInv'
        BY <3>1, <3>3, <3>4 DEF GenerationInv, LockInv, Generating
      <3>6. crlCounter \in Nat /\ \A l \in signed : l.number \in Nat
        BY DEF TypeOK, StoreTypeOK, CRL
      <3>7. SignedInv'
        BY <3>1, <3>2, <3>6, <1>e DEF GenerationInv, SignedInv
      <3>8. PendingInv'
        <4>1. ASSUME NEW d \in CRLClients, d # c PROVE ~Listed(d)'
          BY <4>1, <3>3, <3>4 DEF GenerationInv, LockInv, Generating, Listed
        <4>2. \A l \in signed : l.number < NextNumber
          BY <3>2, <3>6 DEF GenerationInv, SignedInv
        <4>3. /\ EntriesOf(c)' \subseteq RevokedEntries'
              /\ \A l \in signed' : l.entries \subseteq EntriesOf(c)'
          BY <3>1, <3>3, <3>4, <1>e DEF GenerationInv, PendingInv, Listed, EntriesOf
        <4>4. /\ crl'[c].number >= 1
              /\ crl'[c].number <= crlCounter'
              /\ \A l \in signed' : l.number < crl'[c].number
          <5> DEFINE n == NextNumber
          <5>1. n \in Nat /\ n >= 1 /\ crl'[c].number = n /\ crlCounter' = n
            BY <3>1, <3>2, <3>4
          <5>2. signed' = signed /\ \A l \in signed : l.number < n
            BY <3>1, <4>2
          <5> HIDE DEF n
          <5>3. QED
            BY <5>1, <5>2
        <4>5. QED
          BY <4>1, <4>3, <4>4 DEF PendingInv
      <3>9. DroppedInv'
        <4>1. ASSUME NEW d \in CRLClients, NEW s \in Serials, Listed(d)', Dropped(s)
              PROVE  \E e \in EntriesOf(d)' : e.serial = s
          BY <4>1, <3>3, <3>4 DEF GenerationInv, DroppedInv, Listed, EntriesOf
        <4>2. QED
          BY <4>1, <3>1, <3>3, <1>g
      <3>10. QED
        BY <3>5, <3>7, <3>8, <3>9 DEF GenerationInv
    <2>3. QED
      BY <2>1, <2>2
  <1>5. CASE CRLSign(c)
    <2>1. CASE CRLFail(c) /\ UNCHANGED <<cachedCRL, signed>>
      BY <1>5, <2>1, <1>f DEF CRLSign, Generating
    <2>2. CASE ~(CRLFail(c) /\ UNCHANGED <<cachedCRL, signed>>)
      <3> DEFINE new == [number |-> crl[c].number, entries |-> crl[c].entries,
                         next |-> CRLNextUpdate(crl[c].t)]
                 r == [IdleCRL EXCEPT !.pc = "header", !.got = new,
                                      !.acked = crl[c].acked]
      <3>1. /\ signed' = signed \cup {new} /\ cachedCRL' = new
            /\ crl' = [crl EXCEPT ![c] = r]
            /\ crlMu' = None /\ UNCHANGED crlCounter
        BY <1>5, <2>2 DEF CRLSign, storeVars, CRLFail
      <3>2. r.pc = "header" /\ r.acked = crl[c].acked
        BY DEF IdleCRL
      <3>3. new.number = crl[c].number /\ new.entries = crl[c].entries
        OBVIOUS
      <3> HIDE DEF new, r
      <3>4. crl[c].pc = "sign" /\ \A d \in CRLClients : d # c => ~Generating(d)
        BY <1>5 DEF CRLSign, GenerationInv, LockInv, Generating
      <3>5. \A d \in CRLClients : ~Generating(d)' /\ crl'[d].acked = crl[d].acked
        BY <3>1, <3>2, <3>4, <1>t DEF Generating
      <3>6. \A d \in CRLClients : ~Listed(d)'
        BY <3>5 DEF Generating, Listed
      <3>7. LockInv' /\ PendingInv'
        BY <3>5, <3>6 DEF LockInv, PendingInv
      <3>8. SignedInv'
        BY <3>1, <3>3, <3>4, <1>e
           DEF GenerationInv, SignedInv, PendingInv, Listed, EntriesOf
      <3>9. \A s \in Serials : Dropped(s) => s \in SerialsOf(new)
        BY <3>3, <3>4 DEF GenerationInv, DroppedInv, Listed, EntriesOf, SerialsOf
      <3>10. DroppedInv'
        <4>1. \A s \in Serials : Dropped(s)' => s \in SerialsOf(cachedCRL')
          BY <3>1, <3>9, <1>d
        <4>2. SerialsOf(cachedCRL') = SerialsOf(cachedCRL)'
          BY DEF SerialsOf
        <4>3. QED
          BY <4>1, <4>2, <3>5, <3>6, <1>w, <1>e, <1>d DEF GenerationInv, DroppedInv
      <3>11. QED
        BY <3>7, <3>8, <3>10 DEF GenerationInv
    <2>3. QED
      BY <2>1, <2>2
  <1>7. QED
    BY <1>1, <1>2, <1>3, <1>4, <1>5, <1>6 DEF CRLStep

(* Every step of the issuance and revocation handlers keeps the invariant: *)
(* DropCRL waits for the lock, so no generation that read the store before *)
(* the revocation is still under way when it runs.                         *)
LEMMA GenerationWriteStep ==
    ASSUME TypeOK, GenerationInv, NEW w \in Writers, Kept,
           \/ \E client \in Serials, s \in Serials \cup {None} : WriteArrive(w, client, s)
           \/ WriteStep(w)
    PROVE  GenerationInv'
  <1>t. writer \in [Writers -> WriteRequest]
    BY DEF TypeOK
  <1>i. IdleWriter.pc = "idle"
    BY DEF IdleWriter
  <1>s. ASSUME NEW v \in Writers, writer[v].pc \in {"dropCRL", "dropOCSP"}
        PROVE  /\ writer[v].serial \in Serials
               /\ records'[writer[v].serial].status = "revoked"
    <2>1. writer[v].serial \in Serials
      BY <1>s, <1>t DEF TypeOK, WriteRequest
    <2>2. QED
      BY <2>1, <1>s DEF GenerationInv, DroppedInv, Kept
  <1>q. ASSUME NEW r, writer' = [writer EXCEPT ![w] = r], r.pc # "dropOCSP",
               r.pc = "dropCRL" => records'[r.serial].status = "revoked",
               UNCHANGED <<crlCounter, crlMu, cachedCRL, crl, ackedAt, signed>>
        PROVE  GenerationInv'
    BY <1>q, <1>t, <1>s, QuietStep
  <1>1. ASSUME NEW client \in Serials, NEW s \in Serials \cup {None},
               WriteArrive(w, client, s)
        PROVE  GenerationInv'
    <2> DEFINE r == [IdleWriter EXCEPT !.pc = "auth", !.client = client,
                                       !.serial = s, !.withdrawn = client \in Acked]
    <2>1. r.pc = "auth"
      BY DEF IdleWriter
    <2>2. writer' = [writer EXCEPT ![w] = r]
      BY <1>1 DEF WriteArrive
    <2> HIDE DEF r
    <2>3. QED
      BY <1>1, <1>q, <2>1, <2>2 DEF WriteArrive, writeRest, storeVars, history
  <1>2. CASE RequireClient(w)
    <2>1. PICK r : writer' = [writer EXCEPT ![w] = r] /\ r.pc \in {"idle", "issue", "revoke"}
      BY <1>2, <1>i, <1>t DEF RequireClient, WriteFail, WriteRequest
    <2>2. QED
      BY <1>2, <1>q, <2>1 DEF RequireClient, writeRest, storeVars, history
  <1>3. ASSUME NEW reason \in Reasons, RevokeCommit(w, reason)
        PROVE  GenerationInv'
    <2>0. writer[w].serial \in Serials
      BY <1>3, <1>t DEF RevokeCommit, TypeOK, WriteRequest
    <2>1. CASE WriteFail(w)
      BY <1>3, <2>1, <1>q, <1>i DEF RevokeCommit, WriteFail, writeRest, history
    <2>2. CASE ~WriteFail(w)
      <3> DEFINE r == [writer[w] EXCEPT !.pc = "dropCRL", !.t = 0]
      <3>1. r.pc = "dropCRL" /\ r.serial = writer[w].serial
        BY <1>t DEF WriteRequest
      <3>2. writer' = [writer EXCEPT ![w] = r]
        BY <1>3, <2>2, <1>t DEF RevokeCommit, WriteRequest
      <3>3. records'[writer[w].serial].status = "revoked"
        BY <1>3, <2>0, <2>2, RevokeKeeps DEF RevokeCommit
      <3> HIDE DEF r
      <3>4. QED
        BY <1>3, <1>q, <3>1, <3>2, <3>3 DEF RevokeCommit, writeRest, history
    <2>3. QED
      BY <2>1, <2>2
  <1>4. CASE DropCRL(w)
    <2>1. \A c \in CRLClients : ~Generating(c) /\ ~Listed(c)
      BY <1>4, ServerAssumption DEF DropCRL, GenerationInv, LockInv, Generating, Listed
    <2>2. /\ cachedCRL' = NoCRL
          /\ UNCHANGED <<records, crlCounter, crlMu, crl, ackedAt, signed>>
      BY <1>4 DEF DropCRL, storeVars, history
    <2>3. \A v \in Writers : /\ v # w => writer'[v] = writer[v]
                             /\ writer'[v].serial = writer[v].serial
      BY <1>4, <1>t DEF DropCRL, WriteRequest
    <2>4. writer[w].pc = "dropCRL"
      BY <1>4 DEF DropCRL
    <2>5. RevokedEntries' = RevokedEntries /\ Acked' = Acked
      BY <2>2 DEF RevokedEntries, Acked
    <2>6. LockInv' /\ SignedInv' /\ PendingInv'
      BY <2>1, <2>2, <2>5
         DEF GenerationInv, LockInv, SignedInv, PendingInv, Generating, Listed
    <2>7. \A v \in Writers :
             writer'[v].pc \in {"dropCRL", "dropOCSP"}
             => records'[writer'[v].serial].status = "revoked"
      BY <2>3, <2>4, <1>s
    <2>8. ASSUME NEW s \in Serials, Dropped(s)' PROVE records'[s].status = "revoked"
      <3>1. CASE s \in Acked
        BY <3>1, <2>2 DEF GenerationInv, DroppedInv, Dropped
      <3>2. CASE s \notin Acked
        BY <3>2, <2>5, <2>7, <2>8 DEF Dropped
      <3>3. QED
        BY <3>1, <3>2
    <2>9. DroppedInv'
      BY <2>1, <2>2, <2>5, <2>7, <2>8 DEF GenerationInv, DroppedInv, Listed
    <2>10. QED
      BY <2>6, <2>9 DEF GenerationInv
  <1>5. CASE DropOCSP(w)
    <2>1. writer[w].pc = "dropOCSP" /\ writer[w].serial \in Serials
      BY <1>5, <1>s DEF DropOCSP
    <2>2. /\ UNCHANGED <<records, crlCounter, crlMu, cachedCRL, crl, signed>>
          /\ writer' = [writer EXCEPT ![w] = IdleWriter]
      BY <1>5 DEF DropOCSP, storeVars
    <2>3. Acked \subseteq Acked' /\ Acked' \subseteq Acked \cup {writer[w].serial}
      BY <1>5, <2>1 DEF DropOCSP, Acked, TypeOK, StoreTypeOK
    <2>4. \A s \in Serials : Dropped(s)' => Dropped(s)
      BY <2>1, <2>2, <2>3, <1>t, <1>i DEF Dropped
    <2>5. RevokedEntries' = RevokedEntries
      BY <2>2 DEF RevokedEntries
    <2>6. LockInv' /\ SignedInv'
      BY <2>2, <2>5 DEF GenerationInv, LockInv, SignedInv, Generating
    <2>7. PendingInv'
      BY <2>2, <2>5 DEF GenerationInv, PendingInv, Listed, EntriesOf
    <2>8. DroppedInv'
      <3>1. \A v \in Writers :
               writer'[v].pc \in {"dropCRL", "dropOCSP"}
               => records'[writer'[v].serial].status = "revoked"
        BY <2>2, <1>s, <1>t, <1>i
      <3>2. \A c \in CRLClients : crl'[c].acked \subseteq Acked'
        BY <2>2, <2>3 DEF GenerationInv, DroppedInv
      <3>3. QED
        BY <3>1, <3>2, <2>2, <2>4
           DEF GenerationInv, DroppedInv, Listed, EntriesOf, SerialsOf
    <2>9. QED
      BY <2>6, <2>7, <2>8 DEF GenerationInv
  <1>6. ASSUME NEW s \in Serials, IssueSign(w, s) PROVE GenerationInv'
    <2>1. PICK r : writer' = [writer EXCEPT ![w] = r] /\ r.pc \in {"idle", "record"}
      BY <1>6, <1>i, <1>t DEF IssueSign, WriteFail, WriteRequest
    <2>2. QED
      BY <1>6, <1>q, <2>1 DEF IssueSign, writeRest, storeVars, history
  <1>7. CASE IssueRecord(w)
    BY <1>7, <1>q, <1>i DEF IssueRecord, WriteFail, writeRest
  <1>8. QED
    BY <1>1, <1>2, <1>3, <1>4, <1>5, <1>6, <1>7 DEF WriteStep

(* The responder, start, crash, keytool and the clock keep the invariant.  *)
LEMMA GenerationProcess ==
    ASSUME TypeOK, GenerationInv, Kept,
           \/ OCSPAction
           \/ RenewAction
           \/ \E s \in Serials : Start(s) \/ KeytoolIssue(s)
           \/ StartFails \/ Crash \/ Tick \/ UNCHANGED vars
    PROVE  GenerationInv'
  <1>1. CASE Crash
    <2>1. \A c \in CRLClients : crl'[c].pc = "idle" /\ crl'[c].acked = {}
      BY <1>1 DEF Crash, IdleCRL
    <2>2. \A w \in Writers : writer'[w].pc = "idle"
      BY <1>1 DEF Crash, IdleWriter
    <2>3. /\ cachedCRL' = NoCRL
          /\ UNCHANGED <<records, crlCounter, ackedAt, signed>>
      BY <1>1 DEF Crash, storeVars, history
    <2>4. RevokedEntries' = RevokedEntries /\ Acked' = Acked
      BY <2>3 DEF RevokedEntries, Acked
    <2>5. LockInv' /\ SignedInv' /\ PendingInv'
      BY <2>1, <2>3, <2>4
         DEF GenerationInv, LockInv, SignedInv, PendingInv, Generating, Listed
    <2>6. DroppedInv'
      BY <2>1, <2>2, <2>3, <2>4 DEF GenerationInv, DroppedInv, Dropped, Listed
    <2>7. QED
      BY <2>5, <2>6 DEF GenerationInv
  <1>2. CASE ~Crash
    <2>1. UNCHANGED <<crlCounter, crlMu, cachedCRL, crl, ackedAt, signed, writer>>
      BY <1>2 DEF OCSPAction, RenewAction, Start, KeytoolIssue, StartFails, Tick,
                  vars, storeVars, serverVars, history
    <2>2. ASSUME NEW w \in Writers, writer[w].pc \in {"dropCRL", "dropOCSP"}
          PROVE  records'[writer[w].serial].status = "revoked"
      <3>1. writer[w].serial \in Serials
        BY <2>2 DEF TypeOK, WriteRequest
      <3>2. QED
        BY <2>2, <3>1 DEF GenerationInv, DroppedInv, Kept
    <2>3. QED
      BY <2>1, <2>2, QuietStep
  <1>3. QED
    BY <1>1, <1>2

(* The invariant of CRL generation holds in every state of every run of    *)
(* the service, whatever requests, restarts and failures it meets.         *)
THEOREM GenerationInvariant == Spec => []GenerationInv
  <1>1. TypeOK /\ GenerationInv /\ [Next]_vars => GenerationInv'
    <2> SUFFICES ASSUME TypeOK, GenerationInv, [Next]_vars PROVE GenerationInv'
      OBVIOUS
    <2>1. Kept
      BY StepKeeps
    <2>2. CASE UNCHANGED vars
      BY <2>1, <2>2, GenerationProcess
    <2>3. CASE Next
      BY <2>1, <2>3, GenerationCRLStep, GenerationWriteStep, GenerationProcess DEF Next
    <2>4. QED
      BY <2>2, <2>3
  <1>2. QED
    BY TypeCorrect, GenerationInit, <1>1, PTL DEF Spec

(* What a step adds to the signed CRLs: nothing, or one CRL that lists     *)
(* everything listed before under a number above all of them.              *)
LEMMA SignedStep ==
    ASSUME TypeOK, GenerationInv, [Next]_vars
    PROVE  \/ UNCHANGED signed
           \/ \E new \in CRL :
                 /\ signed' = signed \cup {new}
                 /\ UNCHANGED records
                 /\ new.entries \subseteq RevokedEntries
                 /\ \A l \in signed : /\ l.number < new.number
                                      /\ l.entries \subseteq new.entries
  <1>1. ASSUME NEW c \in CRLClients, CRLSign(c), ~ UNCHANGED signed
        PROVE  \E new \in CRL :
                 /\ signed' = signed \cup {new}
                 /\ UNCHANGED records
                 /\ new.entries \subseteq RevokedEntries
                 /\ \A l \in signed : /\ l.number < new.number
                                      /\ l.entries \subseteq new.entries
    <2> DEFINE new == [number |-> crl[c].number, entries |-> crl[c].entries,
                       next |-> CRLNextUpdate(crl[c].t)]
    <2>1. signed' = signed \cup {new} /\ UNCHANGED records
      BY <1>1 DEF CRLSign, storeVars
    <2>2. new \in CRL
      BY ServerAssumption, ResponderAssumption DEF TypeOK, CRL, CRLRequest, CRLNextUpdate
    <2>3. new.number = crl[c].number /\ new.entries = crl[c].entries
      OBVIOUS
    <2>4. crl[c].pc = "sign"
      BY <1>1 DEF CRLSign
    <2> HIDE DEF new
    <2>5. /\ new.entries \subseteq RevokedEntries
          /\ \A l \in signed : /\ l.number < new.number
                               /\ l.entries \subseteq new.entries
      BY <2>3, <2>4 DEF GenerationInv, PendingInv, Listed, EntriesOf
    <2>6. QED
      BY <2>1, <2>2, <2>5
  <1>2. CASE \E c \in CRLClients : CRLSign(c)
    BY <1>1, <1>2
  <1>3. CASE ~ \E c \in CRLClients : CRLSign(c)
    <2>1. CASE UNCHANGED vars
      BY <2>1 DEF vars, history
    <2>2. ASSUME NEW c \in CRLClients, CRLArrive(c) \/ CRLStep(c) PROVE UNCHANGED signed
      BY <2>2, <1>3 DEF CRLArrive, CRLStep, CRLLock, CRLList, CRLNumber, CRLHeader, history
    <2>3. ASSUME NEW w \in Writers,
                 \/ \E client \in Serials, s \in Serials \cup {None} :
                       WriteArrive(w, client, s)
                 \/ WriteStep(w)
          PROVE  UNCHANGED signed
      BY <2>3 DEF WriteArrive, WriteStep, RequireClient, RevokeCommit, DropCRL,
                  DropOCSP, IssueSign, IssueRecord, history
    <2>4. ASSUME \/ OCSPAction \/ RenewAction \/ StartFails \/ Crash \/ Tick
                 \/ \E s \in Serials : Start(s) \/ KeytoolIssue(s)
          PROVE  UNCHANGED signed
      BY <2>4 DEF OCSPAction, RenewAction, StartFails, Crash, Tick, Start,
                  KeytoolIssue, vars, history
    <2>5. QED
      BY <2>1, <2>2, <2>3, <2>4 DEF Next
  <1>4. QED
    BY <1>2, <1>3

(* A CRL with a higher number never lists less than one with a lower, and  *)
(* no number is signed twice.                                              *)
THEOREM CRLsAreOrdered == Spec => [](CRLOrdered /\ CRLNumberUnique)
  <1>1. Init => CRLOrdered /\ CRLNumberUnique
    BY DEF Init, CRLOrdered, CRLNumberUnique
  <1>2. TypeOK /\ GenerationInv /\ CRLOrdered /\ CRLNumberUnique /\ [Next]_vars
        => (CRLOrdered /\ CRLNumberUnique)'
    <2> SUFFICES ASSUME TypeOK, GenerationInv, CRLOrdered, CRLNumberUnique, [Next]_vars
                 PROVE  (CRLOrdered /\ CRLNumberUnique)'
      OBVIOUS
    <2>1. CASE UNCHANGED signed
      BY <2>1 DEF CRLOrdered, CRLNumberUnique
    <2>2. CASE ~ UNCHANGED signed
      <3>1. PICK new \in CRL :
               /\ signed' = signed \cup {new}
               /\ \A l \in signed : /\ l.number < new.number
                                    /\ l.entries \subseteq new.entries
        BY <2>2, SignedStep
      <3>2. new.number \in Nat /\ \A l \in signed : l.number \in Nat
        BY DEF TypeOK, CRL
      <3>3. CRLOrdered'
        BY <3>1, <3>2 DEF CRLOrdered
      <3>4. CRLNumberUnique'
        BY <3>1, <3>2 DEF CRLNumberUnique
      <3>5. QED
        BY <3>3, <3>4
    <2>3. QED
      BY <2>1, <2>2
  <1>3. QED
    BY TypeCorrect, GenerationInvariant, <1>1, <1>2, PTL DEF Spec

(* A CRL answered to a request lists every revocation answered before the  *)
(* request arrived.                                                        *)
THEOREM CRLsAreComplete == Spec => []CRLComplete
  <1>1. Init => CRLComplete
    BY DEF Init, CRLComplete, IdleCRL
  <1>2. TypeOK /\ GenerationInv /\ CRLComplete /\ [Next]_vars => CRLComplete'
    <2> SUFFICES ASSUME TypeOK, GenerationInv, CRLComplete, [Next]_vars
                 PROVE  CRLComplete'
      OBVIOUS
    <2>t. crl \in [CRLClients -> CRLRequest]
      BY DEF TypeOK
    <2>i. IdleCRL.got = NoCRL
      BY DEF IdleCRL
    <2>q. ASSUME NEW c \in CRLClients, NEW r, crl' = [crl EXCEPT ![c] = r],
                 r.got # NoCRL => r.acked \subseteq SerialsOf(r.got)
          PROVE  CRLComplete'
      BY <2>q, <2>t DEF CRLComplete, SerialsOf
    <2>f. ASSUME NEW c \in CRLClients, CRLFail(c) PROVE CRLComplete'
      BY <2>f, <2>q, <2>i DEF CRLFail
    <2>k. ASSUME NEW c \in CRLClients, NEW r, crl' = [crl EXCEPT ![c] = r],
                 r.got = crl[c].got, r.acked = crl[c].acked
          PROVE  CRLComplete'
      BY <2>k, <2>t DEF CRLComplete, SerialsOf
    <2>u. ASSUME UNCHANGED crl PROVE CRLComplete'
      BY <2>u DEF CRLComplete, SerialsOf
    <2>1. ASSUME NEW c \in CRLClients, CRLArrive(c) PROVE CRLComplete'
      <3> DEFINE r == [IdleCRL EXCEPT !.pc = "lock", !.acked = Acked]
      <3>1. r.got = NoCRL /\ crl' = [crl EXCEPT ![c] = r]
        BY <2>1 DEF CRLArrive, IdleCRL
      <3> HIDE DEF r
      <3>2. QED
        BY <3>1, <2>q
    <2>2. ASSUME NEW c \in CRLClients, CRLLock(c) PROVE CRLComplete'
      <3>1. CASE CacheFresh
        <4> DEFINE r == [crl[c] EXCEPT !.pc = "header", !.got = cachedCRL]
        <4>1. r.got = cachedCRL /\ r.acked = crl[c].acked
          BY <2>t DEF CRLRequest
        <4>2. crl' = [crl EXCEPT ![c] = r]
          BY <2>2, <3>1, <2>t DEF CRLLock, CRLRequest
        <4>3. crl[c].acked \subseteq Acked /\ Acked \subseteq Serials
          BY DEF GenerationInv, DroppedInv, Acked
        <4>4. Acked \subseteq SerialsOf(cachedCRL)
          BY <3>1, <4>3 DEF CacheFresh, GenerationInv, DroppedInv, Dropped
        <4> HIDE DEF r
        <4>5. QED
          BY <4>1, <4>2, <4>3, <4>4, <2>q
      <3>2. CASE ~CacheFresh
        <4> DEFINE r == [crl[c] EXCEPT !.pc = "list", !.t = now]
        <4>1. r.got = crl[c].got /\ r.acked = crl[c].acked
          BY <2>t DEF CRLRequest
        <4>2. crl' = [crl EXCEPT ![c] = r]
          BY <2>2, <3>2, <2>t DEF CRLLock, CRLRequest
        <4> HIDE DEF r
        <4>3. QED
          BY <4>1, <4>2, <2>k
      <3>3. QED
        BY <3>1, <3>2
    <2>3. ASSUME NEW c \in CRLClients, CRLList(c) PROVE CRLComplete'
      <3> DEFINE r == [crl[c] EXCEPT !.pc = "number", !.entries = RevokedEntries]
      <3>1. r.got = crl[c].got /\ r.acked = crl[c].acked
        BY <2>t DEF CRLRequest
      <3>2. CRLFail(c) \/ crl' = [crl EXCEPT ![c] = r]
        BY <2>3, <2>t DEF CRLList, CRLRequest
      <3> HIDE DEF r
      <3>3. QED
        BY <3>1, <3>2, <2>f, <2>k
    <2>4. ASSUME NEW c \in CRLClients, CRLNumber(c) PROVE CRLComplete'
      <3> DEFINE r == [crl[c] EXCEPT !.pc = "sign", !.number = NextNumber]
      <3>1. r.got = crl[c].got /\ r.acked = crl[c].acked
        BY <2>t DEF CRLRequest
      <3>2. CRLFail(c) \/ crl' = [crl EXCEPT ![c] = r]
        BY <2>4, <2>t DEF CRLNumber, CRLRequest
      <3> HIDE DEF r
      <3>3. QED
        BY <3>1, <3>2, <2>f, <2>k
    <2>5. ASSUME NEW c \in CRLClients, CRLSign(c) PROVE CRLComplete'
      <3> DEFINE new == [number |-> crl[c].number, entries |-> crl[c].entries,
                         next |-> CRLNextUpdate(crl[c].t)]
                 r == [IdleCRL EXCEPT !.pc = "header", !.got = new,
                                      !.acked = crl[c].acked]
      <3>1. r.got = new /\ r.acked = crl[c].acked
        BY DEF IdleCRL
      <3>2. CRLFail(c) \/ crl' = [crl EXCEPT ![c] = r]
        BY <2>5 DEF CRLSign
      <3>3. new.entries = crl[c].entries
        OBVIOUS
      <3> HIDE DEF new, r
      <3>4. crl[c].acked \subseteq Acked /\ Acked \subseteq Serials
        BY DEF GenerationInv, DroppedInv, Acked
      <3>5. crl[c].pc = "sign"
        BY <2>5 DEF CRLSign
      <3>6. Acked \subseteq SerialsOf(new)
        BY <3>3, <3>4, <3>5
           DEF GenerationInv, DroppedInv, Dropped, Listed, EntriesOf, SerialsOf
      <3>7. QED
        BY <3>1, <3>2, <3>4, <3>6, <2>f, <2>q
    <2>6. ASSUME NEW c \in CRLClients, CRLHeader(c) PROVE CRLComplete'
      <3> DEFINE r == [crl[c] EXCEPT !.pc = "idle",
                         !.until = IF cachedNextUpdate < now THEN 0 ELSE cachedNextUpdate]
      <3>1. r.got = crl[c].got /\ r.acked = crl[c].acked
        BY <2>t DEF CRLRequest
      <3>2. crl' = [crl EXCEPT ![c] = r]
        BY <2>6, <2>t DEF CRLHeader, CRLRequest
      <3> HIDE DEF r
      <3>3. QED
        BY <3>1, <3>2, <2>k
    <2>7. CASE Crash
      BY <2>7, <2>i DEF Crash, CRLComplete
    <2>8. ASSUME NEW w \in Writers,
                 \/ \E client \in Serials, s \in Serials \cup {None} :
                       WriteArrive(w, client, s)
                 \/ WriteStep(w)
          PROVE  CRLComplete'
      BY <2>8, <2>u DEF WriteArrive, WriteStep, RequireClient, RevokeCommit, DropCRL,
                        DropOCSP, IssueSign, IssueRecord, writeRest
    <2>9. CASE \/ OCSPAction \/ RenewAction \/ StartFails \/ Tick \/ UNCHANGED vars
               \/ \E s \in Serials : Start(s) \/ KeytoolIssue(s)
      BY <2>9, <2>u DEF OCSPAction, RenewAction, StartFails, Tick, Start,
                        KeytoolIssue, vars, serverVars
    <2>10. QED
      BY <2>1, <2>2, <2>3, <2>4, <2>5, <2>6, <2>7, <2>8, <2>9 DEF Next, CRLStep
  <1>3. QED
    BY TypeCorrect, GenerationInvariant, <1>1, <1>2, PTL DEF Spec

-----------------------------------------------------------------------------
(* store.Record adds no entry: a new row is valid.                         *)
LEMMA RecordSameEntries ==
    ASSUME TypeOK, NEW s \in Serials, Record(s)
    PROVE  RevokedEntries' = RevokedEntries
  <1>1. \A u \in Serials : records'[u].status = "revoked" <=> records[u].status = "revoked"
    BY DEF Record, ValidRecord, TypeOK, StoreTypeOK
  <1>2. \A u \in Serials : records[u].status = "revoked" => records'[u] = records[u]
    BY DEF Record, TypeOK, StoreTypeOK
  <1>3. QED
    BY <1>1, <1>2 DEF RevokedEntries

(* store.Revoke leaves the entries alone or adds one for a serial that had *)
(* none.                                                                   *)
LEMMA RevokeEnters ==
    ASSUME TypeOK, NEW s \in Serials, NEW reason \in Nat, NEW at \in Nat,
           Revoke(s, reason, at)
    PROVE  \/ RevokedEntries' = RevokedEntries
           \/ /\ \A e \in RevokedEntries : e.serial # s
              /\ RevokedEntries' =
                    RevokedEntries \cup {[serial |-> s, at |-> at, reason |-> reason]}
  <1>1. CASE records[s].status = "revoked"
    BY <1>1 DEF Revoke, RevokedEntries
  <1>2. CASE records[s].status # "revoked"
    <2> DEFINE new == [status |-> "revoked", at |-> at, reason |-> reason]
    <2>1. records' = [records EXCEPT ![s] = new]
      BY <1>2 DEF Revoke
    <2>2. /\ \A u \in Serials : u # s => records'[u] = records[u]
          /\ records'[s] = new
      BY <2>1 DEF TypeOK, StoreTypeOK
    <2>3. /\ records'[s].status = "revoked"
          /\ records'[s].at = at /\ records'[s].reason = reason
      BY <2>2
    <2>4. \A e \in RevokedEntries : e.serial # s
      BY <1>2 DEF RevokedEntries
    <2> HIDE DEF new
    <2>5. RevokedEntries' =
             RevokedEntries \cup {[serial |-> s, at |-> at, reason |-> reason]}
      BY <1>2, <2>2, <2>3 DEF RevokedEntries
    <2>6. QED
      BY <2>4, <2>5
  <1>3. QED
    BY <1>1, <1>2

(* What a step adds to the entries: nothing, or one for a serial that had  *)
(* none.                                                                   *)
LEMMA EntriesStep ==
    ASSUME TypeOK, [Next]_vars
    PROVE  \/ UNCHANGED RevokedEntries
           \/ /\ UNCHANGED signed
              /\ \E s \in Serials, at \in Nat, reason \in Nat :
                    /\ \A e \in RevokedEntries : e.serial # s
                    /\ RevokedEntries' = RevokedEntries
                          \cup {[serial |-> s, at |-> at, reason |-> reason]}
  <1>u. ASSUME UNCHANGED records PROVE UNCHANGED RevokedEntries
    BY <1>u DEF RevokedEntries
  <1>1. ASSUME NEW c \in CRLClients, CRLArrive(c) \/ CRLStep(c)
        PROVE  UNCHANGED RevokedEntries
    BY <1>1, <1>u DEF CRLArrive, CRLStep, CRLLock, CRLList, CRLNumber, CRLSign,
                      CRLHeader, CRLFail, storeVars
  <1>2. ASSUME NEW w \in Writers, NEW client \in Serials,
               NEW s \in Serials \cup {None}, WriteArrive(w, client, s)
        PROVE  UNCHANGED RevokedEntries
    BY <1>2, <1>u DEF WriteArrive, storeVars
  <1>3. ASSUME NEW w \in Writers,
               \/ RequireClient(w) \/ DropCRL(w) \/ DropOCSP(w)
               \/ \E s \in Serials : IssueSign(w, s)
        PROVE  UNCHANGED RevokedEntries
    BY <1>3, <1>u DEF RequireClient, DropCRL, DropOCSP, IssueSign, storeVars
  <1>4. ASSUME NEW w \in Writers, IssueRecord(w) PROVE UNCHANGED RevokedEntries
    <2>1. writer[w].serial \in Serials
      BY <1>4 DEF IssueRecord, TypeOK, WriteRequest
    <2>2. QED
      BY <1>4, <2>1, <1>u, RecordSameEntries DEF IssueRecord
  <1>5. CASE OCSPAction
    BY <1>5, <1>u DEF OCSPAction, storeVars
  <1>6. CASE RenewAction
    <2>1. CASE UNCHANGED records
      BY <2>1, <1>u
    <2>2. CASE RenewRecord
      <3>1. renewal.cert.serial \in Serials \cup {None}
        BY DEF TypeOK, ResponderTypeOK, Renewal, Cert
      <3>2. CASE renewal.cert.serial \in Serials
        BY <2>2, <3>2, RecordSameEntries DEF RenewRecord
      <3>3. CASE renewal.cert.serial \notin Serials
        BY <2>2, <3>3, <1>u DEF RenewRecord, Record, TypeOK, StoreTypeOK
      <3>4. QED
        BY <3>2, <3>3
    <2>3. QED
      BY <1>6, <2>1, <2>2 DEF RenewAction, RenewRecordFails
  <1>7. ASSUME NEW s \in Serials, Start(s) \/ KeytoolIssue(s)
        PROVE  UNCHANGED RevokedEntries
    BY <1>7, <1>u, RecordSameEntries DEF Start, KeytoolIssue
  <1>8. CASE StartFails \/ Crash \/ Tick \/ UNCHANGED vars
    BY <1>8, <1>u DEF StartFails, Crash, Tick, vars, storeVars
  <1>9. ASSUME NEW w \in Writers, NEW reason \in Reasons, RevokeCommit(w, reason)
        PROVE  \/ UNCHANGED RevokedEntries
               \/ /\ UNCHANGED signed
                  /\ \E s \in Serials, at \in Nat, r \in Nat :
                        /\ \A e \in RevokedEntries : e.serial # s
                        /\ RevokedEntries' = RevokedEntries
                              \cup {[serial |-> s, at |-> at, reason |-> r]}
    <2>1. /\ writer[w].serial \in Serials /\ writer[w].t \in Nat /\ reason \in Nat
          /\ UNCHANGED signed
      BY <1>9, StoreAssumption DEF RevokeCommit, TypeOK, WriteRequest, history
    <2>2. CASE UNCHANGED records
      BY <2>2, <1>u
    <2>3. CASE Revoke(writer[w].serial, reason, writer[w].t)
      BY <2>1, <2>3, RevokeEnters
    <2>4. QED
      BY <1>9, <2>2, <2>3 DEF RevokeCommit
  <1>10. QED
    BY <1>1, <1>2, <1>3, <1>4, <1>5, <1>6, <1>7, <1>8, <1>9 DEF Next, WriteStep

(* The service implements the abstract ledger: every step maps to entering *)
(* one revocation, publishing one CRL, or nothing.                         *)
THEOREM Refinement == Spec => ImplementsLedger
  <1>1. Init => Ledger!Init
    BY DEF Init, Ledger!Init, StoreInit, Absent, RevokedEntries, Published
  <1>2. TypeOK /\ GenerationInv /\ [Next]_vars
        => [Ledger!Next]_<<RevokedEntries, Published>>
    <2> SUFFICES ASSUME TypeOK, GenerationInv, [Next]_vars
                 PROVE  Ledger!Next \/ UNCHANGED <<RevokedEntries, Published>>
      OBVIOUS
    <2>1. CASE UNCHANGED signed
      <3>1. UNCHANGED Published
        BY <2>1 DEF Published
      <3>2. CASE UNCHANGED RevokedEntries
        BY <3>1, <3>2
      <3>3. CASE ~ UNCHANGED RevokedEntries
        <4>1. PICK s \in Serials, at \in Nat, reason \in Nat :
                 /\ \A e \in RevokedEntries : e.serial # s
                 /\ RevokedEntries' = RevokedEntries
                       \cup {[serial |-> s, at |-> at, reason |-> reason]}
          BY <3>3, EntriesStep
        <4> DEFINE e == [serial |-> s, at |-> at, reason |-> reason]
        <4>2. e \in RevokedEntries' /\ e.serial = s /\ e.at = at /\ e.reason = reason
          BY <4>1
        <4>3. Ledger!Enter(s, e.at, e.reason)
          BY <4>1, <4>2, <3>1 DEF Ledger!Enter
        <4> HIDE DEF e
        <4>4. QED
          BY <4>2, <4>3 DEF Ledger!Next
      <3>4. QED
        BY <3>2, <3>3
    <2>2. CASE ~ UNCHANGED signed
      <3>1. PICK new \in CRL :
               /\ signed' = signed \cup {new}
               /\ UNCHANGED records
               /\ new.entries \subseteq RevokedEntries
               /\ \A l \in signed : /\ l.number < new.number
                                    /\ l.entries \subseteq new.entries
        BY <2>2, SignedStep
      <3> DEFINE l == [number |-> new.number, entries |-> new.entries]
      <3>2. UNCHANGED RevokedEntries
        BY <3>1 DEF RevokedEntries
      <3>3. Published' = Published \cup {l}
        BY <3>1 DEF Published
      <3>4. l.number = new.number /\ l.entries = new.entries
        OBVIOUS
      <3>5. \A p \in Published : \E x \in signed : p.number = x.number /\ p.entries = x.entries
        BY DEF Published
      <3> HIDE DEF l
      <3>6. \A p \in Published : p.number < l.number /\ p.entries \subseteq l.entries
        BY <3>1, <3>4, <3>5
      <3>7. Ledger!Publish(l)
        BY <3>1, <3>2, <3>3, <3>4, <3>6 DEF Ledger!Publish
      <3>8. QED
        BY <3>3, <3>7 DEF Ledger!Next
    <2>3. QED
      BY <2>1, <2>2
  <1>3. QED
    BY TypeCorrect, GenerationInvariant, <1>1, <1>2, PTL
       DEF Spec, ImplementsLedger, Ledger!Spec
=============================================================================
