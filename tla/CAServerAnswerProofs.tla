------------------------ MODULE CAServerAnswerProofs ------------------------
(***************************************************************************)
(* What the service answers about a certificate: OCSP responses while      *)
(* revocations, renewals and restarts come between the steps of Respond,   *)
(* the clients the write routes let in, and the lifetime of a CRL.         *)
(***************************************************************************)
EXTENDS CAServerProofs

(* A process that is down, or has no responder, answers no OCSP request    *)
(* and caches nothing.                                                     *)
QuietInv ==
    ~up \/ ~ResponderEnabled =>
        cache = EmptyCache /\ \A o \in OCSPClients : ocsp[o].pc = "idle"

(* The cache: only responses made of rows, under the certificate in use;   *)
(* one that says revoked says what the row says, and one that says good of *)
(* a revoked certificate came from a lookup older than the 204.            *)
CacheInv ==
    \A s \in Serials :
        /\ cache[s].next <= now + ResponseWindow
        /\ Cached(s) => cache[s].signer = cert.serial /\ cache[s].rec.status # "absent"
        /\ cache[s].rec.status = "revoked" => cache[s].rec = records[s]
        /\ cache[s].rec.status = "valid" /\ s \in Acked =>
              s \in raced /\ cache[s].next <= ackedAt[s] + ResponseWindow

(* A request inside Respond: the same of the row it has read.              *)
FlightOK(r) ==
    /\ r.t <= now
    /\ r.acked => r.serial \in Acked
    /\ r.pc # "idle" /\ r.known => records[r.serial].status # "absent"
    /\ r.pc \in {"sign", "insert"} =>
          /\ r.known => r.rec.status # "absent"
          /\ r.rec.status = "revoked" => r.rec = records[r.serial]
          /\ r.rec.status = "valid" /\ r.serial \in Acked =>
                r.serial \in raced /\ r.t <= ackedAt[r.serial]
    /\ r.pc = "insert" => r.rec.status # "absent"

FlightInv == \A o \in OCSPClients : FlightOK(ocsp[o])

(* A response that was given.                                              *)
ReplyOK(r) ==
    /\ r.reply.next <= now + ResponseWindow
    /\ r.reply # NoResponse /\ r.known => r.reply.rec.status # "absent"
    /\ r.reply.rec.status = "revoked" =>
          r.serial \in Serials /\ r.reply.rec = records[r.serial]
    /\ r.reply.rec.status = "valid" /\ r.serial \in Acked =>
          r.reply.next <= ackedAt[r.serial] + ResponseWindow
    /\ r.reply.rec.status = "valid" /\ r.acked => r.serial \in raced

ReplyInv == \A o \in OCSPClients : ReplyOK(ocsp[o])

ResponderInv == QuietInv /\ CacheInv /\ FlightInv /\ ReplyInv

(* A client certificate that was revoked before its request arrived is     *)
(* still revoked when requireClient looks at its row.                      *)
ClientInv ==
    \A w \in Writers :
        /\ writer[w].pc = "auth" /\ writer[w].withdrawn => writer[w].client \in Acked
        /\ writer[w].pc \notin {"idle", "auth"} => ~writer[w].withdrawn

(* The CRL a request is about to answer, and the lifetime its header can   *)
(* still read: of that CRL, or of one signed later.                        *)
HeaderInv ==
    /\ cachedCRL # NoCRL => cachedCRL \in signed /\ cachedCRL.next = cachedNextUpdate
    /\ \A c \in CRLClients :
          crl[c].pc = "header" =>
              \E l \in signed : l.number >= crl[c].got.number /\ cachedNextUpdate <= l.next

-----------------------------------------------------------------------------
(* Rows are never deleted.                                                 *)
Stays == \A s \in Serials : records[s].status # "absent" => records'[s].status # "absent"

LEMMA RecordStays ==
    ASSUME TypeOK, NEW s, Record(s)
    PROVE  Stays
  BY DEF Stays, Record, ValidRecord, TypeOK, StoreTypeOK

LEMMA StepStays ==
    ASSUME TypeOK, [Next]_vars
    PROVE  Stays
  <1>u. ASSUME UNCHANGED records PROVE Stays
    BY <1>u DEF Stays
  <1>1. ASSUME NEW c \in CRLClients, CRLArrive(c) \/ CRLStep(c) PROVE Stays
    BY <1>1, <1>u DEF CRLArrive, CRLStep, CRLLock, CRLList, CRLNumber, CRLSign,
                      CRLHeader, CRLFail, storeVars
  <1>2. ASSUME NEW w \in Writers, NEW client \in Serials,
               NEW s \in Serials \cup {None}, WriteArrive(w, client, s)
        PROVE  Stays
    BY <1>2, <1>u DEF WriteArrive, storeVars
  <1>3. ASSUME NEW w \in Writers, WriteStep(w) PROVE Stays
    <2>1. CASE RequireClient(w) \/ DropCRL(w) \/ DropOCSP(w)
      BY <2>1, <1>u DEF RequireClient, DropCRL, DropOCSP, storeVars
    <2>2. ASSUME NEW reason \in Reasons, RevokeCommit(w, reason) PROVE Stays
      BY <2>2, <1>u DEF RevokeCommit, Revoke, Stays, TypeOK, StoreTypeOK
    <2>3. ASSUME NEW s \in Serials, IssueSign(w, s) PROVE Stays
      BY <2>3, <1>u DEF IssueSign, storeVars
    <2>4. CASE IssueRecord(w)
      BY <2>4, <1>u, RecordStays DEF IssueRecord
    <2>5. QED
      BY <1>3, <2>1, <2>2, <2>3, <2>4 DEF WriteStep
  <1>4. CASE OCSPAction
    BY <1>4, <1>u DEF OCSPAction, storeVars
  <1>5. CASE RenewAction
    BY <1>5, <1>u, RecordStays DEF RenewAction, RenewRecord, RenewRecordFails
  <1>6. ASSUME NEW s \in Serials, Start(s) \/ KeytoolIssue(s) PROVE Stays
    BY <1>6, <1>u, RecordStays DEF Start, KeytoolIssue
  <1>7. CASE StartFails \/ Crash \/ Tick \/ UNCHANGED vars
    BY <1>7, <1>u DEF StartFails, Crash, Tick, vars, storeVars
  <1>8. QED
    BY <1>1, <1>2, <1>3, <1>4, <1>5, <1>6, <1>7 DEF Next

-----------------------------------------------------------------------------
(* The responder                                                           *)

LEMMA ResponderInvInit == Init => ResponderInv
  <1> SUFFICES ASSUME Init PROVE ResponderInv
    OBVIOUS
  <1>1. /\ cache = EmptyCache
        /\ \A o \in OCSPClients : ocsp[o] = IdleOCSP
        /\ now = 0
    BY DEF Init, StoreInit, ResponderInit
  <1>2. NoResponse.next <= ResponseWindow /\ NoResponse.rec.status = "absent"
        /\ NoResponse.signer = None
    BY ResponderAssumption DEF NoResponse, Absent
  <1>3. /\ IdleOCSP.pc = "idle" /\ ~IdleOCSP.acked /\ IdleOCSP.t = 0
        /\ IdleOCSP.reply = NoResponse
    BY DEF IdleOCSP
  <1>4. QuietInv
    BY <1>1, <1>3 DEF QuietInv
  <1>5. CacheInv
    BY <1>1, <1>2, ResponderAssumption DEF CacheInv, EmptyCache, Cached
  <1>6. FlightInv
    BY <1>1, <1>3 DEF FlightInv, FlightOK
  <1>7. ReplyInv
    BY <1>1, <1>2, <1>3, ResponderAssumption DEF ReplyInv, ReplyOK
  <1>8. QED
    BY <1>4, <1>5, <1>6, <1>7 DEF ResponderInv

(* An empty cache satisfies its invariant, whatever the rest.              *)
LEMMA EmptyCacheInv ==
    ASSUME cache' = EmptyCache, now' \in Nat
    PROVE  CacheInv'
  <1>1. /\ NoResponse.next = 0 /\ NoResponse.rec.status = "absent"
        /\ NoResponse.signer = None
    BY DEF NoResponse, Absent
  <1>2. QED
    BY <1>1, ResponderAssumption DEF CacheInv, EmptyCache, Cached

(* What the rest of the service does to the store and the clock does not   *)
(* disturb the requests and the cache.                                     *)
LEMMA ServiceQuiet ==
    ASSUME TypeOK, ResponderInv, Kept, Stays,
           UNCHANGED <<ackedAt, raced>>, now' \in Nat, now' >= now
    PROVE  /\ UNCHANGED <<cache, cert>> => CacheInv'
           /\ UNCHANGED ocsp => FlightInv' /\ ReplyInv'
  <1>a. Acked' = Acked
    BY DEF Acked
  <1>1. ASSUME UNCHANGED <<cache, cert>> PROVE CacheInv'
    <2>1. \A s \in Serials : cache[s].next \in Nat
      BY DEF TypeOK, ResponderTypeOK, Response
    <2>2. now \in Nat
      BY DEF TypeOK, StoreTypeOK
    <2>3. QED
      BY <1>1, <1>a, <2>1, <2>2, ResponderAssumption
         DEF ResponderInv, CacheInv, Cached, Kept
  <1>2. ASSUME UNCHANGED ocsp PROVE FlightInv' /\ ReplyInv'
    <2>1. \A o \in OCSPClients :
             /\ ocsp[o].t \in Nat /\ ocsp[o].reply.next \in Nat
             /\ ocsp[o].serial \in Serials \cup {None}
             /\ ocsp[o].pc # "idle" => ocsp[o].serial \in Serials
      BY DEF TypeOK, ResponderTypeOK, OCSPRequest, Response
    <2>2. now \in Nat
      BY DEF TypeOK, StoreTypeOK
    <2>3. \A o \in OCSPClients :
             ocsp[o].reply.rec.status = "revoked" => ocsp[o].serial \in Serials
      BY DEF ResponderInv, ReplyInv, ReplyOK
    <2>4. FlightInv'
      BY <1>2, <1>a, <2>1, <2>2 DEF ResponderInv, FlightInv, FlightOK, Kept, Stays
    <2>5. ReplyInv'
      BY <1>2, <1>a, <2>1, <2>2, <2>3, ResponderAssumption DEF ResponderInv, ReplyInv, ReplyOK, Kept
    <2>6. QED
      BY <2>4, <2>5
  <1>3. QED
    BY <1>1, <1>2

(* Every step that leaves cert, cache and the requests alone.              *)
LEMMA ResponderFrame ==
    ASSUME TypeOK, ResponderInv, Kept, Stays,
           UNCHANGED <<cert, cache, ocsp, up, ackedAt, raced>>, now' \in Nat, now' >= now
    PROVE  ResponderInv'
  <1>1. QuietInv'
    BY DEF ResponderInv, QuietInv
  <1>2. QED
    BY <1>1, ServiceQuiet DEF ResponderInv

LEMMA ResponderServiceStep ==
    ASSUME TypeOK, ResponderInv, Kept, Stays,
           \/ \E c \in CRLClients : CRLArrive(c) \/ CRLStep(c)
           \/ \E w \in Writers, client \in Serials, s \in Serials \cup {None} :
                 WriteArrive(w, client, s)
           \/ \E w \in Writers :
                 \/ RequireClient(w) \/ DropCRL(w) \/ IssueRecord(w)
                 \/ \E reason \in Reasons : RevokeCommit(w, reason)
                 \/ \E s \in Serials : IssueSign(w, s)
           \/ RenewAction /\ ~RenewSwap
           \/ \E s \in Serials : KeytoolIssue(s)
           \/ StartFails \/ Tick \/ UNCHANGED vars
    PROVE  ResponderInv'
  <1>n. now \in Nat
    BY DEF TypeOK, StoreTypeOK
  <1> DEFINE Frame == /\ UNCHANGED <<cert, cache, ocsp, up, ackedAt, raced>>
                      /\ now' \in Nat /\ now' >= now
             Same == UNCHANGED <<now, cert, cache, ocsp, up, ackedAt, raced>>
  <1>s. Same => Frame
    BY <1>n
  <1>1. ASSUME NEW c \in CRLClients, CRLArrive(c) \/ CRLStep(c) PROVE Same
    BY <1>1 DEF CRLArrive, CRLStep, CRLLock, CRLList, CRLNumber, CRLSign, CRLHeader,
        CRLFail, storeVars, responderVars, history
  <1>2. ASSUME NEW w \in Writers, NEW client \in Serials,
               NEW s \in Serials \cup {None}, WriteArrive(w, client, s)
        PROVE  Same
    BY <1>2 DEF WriteArrive, storeVars, writeRest, responderVars, history
  <1>3. ASSUME NEW w \in Writers, RequireClient(w) \/ DropCRL(w) \/ IssueRecord(w)
        PROVE  Same
    BY <1>3 DEF RequireClient, DropCRL, IssueRecord, storeVars, writeRest,
        responderVars, history
  <1>4. ASSUME NEW w \in Writers,
               \/ \E reason \in Reasons : RevokeCommit(w, reason)
               \/ \E s \in Serials : IssueSign(w, s)
        PROVE  Same
    BY <1>4 DEF RevokeCommit, IssueSign, storeVars, writeRest, responderVars, history
  <1>5. ASSUME RenewAction, ~RenewSwap PROVE Same
    BY <1>5 DEF RenewAction, RenewIssue, RenewRecord, RenewRecordFails, serverVars,
        history
  <1>6. ASSUME NEW s \in Serials, KeytoolIssue(s) PROVE Same
    BY <1>6 DEF KeytoolIssue, responderVars, serverVars
  <1>7. ASSUME StartFails \/ UNCHANGED vars PROVE Same
    BY <1>7 DEF StartFails, vars, storeVars, responderVars, serverVars, history
  <1>8. ASSUME Tick PROVE Frame
    BY <1>8, <1>n DEF Tick, responderVars, serverVars, history
  <1>9. Frame
    BY <1>s, <1>1, <1>2, <1>3, <1>4, <1>5, <1>6, <1>7, <1>8
  <1>10. QED
    BY <1>9, ResponderFrame

(* The new certificate and the empty cache come in one critical section.   *)
LEMMA ResponderRenewSwap ==
    ASSUME TypeOK, ResponderInv, Kept, Stays, RenewAction, RenewSwap
    PROVE  ResponderInv'
  <1>n. now \in Nat
    BY DEF TypeOK, StoreTypeOK
  <1>1. UNCHANGED <<now, up, ocsp, ackedAt, raced>> /\ cache' = EmptyCache
    BY DEF RenewAction, RenewSwap, serverVars, history
  <1>2. CacheInv'
    BY <1>1, <1>n, EmptyCacheInv
  <1>3. QuietInv'
    BY <1>1 DEF ResponderInv, QuietInv, EmptyCache
  <1>4. QED
    BY <1>1, <1>2, <1>3, <1>n, ServiceQuiet DEF ResponderInv

(* A new process starts with an empty cache and no requests, a stopped one *)
(* leaves none.                                                            *)
LEMMA ResponderStart ==
    ASSUME TypeOK, ResponderInv, Kept, Stays, NEW s \in Serials, Start(s)
    PROVE  ResponderInv'
  <1>n. now \in Nat
    BY DEF TypeOK, StoreTypeOK
  <1>1. UNCHANGED <<now, cache, ocsp, ackedAt, raced>> /\ ~up
    BY DEF Start, history
  <1>2. cache' = EmptyCache /\ \A o \in OCSPClients : ocsp'[o].pc = "idle"
    BY <1>1 DEF ResponderInv, QuietInv
  <1>3. CacheInv'
    BY <1>1, <1>2, <1>n, EmptyCacheInv
  <1>4. QuietInv'
    BY <1>2 DEF QuietInv, EmptyCache
  <1>5. QED
    BY <1>1, <1>3, <1>4, <1>n, ServiceQuiet DEF ResponderInv

LEMMA ResponderCrash ==
    ASSUME TypeOK, Crash
    PROVE  ResponderInv'
  <1>1. /\ now' = now /\ now \in Nat
        /\ cache' = EmptyCache
        /\ \A o \in OCSPClients : ocsp'[o] = IdleOCSP
    BY DEF Crash, TypeOK, StoreTypeOK, storeVars
  <1>2. /\ IdleOCSP.pc = "idle" /\ ~IdleOCSP.acked /\ IdleOCSP.t = 0
        /\ IdleOCSP.reply = NoResponse
    BY DEF IdleOCSP
  <1>3. NoResponse.next = 0 /\ NoResponse.rec.status = "absent"
    BY DEF NoResponse, Absent
  <1>4. CacheInv'
    BY <1>1, EmptyCacheInv
  <1>5. QuietInv'
    BY <1>1, <1>2 DEF QuietInv, EmptyCache
  <1>6. FlightInv'
    BY <1>1, <1>2 DEF FlightInv, FlightOK
  <1>7. ReplyInv'
    BY <1>1, <1>2, <1>3, ResponderAssumption DEF ReplyInv, ReplyOK
  <1>8. QED
    BY <1>4, <1>5, <1>6, <1>7 DEF ResponderInv

(* Invalidate and the 204: the cache is emptied, and the lookups that have *)
(* read the row as valid are the race the serial is marked with.           *)
LEMMA ResponderDropOCSP ==
    ASSUME TypeOK, ResponderInv, NEW w \in Writers, DropOCSP(w)
    PROVE  ResponderInv'
  <1> DEFINE s == writer[w].serial
  <1>t. /\ now \in Nat
        /\ s \in Serials
        /\ ackedAt \in [Serials -> Nat \cup {-1}]
        /\ \A o \in OCSPClients : ocsp[o].t \in Nat /\ ocsp[o].reply.next \in Nat
    BY DEF TypeOK, StoreTypeOK, ResponderTypeOK, OCSPRequest, Response, WriteRequest, DropOCSP
  <1>1. /\ UNCHANGED <<now, records, up, cert, ocsp>>
        /\ ackedAt' = [ackedAt EXCEPT ![s] = IF @ = -1 THEN now ELSE @]
        /\ raced' = IF InFlight(s) THEN raced \cup {s} ELSE raced
    BY DEF DropOCSP, Invalidate, responderVars, storeVars
  <1>2. cache' = EmptyCache
    BY DEF DropOCSP, Invalidate, responderVars, ResponderInv, QuietInv
  <1> HIDE DEF s
  <1>3. /\ Acked' = Acked \cup {s}
        /\ \A u \in Acked : ackedAt'[u] = ackedAt[u]
        /\ s \notin Acked => ackedAt'[s] = now
        /\ raced \subseteq raced'
    BY <1>t, <1>1 DEF Acked
  <1>4. ASSUME NEW o \in OCSPClients, ocsp[o].pc \in {"sign", "insert"},
               ocsp[o].rec.status = "valid", ocsp[o].serial = s
        PROVE  s \in raced'
    BY <1>1, <1>4 DEF InFlight
  <1>5. CacheInv'
    BY <1>1, <1>2, <1>t, EmptyCacheInv
  <1>6. QuietInv'
    BY <1>1, <1>2 DEF ResponderInv, QuietInv, EmptyCache
  <1>7. FlightInv'
    BY <1>t, <1>1, <1>3, <1>4 DEF ResponderInv, FlightInv, FlightOK
  <1>8. ReplyInv'
    BY <1>t, <1>1, <1>3, ResponderAssumption DEF ResponderInv, ReplyInv, ReplyOK
  <1>9. QED
    BY <1>5, <1>6, <1>7, <1>8 DEF ResponderInv

-----------------------------------------------------------------------------
(* The steps of Respond                                                    *)

(* What is left to show when one request changes and the cache does not.   *)
LEMMA RequestStep ==
    ASSUME TypeOK, ResponderInv, NEW o \in OCSPClients, NEW r,
           up, ResponderEnabled,
           ocsp' = [ocsp EXCEPT ![o] = r],
           UNCHANGED <<now, records, ackedAt, raced, up, cert>>
    PROVE  /\ QuietInv'
           /\ UNCHANGED cache => CacheInv'
           /\ FlightOK(r) => FlightInv'
           /\ ReplyOK(r) => ReplyInv'
  <1>1. /\ ocsp'[o] = r
        /\ \A p \in OCSPClients \ {o} : ocsp'[p] = ocsp[p]
    BY DEF TypeOK, ResponderTypeOK
  <1>2. Acked' = Acked
    BY DEF Acked
  <1>3. QuietInv'
    BY DEF QuietInv
  <1>4. UNCHANGED cache => CacheInv'
    BY <1>2 DEF ResponderInv, CacheInv, Cached
  <1>5. FlightOK(r) => FlightInv'
    BY <1>1, <1>2 DEF ResponderInv, FlightInv, FlightOK
  <1>6. ReplyOK(r) => ReplyInv'
    BY <1>1, <1>2 DEF ResponderInv, ReplyInv, ReplyOK
  <1>7. QED
    BY <1>3, <1>4, <1>5, <1>6

(* An answer: the request keeps its serial and what it knew on arrival.    *)
LEMMA AnswerStep ==
    ASSUME TypeOK, ResponderInv, NEW o \in OCSPClients, NEW x, Reply(o, x),
           up, ResponderEnabled,
           UNCHANGED <<now, records, ackedAt, raced, up, cert>>,
           x.next <= now + ResponseWindow,
           x # NoResponse /\ ocsp[o].known => x.rec.status # "absent",
           x.rec.status = "revoked" =>
              ocsp[o].serial \in Serials /\ x.rec = records[ocsp[o].serial],
           x.rec.status = "valid" /\ ocsp[o].serial \in Acked =>
              /\ ocsp[o].serial \in raced
              /\ x.next <= ackedAt[ocsp[o].serial] + ResponseWindow
    PROVE  /\ QuietInv' /\ FlightInv' /\ ReplyInv'
           /\ UNCHANGED cache => CacheInv'
  <1> DEFINE r == [IdleOCSP EXCEPT !.serial = ocsp[o].serial, !.reply = x,
                                   !.known = ocsp[o].known, !.acked = ocsp[o].acked]
  <1>1. ocsp' = [ocsp EXCEPT ![o] = r]
    BY DEF Reply
  <1>2. /\ r.pc = "idle" /\ r.t = 0
        /\ r.serial = ocsp[o].serial
        /\ r.reply = x
        /\ r.known = ocsp[o].known
        /\ r.acked = ocsp[o].acked
    BY DEF IdleOCSP
  <1> HIDE DEF r
  <1>3. ocsp[o].acked => ocsp[o].serial \in Acked
    BY DEF ResponderInv, FlightInv, FlightOK
  <1>4. 0 <= now
    BY DEF TypeOK, StoreTypeOK
  <1>5. FlightOK(r)
    BY <1>2, <1>3, <1>4 DEF FlightOK
  <1>6. ReplyOK(r)
    BY <1>2, <1>3 DEF ReplyOK
  <1>7. QED
    BY <1>1, <1>5, <1>6, RequestStep

(* tryLater carries no response.                                           *)
LEMMA TryLaterStep ==
    ASSUME TypeOK, ResponderInv, NEW o \in OCSPClients, TryLater(o),
           up, ResponderEnabled,
           UNCHANGED <<now, records, ackedAt, raced, up, cert, cache>>
    PROVE  ResponderInv'
  <1>1. NoResponse.next = 0 /\ NoResponse.rec.status = "absent"
    BY DEF NoResponse, Absent
  <1>2. 0 <= now + ResponseWindow
    BY ResponderAssumption DEF TypeOK, StoreTypeOK
  <1>3. Reply(o, NoResponse)
    BY DEF TryLater
  <1>4. QED
    BY <1>1, <1>2, <1>3, AnswerStep DEF ResponderInv

(* A request arrives, and the clock is read.                               *)
LEMMA ResponderArrive ==
    ASSUME TypeOK, ResponderInv, NEW o \in OCSPClients, NEW s \in Serials,
           OCSPArrive(o, s, s \in Acked), up, ResponderEnabled,
           UNCHANGED <<now, records, ackedAt, raced, up>>
    PROVE  ResponderInv'
  <1> DEFINE b == s \in Acked
             k == records[s].status # "absent"
             r == [IdleOCSP EXCEPT !.pc = "cache", !.serial = s, !.t = now,
                                   !.known = k, !.acked = b]
  <1>1. ocsp' = [ocsp EXCEPT ![o] = r] /\ UNCHANGED <<cert, cache>>
    BY DEF OCSPArrive
  <1>2. /\ r.pc = "cache" /\ r.t = now /\ r.serial = s
        /\ r.reply = NoResponse
        /\ r.known = k /\ r.acked = b
    BY DEF IdleOCSP
  <1>k. (r.known => records[s].status # "absent") /\ (r.acked => s \in Acked)
    <2>1. (k => records[s].status # "absent") /\ (b => s \in Acked)
      OBVIOUS
    <2> HIDE DEF b, k, r
    <2>2. QED
      BY <1>2, <2>1
  <1>3. NoResponse.next = 0 /\ NoResponse.rec.status = "absent"
    BY DEF NoResponse, Absent
  <1>4. now \in Nat /\ 0 <= now + ResponseWindow
    BY ResponderAssumption DEF TypeOK, StoreTypeOK
  <1> HIDE DEF b, k, r
  <1>5. FlightOK(r)
    BY <1>2, <1>k, <1>4 DEF FlightOK
  <1>6. ReplyOK(r)
    BY <1>2, <1>3, <1>4 DEF ReplyOK
  <1>7. QED
    BY <1>1, <1>5, <1>6, RequestStep DEF ResponderInv

(* A cached response is answered, or the certificate is taken for later.   *)
LEMMA ResponderLookup ==
    ASSUME TypeOK, ResponderInv, NEW o \in OCSPClients, OCSPLookup(o),
           up, ResponderEnabled, UNCHANGED <<now, records, ackedAt, raced, up>>
    PROVE  ResponderInv'
  <1>t. ocsp[o] \in OCSPRequest /\ ocsp[o].serial \in Serials
    BY DEF TypeOK, ResponderTypeOK, OCSPRequest, OCSPLookup
  <1>u. UNCHANGED <<cert, cache>>
    BY DEF OCSPLookup
  <1>1. ASSUME CacheHit(o), Reply(o, cache[ocsp[o].serial]) PROVE ResponderInv'
    BY <1>1, <1>t, <1>u, AnswerStep DEF ResponderInv, CacheInv, CacheHit
  <1>2. ASSUME ocsp' = [ocsp EXCEPT ![o].pc = "get", ![o].cert = cert] PROVE ResponderInv'
    <2> DEFINE r == [ocsp[o] EXCEPT !.pc = "get", !.cert = cert]
    <2>1. ocsp' = [ocsp EXCEPT ![o] = r]
      BY <1>2
    <2>2. /\ r.pc = "get" /\ r.t = ocsp[o].t /\ r.serial = ocsp[o].serial
          /\ r.reply = ocsp[o].reply /\ r.known = ocsp[o].known /\ r.acked = ocsp[o].acked
      BY <1>t DEF OCSPRequest
    <2> HIDE DEF r
    <2>3. FlightOK(r)
      BY <2>2 DEF ResponderInv, FlightInv, FlightOK, OCSPLookup
    <2>4. ReplyOK(r)
      BY <2>2 DEF ResponderInv, ReplyInv, ReplyOK
    <2>5. QED
      BY <1>u, <2>1, <2>3, <2>4, RequestStep DEF ResponderInv
  <1>3. QED
    BY <1>1, <1>2, <1>u, TryLaterStep DEF OCSPLookup

(* The row is read: a revocation that was answered is in it.               *)
LEMMA ResponderGet ==
    ASSUME TypeOK, DroppedInv, ResponderInv, NEW o \in OCSPClients, OCSPGet(o),
           up, ResponderEnabled, UNCHANGED <<now, records, ackedAt, raced, up>>
    PROVE  ResponderInv'
  <1>t. ocsp[o] \in OCSPRequest /\ ocsp[o].serial \in Serials
    BY DEF TypeOK, ResponderTypeOK, OCSPRequest, OCSPGet
  <1>u. UNCHANGED <<cert, cache>>
    BY DEF OCSPGet
  <1>1. ASSUME ocsp' = [ocsp EXCEPT ![o].pc = "sign", ![o].rec = records[ocsp[o].serial]]
        PROVE  ResponderInv'
    <2> DEFINE r == [ocsp[o] EXCEPT !.pc = "sign", !.rec = records[ocsp[o].serial]]
    <2>1. ocsp' = [ocsp EXCEPT ![o] = r]
      BY <1>1
    <2>2. /\ r.pc = "sign" /\ r.t = ocsp[o].t /\ r.serial = ocsp[o].serial
          /\ r.rec = records[ocsp[o].serial]
          /\ r.reply = ocsp[o].reply /\ r.known = ocsp[o].known /\ r.acked = ocsp[o].acked
      BY <1>t DEF OCSPRequest
    <2> HIDE DEF r
    <2>3. ocsp[o].serial \in Acked => records[ocsp[o].serial].status = "revoked"
      BY <1>t DEF DroppedInv, Dropped
    <2>4. FlightOK(r)
      BY <2>2, <2>3 DEF ResponderInv, FlightInv, FlightOK, OCSPGet
    <2>5. ReplyOK(r)
      BY <2>2 DEF ResponderInv, ReplyInv, ReplyOK
    <2>6. QED
      BY <1>u, <2>1, <2>4, <2>5, RequestStep DEF ResponderInv
  <1>2. QED
    BY <1>1, <1>u, TryLaterStep DEF OCSPGet

(* What Respond signs says of the certificate what the lookup read.        *)
LEMMA SignedOK ==
    ASSUME TypeOK, ResponderInv, NEW o \in OCSPClients, ocsp[o].pc \in {"sign", "insert"}
    PROVE  /\ Signed(o).next <= now + ResponseWindow
           /\ Signed(o).rec = ocsp[o].rec
           /\ Signed(o).signer = ocsp[o].cert.serial
           /\ ocsp[o].serial \in Serials
           /\ ocsp[o].known => Signed(o).rec.status # "absent"
           /\ Signed(o).rec.status = "revoked" => Signed(o).rec = records[ocsp[o].serial]
           /\ Signed(o).rec.status = "valid" /\ ocsp[o].serial \in Acked =>
                 /\ ocsp[o].serial \in raced
                 /\ Signed(o).next <= ackedAt[ocsp[o].serial] + ResponseWindow
  <1>1. ocsp[o].serial \in Serials /\ ocsp[o].t \in Nat /\ now \in Nat
    BY DEF TypeOK, StoreTypeOK, ResponderTypeOK, OCSPRequest
  <1>2. /\ Signed(o).rec = ocsp[o].rec
        /\ Signed(o).next = ocsp[o].t + ResponseWindow
        /\ Signed(o).signer = ocsp[o].cert.serial
    BY DEF Signed, NextUpdate
  <1>3. FlightOK(ocsp[o])
    BY DEF ResponderInv, FlightInv
  <1>4. ocsp[o].serial \in Acked => ackedAt[ocsp[o].serial] \in Nat
    BY <1>1 DEF TypeOK, Acked
  <1>5. QED
    BY <1>1, <1>2, <1>3, <1>4, ResponderAssumption DEF FlightOK

LEMMA ResponderSign ==
    ASSUME TypeOK, ResponderInv, NEW o \in OCSPClients, OCSPSign(o),
           up, ResponderEnabled, UNCHANGED <<now, records, ackedAt, raced, up>>
    PROVE  ResponderInv'
  <1>u. UNCHANGED <<cert, cache>> /\ ocsp[o].pc = "sign"
    BY DEF OCSPSign
  <1>1. ASSUME Reply(o, Signed(o)) PROVE ResponderInv'
    BY <1>1, <1>u, SignedOK, AnswerStep DEF ResponderInv
  <1>2. ASSUME Found(o), ocsp' = [ocsp EXCEPT ![o].pc = "insert"] PROVE ResponderInv'
    <2> DEFINE r == [ocsp[o] EXCEPT !.pc = "insert"]
    <2>t. ocsp[o] \in OCSPRequest
      BY DEF TypeOK, ResponderTypeOK
    <2>1. ocsp' = [ocsp EXCEPT ![o] = r]
      BY <1>2
    <2>2. /\ r.pc = "insert" /\ r.t = ocsp[o].t /\ r.serial = ocsp[o].serial
          /\ r.rec = ocsp[o].rec
          /\ r.reply = ocsp[o].reply /\ r.known = ocsp[o].known /\ r.acked = ocsp[o].acked
      BY <2>t DEF OCSPRequest
    <2> HIDE DEF r
    <2>3. FlightOK(r)
      BY <1>u, <1>2, <2>2 DEF ResponderInv, FlightInv, FlightOK, Found
    <2>4. ReplyOK(r)
      BY <2>2 DEF ResponderInv, ReplyInv, ReplyOK
    <2>5. QED
      BY <1>u, <2>1, <2>3, <2>4, RequestStep DEF ResponderInv
  <1>3. QED
    BY <1>1, <1>2, <1>u, TryLaterStep DEF OCSPSign

(* The response is cached under the certificate it was signed with, and    *)
(* answered.                                                               *)
LEMMA ResponderInsert ==
    ASSUME TypeOK, ResponderInv, NEW o \in OCSPClients, OCSPInsert(o),
           up, ResponderEnabled, UNCHANGED <<now, records, ackedAt, raced, up>>
    PROVE  ResponderInv'
  <1>u. UNCHANGED cert /\ ocsp[o].pc = "insert" /\ Reply(o, Signed(o))
    BY DEF OCSPInsert
  <1>1. QuietInv' /\ FlightInv' /\ ReplyInv'
    BY <1>u, SignedOK, AnswerStep
  <1>2. ocsp[o].rec.status # "absent"
    BY <1>u DEF ResponderInv, FlightInv, FlightOK
  <1>3. CASE ~StillCurrent(o)
    BY <1>3, <1>u, <1>1, SignedOK, AnswerStep DEF OCSPInsert, ResponderInv
  <1>4. CASE StillCurrent(o)
    <2>1. /\ cache'[ocsp[o].serial] = Signed(o)
          /\ \A s \in Serials \ {ocsp[o].serial} : cache'[s] = cache[s]
      BY <1>4, <1>u, SignedOK DEF OCSPInsert, TypeOK, ResponderTypeOK
    <2>2. Acked' = Acked
      BY DEF Acked
    <2>3. Signed(o).signer = cert.serial
      BY <1>4, <1>u, SignedOK DEF StillCurrent
    <2>4. CacheInv'
      BY <1>2, <1>u, <2>1, <2>2, <2>3, SignedOK DEF ResponderInv, CacheInv, Cached
    <2>5. QED
      BY <1>1, <2>4 DEF ResponderInv
  <1>5. QED
    BY <1>3, <1>4

LEMMA ResponderOCSPStep ==
    ASSUME TypeOK, DroppedInv, ResponderInv, OCSPAction
    PROVE  ResponderInv'
  <1>1. UNCHANGED <<now, records, ackedAt, raced, up>>
    BY DEF OCSPAction, storeVars, serverVars, history
  <1>2. ASSUME NEW o \in OCSPClients, NEW s \in Serials, up, ResponderEnabled,
               OCSPArrive(o, s, s \in Acked)
        PROVE  ResponderInv'
    BY <1>1, <1>2, ResponderArrive
  <1>3. ASSUME NEW o \in OCSPClients, RespondStep(o) PROVE ResponderInv'
    <2>1. ocsp[o].pc # "idle"
      BY <1>3 DEF RespondStep, OCSPLookup, OCSPGet, OCSPSign, OCSPInsert
    <2>2. up /\ ResponderEnabled
      BY <2>1 DEF ResponderInv, QuietInv
    <2>3. QED
      BY <1>1, <1>3, <2>2, ResponderLookup, ResponderGet, ResponderSign, ResponderInsert
         DEF RespondStep
  <1>4. QED
    BY <1>2, <1>3 DEF OCSPAction, OCSPNext

(* The invariant of the responder.                                         *)
THEOREM ResponderInvariant == Spec => []ResponderInv
  <1>1. TypeOK /\ GenerationInv /\ ResponderInv /\ [Next]_vars => ResponderInv'
    <2> SUFFICES ASSUME TypeOK, GenerationInv, ResponderInv, [Next]_vars
                 PROVE  ResponderInv'
      OBVIOUS
    <2>1. Kept /\ Stays
      BY StepKeeps, StepStays
    <2>2. DroppedInv
      BY DEF GenerationInv
    <2>3. ASSUME NEW w \in Writers, WriteStep(w) PROVE ResponderInv'
      BY <2>1, <2>3, ResponderServiceStep, ResponderDropOCSP DEF WriteStep
    <2>4. CASE RenewAction
      BY <2>1, <2>4, ResponderServiceStep, ResponderRenewSwap
    <2>5. CASE Next
      BY <2>1, <2>2, <2>3, <2>4, <2>5, ResponderServiceStep, ResponderOCSPStep,
         ResponderStart, ResponderCrash DEF Next
    <2>6. QED
      BY <2>1, <2>5, ResponderServiceStep
  <1>2. QED
    BY TypeCorrect, GenerationInvariant, ResponderInvInit, <1>1, PTL DEF Spec

(* After the 204 for a revocation, an OCSP request is answered "good" only *)
(* by a lookup that read the row before the revocation and was in flight   *)
(* at Invalidate.                                                          *)
THEOREM StaleOnlyByRace == Spec => []OCSPStaleOnlyByRace
  <1>1. ResponderInv => OCSPStaleOnlyByRace
    BY DEF ResponderInv, ReplyInv, ReplyOK, OCSPStaleOnlyByRace
  <1>2. QED
    BY <1>1, ResponderInvariant, PTL

(* A stale "good", cached or answered, ends at most one response window    *)
(* after the 204.                                                          *)
THEOREM StaleIsBounded == Spec => []OCSPStaleBounded
  <1>1. ResponderInv => OCSPStaleBounded
    BY DEF ResponderInv, CacheInv, ReplyInv, ReplyOK, OCSPStaleBounded
  <1>2. QED
    BY <1>1, ResponderInvariant, PTL

(* Every "revoked" answer has the time and reason of the CRL entry.        *)
THEOREM OCSPAgreesWithCRL == Spec => []ChannelsAgree
  <1>1. ResponderInv => ChannelsAgree
    BY DEF ResponderInv, CacheInv, ReplyInv, ReplyOK, ChannelsAgree
  <1>2. QED
    BY <1>1, ResponderInvariant, PTL

(* No cached response outlives the certificate it was signed under being   *)
(* replaced, whatever requests were in flight at the swap.                 *)
THEOREM CacheFollowsRenewal == Spec => []CacheSignedByCurrent
  <1>1. ResponderInv => CacheSignedByCurrent
    BY DEF ResponderInv, CacheInv, CacheSignedByCurrent
  <1>2. QED
    BY <1>1, ResponderInvariant, PTL

(* A serial with a row is never answered "unknown".                        *)
THEOREM KnownIsAnswered == Spec => []IssuedNeverUnknown
  <1>1. ResponderInv => IssuedNeverUnknown
    BY DEF ResponderInv, ReplyInv, ReplyOK, IssuedNeverUnknown
  <1>2. QED
    BY <1>1, ResponderInvariant, PTL

-----------------------------------------------------------------------------
(* The write routes                                                        *)

(* The steps that hand a certificate to somebody.                          *)
LEMMA HeldStep ==
    ASSUME TypeOK, [Next]_vars
    PROVE  \/ UNCHANGED <<held, unrecorded>>
           \/ \E s \in Serials :
                 /\ held' = held \cup {s}
                 /\ UNCHANGED unrecorded
                 /\ records'[s].status # "absent"
           \/ \E s \in Serials :
                 /\ held' = held \cup {s}
                 /\ unrecorded' = unrecorded \cup {s}
  <1>r. ASSUME NEW s \in Serials, Record(s) PROVE records'[s].status # "absent"
    BY <1>r DEF Record, ValidRecord, TypeOK, StoreTypeOK
  <1>1. ASSUME NEW c \in CRLClients, CRLArrive(c) \/ CRLStep(c)
        PROVE  UNCHANGED <<held, unrecorded>>
    BY <1>1 DEF CRLArrive, CRLStep, CRLLock, CRLList, CRLNumber, CRLSign, CRLHeader, history
  <1>2. ASSUME NEW w \in Writers, NEW client \in Serials,
               NEW s \in Serials \cup {None}, WriteArrive(w, client, s)
        PROVE  UNCHANGED <<held, unrecorded>>
    BY <1>2 DEF WriteArrive, history
  <1>3. ASSUME NEW w \in Writers, WriteStep(w), ~IssueRecord(w)
        PROVE  UNCHANGED <<held, unrecorded>>
    BY <1>3 DEF WriteStep, RequireClient, RevokeCommit, DropCRL, DropOCSP, IssueSign, history
  <1>4. ASSUME NEW w \in Writers, IssueRecord(w)
        PROVE  \/ UNCHANGED <<held, unrecorded>>
               \/ \E s \in Serials : /\ held' = held \cup {s}
                                     /\ UNCHANGED unrecorded
                                     /\ records'[s].status # "absent"
    <2>1. writer[w].serial \in Serials
      BY <1>4 DEF IssueRecord, TypeOK, WriteRequest
    <2>2. QED
      BY <1>4, <1>r, <2>1 DEF IssueRecord
  <1>5. CASE OCSPAction \/ RenewAction \/ StartFails \/ Crash \/ Tick \/ UNCHANGED vars
    BY <1>5 DEF OCSPAction, RenewAction, StartFails, Crash, Tick, vars, history
  <1>6. ASSUME NEW s \in Serials, Start(s) PROVE UNCHANGED <<held, unrecorded>>
    BY <1>6 DEF Start, history
  <1>7. ASSUME NEW s \in Serials, KeytoolIssue(s)
        PROVE  \/ UNCHANGED <<held, unrecorded>>
               \/ /\ held' = held \cup {s}
                  /\ UNCHANGED unrecorded
                  /\ records'[s].status # "absent"
               \/ held' = held \cup {s} /\ unrecorded' = unrecorded \cup {s}
    BY <1>7, <1>r DEF KeytoolIssue
  <1>8. QED
    BY <1>1, <1>2, <1>3, <1>4, <1>5, <1>6, <1>7 DEF Next

(* Whoever holds a certificate, it can be revoked: its row was written     *)
(* before it left the service, and rows are never deleted.                 *)
THEOREM HeldCanBeRevoked == Spec => []HeldIsRecorded
  <1>1. Init => HeldIsRecorded
    BY DEF Init, HeldIsRecorded
  <1>2. TypeOK /\ HeldIsRecorded /\ [Next]_vars => HeldIsRecorded'
    <2> SUFFICES ASSUME TypeOK, HeldIsRecorded, [Next]_vars PROVE HeldIsRecorded'
      OBVIOUS
    <2>1. Stays /\ held \subseteq Serials
      BY StepStays DEF TypeOK
    <2>2. QED
      BY <2>1, HeldStep DEF HeldIsRecorded, Stays
  <1>3. QED
    BY TypeCorrect, <1>1, <1>2, PTL DEF Spec

(* A revocation that was answered stays answered.                          *)
LEMMA AckedGrows ==
    ASSUME TypeOK, [Next]_vars
    PROVE  Acked \subseteq Acked'
  <1>u. ASSUME UNCHANGED ackedAt PROVE Acked \subseteq Acked'
    BY <1>u DEF Acked
  <1>1. ASSUME NEW c \in CRLClients, CRLArrive(c) \/ CRLStep(c) PROVE UNCHANGED ackedAt
    BY <1>1 DEF CRLArrive, CRLStep, CRLLock, CRLList, CRLNumber, CRLSign, CRLHeader, history
  <1>2. ASSUME NEW w \in Writers, NEW client \in Serials,
               NEW s \in Serials \cup {None}, WriteArrive(w, client, s)
        PROVE  UNCHANGED ackedAt
    BY <1>2 DEF WriteArrive, history
  <1>3. ASSUME NEW w \in Writers, WriteStep(w), ~DropOCSP(w) PROVE UNCHANGED ackedAt
    BY <1>3 DEF WriteStep, RequireClient, RevokeCommit, DropCRL, IssueSign, IssueRecord,
        history
  <1>4. ASSUME NEW w \in Writers, DropOCSP(w) PROVE Acked \subseteq Acked'
    BY <1>4 DEF DropOCSP, Acked, TypeOK, StoreTypeOK
  <1>5. CASE OCSPAction \/ RenewAction \/ StartFails \/ Crash \/ Tick \/ UNCHANGED vars
    BY <1>5, <1>u DEF OCSPAction, RenewAction, StartFails, Crash, Tick, vars, history
  <1>6. ASSUME NEW s \in Serials, Start(s) \/ KeytoolIssue(s) PROVE UNCHANGED ackedAt
    BY <1>6 DEF Start, KeytoolIssue, history
  <1>7. QED
    BY <1>u, <1>1, <1>2, <1>3, <1>4, <1>5, <1>6 DEF Next

(* The writers, when one of them changes.                                  *)
LEMMA ClientStep ==
    ASSUME TypeOK, ClientInv, Acked \subseteq Acked', NEW w \in Writers, NEW r,
           writer' = [writer EXCEPT ![w] = r],
           r.pc = "auth" /\ r.withdrawn => r.client \in Acked',
           r.pc \notin {"idle", "auth"} => ~r.withdrawn
    PROVE  ClientInv'
  <1>1. /\ writer'[w] = r
        /\ \A v \in Writers \ {w} : writer'[v] = writer[v]
    BY DEF TypeOK
  <1>2. QED
    BY <1>1 DEF ClientInv

LEMMA ClientWriteStep ==
    ASSUME TypeOK, DroppedInv, ClientInv, Acked \subseteq Acked', NEW w \in Writers,
           \/ \E client \in Serials, s \in Serials \cup {None} : WriteArrive(w, client, s)
           \/ WriteStep(w)
    PROVE  ClientInv'
  <1>t. writer[w] \in WriteRequest
    BY DEF TypeOK
  <1>i. IdleWriter.pc = "idle"
    BY DEF IdleWriter
  <1>f. ASSUME writer' = [writer EXCEPT ![w] = IdleWriter] PROVE ClientInv'
    BY <1>f, <1>i, ClientStep
  <1>k. ASSUME NEW r, writer' = [writer EXCEPT ![w] = r],
               r.withdrawn = writer[w].withdrawn, ~writer[w].withdrawn,
               r.pc \notin {"idle", "auth"}
        PROVE  ClientInv'
    BY <1>k, ClientStep
  <1>1. ASSUME NEW client \in Serials, NEW s \in Serials \cup {None},
               WriteArrive(w, client, s)
        PROVE  ClientInv'
    <2> DEFINE b == client \in Acked
               r == [IdleWriter EXCEPT !.pc = "auth", !.client = client,
                                       !.serial = s, !.withdrawn = b]
    <2>1. writer' = [writer EXCEPT ![w] = r]
      BY <1>1 DEF WriteArrive
    <2>2. r.pc = "auth" /\ r.client = client /\ r.withdrawn = b
      BY DEF IdleWriter
    <2>3. b => client \in Acked'
      OBVIOUS
    <2> HIDE DEF b, r
    <2>4. r.withdrawn => r.client \in Acked'
      BY <2>2, <2>3
    <2>5. QED
      BY <2>1, <2>2, <2>4, ClientStep
  <1>2. CASE RequireClient(w)
    <2>1. ASSUME ClientValid(w) PROVE ~writer[w].withdrawn
      <3>1. writer[w].pc = "auth" /\ writer[w].client \in Serials
        BY <1>2, <1>t DEF RequireClient, TypeOK, WriteRequest
      <3>2. writer[w].client \in Acked => records[writer[w].client].status = "revoked"
        BY <3>1 DEF DroppedInv, Dropped
      <3>3. QED
        BY <2>1, <3>1, <3>2 DEF ClientInv, ClientValid
    <2>2. ASSUME ~writer[w].withdrawn,
                 writer' = [writer EXCEPT ![w].pc = "issue", ![w].client = None]
          PROVE  ClientInv'
      <3> DEFINE r == [writer[w] EXCEPT !.pc = "issue", !.client = None]
      <3>1. writer' = [writer EXCEPT ![w] = r]
        BY <2>2
      <3>2. r.pc = "issue" /\ r.withdrawn = writer[w].withdrawn
        BY <1>t DEF WriteRequest
      <3> HIDE DEF r
      <3>3. QED
        BY <1>k, <2>2, <3>1, <3>2
    <2>3. ASSUME ~writer[w].withdrawn,
                 writer' = [writer EXCEPT ![w].pc = "revoke", ![w].client = None, ![w].t = now]
          PROVE  ClientInv'
      <3> DEFINE r == [writer[w] EXCEPT !.pc = "revoke", !.client = None, !.t = now]
      <3>1. writer' = [writer EXCEPT ![w] = r]
        BY <2>3
      <3>2. r.pc = "revoke" /\ r.withdrawn = writer[w].withdrawn
        BY <1>t DEF WriteRequest
      <3> HIDE DEF r
      <3>3. QED
        BY <1>k, <2>3, <3>1, <3>2
    <2>4. QED
      BY <1>2, <1>f, <2>1, <2>2, <2>3 DEF RequireClient, WriteFail
  <1>3. ASSUME NEW reason \in Reasons, RevokeCommit(w, reason) PROVE ClientInv'
    <2>1. ASSUME writer' = [writer EXCEPT ![w].pc = "dropCRL", ![w].t = 0] PROVE ClientInv'
      <3> DEFINE r == [writer[w] EXCEPT !.pc = "dropCRL", !.t = 0]
      <3>1. writer' = [writer EXCEPT ![w] = r]
        BY <2>1
      <3>2. r.pc = "dropCRL" /\ r.withdrawn = writer[w].withdrawn
        BY <1>t DEF WriteRequest
      <3>3. ~writer[w].withdrawn
        BY <1>3 DEF RevokeCommit, ClientInv
      <3> HIDE DEF r
      <3>4. QED
        BY <1>k, <3>1, <3>2, <3>3
    <2>2. QED
      BY <1>3, <1>f, <2>1 DEF RevokeCommit, WriteFail
  <1>4. CASE DropCRL(w)
    <2> DEFINE r == [writer[w] EXCEPT !.pc = "dropOCSP"]
    <2>1. writer' = [writer EXCEPT ![w] = r] /\ ~writer[w].withdrawn
      BY <1>4 DEF DropCRL, ClientInv
    <2>2. r.pc = "dropOCSP" /\ r.withdrawn = writer[w].withdrawn
      BY <1>t DEF WriteRequest
    <2> HIDE DEF r
    <2>3. QED
      BY <1>k, <2>1, <2>2
  <1>5. ASSUME NEW s \in Serials, IssueSign(w, s) PROVE ClientInv'
    <2>1. ASSUME writer' = [writer EXCEPT ![w].pc = "record", ![w].serial = s]
          PROVE  ClientInv'
      <3> DEFINE r == [writer[w] EXCEPT !.pc = "record", !.serial = s]
      <3>1. writer' = [writer EXCEPT ![w] = r]
        BY <2>1
      <3>2. r.pc = "record" /\ r.withdrawn = writer[w].withdrawn
        BY <1>t DEF WriteRequest
      <3>3. ~writer[w].withdrawn
        BY <1>5 DEF IssueSign, ClientInv
      <3> HIDE DEF r
      <3>4. QED
        BY <1>k, <3>1, <3>2, <3>3
    <2>2. QED
      BY <1>5, <1>f, <2>1 DEF IssueSign, WriteFail
  <1>6. CASE DropOCSP(w) \/ IssueRecord(w)
    BY <1>6, <1>f DEF DropOCSP, IssueRecord, WriteFail
  <1>7. QED
    BY <1>1, <1>2, <1>3, <1>4, <1>5, <1>6 DEF WriteStep

LEMMA ClientOtherStep ==
    ASSUME ClientInv, Acked \subseteq Acked',
           \/ \E c \in CRLClients : CRLArrive(c) \/ CRLStep(c)
           \/ OCSPAction \/ RenewAction
           \/ \E s \in Serials : Start(s) \/ KeytoolIssue(s)
           \/ StartFails \/ Crash \/ Tick \/ UNCHANGED vars
    PROVE  ClientInv'
  <1>1. CASE Crash
    BY <1>1 DEF Crash, IdleWriter, ClientInv
  <1>2. CASE ~Crash
    <2>1. ASSUME NEW c \in CRLClients, CRLArrive(c) \/ CRLStep(c) PROVE UNCHANGED writer
      BY <2>1 DEF CRLArrive, CRLStep, CRLLock, CRLList, CRLNumber, CRLSign, CRLHeader
    <2>2. ASSUME \/ OCSPAction \/ RenewAction \/ StartFails \/ Tick \/ UNCHANGED vars
                 \/ \E s \in Serials : Start(s) \/ KeytoolIssue(s)
          PROVE  UNCHANGED writer
      BY <2>2 DEF OCSPAction, RenewAction, Start, KeytoolIssue, StartFails, Tick, vars,
          serverVars
    <2>3. UNCHANGED writer
      BY <1>2, <2>1, <2>2
    <2>4. QED
      BY <2>3 DEF ClientInv
  <1>3. QED
    BY <1>1, <1>2

(* A client certificate whose revocation was answered before the request   *)
(* arrived opens no write route, although the row is read in a later step. *)
THEOREM RevokedClientsStayOut == Spec => []RevokedClientRefused
  <1>1. Init => ClientInv
    BY DEF Init, ClientInv, IdleWriter
  <1>2. TypeOK /\ GenerationInv /\ ClientInv /\ [Next]_vars => ClientInv'
    <2> SUFFICES ASSUME TypeOK, GenerationInv, ClientInv, [Next]_vars PROVE ClientInv'
      OBVIOUS
    <2>1. Acked \subseteq Acked' /\ DroppedInv
      BY AckedGrows DEF GenerationInv
    <2>2. CASE Next
      BY <2>1, <2>2, ClientWriteStep, ClientOtherStep DEF Next
    <2>3. QED
      BY <2>1, <2>2, ClientOtherStep
  <1>3. ClientInv => RevokedClientRefused
    BY DEF ClientInv, RevokedClientRefused
  <1>4. QED
    BY TypeCorrect, GenerationInvariant, <1>1, <1>2, <1>3, PTL DEF Spec

-----------------------------------------------------------------------------
(* GET /crl                                                                *)

(* What is left to show when one request changes and nothing is signed.    *)
LEMMA HeaderRequestStep ==
    ASSUME TypeOK, HeaderInv, CRLLifetimeBounded, NEW c \in CRLClients, NEW r,
           crl' = [crl EXCEPT ![c] = r],
           UNCHANGED <<signed, cachedCRL, cachedNextUpdate>>,
           r.pc = "header" =>
              \E l \in signed : l.number >= r.got.number /\ cachedNextUpdate <= l.next,
           r.pc = "idle" /\ r.got # NoCRL =>
              \E l \in signed : l.number >= r.got.number /\ r.until <= l.next
    PROVE  (HeaderInv /\ CRLLifetimeBounded)'
  <1>1. /\ crl'[c] = r
        /\ \A d \in CRLClients \ {c} : crl'[d] = crl[d]
    BY DEF TypeOK
  <1>2. HeaderInv'
    BY <1>1 DEF HeaderInv
  <1>3. CRLLifetimeBounded'
    BY <1>1 DEF CRLLifetimeBounded
  <1>4. QED
    BY <1>2, <1>3

(* A new CRL has a number above every other, so its lifetime bounds the    *)
(* header of every request that still has an older one in hand.            *)
LEMMA HeaderSign ==
    ASSUME TypeOK, PendingInv, HeaderInv, CRLLifetimeBounded, NEW c \in CRLClients, CRLSign(c)
    PROVE  (HeaderInv /\ CRLLifetimeBounded)'
  <1> DEFINE next == CRLNextUpdate(crl[c].t)
             new  == [number |-> crl[c].number, entries |-> crl[c].entries, next |-> next]
             r    == [IdleCRL EXCEPT !.pc = "header", !.got = new, !.acked = crl[c].acked]
  <1>i. IdleCRL.pc = "idle" /\ IdleCRL.got = NoCRL
    BY DEF IdleCRL
  <1>1. CASE CRLFail(c) /\ UNCHANGED <<cachedCRL, cachedNextUpdate, signed>>
    BY <1>1, <1>i, HeaderRequestStep DEF CRLFail
  <1>2. ASSUME signed' = signed \cup {new}, cachedCRL' = new, cachedNextUpdate' = next,
               crl' = [crl EXCEPT ![c] = r]
        PROVE  (HeaderInv /\ CRLLifetimeBounded)'
    <2>1. new.number = crl[c].number /\ new.next = next
      OBVIOUS
    <2>2. r.pc = "header" /\ r.got = new
      BY DEF IdleCRL
    <2>3. /\ new.number \in Nat
          /\ next \in Nat
          /\ \A l \in signed : l.number \in Nat
      BY ServerAssumption, ResponderAssumption DEF TypeOK, CRL, CRLRequest, CRLNextUpdate
    <2>4. crl[c].pc = "sign"
      BY DEF CRLSign
    <2>5. \A l \in signed : l.number < new.number
      BY <2>4 DEF PendingInv, Listed
    <2>6. /\ crl'[c] = r
          /\ \A d \in CRLClients \ {c} : crl'[d] = crl[d]
      BY <1>2 DEF TypeOK
    <2>7. \A d \in CRLClients : crl[d].got.number \in Nat
      BY DEF TypeOK, CRLRequest, CRL
    <2> HIDE DEF next, new, r
    <2>8. ASSUME NEW d \in CRLClients, crl'[d].pc = "header"
          PROVE  \E l \in signed' : l.number >= crl'[d].got.number /\ cachedNextUpdate' <= l.next
      <3>1. new.number >= crl'[d].got.number
        BY <2>2, <2>3, <2>5, <2>6, <2>7, <2>8 DEF HeaderInv
      <3>2. QED
        BY <1>2, <2>1, <2>3, <3>1
    <2>9. HeaderInv'
      BY <1>2, <2>1, <2>8 DEF HeaderInv
    <2>10. CRLLifetimeBounded'
      BY <1>2, <2>2, <2>6 DEF CRLLifetimeBounded
    <2>11. QED
      BY <2>9, <2>10
  <1>3. QED
    BY <1>1, <1>2 DEF CRLSign

LEMMA HeaderCRLStep ==
    ASSUME TypeOK, PendingInv, HeaderInv, CRLLifetimeBounded, NEW c \in CRLClients,
           CRLArrive(c) \/ CRLStep(c)
    PROVE  (HeaderInv /\ CRLLifetimeBounded)'
  <1>t. crl[c] \in CRLRequest
    BY DEF TypeOK
  <1>f. ASSUME CRLFail(c), UNCHANGED <<signed, cachedCRL, cachedNextUpdate>>
        PROVE  (HeaderInv /\ CRLLifetimeBounded)'
    <2>1. IdleCRL.pc = "idle" /\ IdleCRL.got = NoCRL
      BY DEF IdleCRL
    <2>2. QED
      BY <1>f, <2>1, HeaderRequestStep DEF CRLFail
  <1>k. ASSUME NEW r, crl' = [crl EXCEPT ![c] = r], r.pc \notin {"idle", "header"},
               UNCHANGED <<signed, cachedCRL, cachedNextUpdate>>
        PROVE  (HeaderInv /\ CRLLifetimeBounded)'
    BY <1>k, HeaderRequestStep
  <1>1. CASE CRLArrive(c)
    <2> DEFINE r == [IdleCRL EXCEPT !.pc = "lock", !.acked = Acked]
    <2>1. /\ crl' = [crl EXCEPT ![c] = r]
          /\ UNCHANGED <<signed, cachedCRL, cachedNextUpdate>>
      BY <1>1 DEF CRLArrive, history
    <2>2. r.pc = "lock"
      BY DEF IdleCRL
    <2> HIDE DEF r
    <2>3. QED
      BY <1>k, <2>1, <2>2
  <1>2. CASE CRLLock(c)
    <2>u. UNCHANGED <<signed, cachedCRL, cachedNextUpdate>>
      BY <1>2 DEF CRLLock, history
    <2>1. ASSUME CacheFresh, crl' = [crl EXCEPT ![c].pc = "header", ![c].got = cachedCRL]
          PROVE  (HeaderInv /\ CRLLifetimeBounded)'
      <3> DEFINE r == [crl[c] EXCEPT !.pc = "header", !.got = cachedCRL]
      <3>1. crl' = [crl EXCEPT ![c] = r]
        BY <2>1
      <3>2. r.pc = "header" /\ r.got = cachedCRL
        BY <1>t DEF CRLRequest
      <3>3. cachedCRL \in signed /\ cachedCRL.next = cachedNextUpdate
        BY <2>1 DEF CacheFresh, HeaderInv
      <3>4. cachedCRL.number \in Nat /\ cachedNextUpdate \in Nat
        BY DEF TypeOK, CRL
      <3> HIDE DEF r
      <3>5. \E l \in signed : l.number >= r.got.number /\ cachedNextUpdate <= l.next
        BY <3>2, <3>3, <3>4
      <3>6. r.pc # "idle"
        BY <3>2
      <3>7. QED
        BY <2>u, <3>1, <3>5, <3>6, HeaderRequestStep
    <2>2. ASSUME crl' = [crl EXCEPT ![c].pc = "list", ![c].t = now]
          PROVE  (HeaderInv /\ CRLLifetimeBounded)'
      <3> DEFINE r == [crl[c] EXCEPT !.pc = "list", !.t = now]
      <3>1. crl' = [crl EXCEPT ![c] = r]
        BY <2>2
      <3>2. r.pc = "list"
        BY <1>t DEF CRLRequest
      <3> HIDE DEF r
      <3>3. QED
        BY <1>k, <2>u, <3>1, <3>2
    <2>3. QED
      BY <1>2, <2>1, <2>2 DEF CRLLock
  <1>3. CASE CRLList(c)
    <2> DEFINE r == [crl[c] EXCEPT !.pc = "number", !.entries = RevokedEntries]
    <2>1. /\ CRLFail(c) \/ crl' = [crl EXCEPT ![c] = r]
          /\ UNCHANGED <<signed, cachedCRL, cachedNextUpdate>>
      BY <1>3 DEF CRLList, history
    <2>2. r.pc = "number"
      BY <1>t DEF CRLRequest
    <2> HIDE DEF r
    <2>3. QED
      BY <1>f, <1>k, <2>1, <2>2
  <1>4. CASE CRLNumber(c)
    <2> DEFINE r == [crl[c] EXCEPT !.pc = "sign", !.number = NextNumber]
    <2>1. /\ CRLFail(c) \/ crl' = [crl EXCEPT ![c] = r]
          /\ UNCHANGED <<signed, cachedCRL, cachedNextUpdate>>
      BY <1>4 DEF CRLNumber, history
    <2>2. r.pc = "sign"
      BY <1>t DEF CRLRequest
    <2> HIDE DEF r
    <2>3. QED
      BY <1>f, <1>k, <2>1, <2>2
  <1>5. CASE CRLHeader(c)
    <2> DEFINE until == IF cachedNextUpdate < now THEN 0 ELSE cachedNextUpdate
               r == [crl[c] EXCEPT !.pc = "idle", !.until = until]
    <2>1. /\ crl' = [crl EXCEPT ![c] = r]
          /\ UNCHANGED <<signed, cachedCRL, cachedNextUpdate>>
          /\ crl[c].pc = "header"
      BY <1>5 DEF CRLHeader, history
    <2>2. r.pc = "idle" /\ r.got = crl[c].got /\ r.until = until
      BY <1>t DEF CRLRequest
    <2>3. until <= cachedNextUpdate /\ until \in Nat /\ cachedNextUpdate \in Nat
      BY DEF TypeOK, StoreTypeOK
    <2>4. \A l \in signed : l.next \in Nat
      BY DEF TypeOK, CRL
    <2> HIDE DEF until, r
    <2>5. PICK l \in signed : l.number >= crl[c].got.number /\ cachedNextUpdate <= l.next
      BY <2>1 DEF HeaderInv
    <2>6. r.until <= l.next
      BY <2>2, <2>3, <2>4, <2>5
    <2>7. QED
      BY <2>1, <2>2, <2>5, <2>6, HeaderRequestStep
  <1>6. QED
    BY <1>1, <1>2, <1>3, <1>4, <1>5, HeaderSign DEF CRLStep

LEMMA HeaderOtherStep ==
    ASSUME HeaderInv, CRLLifetimeBounded,
           \/ \E w \in Writers, client \in Serials, s \in Serials \cup {None} :
                 WriteArrive(w, client, s)
           \/ \E w \in Writers : WriteStep(w)
           \/ OCSPAction \/ RenewAction
           \/ \E s \in Serials : Start(s) \/ KeytoolIssue(s)
           \/ StartFails \/ Crash \/ Tick \/ UNCHANGED vars
    PROVE  (HeaderInv /\ CRLLifetimeBounded)'
  <1>q. ASSUME cachedCRL' \in {cachedCRL, NoCRL}, UNCHANGED <<crl, signed, cachedNextUpdate>>
        PROVE  (HeaderInv /\ CRLLifetimeBounded)'
    BY <1>q DEF HeaderInv, CRLLifetimeBounded
  <1>1. CASE Crash
    <2>1. /\ cachedCRL' = NoCRL
          /\ \A c \in CRLClients : crl'[c].pc = "idle" /\ crl'[c].got = NoCRL
      BY <1>1 DEF Crash, IdleCRL
    <2>2. QED
      BY <2>1 DEF HeaderInv, CRLLifetimeBounded
  <1>2. ASSUME NEW w \in Writers,
               \/ \E client \in Serials, s \in Serials \cup {None} : WriteArrive(w, client, s)
               \/ WriteStep(w)
        PROVE  /\ cachedCRL' \in {cachedCRL, NoCRL}
               /\ UNCHANGED <<crl, signed, cachedNextUpdate>>
    BY <1>2 DEF WriteArrive, WriteStep, RequireClient, RevokeCommit, DropCRL, DropOCSP,
        IssueSign, IssueRecord, writeRest, history
  <1>3. ASSUME \/ OCSPAction \/ RenewAction \/ StartFails \/ Tick \/ UNCHANGED vars
               \/ \E s \in Serials : Start(s) \/ KeytoolIssue(s)
        PROVE  UNCHANGED <<cachedCRL, crl, signed, cachedNextUpdate>>
    BY <1>3 DEF OCSPAction, RenewAction, Start, KeytoolIssue, StartFails, Tick, vars,
        serverVars, history
  <1>4. QED
    BY <1>q, <1>1, <1>2, <1>3

(* The max-age of an answered CRL ends with that CRL or with a newer one,  *)
(* although handleCRL reads nextUpdate under a second lock.                *)
THEOREM LifetimeIsBounded == Spec => []CRLLifetimeBounded
  <1>1. Init => HeaderInv /\ CRLLifetimeBounded
    BY DEF Init, HeaderInv, CRLLifetimeBounded, IdleCRL
  <1>2. TypeOK /\ GenerationInv /\ HeaderInv /\ CRLLifetimeBounded /\ [Next]_vars
        => (HeaderInv /\ CRLLifetimeBounded)'
    <2> SUFFICES ASSUME TypeOK, GenerationInv, HeaderInv, CRLLifetimeBounded, [Next]_vars
                 PROVE  (HeaderInv /\ CRLLifetimeBounded)'
      OBVIOUS
    <2>1. PendingInv
      BY DEF GenerationInv
    <2>2. CASE Next
      BY <2>1, <2>2, HeaderCRLStep, HeaderOtherStep DEF Next
    <2>3. QED
      BY <2>2, HeaderOtherStep
  <1>3. QED
    BY TypeCorrect, GenerationInvariant, <1>1, <1>2, PTL DEF Spec
=============================================================================
