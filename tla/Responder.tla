------------------------------ MODULE Responder ------------------------------
(***************************************************************************)
(* The delegated OCSP responder of internal/responder: its certificate, its*)
(* cache of signed responses, the requests it is answering and the         *)
(* background renewal of the certificate.                                  *)
(*                                                                         *)
(* Responder.mu guards cert and cache and is never held across a call, so  *)
(* each of its critical sections is one step.  The store lookup and the    *)
(* signature on the token run outside it and are steps of their own: a     *)
(* revocation, a renewal or another request may come between any two.      *)
(*                                                                         *)
(* Requests refused before the cache is looked at (malformed, an unknown   *)
(* hash, another issuer) touch no state, and are stuttering steps here.    *)
(***************************************************************************)
EXTENDS CertStore

CONSTANTS
    OCSPClients,       \* requests the server may be answering at once
    ResponderEnabled,  \* ca.ocsp is configured
    ResponseWindow,    \* Config.Validity: nextUpdate is this far ahead
    ResponderTTL,      \* validity the ocsp-responder profile grants
    ClockSkew,         \* clockSkewAllowance
    IssuerNotAfter,    \* the intermediate's NotAfter
    None               \* no serial

ASSUME ResponderAssumption ==
    /\ ResponderEnabled \in BOOLEAN
    /\ ResponseWindow \in Nat \ {0}
    /\ ResponderTTL \in Nat
    /\ ClockSkew \in Nat
    /\ IssuerNotAfter \in Nat
    /\ None \notin Serials

VARIABLES
    cert,       \* Responder.cert
    cache,      \* Responder.cache, by serial
    ocsp,       \* the state of each request inside Respond
    renewal     \* the state of the RunRenewal goroutine

responderVars == <<cert, cache, ocsp, renewal>>

-----------------------------------------------------------------------------
Cert == [serial : Serials \cup {None}, notBefore : Int, notAfter : Nat]
NoCert == [serial |-> None, notBefore |-> 0, notAfter |-> 0]

(* A signed response carries the row it was made from: an absent row is    *)
(* "unknown", a valid one "good".  NoResponse is an empty cache slot.      *)
Response == [rec : CertRecord, next : Nat, signer : Serials \cup {None}]
NoResponse == [rec |-> Absent, next |-> 0, signer |-> None]
Cached(s) == cache[s].signer # None

OCSPState == {"idle", "cache", "get", "sign", "insert"}

(* serial, t, cert, rec: the locals of Respond.  reply: the last answer,   *)
(* NoResponse for an error response.  known, acked: the serial had a row,  *)
(* and its revocation had been answered, when the request arrived (read by *)
(* properties only).                                                       *)
OCSPRequest ==
    [pc : OCSPState, serial : Serials \cup {None}, t : Nat, cert : Cert,
     rec : CertRecord, reply : Response, known : BOOLEAN, acked : BOOLEAN]
IdleOCSP ==
    [pc |-> "idle", serial |-> None, t |-> 0, cert |-> NoCert,
     rec |-> Absent, reply |-> NoResponse, known |-> FALSE, acked |-> FALSE]

Renewal == [pc : {"idle", "record", "swap"}, cert : Cert]
IdleRenewal == [pc |-> "idle", cert |-> NoCert]

ResponderTypeOK ==
    /\ cert \in Cert
    /\ cache \in [Serials -> Response]
    /\ ocsp \in [OCSPClients -> OCSPRequest]
    /\ \A o \in OCSPClients : ocsp[o].pc # "idle" => ocsp[o].serial # None
    /\ renewal \in Renewal

EmptyCache == [s \in Serials |-> NoResponse]

ResponderInit ==
    /\ cert = NoCert
    /\ cache = EmptyCache
    /\ ocsp = [o \in OCSPClients |-> IdleOCSP]
    /\ renewal = IdleRenewal

-----------------------------------------------------------------------------
(* CA.Issue, as the responder and the API use it: refused when the issuer  *)
(* is past its NotAfter or would be outlived.                              *)
IssuerCanCover(t, ttl) ==
    /\ t <= IssuerNotAfter
    /\ t + ttl <= IssuerNotAfter

ResponderCert(s, t) ==
    [serial |-> s, notBefore |-> t - ClockSkew, notAfter |-> t + ResponderTTL]

-----------------------------------------------------------------------------
(* Respond                                                                 *)

(* The request is parsed and the clock is read.                            *)
OCSPArrive(o, s, acked) ==
    /\ ocsp[o].pc = "idle"
    /\ ocsp' = [ocsp EXCEPT ![o] =
                  [IdleOCSP EXCEPT !.pc = "cache", !.serial = s, !.t = now,
                                   !.known = records[s].status # "absent",
                                   !.acked = acked]]
    /\ UNCHANGED <<cert, cache, renewal>>

CacheHit(o) ==
    /\ Cached(ocsp[o].serial)
    /\ ocsp[o].t < cache[ocsp[o].serial].next

OutsideWindow(c, t) ==
    \/ c.serial = None
    \/ t + ClockSkew < c.notBefore
    \/ t > c.notAfter

Reply(o, r) ==
    ocsp' = [ocsp EXCEPT ![o] =
                [IdleOCSP EXCEPT !.serial = ocsp[o].serial, !.reply = r,
                                 !.known = ocsp[o].known, !.acked = ocsp[o].acked]]

TryLater(o) == Reply(o, NoResponse)

(* The first critical section of Respond, and the validity check on the    *)
(* certificate it read.                                                    *)
OCSPLookup(o) ==
    /\ ocsp[o].pc = "cache"
    /\ \/ /\ CacheHit(o)
          /\ Reply(o, cache[ocsp[o].serial])
       \/ /\ ~CacheHit(o)
          /\ OutsideWindow(cert, ocsp[o].t)
          /\ TryLater(o)
       \/ /\ ~CacheHit(o)
          /\ ~OutsideWindow(cert, ocsp[o].t)
          /\ ocsp' = [ocsp EXCEPT ![o].pc = "get", ![o].cert = cert]
    /\ UNCHANGED <<cert, cache, renewal>>

(* records.Get: an error is tryLater, never good.                          *)
OCSPGet(o) ==
    /\ ocsp[o].pc = "get"
    /\ \/ TryLater(o)
       \/ ocsp' = [ocsp EXCEPT ![o].pc = "sign",
                               ![o].rec = records[ocsp[o].serial]]
    /\ UNCHANGED <<cert, cache, renewal>>

(* nextUpdate taken from the clock at insertion.                           *)
NextUpdateWhenInserted(o) == now + ResponseWindow

(* nextUpdate counts from the clock read on arrival, before the lookup.    *)
NextUpdate(o) == ocsp[o].t + ResponseWindow

Signed(o) ==
    [rec |-> ocsp[o].rec, next |-> NextUpdate(o), signer |-> ocsp[o].cert.serial]

(* A response about a serial the store does not know is cached too.        *)
FoundIgnored(o) == TRUE

Found(o) == ocsp[o].rec.status # "absent"

(* CreateResponse.  Only what the store knows goes on to the cache.        *)
OCSPSign(o) ==
    /\ ocsp[o].pc = "sign"
    /\ \/ TryLater(o)
       \/ /\ ~Found(o)
          /\ Reply(o, Signed(o))
       \/ /\ Found(o)
          /\ ocsp' = [ocsp EXCEPT ![o].pc = "insert"]
    /\ UNCHANGED <<cert, cache, renewal>>

(* The guard on the certificate left out.                                  *)
StillCurrentIgnored(o) == TRUE

StillCurrent(o) == cert = ocsp[o].cert

(* The second critical section: cached only if Renew has not swapped the   *)
(* certificate meanwhile; answered either way.                             *)
OCSPInsert(o) ==
    /\ ocsp[o].pc = "insert"
    /\ cache' = IF StillCurrent(o)
                  THEN [cache EXCEPT ![ocsp[o].serial] = Signed(o)]
                  ELSE cache
    /\ Reply(o, Signed(o))
    /\ UNCHANGED <<cert, renewal>>

RespondStep(o) == OCSPLookup(o) \/ OCSPGet(o) \/ OCSPSign(o) \/ OCSPInsert(o)

-----------------------------------------------------------------------------
(* Invalidate without the assignment.                                      *)
InvalidateNothing == UNCHANGED <<cert, cache, ocsp, renewal>>

(* Invalidate drops every cached response.                                 *)
Invalidate ==
    /\ cache' = EmptyCache
    /\ UNCHANGED <<cert, ocsp, renewal>>

-----------------------------------------------------------------------------
(* RunRenewal and Renew                                                    *)

(* More than half of the certificate's life is gone.                       *)
DueForRenewal ==
    cert.serial = None \/ 2 * now > cert.notBefore + cert.notAfter

(* The ticker fires, the certificate is due and Issue signs a new one.     *)
RenewIssue(s) ==
    /\ renewal.pc = "idle"
    /\ DueForRenewal
    /\ IssuerCanCover(now, ResponderTTL)
    /\ renewal' = [pc |-> "record", cert |-> ResponderCert(s, now)]
    /\ UNCHANGED <<cert, cache, ocsp>>

(* records.Record: a failure leaves the current certificate in use.        *)
RenewRecord ==
    /\ renewal.pc = "record"
    /\ Record(renewal.cert.serial)
    /\ renewal' = [renewal EXCEPT !.pc = "swap"]
    /\ UNCHANGED <<cert, cache, ocsp>>

RenewRecordFails ==
    /\ renewal.pc = "record"
    /\ renewal' = IdleRenewal
    /\ UNCHANGED <<records, cert, cache, ocsp>>

(* The new certificate kept beside the old cache.                          *)
SwapKeepsCache ==
    /\ renewal.pc = "swap"
    /\ cert' = renewal.cert
    /\ renewal' = IdleRenewal
    /\ UNCHANGED <<cache, ocsp>>

RenewSwap ==
    /\ renewal.pc = "swap"
    /\ cert' = renewal.cert
    /\ cache' = EmptyCache
    /\ renewal' = IdleRenewal
    /\ UNCHANGED ocsp
=============================================================================
