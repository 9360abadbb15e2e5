-------------------------- MODULE InstallationProofs --------------------------
(***************************************************************************)
(* What credentials can lead to, for every set of names, of profiles, of   *)
(* requests, of configurations and of intermediates.                       *)
(***************************************************************************)
EXTENDS Installation, TLAPS

(* Only certificates have rows.                                            *)
RowsIssued == \A s \in Serials : rows[s] # None => s \in DOMAIN certs

(* What is being served was granted.                                       *)
ServedGranted == running # None => Grants(running.cfg) \subseteq granted

(* A revocation is lost only with its row.                                 *)
WithdrawnNotValid ==
    \A s \in withdrawn : rows[s] # None => rows[s].status = "revoked"

(* An intermediate has its key, a file with an intermediate's certificate  *)
(* holds one that exists, and the service has one.                         *)
Authorised ==
    /\ \A l \in Labels : authorities[l] # None => token[l] # None
    /\ \A q \in Paths : files[q] \in Labels => authorities[files[q]] # None
    /\ running # None => authorities[running.cfg.intermediate] # None

Inv ==
    /\ TypeOK /\ RowsIssued /\ ServedGranted /\ WithdrawnNotValid
    /\ Confined /\ WithinIssuer /\ Authorised

-----------------------------------------------------------------------------
(* The closure of a set of identities under grants.                        *)

LEMMA ReachContains ==
    ASSUME NEW S, S \subseteq Names, NEW G
    PROVE  S \subseteq Reach(S, G)
BY DEF Reach

LEMMA ReachStep ==
    ASSUME NEW S, NEW G, NEW i \in Reach(S, G), NEW n \in Names, <<i, n>> \in G
    PROVE  n \in Reach(S, G)
<1>1. ASSUME NEW T \in SUBSET Names, S \subseteq T, Closed(T, G)
      PROVE  n \in T
  <2>1. i \in T
    BY <1>1 DEF Reach
  <2> QED
    BY <2>1, <1>1 DEF Closed
<1> QED
  BY <1>1 DEF Reach

LEMMA ReachGrows ==
    ASSUME NEW S, NEW G, NEW H, G \subseteq H
    PROVE  Reach(S, G) \subseteq Reach(S, H)
<1>1. ASSUME NEW n \in Reach(S, G), NEW T \in SUBSET Names, S \subseteq T, Closed(T, H)
      PROVE  n \in T
  <2>1. Closed(T, G)
    BY <1>1 DEF Closed
  <2> QED
    BY <2>1, <1>1 DEF Reach
<1>2. \A n \in Reach(S, G) : n \in Names
  BY DEF Reach
<1> QED
  BY <1>1, <1>2 DEF Reach

-----------------------------------------------------------------------------
(* Profiles, requests and the leaves that come of them.                    *)

LEMMA BuiltinType ==
    ASSUME NEW n \in DOMAIN Builtin
    PROVE  Builtin[n] \in Profile
<1>1. n \in {"tls-server", "tls-client", "code-signing", "ocsp-responder"}
  BY DEF Builtin
<1>2. BuiltinValidity[n] \in Nat
  BY InstallationAssumption
<1>3. CASE n = "tls-server"
  BY <1>2, <1>3 DEF Builtin, Profile, ExtKeyUsages, KeyUsages, SANTypes, RDNs, KeyAlgorithms
<1>4. CASE n = "tls-client"
  BY <1>2, <1>4 DEF Builtin, Profile, ExtKeyUsages, KeyUsages, SANTypes, RDNs, KeyAlgorithms
<1>5. CASE n = "code-signing"
  BY <1>2, <1>5 DEF Builtin, Profile, ExtKeyUsages, KeyUsages, SANTypes, RDNs, KeyAlgorithms
<1>6. CASE n = "ocsp-responder"
  BY <1>2, <1>6 DEF Builtin, Profile, ExtKeyUsages, KeyUsages, SANTypes, RDNs, KeyAlgorithms
<1> QED
  BY <1>1, <1>3, <1>4, <1>5, <1>6

LEMMA BuiltinProfileType ==
    ASSUME NEW n \in {"tls-server", "tls-client"}, NEW validity \in Nat
    PROVE  /\ BuiltinProfile(n, validity) \in Profile
           /\ BuiltinProfile(n, validity).eku = Builtin[n].eku
<1>1. n \in DOMAIN Builtin
  BY DEF Builtin
<1>2. Builtin[n] \in Profile
  BY <1>1, BuiltinType
<1> QED
  BY <1>2 DEF BuiltinProfile, Profile

LEMMA ProfileSetType ==
    ASSUME NEW c \in Configs, NEW n \in DOMAIN ProfileSet(c)
    PROVE  ProfileSet(c)[n] \in Profile
<1>1. CASE c.profiles = << >>
  BY <1>1, BuiltinType DEF ProfileSet
<1>2. CASE c.profiles # << >>
  BY <1>2, InstallationAssumption DEF ProfileSet
<1> QED
  BY <1>1, <1>2

LEMMA TokenRequestType ==
    ASSUME NEW v \in Curves, NEW dns \in SUBSET Names
    PROVE  TokenRequest(v, dns) \in Request
BY InstallationAssumption DEF TokenRequest, Request, Curves, KeyAlgorithms, RDNs

LEMMA LeafType ==
    ASSUME NEW r \in Request, NEW p \in Profile, NEW t \in Nat,
           NEW issuer \in Labels, NEW key \in Labels \cup {None}, NEW origin \in Serials
    PROVE  LET cert == Certified(Leaf(r, p, t), issuer, key, origin)
           IN  /\ cert \in Cert
               /\ cert.origin = origin
               /\ cert.issuer = issuer
               /\ cert.key = key
               /\ cert.eku = p.eku
               /\ cert.cn = r.cn
               /\ cert.uris = r.sans["uri"]
               /\ cert.notAfter = t + p.validity
<1>1. /\ r.cn \in Names \cup {None}
      /\ r.sans["uri"] \in SUBSET Names
  BY DEF Request, SANTypes
<1>2. /\ p.eku \in SUBSET ExtKeyUsages
      /\ p.ku \in SUBSET KeyUsages
      /\ p.validity \in Int
  BY DEF Profile
<1>3. KeyUsageFor(r, p) \in SUBSET KeyUsages
  BY <1>2 DEF KeyUsageFor
<1>4. t + p.validity \in Int
  BY <1>2
<1> QED
  BY <1>1, <1>2, <1>3, <1>4 DEF Certified, Leaf, Cert

LEMMA IssuableCovered ==
    ASSUME NEW r, NEW p, NEW ceiling, NEW t, NEW issuer, Issuable(r, p, ceiling, t, issuer)
    PROVE  t + p.validity <= issuer.notAfter
BY DEF Issuable, CanCover

LEMMA IdentitiesType ==
    ASSUME NEW c \in Cert
    PROVE  ClientIdentities(c) \subseteq Names
BY DEF Cert, ClientIdentities

-----------------------------------------------------------------------------
LEMMA InitInv == Init => Inv
<1> SUFFICES ASSUME Init PROVE Inv
  OBVIOUS
<1>1. DOMAIN certs = {}
  BY DEF Init
<1>2. TypeOK
  BY <1>1, InstallationAssumption DEF Init, TypeOK
<1>3. RowsIssued /\ ServedGranted /\ WithdrawnNotValid
  BY DEF Init, RowsIssued, ServedGranted, WithdrawnNotValid
<1>4. Confined /\ WithinIssuer
  BY <1>1 DEF Confined, WithinIssuer
<1>5. Authorised
  BY InstallationAssumption DEF Init, Authorised
<1> QED
  BY <1>2, <1>3, <1>4, <1>5 DEF Inv

(* The part of TypeOK about what does not sign anything.                   *)
ServiceType ==
    /\ token \in [Labels -> Curves \cup {None}]
    /\ authorities \in [Labels -> [notBefore : Nat, notAfter : Nat] \cup {None}]
    /\ files \in [Paths -> DOMAIN certs \cup Labels \cup {None, Damaged}]
    /\ running \in [cfg : Configs, tls : DOMAIN certs \cup {None},
                    ocsp : DOMAIN certs \cup {None}] \cup {None}
    /\ granted \subseteq Names \X Names

(* What a step has to show for the service's side of the invariant.        *)
ServiceSide == ServiceType /\ ServedGranted /\ Authorised

(* A certificate that is signed keeps the invariant if what it carries     *)
(* follows from its origin.                                                *)
LEMMA SignInv ==
    ASSUME Inv, NEW s \in Fresh, NEW cert \in Cert, Sign(s, cert),
           cert.origin \in DOMAIN certs \cup {s},
           authorities[cert.issuer] # None,
           cert.notAfter <= authorities[cert.issuer].notAfter,
           "clientAuth" \in cert.eku =>
               ClientIdentities(cert)
                   \subseteq Reach(ClientIdentities(certs'[cert.origin]), granted),
           granted \subseteq granted',
           NEW subject \in Names \cup {None},
           rows' = rows \/ rows' = [rows EXCEPT ![s] = [status |-> "valid", subject |-> subject]],
           held' \subseteq held \cup {s},
           now' = now, withdrawn' = withdrawn, authorities' = authorities,
           ServiceSide'
    PROVE  Inv'
<1>1. s \in Serials /\ s \notin DOMAIN certs
  BY DEF Fresh
<1>2. /\ DOMAIN certs' = DOMAIN certs \cup {s}
      /\ certs'[s] = cert
      /\ \A t \in DOMAIN certs : certs'[t] = certs[t]
  BY <1>1 DEF Sign
<1>3. /\ DOMAIN certs \subseteq Serials
      /\ \A t \in DOMAIN certs : certs[t] \in Cert /\ certs[t].origin \in DOMAIN certs
      /\ rows \in [Serials -> Row \cup {None}]
      /\ held \subseteq DOMAIN certs
      /\ withdrawn \subseteq DOMAIN certs
      /\ now \in Nat
  BY DEF Inv, TypeOK
<1>4. rows' \in [Serials -> Row \cup {None}]
  BY <1>1, <1>3 DEF Row
<1>5. \A t \in DOMAIN certs' : certs'[t] \in Cert /\ certs'[t].origin \in DOMAIN certs'
  BY <1>2, <1>3
<1>6. TypeOK'
  BY <1>1, <1>2, <1>3, <1>4, <1>5 DEF TypeOK, ServiceSide, ServiceType
<1>7. RowsIssued'
  BY <1>1, <1>2, <1>3 DEF Inv, RowsIssued
<1>8. WithdrawnNotValid'
  BY <1>1, <1>3 DEF Inv, WithdrawnNotValid
<1>9. ASSUME NEW t \in DOMAIN certs', "clientAuth" \in certs'[t].eku
      PROVE  ClientIdentities(certs'[t])
                 \subseteq Reach(ClientIdentities(certs'[certs'[t].origin]), granted')
  <2>1. CASE t = s
    <3>1. ClientIdentities(certs'[t])
              \subseteq Reach(ClientIdentities(certs'[certs'[t].origin]), granted)
      BY <2>1, <1>2, <1>9
    <3> QED
      BY <3>1, ReachGrows
  <2>2. CASE t \in DOMAIN certs
    <3>1. /\ certs'[t] = certs[t]
          /\ certs'[certs[t].origin] = certs[certs[t].origin]
      BY <2>2, <1>2, <1>3
    <3>2. ClientIdentities(certs[t])
              \subseteq Reach(ClientIdentities(certs[certs[t].origin]), granted)
      BY <2>2, <3>1, <1>9 DEF Inv, Confined
    <3>3. ClientIdentities(certs[t])
              \subseteq Reach(ClientIdentities(certs[certs[t].origin]), granted')
      BY <3>2, ReachGrows
    <3> QED
      BY <3>1, <3>3
  <2> QED
    BY <2>1, <2>2, <1>2
<1>10. Confined'
  BY <1>9 DEF Confined
<1>11. WithinIssuer'
  BY <1>2 DEF Inv, WithinIssuer
<1> QED
  BY <1>6, <1>7, <1>8, <1>10, <1>11 DEF Inv, ServiceSide

(* A step that signs no leaf and revokes nothing.                          *)
LEMMA NoSignInv ==
    ASSUME Inv, certs' = certs, granted \subseteq granted',
           rows' = rows \/ rows' = [s \in Serials |-> None],
           held' = held, now' \in Nat, withdrawn' = withdrawn,
           \A l \in Labels : authorities[l] # None => authorities'[l] = authorities[l],
           ServiceSide'
    PROVE  Inv'
<1>1. TypeOK'
  BY DEF Inv, TypeOK, ServiceSide, ServiceType
<1>2. RowsIssued'
  BY DEF Inv, TypeOK, RowsIssued
<1>3. WithdrawnNotValid'
  BY DEF Inv, TypeOK, WithdrawnNotValid
<1>4. ASSUME NEW t \in DOMAIN certs, "clientAuth" \in certs[t].eku
      PROVE  ClientIdentities(certs[t])
                 \subseteq Reach(ClientIdentities(certs[certs[t].origin]), granted')
  <2>1. ClientIdentities(certs[t])
            \subseteq Reach(ClientIdentities(certs[certs[t].origin]), granted)
    BY <1>4 DEF Inv, Confined
  <2> QED
    BY <2>1, ReachGrows
<1>5. Confined'
  BY <1>4 DEF Confined
<1>6. WithinIssuer'
  <2>1. \A s \in DOMAIN certs : certs[s].issuer \in Labels
    BY DEF Inv, TypeOK, Cert
  <2> QED
    BY <2>1 DEF Inv, WithinIssuer
<1> QED
  BY <1>1, <1>2, <1>3, <1>5, <1>6 DEF Inv, ServiceSide

(* Keys are only added.                                                    *)
KeysKept == \A l \in Labels : token[l] # None => token'[l] = token[l]

(* The service's side survives a certificate and a key more.               *)
LEMMA ServiceSideGrows ==
    ASSUME Inv, DOMAIN certs \subseteq DOMAIN certs',
           token' \in [Labels -> Curves \cup {None}], KeysKept,
           files' \in [Paths -> DOMAIN certs' \cup Labels \cup {None, Damaged}],
           \A q \in Paths : files'[q] = files[q] \/ files'[q] \notin Labels,
           authorities' = authorities, running' = running, granted' = granted
    PROVE  ServiceSide'
<1>1. running \in [cfg : Configs, tls : DOMAIN certs' \cup {None},
                  ocsp : DOMAIN certs' \cup {None}] \cup {None}
  BY DEF Inv, TypeOK
<1>2. ServiceType'
  BY <1>1 DEF Inv, TypeOK, ServiceType
<1>3. ServedGranted'
  BY DEF Inv, ServedGranted
<1>4. Authorised'
  BY DEF Inv, Authorised, KeysKept
<1> QED
  BY <1>2, <1>3, <1>4 DEF ServiceSide

(* What a write leaves in the files.                                       *)
LEMMA WriteType ==
    ASSUME Inv, NEW q \in Paths, NEW written \in Written, NEW content, NEW S,
           DOMAIN certs \cup Labels \cup {content} \subseteq S,
           Write(q, content, written)
    PROVE  /\ files' \in [Paths -> S \cup {None, Damaged}]
           /\ \A p \in Paths : p # q => files'[p] = files[p]
           /\ files'[q] \in {files[q], content, Damaged}
           /\ written # "yes" => files'[q] \in {files[q], Damaged}
<1>1. files \in [Paths -> S \cup {None, Damaged}]
  BY DEF Inv, TypeOK
<1>2. CASE written = "yes"
  BY <1>1, <1>2 DEF Write
<1>3. CASE written = "partly"
  BY <1>1, <1>3 DEF Write
<1>4. CASE written = "no"
  BY <1>1, <1>4 DEF Write
<1> QED
  BY <1>2, <1>3, <1>4 DEF Written

(* The file and the row of a certificate just issued.                      *)
LEMMA RecordAndWriteType ==
    ASSUME Inv, NEW s \in Serials, NEW q \in Paths, NEW subject,
           NEW recorded \in BOOLEAN, NEW written \in Written,
           DOMAIN certs' = DOMAIN certs \cup {s},
           RecordAndWrite(s, subject, q, recorded, written)
    PROVE  /\ rows' = rows \/ rows' = [rows EXCEPT ![s] = [status |-> "valid", subject |-> subject]]
           /\ held' \subseteq held \cup {s}
           /\ files' \in [Paths -> DOMAIN certs' \cup Labels \cup {None, Damaged}]
           /\ \A p \in Paths : files'[p] = files[p] \/ files'[p] \notin Labels
<1>1. Write(q, s, written)
  BY DEF RecordAndWrite
<1>2. DOMAIN certs \cup Labels \cup {s} \subseteq DOMAIN certs' \cup Labels
  OBVIOUS
<1>3. /\ files' \in [Paths -> (DOMAIN certs' \cup Labels) \cup {None, Damaged}]
      /\ \A p \in Paths : p # q => files'[p] = files[p]
      /\ files'[q] \in {files[q], s, Damaged}
  BY <1>1, <1>2, WriteType
<1>4. s \notin Labels /\ Damaged \notin Labels
  BY InstallationAssumption
<1>5. rows' = rows \/ rows' = [rows EXCEPT ![s] = [status |-> "valid", subject |-> subject]]
  BY DEF RecordAndWrite, Record
<1>6. held' \subseteq held \cup {s}
  BY DEF RecordAndWrite
<1> QED
  BY <1>3, <1>4, <1>5, <1>6

LEMMA LoadIntermediateAuthorised ==
    ASSUME Inv, NEW c, NamesIssuer(c), LoadIntermediate(c)
    PROVE  /\ c.intermediate \in Labels
           /\ authorities[c.intermediate] # None
           /\ authorities[c.intermediate] \in [notBefore : Nat, notAfter : Nat]
BY DEF Inv, TypeOK, Authorised, LoadIntermediate, NamesIssuer

-----------------------------------------------------------------------------
(* The keytool commands.  What they issue is its own origin.               *)

LEMMA GenerateType ==
    ASSUME Inv, NEW l \in Labels, NEW v \in Curves, Generate(l, v)
    PROVE  /\ token' \in [Labels -> Curves \cup {None}] /\ KeysKept
           /\ token[l] = None /\ token'[l] = v
BY DEF Inv, TypeOK, Generate, KeysKept

LEMMA ReissueIntermediateInv ==
    ASSUME Inv, NEW f \in CAFlags, NEW written \in Written, ReissueIntermediate(f, written)
    PROVE  Inv'
<1> DEFINE ca == [notBefore |-> now, notAfter |-> now + f.validity]
<1>1. /\ f.label \in Labels /\ f.file \in Paths /\ f.curve \in Curves
      /\ now \in Nat /\ ca \in [notBefore : Nat, notAfter : Nat] /\ None \notin Curves
  BY InstallationAssumption DEF Inv, TypeOK
<1>2. /\ UNCHANGED <<now, certs, rows, held, running, granted, withdrawn>>
      /\ Generate(f.label, f.curve) /\ Write(f.file, f.label, written)
      /\ authorities' = IF written = "yes" THEN [authorities EXCEPT ![f.label] = ca]
                                          ELSE authorities
  BY DEF ReissueIntermediate
<1>3. /\ token' \in [Labels -> Curves \cup {None}] /\ KeysKept
      /\ token[f.label] = None /\ token'[f.label] # None
  BY <1>1, <1>2, GenerateType
<1>4. /\ files' \in [Paths -> (DOMAIN certs \cup Labels) \cup {None, Damaged}]
      /\ \A p \in Paths : p # f.file => files'[p] = files[p]
      /\ files'[f.file] \in {files[f.file], f.label, Damaged}
      /\ written # "yes" => files'[f.file] \in {files[f.file], Damaged}
  BY <1>1, <1>2, WriteType
<1> HIDE DEF ca
<1>5. /\ authorities' \in [Labels -> [notBefore : Nat, notAfter : Nat] \cup {None}]
      /\ written = "yes" => authorities'[f.label] # None
      /\ \A l \in Labels : l # f.label => authorities'[l] = authorities[l]
      /\ authorities[f.label] = None
  <2>1. authorities \in [Labels -> [notBefore : Nat, notAfter : Nat] \cup {None}]
        /\ authorities[f.label] = None
    BY <1>1, <1>3 DEF Inv, TypeOK, Authorised
  <2>2. ca # None
    <3>1. ca \in [notBefore : Nat, notAfter : Nat]
      BY <1>1
    <3>2. None \notin [notBefore : Nat, notAfter : Nat]
      BY InstallationAssumption
    <3> QED
      BY <3>1, <3>2
  <2> QED
    BY <1>1, <1>2, <2>1, <2>2
<1>6. \A l \in Labels : authorities[l] # None => authorities'[l] = authorities[l]
  BY <1>5
<1>7. Authorised'
  <2>1. \A l \in Labels : authorities'[l] # None => token'[l] # None
    BY <1>3, <1>5 DEF Inv, Authorised, KeysKept
  <2>2. ASSUME NEW p \in Paths, files'[p] \in Labels PROVE authorities'[files'[p]] # None
    <3>1. Damaged \notin Labels
      BY InstallationAssumption
    <3>2. CASE files'[p] = files[p]
      BY <3>2, <2>2, <1>6 DEF Inv, Authorised
    <3>3. CASE files'[p] # files[p]
      BY <3>1, <3>3, <2>2, <1>4, <1>5
    <3> QED
      BY <3>2, <3>3
  <2>3. running # None => authorities'[running.cfg.intermediate] # None
    <3>1. running # None => running.cfg.intermediate \in Labels
      BY InstallationAssumption DEF Inv, TypeOK, NamesIssuer
    <3> QED
      BY <3>1, <1>6 DEF Inv, Authorised
  <2> QED
    BY <2>1, <2>2, <2>3, <1>2 DEF Authorised
<1>8. ServiceType' /\ ServedGranted'
  BY <1>2, <1>3, <1>4, <1>5 DEF Inv, TypeOK, ServiceType, ServedGranted
<1> QED
  BY <1>1, <1>2, <1>6, <1>7, <1>8, NoSignInv DEF ServiceSide

LEMMA IssueClientCertInv ==
    ASSUME Inv, NEW s \in Fresh, NEW f \in ClientFlags,
           NEW recorded \in BOOLEAN, NEW written \in Written,
           IssueClientCert(s, f, recorded, written)
    PROVE  Inv'
<1> DEFINE p == BuiltinProfile("tls-client", f.validity)
           r == f.csr
           i == f.intermediate
           cert == Certified(Leaf(r, p, now), i, None, s)
<1>1. /\ now \in Nat /\ s \in Serials /\ s \notin DOMAIN certs
      /\ r \in Request /\ f.file \in Paths /\ f.validity \in Nat /\ NamesIssuer(f)
  BY InstallationAssumption DEF Inv, TypeOK, Fresh
<1>2. p \in Profile
  BY <1>1, BuiltinProfileType
<1>3. i \in Labels /\ authorities[i] # None
  BY <1>1, LoadIntermediateAuthorised DEF IssueClientCert
<1>4. now + p.validity <= authorities[i].notAfter
  BY IssuableCovered DEF IssueClientCert, KeytoolIssuable
<1>5. Sign(s, cert)
  BY DEF IssueClientCert
<1>6. /\ RecordAndWrite(s, r.cn, f.file, recorded, written)
      /\ UNCHANGED <<now, token, authorities, running, granted, withdrawn>>
  BY DEF IssueClientCert
<1>7. r.cn \in Names \cup {None}
  BY <1>1 DEF Request
<1> HIDE DEF p, r, i
<1>8. /\ cert \in Cert
      /\ cert.origin = s /\ cert.issuer = i
      /\ cert.notAfter = now + p.validity
  BY <1>1, <1>2, <1>3, LeafType
<1> HIDE DEF cert
<1>9. DOMAIN certs' = DOMAIN certs \cup {s} /\ certs'[s] = cert
  BY <1>1, <1>5 DEF Sign
<1>10. /\ rows' = rows \/ rows' = [rows EXCEPT ![s] = [status |-> "valid", subject |-> r.cn]]
       /\ held' \subseteq held \cup {s}
       /\ files' \in [Paths -> DOMAIN certs' \cup Labels \cup {None, Damaged}]
       /\ \A q \in Paths : files'[q] = files[q] \/ files'[q] \notin Labels
  BY <1>1, <1>6, <1>9, RecordAndWriteType
<1>11. ServiceSide'
  BY <1>6, <1>9, <1>10, ServiceSideGrows DEF Inv, TypeOK, KeysKept
<1>12. ClientIdentities(cert) \subseteq Reach(ClientIdentities(certs'[cert.origin]), granted)
  BY <1>8, <1>9, IdentitiesType, ReachContains
<1> QED
  BY <1>3, <1>4, <1>5, <1>6, <1>7, <1>8, <1>10, <1>11, <1>12, SignInv

LEMMA ProvisionTLSIdentityInv ==
    ASSUME Inv, NEW s \in Fresh, NEW f \in TLSFlags,
           NEW recorded \in BOOLEAN, NEW written \in Written,
           ProvisionTLSIdentity(s, f, recorded, written)
    PROVE  Inv'
<1> DEFINE p == BuiltinProfile("tls-server", f.validity)
           r == TokenRequest(f.keyCurve, {ServiceName})
           i == f.intermediate
           cert == Certified(Leaf(r, p, now), i, f.label, s)
<1>1. /\ now \in Nat /\ s \in Serials /\ s \notin DOMAIN certs
      /\ f.label \in Labels /\ f.keyCurve \in Curves /\ f.file \in Paths
      /\ f.validity \in Nat /\ NamesIssuer(f) /\ ServiceName \in Names
  BY InstallationAssumption DEF Inv, TypeOK, Fresh
<1>2. p \in Profile
  BY <1>1, BuiltinProfileType
<1>3. r \in Request
  BY <1>1, TokenRequestType
<1>4. i \in Labels /\ authorities[i] # None
  BY <1>1, LoadIntermediateAuthorised DEF ProvisionTLSIdentity
<1>5. now + p.validity <= authorities[i].notAfter
  BY IssuableCovered DEF ProvisionTLSIdentity, KeytoolIssuable
<1>6. Sign(s, cert)
  BY DEF ProvisionTLSIdentity
<1>7. /\ RecordAndWrite(s, ServiceName, f.file, recorded, written)
      /\ UNCHANGED <<now, authorities, running, granted, withdrawn>>
      /\ Generate(f.label, f.keyCurve)
  BY DEF ProvisionTLSIdentity, ProvisionServiceKey
<1>8. token' \in [Labels -> Curves \cup {None}] /\ KeysKept
  BY <1>1, <1>7, GenerateType
<1> HIDE DEF p, r, i
<1>9. /\ cert \in Cert
      /\ cert.origin = s /\ cert.issuer = i
      /\ cert.notAfter = now + p.validity
  BY <1>1, <1>2, <1>3, <1>4, LeafType
<1> HIDE DEF cert
<1>10. DOMAIN certs' = DOMAIN certs \cup {s} /\ certs'[s] = cert
  BY <1>1, <1>6 DEF Sign
<1>11. /\ rows' = rows
          \/ rows' = [rows EXCEPT ![s] = [status |-> "valid", subject |-> ServiceName]]
       /\ held' \subseteq held \cup {s}
       /\ files' \in [Paths -> DOMAIN certs' \cup Labels \cup {None, Damaged}]
       /\ \A q \in Paths : files'[q] = files[q] \/ files'[q] \notin Labels
  BY <1>1, <1>7, <1>10, RecordAndWriteType
<1>12. ServiceSide'
  BY <1>7, <1>8, <1>10, <1>11, ServiceSideGrows
<1>13. ClientIdentities(cert) \subseteq Reach(ClientIdentities(certs'[cert.origin]), granted)
  BY <1>9, <1>10, IdentitiesType, ReachContains
<1> QED
  BY <1>1, <1>4, <1>5, <1>6, <1>7, <1>9, <1>11, <1>12, <1>13, SignInv

LEMMA ProvisionKeyInv ==
    ASSUME Inv, NEW l \in Labels, NEW v \in Curves, Generate(l, v),
           UNCHANGED <<now, authorities, certs, rows, held, files, running, granted, withdrawn>>
    PROVE  Inv'
<1>1. token' \in [Labels -> Curves \cup {None}] /\ KeysKept
  BY GenerateType
<1>2. now' \in Nat /\ files' \in [Paths -> DOMAIN certs' \cup Labels \cup {None, Damaged}]
  BY DEF Inv, TypeOK
<1>3. ServiceSide'
  BY <1>1, <1>2, ServiceSideGrows
<1> QED
  BY <1>2, <1>3, NoSignInv

-----------------------------------------------------------------------------
(* The server.                                                             *)

LEMMA ListenType ==
    ASSUME Inv, NEW c \in Configs, NEW ocsp \in DOMAIN certs' \cup {None},
           DOMAIN certs \subseteq DOMAIN certs', LoadIntermediate(c),
           Listen(c, ocsp), token' = token, files' = files, authorities' = authorities
    PROVE  granted \subseteq granted' /\ ServiceSide'
<1>0. files' \in [Paths -> DOMAIN certs' \cup Labels \cup {None, Damaged}]
  BY DEF Inv, TypeOK
<1>1. CASE UNCHANGED <<running, granted>>
  BY <1>0, <1>1, ServiceSideGrows DEF Inv, TypeOK, KeysKept
<1>2. ASSUME c.tls # None => LoadServiceCertificate(c),
             running' = [cfg |-> c,
                         tls |-> IF c.tls = None THEN None ELSE files[c.tls.file],
                         ocsp |-> ocsp],
             granted' = granted \cup Grants(c)
      PROVE  granted \subseteq granted' /\ ServiceSide'
  <2>1. granted' \subseteq Names \X Names
    BY <1>2 DEF Inv, TypeOK, Grants
  <2>2. ASSUME c.tls # None PROVE files[c.tls.file] \in DOMAIN certs'
    BY <1>2, <2>2 DEF LoadServiceCertificate
  <2>3. running' \in [cfg : Configs, tls : DOMAIN certs' \cup {None},
                     ocsp : DOMAIN certs' \cup {None}]
    BY <1>2, <2>2
  <2>4. ServiceType'
    BY <1>0, <2>1, <2>3 DEF Inv, TypeOK, ServiceType
  <2>5. ServedGranted'
    BY <1>2 DEF ServedGranted, Grants, Mintable
  <2>6. authorities[c.intermediate] # None
    BY LoadIntermediateAuthorised, InstallationAssumption
  <2>7. Authorised'
    BY <1>2, <2>6 DEF Inv, Authorised
  <2> QED
    BY <1>2, <2>4, <2>5, <2>7 DEF ServiceSide
<1> QED
  BY <1>1, <1>2 DEF Listen

LEMMA StartInv == ASSUME Inv, NEW c \in Configs, Start(c) PROVE Inv'
<1>1. /\ UNCHANGED <<now, token, authorities, certs, rows, held, files, withdrawn>>
      /\ Listen(c, None) /\ LoadIntermediate(c)
  BY DEF Start
<1>2. granted \subseteq granted' /\ ServiceSide'
  BY <1>1, ListenType
<1>3. now' \in Nat
  BY <1>1 DEF Inv, TypeOK
<1> QED
  BY <1>1, <1>2, <1>3, NoSignInv

LEMMA StartResponderInv ==
    ASSUME Inv, NEW c \in Configs, NEW s \in Fresh, StartResponder(c, s)
    PROVE  Inv'
<1> DEFINE p == ProfileSet(c)["ocsp-responder"]
           r == TokenRequest(c.curve, {})
           i == c.intermediate
           cert == Certified(Leaf(r, p, now), i, c.ocsp, s)
<1>1. /\ now \in Nat /\ s \in Serials /\ s \notin DOMAIN certs /\ NamesIssuer(c)
      /\ c.curve \in Curves /\ c.ocsp # None /\ c.ocsp \in Labels /\ ServiceName \in Names
  BY InstallationAssumption DEF Inv, TypeOK, Fresh, StartResponder, NamesIssuer
<1>2. p \in Profile
  BY ProfileSetType DEF StartResponder, Loads, OCSPLoads
<1>3. r \in Request
  BY <1>1, TokenRequestType
<1>4. i \in Labels /\ authorities[i] # None
  BY <1>1, LoadIntermediateAuthorised DEF StartResponder
<1>5. now + p.validity <= authorities[i].notAfter
  BY IssuableCovered DEF StartResponder, ResponderIssuable
<1>6. Sign(s, cert) /\ Listen(c, s) /\ LoadIntermediate(c)
  BY DEF StartResponder
<1>7. /\ rows' = [rows EXCEPT ![s] = [status |-> "valid", subject |-> ServiceName]]
      /\ UNCHANGED <<now, token, authorities, held, files, withdrawn>>
  BY DEF StartResponder, Record
<1> HIDE DEF p, r, i
<1>8. /\ cert \in Cert
      /\ cert.origin = s /\ cert.issuer = i
      /\ cert.notAfter = now + p.validity
  BY <1>1, <1>2, <1>3, <1>4, LeafType
<1> HIDE DEF cert
<1>9. DOMAIN certs' = DOMAIN certs \cup {s} /\ certs'[s] = cert
  BY <1>1, <1>6 DEF Sign
<1>10. granted \subseteq granted' /\ ServiceSide'
  BY <1>6, <1>7, <1>9, ListenType
<1>11. ClientIdentities(cert) \subseteq Reach(ClientIdentities(certs'[cert.origin]), granted)
  BY <1>8, <1>9, IdentitiesType, ReachContains
<1> QED
  BY <1>1, <1>4, <1>5, <1>6, <1>7, <1>8, <1>10, <1>11, SignInv

(* A name of a certificate that authenticates and that the API issues was  *)
(* granted to the identity the request was authorised as.                  *)
LEMMA IssuedNamesGranted ==
    ASSUME NEW c \in Configs, NEW i \in Names, i \in DOMAIN c.issuers,
           NEW name \in DOMAIN ProfileSet(c), NEW r \in Request,
           PermitsProfile(c.issuers[i], name), PermitsNames(c.issuers[i], r),
           CheckSANs(ProfileSet(c)[name], r), SubjectAllowed(ProfileSet(c)[name], r),
           "clientAuth" \in ProfileSet(c)[name].eku,
           NEW n \in Names, n \in r.sans["uri"] \/ n = r.cn
    PROVE  <<i, n>> \in Grants(c)
<1> DEFINE p == ProfileSet(c)[name]
           e == c.issuers[i]
<1>1. name \in e.profiles /\ "clientAuth" \in p.eku
  BY DEF PermitsProfile
<1>2. CASE n \in r.sans["uri"]
  <2>1. "uri" \in SANTypes
    BY DEF SANTypes
  <2>2. "uri" \in p.sans
    BY <1>2, <2>1 DEF CheckSANs
  <2>3. Granted(e, "uri", n)
    BY <1>2, <2>1 DEF PermitsNames
  <2>4. n \in Mintable(c, i)
    BY <1>1, <2>2, <2>3 DEF Mintable
  <2> QED
    BY <2>4 DEF Grants
<1>3. CASE n = r.cn
  <2>1. r.cn # None /\ "CN" \in r.attrs
    BY <1>3, InstallationAssumption DEF Request
  <2>2. "CN" \in p.rdns
    BY <2>1 DEF SubjectAllowed
  <2>3. Granted(e, "cn", n)
    BY <1>3, <2>1 DEF PermitsNames
  <2>4. n \in Mintable(c, i)
    BY <1>1, <2>2, <2>3 DEF Mintable
  <2> QED
    BY <2>4 DEF Grants
<1> QED
  BY <1>2, <1>3

LEMMA HandleIssueCertificateInv ==
    ASSUME Inv, running # None, NEW s \in held, NEW i \in DOMAIN running.cfg.issuers,
           NEW name \in DOMAIN ProfileSet(running.cfg), NEW r \in Requests,
           NEW t \in Fresh, HandleIssueCertificate(s, i, name, r, t)
    PROVE  Inv'
<1> DEFINE c == running.cfg
           p == ProfileSet(c)[name]
           o == certs[s].origin
           ca == c.intermediate
           cert == Certified(Leaf(r, p, now), ca, None, o)
<1>1. /\ now \in Nat /\ t \in Serials /\ t \notin DOMAIN certs
      /\ r \in Request /\ c \in Configs
      /\ s \in DOMAIN certs /\ certs[s] \in Cert
      /\ o \in DOMAIN certs /\ o \in Serials
      /\ ca \in Labels /\ authorities[ca] # None
  BY InstallationAssumption DEF Inv, TypeOK, Fresh, NamesIssuer, Authorised
<1>2. /\ i \in AuthorisedAs(certs[s], DOMAIN c.issuers)
      /\ "clientAuth" \in certs[s].eku
      /\ PermitsProfile(c.issuers[i], name)
      /\ PermitsNames(c.issuers[i], r)
      /\ Issuable(r, p, c.ceiling, now, authorities[ca])
      /\ Sign(t, cert)
  BY DEF HandleIssueCertificate, AuthenticatedAs, Handshake, Verifies
<1>3. /\ rows' = [rows EXCEPT ![t] = [status |-> "valid", subject |-> r.cn]]
      /\ held' = held \cup {t}
      /\ UNCHANGED <<now, token, authorities, files, running, granted, withdrawn>>
  BY DEF HandleIssueCertificate, Record
<1>4. p \in Profile
  BY <1>1, ProfileSetType
<1>5. now + p.validity <= authorities[ca].notAfter /\ CheckSANs(p, r) /\ SubjectAllowed(p, r)
  BY <1>2, IssuableCovered DEF Issuable
<1>6. i \in ClientIdentities(certs[s]) /\ i \in Names
  <2>1. i \in ClientIdentities(certs[s])
    BY <1>2 DEF AuthorisedAs, ClientIdentities
  <2> QED
    BY <2>1, <1>1, IdentitiesType
<1>7. i \in Reach(ClientIdentities(certs[o]), granted)
  BY <1>1, <1>2, <1>6 DEF Inv, Confined
<1>8. Grants(c) \subseteq granted
  BY DEF Inv, ServedGranted
<1>9. ASSUME "clientAuth" \in p.eku, NEW n \in Names, n \in r.sans["uri"] \/ n = r.cn
      PROVE  n \in Reach(ClientIdentities(certs[o]), granted)
  <2>1. <<i, n>> \in granted
    BY <1>1, <1>2, <1>5, <1>6, <1>8, <1>9, IssuedNamesGranted
  <2> QED
    BY <2>1, <1>7, <1>9, ReachStep
<1> HIDE DEF c, p, o, ca
<1>10. /\ cert \in Cert
       /\ cert.origin = o /\ cert.issuer = ca
       /\ cert.eku = p.eku
       /\ cert.cn = r.cn
       /\ cert.uris = r.sans["uri"]
       /\ cert.notAfter = now + p.validity
  BY <1>1, <1>4, LeafType
<1> HIDE DEF cert
<1>11. /\ DOMAIN certs' = DOMAIN certs \cup {t}
       /\ certs'[cert.origin] = certs[o]
  BY <1>1, <1>2, <1>10 DEF Sign
<1>12. ServiceSide'
  <2>1. files' \in [Paths -> DOMAIN certs' \cup Labels \cup {None, Damaged}]
    BY <1>3, <1>11 DEF Inv, TypeOK
  <2> QED
    BY <1>3, <1>11, <2>1, ServiceSideGrows DEF Inv, TypeOK, KeysKept
<1>13. ASSUME "clientAuth" \in cert.eku
       PROVE  ClientIdentities(cert)
                  \subseteq Reach(ClientIdentities(certs'[cert.origin]), granted)
  <2>1. ClientIdentities(cert) \subseteq Names
    BY <1>10, IdentitiesType
  <2>2. \A n \in ClientIdentities(cert) : n \in r.sans["uri"] \/ n = r.cn
    BY <1>10 DEF ClientIdentities
  <2> QED
    BY <2>1, <2>2, <1>9, <1>10, <1>11, <1>13
<1>14. r.cn \in Names \cup {None}
  BY <1>1 DEF Request
<1> QED
  BY <1>1, <1>2, <1>3, <1>5, <1>10, <1>11, <1>12, <1>13, <1>14, SignInv

LEMMA HandleRevokeInv ==
    ASSUME Inv, NEW s \in held, NEW t \in DOMAIN certs, HandleRevoke(s, t)
    PROVE  Inv'
<1>1. /\ rows' = [rows EXCEPT ![t].status = "revoked"] /\ rows[t] # None
      /\ withdrawn' = withdrawn \cup {t}
      /\ UNCHANGED <<now, token, authorities, certs, held, files, running, granted>>
  BY DEF HandleRevoke
<1>2. t \in Serials /\ rows \in [Serials -> Row \cup {None}] /\ withdrawn \subseteq Serials
  BY DEF Inv, TypeOK
<1>3. /\ rows'[t] = [rows[t] EXCEPT !.status = "revoked"]
      /\ \A u \in Serials : u # t => rows'[u] = rows[u]
      /\ DOMAIN rows' = Serials
  BY <1>1, <1>2
<1>4. rows[t] \in Row
  BY <1>1, <1>2
<1>5. rows'[t] \in Row /\ rows'[t].status = "revoked"
  BY <1>3, <1>4 DEF Row
<1>6. rows' \in [Serials -> Row \cup {None}]
  BY <1>1, <1>2, <1>3, <1>5
<1>7. TypeOK'
  BY <1>1, <1>6 DEF Inv, TypeOK
<1>8. RowsIssued' /\ WithdrawnNotValid'
  BY <1>1, <1>2, <1>3, <1>5 DEF Inv, RowsIssued, WithdrawnNotValid
<1>9. Confined' /\ WithinIssuer' /\ Authorised' /\ ServedGranted'
  BY <1>1 DEF Inv, Confined, WithinIssuer, Authorised, ServedGranted
<1> QED
  BY <1>7, <1>8, <1>9 DEF Inv

(* The service stops, the store is lost, time passes, or nothing happens.  *)
LEMMA EnvironmentInv ==
    ASSUME Inv, Stop \/ LoseStore \/ Tick \/ UNCHANGED vars
    PROVE  Inv'
<1>1. CASE Stop
  <2>1. ServiceSide' /\ now' \in Nat
    BY <1>1 DEF Stop, Inv, TypeOK, ServiceSide, ServiceType, ServedGranted, Authorised
  <2> QED
    BY <1>1, <2>1, NoSignInv DEF Stop
<1>2. CASE LoseStore \/ Tick \/ UNCHANGED vars
  <2>1. UNCHANGED <<token, authorities, certs, held, files, running, granted, withdrawn>>
    BY <1>2 DEF LoseStore, Tick, vars
  <2>2. now' \in Nat /\ (rows' = rows \/ rows' = [s \in Serials |-> None])
    BY <1>2 DEF LoseStore, Tick, vars, Inv, TypeOK
  <2>3. ServiceSide'
    BY <2>1, ServiceSideGrows DEF Inv, TypeOK, KeysKept
  <2> QED
    BY <2>1, <2>2, <2>3, NoSignInv
<1> QED
  BY <1>1, <1>2

LEMMA NextInv == Inv /\ [Next]_vars => Inv'
<1> SUFFICES ASSUME Inv, [Next]_vars PROVE Inv'
  OBVIOUS
<1>1. ASSUME NEW f \in TLSFlags, ProvisionTLSKeyOnly(f) PROVE Inv'
  <2>1. f.label \in Labels /\ f.keyCurve \in Curves
    BY InstallationAssumption
  <2> QED
    BY <1>1, <2>1, ProvisionKeyInv DEF ProvisionTLSKeyOnly, ProvisionServiceKey
<1>2. ASSUME NEW f \in OCSPFlags, ProvisionOCSPKey(f) PROVE Inv'
  <2>1. f.label \in Labels /\ f.keyCurve \in Curves
    BY InstallationAssumption
  <2> QED
    BY <1>2, <2>1, ProvisionKeyInv DEF ProvisionOCSPKey, ProvisionServiceKey
<1> QED
  BY <1>1, <1>2, ReissueIntermediateInv, IssueClientCertInv, ProvisionTLSIdentityInv,
     StartInv, StartResponderInv, HandleIssueCertificateInv, HandleRevokeInv,
     EnvironmentInv DEF Next

-----------------------------------------------------------------------------
LEMMA InvHolds == Spec => []Inv
BY InitInv, NextInv, PTL DEF Spec

(* Every reachable state has the types of the code's structures.           *)
THEOREM TypeCorrect == Spec => []TypeOK
<1>1. Inv => TypeOK
  BY DEF Inv
<1> QED
  BY InvHolds, <1>1, PTL

(* Whatever profiles, entitlements and requests there are, and however     *)
(* often the service is reconfigured, a chain of issuances over the API    *)
(* carries nobody beyond what the grants connect to the keytool            *)
(* certificate it started from.                                            *)
THEOREM CredentialsConfined == Spec => []Confined
<1>1. Inv => Confined
  BY DEF Inv
<1> QED
  BY InvHolds, <1>1, PTL

(* A certificate whose revocation was committed authenticates nobody       *)
(* afterwards, with or without the store that recorded it.                 *)
THEOREM RevokedStayOut == Spec => []RevokedNeverReturns
<1>1. Inv => RevokedNeverReturns
  <2> SUFFICES ASSUME Inv, NEW s \in withdrawn PROVE
        /\ AuthenticatedAs(s, DOMAIN running.cfg.issuers) = {}
        /\ AuthenticatedAs(s, running.cfg.revokers) = {}
    BY DEF RevokedNeverReturns
  <2>1. ~Recorded(s)
    BY DEF Inv, WithdrawnNotValid, Recorded
  <2> QED
    BY <2>1 DEF AuthenticatedAs
<1> QED
  BY InvHolds, <1>1, PTL

(* checkIssuerCanCover keeps every leaf inside its issuer's lifetime,      *)
(* whether keytool, the API or the responder asked for it.                 *)
THEOREM LeavesWithinIssuer == Spec => []WithinIssuer
<1>1. Inv => WithinIssuer
  BY DEF Inv
<1> QED
  BY InvHolds, <1>1, PTL

-----------------------------------------------------------------------------
(* The service's own identities.                                           *)

(* The checks of CA.Issue that no time changes.                            *)
Acceptable(r, p, ceiling) ==
    /\ ValidateCSR(r)
    /\ AllowsKey(p, r)
    /\ CheckSANs(p, r)
    /\ SubjectAllowed(p, r)
    /\ p.validity <= ceiling

(* A certificate file over a token key is over one that was generated and  *)
(* for no intermediate.                                                    *)
FilesSound ==
    \A q \in Paths : files[q] \in DOMAIN certs =>
        LET key == certs[files[q]].key
        IN  key # None => token[key] # None /\ authorities[key] = None

(* What LoadIntermediate, LoadServiceCertificate and responder.New saw is  *)
(* still there.                                                            *)
IssuerSound ==
    running # None =>
        LET c == running.cfg
        IN  /\ Loads(c)
            /\ files[c.cert] = c.intermediate
            /\ NewSigner(c, c.intermediate)
            /\ authorities[c.intermediate].notBefore <= now
            /\ c.tls = None => running.tls = None
            /\ c.ocsp = None => running.ocsp = None
TLSSound ==
    running # None /\ running.cfg.tls # None =>
        LET c == running.cfg
        IN  /\ running.tls \in DOMAIN certs
            /\ files[c.tls.file] = running.tls
            /\ "serverAuth" \in certs[running.tls].eku
            /\ certs[running.tls].issuer = c.intermediate
            /\ NewSigner(c, c.tls.label)
            /\ certs[running.tls].key = c.tls.label
OCSPSound ==
    running # None /\ running.cfg.ocsp # None =>
        LET c == running.cfg
        IN  /\ running.ocsp \in DOMAIN certs
            /\ certs[running.ocsp].key = c.ocsp
            /\ NewSigner(c, c.ocsp)
            /\ Acceptable(TokenRequest(c.curve, {}), ProfileSet(c)["ocsp-responder"], c.ceiling)

RunningSound == IssuerSound /\ TLSSound /\ OCSPSound

ServiceInv == FilesSound /\ RunningSound

(* Durable things are only added to, and time does not go back.            *)
Kept ==
    /\ \A t \in DOMAIN certs : t \in DOMAIN certs' /\ certs'[t] = certs[t]
    /\ KeysKept
    /\ \A l \in Labels : authorities[l] # None => authorities'[l] = authorities[l]
    /\ \A q \in Paths : files[q] # None => files'[q] = files[q]
    /\ now' \in Nat /\ now <= now'

LEMMA SignKeeps ==
    ASSUME NEW s \in Fresh, NEW cert, Sign(s, cert)
    PROVE  /\ DOMAIN certs' = DOMAIN certs \cup {s}
           /\ certs'[s] = cert
           /\ \A t \in DOMAIN certs : t \in DOMAIN certs' /\ certs'[t] = certs[t]
BY DEF Fresh, Sign

LEMMA WriteKeeps ==
    ASSUME Inv, NEW q \in Paths, RefuseExistingFile(q), NEW written \in Written, NEW content,
           Write(q, content, written)
    PROVE  /\ \A p \in Paths : files[p] # None => files'[p] = files[p]
           /\ \A p \in Paths : files'[p] \in {files[p], content, Damaged}
<1>1. files \in [Paths -> DOMAIN certs \cup Labels \cup {None, Damaged}]
  BY DEF Inv, TypeOK
<1>2. CASE written = "yes"
  BY <1>1, <1>2 DEF Write, RefuseExistingFile
<1>3. CASE written = "partly"
  BY <1>1, <1>3 DEF Write, RefuseExistingFile
<1>4. CASE written = "no"
  BY <1>1, <1>4 DEF Write, RefuseExistingFile
<1> QED
  BY <1>2, <1>3, <1>4 DEF Written

LEMMA KeyKept ==
    ASSUME Inv, NEW c \in Configs, NEW l \in Labels, NewSigner(c, l), Kept
    PROVE  NewSigner(c, l)'
<1>1. c.curve \in Curves /\ None \notin Curves
  BY InstallationAssumption DEF NamesIssuer
<1> QED
  BY <1>1 DEF NewSigner, Kept, KeysKept

(* A service that keeps running finds what it loaded.                      *)
LEMMA RunningKept ==
    ASSUME Inv, RunningSound, Kept, running' = running
    PROVE  RunningSound'
<1>1. CASE running = None
  BY <1>1 DEF RunningSound, IssuerSound, TLSSound, OCSPSound
<1>2. CASE running # None
  <2> DEFINE c == running.cfg
  <2>1. /\ c \in Configs /\ c.intermediate \in Labels /\ c.cert \in Paths
        /\ c.tls # None => c.tls.file \in Paths /\ c.tls.label \in Labels
        /\ c.ocsp # None => c.ocsp \in Labels
        /\ now \in Nat
        /\ None \notin Labels /\ None \notin Serials
    BY <1>2, InstallationAssumption DEF Inv, TypeOK, NamesIssuer
  <2>2. DOMAIN certs \subseteq Serials
    BY DEF Inv, TypeOK
  <2>3. /\ authorities[c.intermediate] # None
        /\ authorities[c.intermediate].notBefore \in Nat
    BY <1>2, <2>1 DEF Inv, TypeOK, Authorised
  <2>4. /\ NewSigner(c, c.intermediate)'
        /\ c.tls # None => NewSigner(c, c.tls.label)'
        /\ c.ocsp # None => NewSigner(c, c.ocsp)'
    BY <1>2, <2>1, KeyKept DEF RunningSound, IssuerSound, TLSSound, OCSPSound, NewSigner
  <2>5. IssuerSound'
    <3>1. authorities'[c.intermediate].notBefore <= now'
      BY <1>2, <2>1, <2>3 DEF RunningSound, IssuerSound, Kept
    <3>2. files'[c.cert] = c.intermediate
      BY <1>2, <2>1 DEF RunningSound, IssuerSound, Kept
    <3> QED
      BY <1>2, <2>4, <3>1, <3>2 DEF RunningSound, IssuerSound
  <2>6. TLSSound'
    BY <1>2, <2>1, <2>2, <2>4 DEF RunningSound, TLSSound, Kept
  <2>7. OCSPSound'
    BY <1>2, <2>4 DEF RunningSound, OCSPSound, Kept
  <2> QED
    BY <2>5, <2>6, <2>7 DEF RunningSound
<1> QED
  BY <1>1, <1>2

(* A step that only adds what the files do not speak of.                   *)
LEMMA FilesKept ==
    ASSUME Inv, FilesSound, Kept, authorities' = authorities,
           \A q \in Paths : files'[q] \in DOMAIN certs => files'[q] = files[q],
           \A q \in Paths : files'[q] \in DOMAIN certs' \ DOMAIN certs =>
               LET key == certs'[files'[q]].key
               IN  key # None => token'[key] # None /\ authorities[key] = None
    PROVE  FilesSound'
<1> SUFFICES ASSUME NEW q \in Paths, files'[q] \in DOMAIN certs',
                    certs'[files'[q]].key # None
             PROVE  /\ token'[certs'[files'[q]].key] # None
                    /\ authorities[certs'[files'[q]].key] = None
  BY DEF FilesSound
<1>1. CASE files'[q] \in DOMAIN certs
  <2>1. files'[q] = files[q] /\ certs'[files[q]] = certs[files[q]]
    BY <1>1 DEF Kept
  <2>2. certs[files[q]].key \in Labels
    BY <1>1, <2>1 DEF Inv, TypeOK, Cert
  <2>3. token[certs[files[q]].key] # None /\ authorities[certs[files[q]].key] = None
    BY <1>1, <2>1 DEF FilesSound
  <2> QED
    BY <2>1, <2>2, <2>3 DEF Kept, KeysKept
<1>2. CASE files'[q] \notin DOMAIN certs
  BY <1>2
<1> QED
  BY <1>1, <1>2

(* A start that comes up has just checked it all.                          *)
LEMMA ListenSound ==
    ASSUME Inv, Kept, running = None, NEW c \in Configs, Loads(c),
           LoadIntermediate(c), NEW ocsp, Listen(c, ocsp),
           UNCHANGED <<now, token, authorities, files>>,
           c.ocsp = None => ocsp = None,
           c.ocsp # None => /\ ocsp \in DOMAIN certs'
                            /\ certs'[ocsp].key = c.ocsp
                            /\ ResponderIssuable(c)
    PROVE  RunningSound'
<1>1. CASE UNCHANGED <<running, granted>>
  BY <1>1 DEF RunningSound, IssuerSound, TLSSound, OCSPSound
<1>2. ASSUME c.tls # None => LoadServiceCertificate(c),
             running' = [cfg |-> c,
                         tls |-> IF c.tls = None THEN None ELSE files[c.tls.file],
                         ocsp |-> ocsp]
      PROVE  RunningSound'
  <2>1. running'.cfg = c /\ running'.ocsp = ocsp
        /\ running'.tls = IF c.tls = None THEN None ELSE files[c.tls.file]
    BY <1>2
  <2>2. IssuerSound'
    BY <2>1 DEF IssuerSound, LoadIntermediate, InWindow, NewSigner
  <2>3. TLSSound'
    <3>1. ASSUME c.tls # None
          PROVE  /\ files[c.tls.file] \in DOMAIN certs
                 /\ "serverAuth" \in certs[files[c.tls.file]].eku
                 /\ certs[files[c.tls.file]].issuer = c.intermediate
                 /\ NewSigner(c, c.tls.label)
                 /\ certs[files[c.tls.file]].key = c.tls.label
      BY <1>2, <3>1 DEF LoadServiceCertificate
    <3> QED
      BY <2>1, <3>1 DEF TLSSound, NewSigner, Kept
  <2>4. OCSPSound'
    <3>1. ASSUME c.ocsp # None
          PROVE  /\ NewSigner(c, c.ocsp)
                 /\ Acceptable(TokenRequest(c.curve, {}), ProfileSet(c)["ocsp-responder"],
                               c.ceiling)
      BY <3>1 DEF ResponderIssuable, Issuable, Acceptable
    <3> QED
      BY <2>1, <3>1 DEF OCSPSound, NewSigner
  <2> QED
    BY <2>2, <2>3, <2>4 DEF RunningSound
<1> QED
  BY <1>1, <1>2 DEF Listen

-----------------------------------------------------------------------------
(* One lemma per action that changes a file, a key or the service.         *)

LEMMA ReissueIntermediateSound ==
    ASSUME Inv, ServiceInv, NEW f \in CAFlags, NEW written \in Written,
           ReissueIntermediate(f, written)
    PROVE  ServiceInv'
<1>1. /\ f.label \in Labels /\ f.file \in Paths /\ f.curve \in Curves /\ now \in Nat
      /\ Damaged \notin Serials /\ f.label \notin Serials /\ None \notin Serials
  BY InstallationAssumption DEF Inv, TypeOK
<1>2. /\ UNCHANGED <<now, certs, running>> /\ RefuseExistingFile(f.file)
      /\ Generate(f.label, f.curve) /\ Write(f.file, f.label, written)
      /\ authorities' = authorities \/ \E ca : authorities' = [authorities EXCEPT ![f.label] = ca]
  BY DEF ReissueIntermediate
<1>3. KeysKept /\ token[f.label] = None
  BY <1>1, <1>2, GenerateType
<1>4. \A l \in Labels : l # f.label => authorities'[l] = authorities[l]
  BY <1>1, <1>2 DEF Inv, TypeOK
<1>5. authorities[f.label] = None
  BY <1>1, <1>3 DEF Inv, Authorised
<1>6. /\ \A p \in Paths : files[p] # None => files'[p] = files[p]
      /\ \A p \in Paths : files'[p] \in {files[p], f.label, Damaged}
  BY <1>1, <1>2, WriteKeeps
<1>7. Kept
  BY <1>1, <1>2, <1>3, <1>4, <1>5, <1>6 DEF Kept
<1>8. RunningSound'
  BY <1>2, <1>7, RunningKept DEF ServiceInv
<1>9. FilesSound'
  <2> SUFFICES ASSUME NEW q \in Paths, files'[q] \in DOMAIN certs, certs[files'[q]].key # None
               PROVE  /\ token'[certs[files'[q]].key] # None
                      /\ authorities'[certs[files'[q]].key] = None
    BY <1>2 DEF FilesSound
  <2>1. files'[q] \in Serials /\ certs[files'[q]].key \in Labels
    BY DEF Inv, TypeOK, Cert
  <2>2. files'[q] = files[q]
    BY <1>1, <1>6, <2>1
  <2>3. token[certs[files[q]].key] # None /\ authorities[certs[files[q]].key] = None
    BY <2>2 DEF ServiceInv, FilesSound
  <2> QED
    BY <1>3, <1>4, <2>1, <2>2, <2>3 DEF KeysKept
<1> QED
  BY <1>8, <1>9 DEF ServiceInv

(* A command that issues: its certificate is over no intermediate's key.   *)
LEMMA IssuingSound ==
    ASSUME Inv, ServiceInv, NEW s \in Fresh, NEW cert \in Cert, Sign(s, cert),
           NEW q \in Paths, RefuseExistingFile(q), NEW subject,
           NEW recorded \in BOOLEAN, NEW written \in Written,
           RecordAndWrite(s, subject, q, recorded, written), KeysKept,
           cert.key # None => token'[cert.key] # None /\ authorities[cert.key] = None,
           UNCHANGED <<now, authorities, running>>
    PROVE  ServiceInv'
<1>1. s \in Serials /\ s \notin DOMAIN certs /\ now \in Nat
      /\ Damaged \notin Serials /\ DOMAIN certs \subseteq Serials
  BY InstallationAssumption DEF Inv, TypeOK, Fresh
<1>2. /\ DOMAIN certs' = DOMAIN certs \cup {s}
      /\ certs'[s] = cert
      /\ \A t \in DOMAIN certs : t \in DOMAIN certs' /\ certs'[t] = certs[t]
  BY SignKeeps
<1>3. /\ \A p \in Paths : files[p] # None => files'[p] = files[p]
      /\ \A p \in Paths : files'[p] \in {files[p], s, Damaged}
  BY WriteKeeps DEF RecordAndWrite
<1>4. Kept
  BY <1>1, <1>2, <1>3 DEF Kept
<1>5. RunningSound'
  BY <1>4, RunningKept DEF ServiceInv
<1>6. \A p \in Paths : files'[p] \in DOMAIN certs => files'[p] = files[p]
  BY <1>1, <1>3
<1>7. \A p \in Paths : files'[p] \in DOMAIN certs' \ DOMAIN certs => certs'[files'[p]] = cert
  BY <1>2
<1>8. FilesSound'
  BY <1>4, <1>6, <1>7, FilesKept DEF ServiceInv
<1> QED
  BY <1>5, <1>8 DEF ServiceInv

LEMMA IssueClientCertSound ==
    ASSUME Inv, ServiceInv, NEW s \in Fresh, NEW f \in ClientFlags,
           NEW recorded \in BOOLEAN, NEW written \in Written,
           IssueClientCert(s, f, recorded, written)
    PROVE  ServiceInv'
<1> DEFINE p == BuiltinProfile("tls-client", f.validity)
           r == f.csr
           i == f.intermediate
           cert == Certified(Leaf(r, p, now), i, None, s)
<1>1. /\ now \in Nat /\ s \in Serials /\ r \in Request /\ f.file \in Paths
      /\ f.validity \in Nat /\ i \in Labels
  BY InstallationAssumption DEF Inv, TypeOK, Fresh, NamesIssuer
<1>2. p \in Profile
  BY <1>1, BuiltinProfileType
<1>3. /\ Sign(s, cert) /\ RefuseExistingFile(f.file)
      /\ RecordAndWrite(s, r.cn, f.file, recorded, written)
      /\ UNCHANGED <<now, token, authorities, running>>
  BY DEF IssueClientCert
<1> HIDE DEF p, r, i
<1>4. cert \in Cert /\ cert.key = None
  BY <1>1, <1>2, LeafType
<1> HIDE DEF cert
<1> QED
  BY <1>1, <1>3, <1>4, IssuingSound DEF KeysKept

LEMMA ProvisionTLSIdentitySound ==
    ASSUME Inv, ServiceInv, NEW s \in Fresh, NEW f \in TLSFlags,
           NEW recorded \in BOOLEAN, NEW written \in Written,
           ProvisionTLSIdentity(s, f, recorded, written)
    PROVE  ServiceInv'
<1> DEFINE p == BuiltinProfile("tls-server", f.validity)
           r == TokenRequest(f.keyCurve, {ServiceName})
           cert == Certified(Leaf(r, p, now), f.intermediate, f.label, s)
<1>1. /\ now \in Nat /\ s \in Serials /\ f.label \in Labels /\ f.keyCurve \in Curves
      /\ f.file \in Paths /\ f.validity \in Nat /\ f.intermediate \in Labels
      /\ ServiceName \in Names /\ None \notin Curves
  BY InstallationAssumption DEF Inv, TypeOK, Fresh, NamesIssuer
<1>2. p \in Profile
  BY <1>1, BuiltinProfileType
<1>3. r \in Request
  BY <1>1, TokenRequestType
<1>4. /\ Sign(s, cert) /\ RefuseExistingFile(f.file)
      /\ RecordAndWrite(s, ServiceName, f.file, recorded, written)
      /\ Generate(f.label, f.keyCurve)
      /\ UNCHANGED <<now, authorities, running>>
  BY DEF ProvisionTLSIdentity, ProvisionServiceKey
<1>5. KeysKept /\ token[f.label] = None /\ token'[f.label] # None
  BY <1>1, <1>4, GenerateType
<1>6. authorities[f.label] = None
  BY <1>1, <1>5 DEF Inv, Authorised
<1> HIDE DEF p, r
<1>7. cert \in Cert /\ cert.key = f.label
  BY <1>1, <1>2, <1>3, LeafType
<1> HIDE DEF cert
<1> QED
  BY <1>1, <1>4, <1>5, <1>6, <1>7, IssuingSound

(* A step that leaves the files, the intermediates and the service alone.  *)
LEMMA ServiceKept ==
    ASSUME Inv, ServiceInv, Kept, DOMAIN certs' \subseteq Serials,
           UNCHANGED <<authorities, files, running>>
    PROVE  ServiceInv'
<1>1. \A q \in Paths : files[q] \notin DOMAIN certs' \ DOMAIN certs
  BY InstallationAssumption DEF Inv, TypeOK
<1>2. FilesSound'
  BY <1>1, FilesKept DEF ServiceInv
<1> QED
  BY <1>2, RunningKept DEF ServiceInv

(* The service comes up, or does not.                                      *)
LEMMA StartSound ==
    ASSUME Inv, ServiceInv, NEW c \in Configs,
           Start(c) \/ \E s \in Fresh : StartResponder(c, s)
    PROVE  ServiceInv'
<1>0. now \in Nat /\ DOMAIN certs \subseteq Serials
  BY DEF Inv, TypeOK
<1>1. ASSUME Kept, DOMAIN certs' \subseteq Serials, UNCHANGED <<authorities, files>>
      PROVE  FilesSound'
  <2>1. \A q \in Paths : files[q] \notin DOMAIN certs' \ DOMAIN certs
    BY <1>1, InstallationAssumption DEF Inv, TypeOK
  <2> QED
    BY <1>1, <2>1, FilesKept DEF ServiceInv
<1>2. CASE Start(c)
  <2>1. /\ UNCHANGED <<now, token, authorities, certs, files>> /\ running = None
        /\ Loads(c) /\ LoadIntermediate(c) /\ c.ocsp = None /\ Listen(c, None)
    BY <1>2 DEF Start
  <2>2. Kept
    BY <1>0, <2>1 DEF Kept, KeysKept
  <2>3. RunningSound'
    BY <2>1, <2>2, ListenSound
  <2> QED
    BY <1>0, <1>1, <2>1, <2>2, <2>3 DEF ServiceInv
<1>3. ASSUME NEW s \in Fresh, StartResponder(c, s) PROVE ServiceInv'
  <2> DEFINE leaf == Leaf(TokenRequest(c.curve, {}), ProfileSet(c)["ocsp-responder"], now)
             cert == Certified(leaf, c.intermediate, c.ocsp, s)
  <2>1. /\ Sign(s, cert) /\ UNCHANGED <<now, token, authorities, files>> /\ running = None
        /\ Loads(c) /\ LoadIntermediate(c) /\ c.ocsp # None /\ Listen(c, s)
        /\ ResponderIssuable(c)
    BY <1>3 DEF StartResponder
  <2>2. cert.key = c.ocsp
    BY DEF Certified
  <2> HIDE DEF leaf, cert
  <2>3. /\ DOMAIN certs' = DOMAIN certs \cup {s} /\ s \in Serials
        /\ certs'[s].key = c.ocsp
        /\ \A t \in DOMAIN certs : t \in DOMAIN certs' /\ certs'[t] = certs[t]
    BY <2>1, <2>2, SignKeeps DEF Fresh
  <2>4. Kept
    BY <1>0, <2>1, <2>3 DEF Kept, KeysKept
  <2>5. RunningSound'
    BY <2>1, <2>3, <2>4, ListenSound
  <2> QED
    BY <1>0, <1>1, <2>1, <2>3, <2>4, <2>5 DEF ServiceInv
<1> QED
  BY <1>2, <1>3

LEMMA ServiceStep == Inv /\ ServiceInv /\ [Next]_vars => ServiceInv'
<1> SUFFICES ASSUME Inv, ServiceInv, [Next]_vars PROVE ServiceInv'
  OBVIOUS
<1>0. now \in Nat /\ DOMAIN certs \subseteq Serials
  BY DEF Inv, TypeOK
<1>1. ASSUME NEW l \in Labels, NEW v \in Curves, Generate(l, v),
             UNCHANGED <<now, authorities, certs, files, running>>
      PROVE  ServiceInv'
  <2>1. Kept
    BY <1>0, <1>1, GenerateType DEF Kept
  <2> QED
    BY <1>0, <1>1, <2>1, ServiceKept
<1>2. ASSUME NEW f \in TLSFlags, ProvisionTLSKeyOnly(f) PROVE ServiceInv'
  BY <1>1, <1>2, InstallationAssumption DEF ProvisionTLSKeyOnly, ProvisionServiceKey
<1>3. ASSUME NEW f \in OCSPFlags, ProvisionOCSPKey(f) PROVE ServiceInv'
  BY <1>1, <1>3, InstallationAssumption DEF ProvisionOCSPKey, ProvisionServiceKey
<1>4. CASE Stop
  <2>1. Kept /\ UNCHANGED <<certs, authorities, token, files>> /\ running' = None
    BY <1>0, <1>4 DEF Stop, Kept, KeysKept
  <2>2. FilesSound'
    BY <2>1 DEF ServiceInv, FilesSound
  <2> QED
    BY <2>1, <2>2 DEF ServiceInv, RunningSound, IssuerSound, TLSSound, OCSPSound
<1>5. ASSUME running # None, NEW s \in held, NEW i \in DOMAIN running.cfg.issuers,
             NEW name \in DOMAIN ProfileSet(running.cfg), NEW r \in Requests,
             NEW t \in Fresh, HandleIssueCertificate(s, i, name, r, t)
      PROVE  ServiceInv'
  <2>1. UNCHANGED <<now, token, authorities, files, running>>
    BY <1>5 DEF HandleIssueCertificate
  <2>2. /\ DOMAIN certs' = DOMAIN certs \cup {t} /\ t \in Serials
        /\ \A u \in DOMAIN certs : u \in DOMAIN certs' /\ certs'[u] = certs[u]
    BY <1>5, SignKeeps DEF HandleIssueCertificate, Fresh
  <2>3. Kept
    BY <1>0, <2>1, <2>2 DEF Kept, KeysKept
  <2> QED
    BY <1>0, <2>1, <2>2, <2>3, ServiceKept
<1>6. ASSUME NEW s \in held, NEW t \in DOMAIN certs, HandleRevoke(s, t) PROVE ServiceInv'
  <2>1. Kept /\ UNCHANGED <<certs, authorities, files, running>>
    BY <1>0, <1>6 DEF HandleRevoke, Kept, KeysKept
  <2> QED
    BY <1>0, <2>1, ServiceKept
<1>7. CASE LoseStore \/ Tick \/ UNCHANGED vars
  <2>1. Kept /\ UNCHANGED <<certs, authorities, files, running>>
    BY <1>0, <1>7 DEF LoseStore, Tick, vars, Kept, KeysKept
  <2> QED
    BY <1>0, <2>1, ServiceKept
<1> QED
  BY <1>2, <1>3, <1>4, <1>5, <1>6, <1>7, ReissueIntermediateSound, IssueClientCertSound,
     ProvisionTLSIdentitySound, StartSound DEF Next

LEMMA ServiceInvHolds == Spec => [](Inv /\ ServiceInv)
<1>1. Init => ServiceInv
  BY InstallationAssumption
     DEF Init, ServiceInv, FilesSound, RunningSound, IssuerSound, TLSSound, OCSPSound
<1> QED
  BY <1>1, InitInv, NextInv, ServiceStep, PTL DEF Spec

(* No provisioning, re-issued intermediate, half-done command, issuance or *)
(* revocation takes away from a running service what it needs to be        *)
(* restarted, the certificate its responder is issued at the start         *)
(* included.                                                               *)
THEOREM RunningIsRestartable == Spec => []Restartable
<1>1. ASSUME Inv, ServiceInv, running # None
      PROVE  LET c == running.cfg
                 end == authorities[c.intermediate].notAfter
             IN  /\ now <= end
                 /\ c.tls # None => now <= certs[running.tls].notAfter
                 /\ c.ocsp # None => now + ProfileSet(c)["ocsp-responder"].validity <= end
                 => /\ LoadIntermediate(c)
                    /\ c.ocsp # None => ResponderIssuable(c)
                    /\ c.tls # None => /\ LoadServiceCertificate(c)
                                      /\ files[c.tls.file] = running.tls
  <2> DEFINE c == running.cfg
             end == authorities[c.intermediate].notAfter
  <2> SUFFICES ASSUME now <= end,
                      c.tls # None => now <= certs[running.tls].notAfter,
                      c.ocsp # None =>
                          now + ProfileSet(c)["ocsp-responder"].validity <= end
               PROVE  /\ LoadIntermediate(c)
                      /\ c.ocsp # None => ResponderIssuable(c)
                      /\ c.tls # None => /\ LoadServiceCertificate(c)
                                        /\ files[c.tls.file] = running.tls
    OBVIOUS
  <2>1. InWindow(authorities[c.intermediate], now)
    BY <1>1 DEF ServiceInv, RunningSound, IssuerSound, InWindow
  <2>2. LoadIntermediate(c)
    BY <1>1, <2>1 DEF ServiceInv, RunningSound, IssuerSound, LoadIntermediate
  <2>3. ASSUME c.ocsp # None PROVE ResponderIssuable(c)
    BY <1>1, <2>1, <2>3
       DEF ServiceInv, RunningSound, OCSPSound, ResponderIssuable, Issuable, Acceptable, CanCover
  <2>4. ASSUME c.tls # None
        PROVE  LoadServiceCertificate(c) /\ files[c.tls.file] = running.tls
    BY <1>1, <2>4 DEF ServiceInv, RunningSound, TLSSound, LoadServiceCertificate
  <2> QED
    BY <2>2, <2>3, <2>4
<1>2. Inv /\ ServiceInv => Restartable
  BY <1>1 DEF Restartable
<1> QED
  BY ServiceInvHolds, <1>2, PTL

(* For every set of labels, of commands and of configurations, the key     *)
(* that signs TLS handshakes is no intermediate's, before or after any     *)
(* rotation, and the responder's is neither the loaded intermediate's nor  *)
(* the TLS key.                                                            *)
THEOREM OneKeyOnePurpose == Spec => []KeysSeparate
<1>1. ASSUME Inv, ServiceInv, running # None, running.tls # None
      PROVE  authorities[certs[running.tls].key] = None
  <2> DEFINE c == running.cfg
  <2>1. c \in Configs /\ c.tls # None
    BY <1>1 DEF Inv, TypeOK, ServiceInv, RunningSound, IssuerSound
  <2>2. c.tls.file \in Paths /\ c.tls.label \in Labels /\ None \notin Labels
    BY <2>1, InstallationAssumption
  <2>3. /\ files[c.tls.file] = running.tls /\ running.tls \in DOMAIN certs
        /\ certs[running.tls].key # None
    BY <1>1, <2>1, <2>2 DEF ServiceInv, RunningSound, TLSSound
  <2> QED
    BY <1>1, <2>2, <2>3 DEF ServiceInv, FilesSound
<1>2. ASSUME Inv, ServiceInv, running # None, running.ocsp # None
      PROVE  /\ certs[running.ocsp].key # running.cfg.intermediate
             /\ running.tls # None => certs[running.ocsp].key # certs[running.tls].key
  <2> DEFINE c == running.cfg
  <2>1. /\ Loads(c) /\ c.ocsp # None
        /\ running.tls # None => c.tls # None
        /\ certs[running.ocsp].key = c.ocsp
        /\ c.tls # None => certs[running.tls].key = c.tls.label
    BY <1>2 DEF ServiceInv, RunningSound, IssuerSound, TLSSound, OCSPSound
  <2> QED
    BY <2>1 DEF Loads, OCSPLoads
<1>3. Inv /\ ServiceInv => KeysSeparate
  BY <1>1, <1>2 DEF KeysSeparate
<1> QED
  BY ServiceInvHolds, <1>3, PTL
=============================================================================
