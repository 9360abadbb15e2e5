----------------------------- MODULE Installation -----------------------------
(***************************************************************************)
(* One installation of the CA over its life: the keytool commands that     *)
(* provision it (cmd/hsm-pki-keytool), the intermediates it issues under,  *)
(* one after the other or side by side, the start of the server with one   *)
(* configuration after another (cmd/hsm-pki-server), the two write         *)
(* endpoints, and what is durable between them: the token, the store, the  *)
(* certificate files and the certificates people hold.                     *)
(*                                                                         *)
(* A request is one step here; CAServer has the interleavings, the drawn   *)
(* serial collisions and the failures inside one.  So is a command, and    *)
(* Ceremony has the steps of the ones that need the root.  A certificate   *)
(* that was signed but neither recorded nor given to anyone exists         *)
(* nowhere, so the failures that leave no more than that are steps that    *)
(* change nothing.  Time is coarse, its unit is the shortest lifetime of a *)
(* certificate, and the clock is never set back.                           *)
(***************************************************************************)
EXTENDS IssuancePolicy

Curves == KeyAlgorithms \ {"rsa"}

CONSTANTS
    Serials,       \* bound: the serials GenerateSerial may draw
    Labels,        \* key labels on the intermediate's token
    Paths,         \* certificate files
    Configs,       \* configuration files an operator may write
    Requests,      \* requests a client may send
    CAFlags,       \* flags of reissue-intermediate
    ClientFlags,   \* flags of issue-client-cert
    TLSFlags,      \* flags of provision-tls-identity
    OCSPFlags,     \* flags of provision-ocsp-key
    ServiceName,   \* common name and DNS name of the service
    MaxTime        \* bound: the clock stops here

(* How far os.WriteFile got.                                               *)
Written == {"no", "partly", "yes"}

(* The content of a file that os.WriteFile did not finish.                 *)
Damaged == "damaged"

(* The intermediate that a configuration or a command's flags name: the    *)
(* label of its key, the file of its certificate and its curve.            *)
NamesIssuer(f) == f.intermediate \in Labels /\ f.cert \in Paths /\ f.curve \in Curves

ASSUME InstallationAssumption ==
    /\ None \notin Names /\ None \notin Curves
    /\ None \notin [notBefore : Nat, notAfter : Nat]
    /\ {None, Damaged} \cap (Serials \cup Labels) = {} /\ None # Damaged
    /\ Serials \cap Labels = {}
    /\ ServiceName \in Names
    /\ MaxTime \in Nat
    /\ Requests \subseteq Request
    /\ \A f \in CAFlags : /\ f.label \in Labels /\ f.file \in Paths
                          /\ f.curve \in Curves /\ f.validity \in Nat
    /\ \A f \in ClientFlags : /\ NamesIssuer(f)
                              /\ f.csr \in Request /\ f.file \in Paths
                              /\ f.validity \in Nat
    /\ \A f \in TLSFlags : /\ NamesIssuer(f)
                           /\ f.label \in Labels /\ f.keyCurve \in Curves
                           /\ f.file \in Paths /\ f.validity \in Nat
    /\ \A f \in OCSPFlags : /\ f.intermediate \in Labels
                            /\ f.label \in Labels /\ f.keyCurve \in Curves
    /\ \A c \in Configs : /\ NamesIssuer(c)
                          /\ \A n \in DOMAIN c.profiles : c.profiles[n] \in Profile
                          /\ c.tls # None => c.tls.file \in Paths /\ c.tls.label \in Labels
                          /\ c.ocsp # None => c.ocsp \in Labels
    /\ BuiltinValidity \in [DOMAIN Builtin -> Nat]

VARIABLES
    now,
    token,        \* label -> curve of the key pair under it, None if free
    authorities,  \* label -> window of the intermediate over that key, None if none
    certs,        \* serial -> the certificate signed under it
    rows,         \* the service's store: serial -> its row, None without one
    held,         \* serials of the certificates somebody has
    files,        \* path -> serial or, for an intermediate, label of its certificate
    running,      \* the configuration being served and the two service certificates
    granted,      \* history: <<i, n>> if identity i was ever granted the name n
    withdrawn     \* history: serials whose revocation was committed

vars == <<now, token, authorities, certs, rows, held, files, running, granted, withdrawn>>

-----------------------------------------------------------------------------
(* issuer: the label of the intermediate that signed it.  key: the label   *)
(* of the token key it is over, None for a client's own.  origin: the      *)
(* keytool certificate its issuance goes back to.                          *)
Cert ==
    [cn : Names \cup {None}, uris : SUBSET Names, eku : SUBSET ExtKeyUsages,
     ku : SUBSET KeyUsages, notAfter : Int, issuer : Labels,
     key : Labels \cup {None}, origin : Serials]

Certified(leaf, issuer, key, origin) ==
    [cn |-> leaf.cn, uris |-> leaf.uris, eku |-> leaf.eku, ku |-> leaf.ku,
     notAfter |-> leaf.notAfter, issuer |-> issuer, key |-> key, origin |-> origin]

(* A row, as far as a request is authorised from it.                       *)
Row == [status : {"valid", "revoked"}, subject : Names \cup {None}]

TypeOK ==
    /\ now \in Nat
    /\ token \in [Labels -> Curves \cup {None}]
    /\ authorities \in [Labels -> [notBefore : Nat, notAfter : Nat] \cup {None}]
    /\ DOMAIN certs \subseteq Serials
    /\ \A s \in DOMAIN certs : certs[s] \in Cert /\ certs[s].origin \in DOMAIN certs
    /\ rows \in [Serials -> Row \cup {None}]
    /\ held \subseteq DOMAIN certs
    /\ files \in [Paths -> DOMAIN certs \cup Labels \cup {None, Damaged}]
    /\ running \in [cfg : Configs, tls : DOMAIN certs \cup {None},
                    ocsp : DOMAIN certs \cup {None}] \cup {None}
    /\ granted \subseteq Names \X Names
    /\ withdrawn \subseteq DOMAIN certs

(* Before the first ceremony.                                              *)
Init ==
    /\ now = 0
    /\ token = [l \in Labels |-> None]
    /\ authorities = [l \in Labels |-> None]
    /\ certs = [s \in {} |-> None]
    /\ rows = [s \in Serials |-> None]
    /\ held = {}
    /\ files = [p \in Paths |-> None]
    /\ running = None
    /\ granted = {}
    /\ withdrawn = {}

(* Serials are fresh: GenerateSerial draws 128 random bits.                *)
Sign(s, cert) ==
    certs' = [t \in DOMAIN certs \cup {s} |-> IF t = s THEN cert ELSE certs[t]]

(* Certificate s with this subject is recorded.                            *)
Record(s, subject) ==
    rows' = [rows EXCEPT ![s] = [status |-> "valid", subject |-> subject]]

-----------------------------------------------------------------------------
(* What the commands and the server do with the token and the files.       *)

(* NewSigner: the key under the label is decoded on ca.curve.              *)
NewSigner(c, label) == token[label] = c.curve

(* LoadIntermediate: the file holds a CA certificate, in its window, and   *)
(* over the key under the label.                                           *)
LoadIntermediate(c) ==
    /\ files[c.cert] = c.intermediate
    /\ InWindow(authorities[c.intermediate], now)
    /\ NewSigner(c, c.intermediate)

(* Generation without the search for the label.                            *)
GenerateOver(label, curve) == token' = [token EXCEPT ![label] = curve]

(* signingkey.Provision and generateCeremonyKey refuse a label that is     *)
(* taken.                                                                  *)
Generate(label, curve) ==
    /\ token[label] = None
    /\ token' = [token EXCEPT ![label] = curve]

(* A path that is not looked at before it is written.                      *)
OverwriteExistingFile(path) == TRUE

RefuseExistingFile(path) == files[path] = None

Write(path, content, written) ==
    files' = CASE written = "yes" -> [files EXCEPT ![path] = content]
               [] written = "partly" -> [files EXCEPT ![path] = Damaged]
               [] written = "no" -> files

-----------------------------------------------------------------------------
(* The keytool commands.  Those that issue run with the service stopped:   *)
(* the store is single-writer.  The other two open no store and may run    *)
(* beside it.                                                              *)

(* reissue-intermediate, and the ceremony, which leaves the same on this   *)
(* token.  What fails after the generation leaves the label taken.         *)
ReissueIntermediate(f, written) ==
    /\ RefuseExistingFile(f.file)
    /\ Generate(f.label, f.curve)
    /\ authorities' =
           IF written = "yes"
             THEN [authorities EXCEPT ![f.label] =
                       [notBefore |-> now, notAfter |-> now + f.validity]]
             ELSE authorities
    /\ Write(f.file, f.label, written)
    /\ UNCHANGED <<now, certs, rows, held, running, granted, withdrawn>>

(* A built-in profile with the command's -validity, which is also the      *)
(* CertTTL it loads the intermediate with.                                 *)
BuiltinProfile(name, validity) == [Builtin[name] EXCEPT !.validity = validity]

KeytoolIssuable(f, r, name) ==
    Issuable(r, BuiltinProfile(name, f.validity), f.validity, now, authorities[f.intermediate])

(* recordAndWrite: the file is written whatever the record did.  Not       *)
(* recorded stands for a failed write and for a -store that names another  *)
(* file, which OpenSQLite creates.                                         *)
RecordAndWrite(s, subject, file, recorded, written) ==
    /\ IF recorded THEN Record(s, subject) ELSE rows' = rows
    /\ Write(file, s, written)
    /\ held' = IF written = "yes" THEN held \cup {s} ELSE held

IssueClientCert(s, f, recorded, written) ==
    LET r == f.csr
    IN  /\ running = None
        /\ RefuseExistingFile(f.file)
        /\ r.sans["uri"] # {} \/ r.cn # None
        /\ LoadIntermediate(f)
        /\ KeytoolIssuable(f, r, "tls-client")
        /\ Sign(s, Certified(Leaf(r, BuiltinProfile("tls-client", f.validity), now),
                             f.intermediate, None, s))
        /\ RecordAndWrite(s, r.cn, f.file, recorded, written)
        /\ UNCHANGED <<now, token, authorities, running, granted, withdrawn>>

(* The request csrOverTokenKey and Renew build.                            *)
TokenRequest(curve, dns) ==
    [key |-> curve, proven |-> TRUE, attrs |-> {"CN"}, cn |-> ServiceName,
     sans |-> [t \in SANTypes |-> IF t = "dns" THEN dns ELSE {}]]

(* provisionServiceKey, behind the commands' comparison with               *)
(* -intermediate-key-label.                                                *)
ProvisionServiceKey(f) ==
    /\ f.label # f.intermediate
    /\ Generate(f.label, f.keyCurve)

(* Generation cannot be undone: what fails after it leaves the label       *)
(* taken.                                                                  *)
ProvisionTLSKeyOnly(f) ==
    /\ running = None
    /\ RefuseExistingFile(f.file)
    /\ LoadIntermediate(f)
    /\ ProvisionServiceKey(f)
    /\ UNCHANGED <<now, authorities, certs, rows, held, files, running, granted, withdrawn>>

ProvisionTLSIdentity(s, f, recorded, written) ==
    LET r == TokenRequest(f.keyCurve, {ServiceName})
    IN  /\ running = None
        /\ RefuseExistingFile(f.file)
        /\ LoadIntermediate(f)
        /\ ProvisionServiceKey(f)
        /\ KeytoolIssuable(f, r, "tls-server")
        /\ Sign(s, Certified(Leaf(r, BuiltinProfile("tls-server", f.validity), now),
                             f.intermediate, f.label, s))
        /\ RecordAndWrite(s, ServiceName, f.file, recorded, written)
        /\ UNCHANGED <<now, authorities, running, granted, withdrawn>>

ProvisionOCSPKey(f) ==
    /\ ProvisionServiceKey(f)
    /\ UNCHANGED <<now, authorities, certs, rows, held, files, running, granted, withdrawn>>

-----------------------------------------------------------------------------
(* The start of the server, over a configuration that loads.               *)

(* LoadServiceCertificate: the file holds a leaf that can serve, that the  *)
(* loaded intermediate signed, and over the key under the label.           *)
LoadServiceCertificate(c) ==
    LET s == files[c.tls.file]
    IN  /\ s \in DOMAIN certs
        /\ "serverAuth" \in certs[s].eku
        /\ now <= certs[s].notAfter
        /\ certs[s].issuer = c.intermediate
        /\ NewSigner(c, c.tls.label)
        /\ certs[s].key = c.tls.label

(* What responder.New needs: its key, and a certificate it is issued.      *)
ResponderIssuable(c) ==
    /\ NewSigner(c, c.ocsp)
    /\ Issuable(TokenRequest(c.curve, {}), ProfileSet(c)["ocsp-responder"],
                c.ceiling, now, authorities[c.intermediate])

(* The names an entitlement lets its identity put into certificates that   *)
(* can authenticate as them.                                               *)
Mintable(c, i) ==
    {n \in Names : \E name \in c.issuers[i].profiles :
        LET p == ProfileSet(c)[name] IN
        /\ "clientAuth" \in p.eku
        /\ \/ "uri" \in p.sans /\ Granted(c.issuers[i], "uri", n)
           \/ "CN" \in p.rdns /\ Granted(c.issuers[i], "cn", n)}

Grants(c) == {g \in Names \X Names : g[1] \in DOMAIN c.issuers /\ g[2] \in Mintable(c, g[1])}

(* The last steps of run: load the TLS identity and listen, or return.     *)
Listen(c, ocsp) ==
    \/ /\ c.tls # None => LoadServiceCertificate(c)
       /\ running' = [cfg |-> c,
                      tls |-> IF c.tls = None THEN None ELSE files[c.tls.file],
                      ocsp |-> ocsp]
       /\ granted' = granted \cup Grants(c)
    \/ UNCHANGED <<running, granted>>

Start(c) ==
    /\ running = None
    /\ Loads(c) /\ LoadIntermediate(c)
    /\ c.ocsp = None
    /\ Listen(c, None)
    /\ UNCHANGED <<now, token, authorities, certs, rows, held, files, withdrawn>>

(* The responder's certificate is issued and recorded before the TLS       *)
(* identity is looked at; a start that fails after that leaves its row.    *)
StartResponder(c, s) ==
    /\ running = None
    /\ Loads(c) /\ LoadIntermediate(c)
    /\ c.ocsp # None
    /\ ResponderIssuable(c)
    /\ Sign(s, Certified(Leaf(TokenRequest(c.curve, {}), ProfileSet(c)["ocsp-responder"], now),
                         c.intermediate, c.ocsp, s))
    /\ Record(s, ServiceName)
    /\ Listen(c, s)
    /\ UNCHANGED <<now, token, authorities, held, files, withdrawn>>

(* Shutdown, or the process dies.                                          *)
Stop ==
    /\ running # None
    /\ running' = None
    /\ UNCHANGED <<now, token, authorities, certs, rows, held, files, granted, withdrawn>>

-----------------------------------------------------------------------------
(* The authenticated surface.                                              *)

(* The chain of s verifies to the root, for the given usage.               *)
Verifies(s, usage) ==
    /\ usage \in certs[s].eku
    /\ now <= certs[s].notAfter
    /\ InWindow(authorities[certs[s].issuer], now)

(* The client verifies the listener's chain and the listener the client's. *)
(* Which intermediate either was issued under makes no difference.         *)
Handshake(s) ==
    /\ running # None
    /\ running.tls # None
    /\ Verifies(running.tls, "serverAuth")
    /\ s \in held
    /\ Verifies(s, "clientAuth")

(* authenticate without the test that the row exists.                      *)
NotRevoked(s) == rows[s] # None => rows[s].status # "revoked"

(* The store's part of authenticate.                                       *)
Recorded(s) ==
    /\ rows[s] # None
    /\ rows[s].subject = certs[s].cn
    /\ rows[s].status # "revoked"

AuthenticatedAs(s, allowed) ==
    {i \in AuthorisedAs(certs[s], allowed) : Handshake(s) /\ Recorded(s)}

(* handleIssueCertificate for client s, authorised as i.                   *)
HandleIssueCertificate(s, i, name, r, t) ==
    LET c == running.cfg
        p == ProfileSet(c)[name]
    IN  /\ i \in AuthenticatedAs(s, DOMAIN c.issuers)
        /\ name \in DOMAIN ProfileSet(c)
        /\ PermitsProfile(c.issuers[i], name)
        /\ PermitsNames(c.issuers[i], r)
        /\ Issuable(r, p, c.ceiling, now, authorities[c.intermediate])
        /\ Sign(t, Certified(Leaf(r, p, now), c.intermediate, None, certs[s].origin))
        /\ Record(t, r.cn)
        /\ held' = held \cup {t}
        /\ UNCHANGED <<now, token, authorities, files, running, granted, withdrawn>>

(* handleRevoke: any serial with a row, whoever holds it.                  *)
HandleRevoke(s, t) ==
    /\ running # None
    /\ AuthenticatedAs(s, running.cfg.revokers) # {}
    /\ rows[t] # None
    /\ rows' = [rows EXCEPT ![t].status = "revoked"]
    /\ withdrawn' = withdrawn \cup {t}
    /\ UNCHANGED <<now, token, authorities, certs, held, files, running, granted>>

-----------------------------------------------------------------------------
(* The environment: the store's file is lost, and time passes.             *)
LoseStore ==
    /\ running = None
    /\ rows' = [s \in Serials |-> None]
    /\ UNCHANGED <<now, token, authorities, certs, held, files, running, granted, withdrawn>>

Tick ==
    /\ now < MaxTime
    /\ now' = now + 1
    /\ UNCHANGED <<token, authorities, certs, rows, held, files, running, granted, withdrawn>>

Fresh == Serials \ DOMAIN certs

Next ==
    \/ \E f \in CAFlags, written \in Written : ReissueIntermediate(f, written)
    \/ \E f \in ClientFlags, s \in Fresh, recorded \in BOOLEAN, written \in Written :
           IssueClientCert(s, f, recorded, written)
    \/ \E f \in TLSFlags : ProvisionTLSKeyOnly(f)
    \/ \E f \in TLSFlags, s \in Fresh, recorded \in BOOLEAN, written \in Written :
           ProvisionTLSIdentity(s, f, recorded, written)
    \/ \E f \in OCSPFlags : ProvisionOCSPKey(f)
    \/ \E c \in Configs : Start(c)
    \/ \E c \in Configs, s \in Fresh : StartResponder(c, s)
    \/ Stop
    \/ /\ running # None
       /\ \E s \in held, i \in DOMAIN running.cfg.issuers,
             name \in DOMAIN ProfileSet(running.cfg), r \in Requests, t \in Fresh :
              HandleIssueCertificate(s, i, name, r, t)
    \/ \E s \in held, t \in DOMAIN certs : HandleRevoke(s, t)
    \/ LoseStore
    \/ Tick

Spec == Init /\ [][Next]_vars

-----------------------------------------------------------------------------
(* Properties.                                                             *)

(* The identities that follow from those in start by grants ever served:   *)
(* what every set that contains start and is closed under them contains.   *)
Closed(set, grants) == \A g \in grants : g[1] \in set => g[2] \in set
Reach(start, grants) ==
    {n \in Names : \A set \in SUBSET Names :
        start \subseteq set /\ Closed(set, grants) => n \in set}

(* "What an identity may obtain is decided when the file is written": each *)
(* identity a client certificate carries follows, by grants that were      *)
(* configured, from the identities of the operator's keytool certificate   *)
(* that its chain of issuances goes back to, over any number of requests,  *)
(* reconfigurations, restarts and lost stores.                             *)
Confined ==
    \A s \in DOMAIN certs : "clientAuth" \in certs[s].eku =>
        ClientIdentities(certs[s])
            \subseteq Reach(ClientIdentities(certs[certs[s].origin]), granted)

(* A certificate whose revocation was committed authenticates nobody ever  *)
(* again, not even when the store that remembers the revocation is lost.   *)
RevokedNeverReturns ==
    \A s \in withdrawn : running # None =>
        /\ AuthenticatedAs(s, DOMAIN running.cfg.issuers) = {}
        /\ AuthenticatedAs(s, running.cfg.revokers) = {}

(* A service that is running can be restarted with its configuration, and  *)
(* comes up with the same TLS certificate, as long as the certificates it  *)
(* loads have not expired and the responder's new one fits under the       *)
(* intermediate: no provisioning, re-issued intermediate, half-done        *)
(* command, issuance or revocation takes away a key or a file in use.      *)
Restartable ==
    running # None =>
        LET c == running.cfg
            end == authorities[c.intermediate].notAfter
        IN  /\ now <= end
            /\ c.tls # None => now <= certs[running.tls].notAfter
            /\ c.ocsp # None => now + ProfileSet(c)["ocsp-responder"].validity <= end
            => /\ LoadIntermediate(c)
               /\ c.ocsp # None => ResponderIssuable(c)
               /\ c.tls # None => /\ LoadServiceCertificate(c)
                                 /\ files[c.tls.file] = running.tls

(* "A key that signs certificates must not also sign TLS handshakes": the  *)
(* TLS key is no intermediate's, neither the one served under nor one      *)
(* before or after it, and the responder's key is neither the loaded       *)
(* intermediate's nor the TLS key.                                         *)
KeysSeparate ==
    running # None =>
        /\ running.tls # None => authorities[certs[running.tls].key] = None
        /\ running.ocsp # None =>
               /\ certs[running.ocsp].key # running.cfg.intermediate
               /\ running.tls # None => certs[running.ocsp].key # certs[running.tls].key

(* No certificate outlives the intermediate that signed it, whichever of   *)
(* the three ways it was issued.                                           *)
WithinIssuer ==
    \A s \in DOMAIN certs : /\ authorities[certs[s].issuer] # None
                           /\ certs[s].notAfter <= authorities[certs[s].issuer].notAfter
=============================================================================
