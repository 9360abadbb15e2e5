---------------------------- MODULE MCInstallation ----------------------------
(* Model checking of Installation: the operator alice, bob whom she may      *)
(* mint, carol whom bob may; two intermediates, the second under a label and *)
(* for a file that other commands are given too; configurations that load    *)
(* and that do not.                                                          *)
EXTENDS Installation, TLC

MCNames == {"alice", "bob", "carol"}

MCBuiltinValidity ==
    [n \in {"tls-server", "tls-client", "code-signing", "ocsp-responder"} |->
        1]

NoSANs == [t \in SANTypes |-> {}]

ClientRequest(cn, uris) ==
    [key |-> "ec-p256", proven |-> TRUE,
     attrs |-> IF cn = None THEN {"O"} ELSE {"CN"}, cn |-> cn,
     sans |-> [NoSANs EXCEPT !["uri"] = uris]]

MCRequests ==
    {ClientRequest(None, {"bob"}), ClientRequest("carol", {}),
     ClientRequest("carol", {"alice"})}

(* The two intermediates, as flags and configurations name them.             *)
First == [intermediate |-> "ca", cert |-> "ca.pem", curve |-> "ec-p256"]
Second == [intermediate |-> "ca2", cert |-> "ca2.pem", curve |-> "ec-p256"]

MCCAFlags ==
    {[label |-> "ca", file |-> "ca.pem", curve |-> "ec-p256", validity |-> 2],
     [label |-> "ca2", file |-> "ca2.pem", curve |-> "ec-p256", validity |-> 1],
     [label |-> "k1", file |-> "ca2.pem", curve |-> "ec-p256", validity |-> 2],
     [label |-> "ca2", file |-> "tls.pem", curve |-> "ec-p256", validity |-> 2]}

IssuingFlags(issuer, file) ==
    [intermediate |-> issuer.intermediate, cert |-> issuer.cert, curve |-> issuer.curve,
     file |-> file, validity |-> 1]

MCClientFlags ==
    {[csr |-> ClientRequest("alice", {})] @@ IssuingFlags(First, "alice.pem")}

TLSKey(label, curve) == [label |-> label, keyCurve |-> curve]

MCTLSFlags ==
    {TLSKey("k1", "ec-p256") @@ IssuingFlags(First, "tls.pem"),
     TLSKey("k1", "ec-p384") @@ IssuingFlags(First, "tls.pem"),
     TLSKey("k2", "ec-p256") @@ IssuingFlags(Second, "tls2.pem")}

MCOCSPFlags ==
    {[intermediate |-> "ca2", label |-> "k1", keyCurve |-> "ec-p256"]}

Pattern(type, names) == [type |-> type, matches |-> names]

Entitled(profiles, patterns) == [profiles |-> profiles, names |-> patterns]

(* A profile for machines on both sides of TLS, which copies no URI.         *)
DualProfiles ==
    [n \in {"dual"} |->
        [eku |-> {"serverAuth", "clientAuth"}, ku |-> {"digitalSignature"},
         sans |-> {"dns"}, sanRequired |-> FALSE, rdns |-> {"CN", "O"},
         keys |-> {"ec-p256"}, validity |-> 1, noCheck |-> FALSE]]

(* alice issues for bob, and bob may revoke.                                 *)
Base ==
    [complete |-> TRUE, ceiling |-> 2, profiles |-> <<>>,
     issuers |-> [i \in {"alice"} |->
         Entitled({"tls-client"}, {Pattern("uri", {"bob"})})],
     revokers |-> {"bob"},
     tls |-> [label |-> "k1", file |-> "tls.pem"], ocsp |-> None] @@ First

(* bob issues for carol, under a configured set of profiles.                 *)
Wider ==
    [Base EXCEPT
        !.profiles = DualProfiles,
        !.issuers = [i \in {"bob"} |->
            Entitled({"dual"}, {Pattern("cn", {"carol"}), Pattern("uri", {"alice"})})]]

(* After the rotation, with a responder over the key that was the TLS key's  *)
(* label before.                                                             *)
Rotated ==
    Second @@ [Base EXCEPT !.tls = [label |-> "k2", file |-> "tls2.pem"], !.ocsp = "k1"]

MCConfigs ==
    {Base, Wider, Rotated,
     [Base EXCEPT !.ocsp = "k1"]}      \* refused: the TLS key's label

Symmetry == Permutations(Serials)
=============================================================================
