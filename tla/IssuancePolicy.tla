---------------------------- MODULE IssuancePolicy ----------------------------
(***************************************************************************)
(* What the CA may be asked for and by whom: the profiles of               *)
(* internal/profile, the entitlements of internal/entitlement, the checks  *)
(* of CA.Issue and the validation config.Load makes of all three.          *)
(*                                                                         *)
(* A name or an identity is a member of Names: both are strings, and       *)
(* ClientIdentities puts URIs and common names into one name space.  A     *)
(* glob is the set of the names it matches.  The lists of a configuration  *)
(* are sets, so the refusals of a value listed twice are left out.         *)
(***************************************************************************)
EXTENDS Integers, FiniteSets

CONSTANTS
    Names,            \* the strings a name or an identity may be
    None,
    BuiltinValidity   \* Validity of each profile of profile.Builtin

-----------------------------------------------------------------------------
SANTypes == {"dns", "ip", "uri", "email"}
NameTypes == SANTypes \cup {"cn"}
RDNs == {"CN", "O", "OU", "C", "ST", "L"}
KeyAlgorithms == {"ec-p256", "ec-p384", "ec-p521", "rsa"}
ExtKeyUsages == {"serverAuth", "clientAuth", "codeSigning", "emailProtection",
                 "timeStamping", "ocspSigning"}
KeyUsages == {"digitalSignature", "contentCommitment", "keyEncipherment",
              "keyAgreement"}

(* A profile, without its name: a Set is a function from names to these.   *)
Profile ==
    [eku : SUBSET ExtKeyUsages, ku : SUBSET KeyUsages, sans : SUBSET SANTypes,
     sanRequired : BOOLEAN, rdns : SUBSET RDNs, keys : SUBSET KeyAlgorithms,
     validity : Int, noCheck : BOOLEAN]

InternalOnly(name) == name = "ocsp-responder"

(* Spec.Compile: every word of the lists is in the vocabulary.  Subject is *)
(* not looked up here; ValidProfile does.                                  *)
Compiles(p) ==
    /\ p.eku \subseteq ExtKeyUsages
    /\ p.ku \subseteq KeyUsages
    /\ p.sans \subseteq SANTypes
    /\ p.keys \subseteq KeyAlgorithms

(* Profile.Validate.  The vocabulary has no CA key usage to refuse.        *)
ValidProfile(p) ==
    /\ p.eku # {}
    /\ p.ku # {}
    /\ p.validity > 0
    /\ p.keys # {}
    /\ p.sanRequired => p.sans # {}
    /\ p.rdns # {} \/ p.sanRequired
    /\ p.rdns \subseteq RDNs

ValidSet(set, ceiling) ==
    /\ DOMAIN set # {}
    /\ \A n \in DOMAIN set : ValidProfile(set[n]) /\ set[n].validity <= ceiling

Builtin ==
    [n \in {"tls-server", "tls-client", "code-signing", "ocsp-responder"} |->
        [eku |-> CASE n = "tls-server" -> {"serverAuth"}
                   [] n = "tls-client" -> {"clientAuth"}
                   [] n = "code-signing" -> {"codeSigning"}
                   [] OTHER -> {"ocspSigning"},
         ku |-> IF n \in {"tls-server", "tls-client"}
                  THEN {"digitalSignature", "keyEncipherment"}
                  ELSE {"digitalSignature"},
         sans |-> CASE n = "tls-server" -> {"dns", "ip"}
                    [] n = "tls-client" -> {"uri", "email"}
                    [] n = "code-signing" -> {"uri"}
                    [] OTHER -> {},
         sanRequired |-> n = "tls-server",
         rdns |-> CASE n = "tls-client" -> {"CN", "O", "OU"}
                    [] n = "code-signing" -> {"CN", "O"}
                    [] OTHER -> {"CN"},
         keys |-> IF n = "ocsp-responder" THEN KeyAlgorithms \ {"rsa"}
                                          ELSE KeyAlgorithms,
         validity |-> BuiltinValidity[n],
         noCheck |-> n = "ocsp-responder"]]

-----------------------------------------------------------------------------
(* A certificate request.  key: its algorithm, "weak" outside those the CA *)
(* signs for.  proven: its self-signature verifies.  attrs: the attribute  *)
(* types of its subject, "other" for one rdnOIDs does not know.  cn: the   *)
(* value of the attribute CN, None without one.                            *)
Request ==
    {r \in [key : KeyAlgorithms \cup {"weak"}, proven : BOOLEAN,
            attrs : SUBSET (RDNs \cup {"other"}), cn : Names \cup {None},
            sans : [SANTypes -> SUBSET Names]] : r.cn # None => "CN" \in r.attrs}

ValidateCSR(r) ==
    /\ r.proven
    /\ r.cn # None \/ "O" \in r.attrs
    /\ r.key # "weak"

AllowsKey(p, r) == r.key \in p.keys

CheckSANs(p, r) ==
    /\ \A t \in SANTypes : r.sans[t] # {} => t \in p.sans
    /\ p.sanRequired => \E t \in SANTypes : r.sans[t] # {}

(* Profile.Subject refuses what it would not copy.                         *)
SubjectAllowed(p, r) == r.attrs \subseteq p.rdns /\ (r.attrs # {} \/ p.sanRequired)

(* keyEncipherment is an RSA operation.                                    *)
KeyUsageFor(r, p) == IF r.key = "rsa" THEN p.ku ELSE p.ku \ {"keyEncipherment"}

(* A certificate's validity window.                                        *)
InWindow(window, t) == window.notBefore <= t /\ t <= window.notAfter

(* checkIssuerCanCover, for an issuer with that window.                    *)
CanCover(t, validity, issuer) == InWindow(issuer, t) /\ t + validity <= issuer.notAfter

(* CA.Issue: what it refuses, and what it signs.  A signature that fails   *)
(* is the caller's disjunct.                                               *)
Issuable(r, p, ceiling, t, issuer) ==
    /\ ValidateCSR(r)
    /\ AllowsKey(p, r)
    /\ CheckSANs(p, r)
    /\ SubjectAllowed(p, r)
    /\ p.validity <= ceiling
    /\ CanCover(t, p.validity, issuer)

Leaf(r, p, t) ==
    [cn |-> r.cn, uris |-> r.sans["uri"], eku |-> p.eku, ku |-> KeyUsageFor(r, p),
     notAfter |-> t + p.validity]

-----------------------------------------------------------------------------
(* Entitlements.  A spec has profiles, a set of names, and names, a set of *)
(* patterns; the type of a pattern that does not parse is outside          *)
(* NameTypes.                                                              *)

EntitlementCompiles(e) ==
    /\ e.profiles # {}
    /\ e.names # {}
    /\ \A n \in e.profiles : ~InternalOnly(n)
    /\ \A q \in e.names : q.type \in NameTypes

PermitsProfile(e, name) == name \in e.profiles /\ ~InternalOnly(name)

Granted(e, type, name) == \E q \in e.names : q.type = type /\ name \in q.matches

(* PermitsNames with the common name taken for a display name.             *)
PermitsSANsOnly(e, r) ==
    \A t \in SANTypes : \A n \in r.sans[t] : Granted(e, t, n)

PermitsNames(e, r) ==
    /\ r.cn # None => Granted(e, "cn", r.cn)
    /\ \A t \in SANTypes : \A n \in r.sans[t] : Granted(e, t, n)

(* A leaf's identities, and the ones a request with it may be authorised   *)
(* as: the first of its URIs on the list (in whatever order the request    *)
(* wrote them), or else its common name.                                   *)
ClientIdentities(leaf) == leaf.uris \cup ({leaf.cn} \ {None})
AuthorisedAs(leaf, allowed) ==
    IF leaf.uris \cap allowed # {} THEN leaf.uris \cap allowed
                                   ELSE ClientIdentities(leaf) \cap allowed

-----------------------------------------------------------------------------
(* config.Load.  c.complete: every required setting is there, the adapter  *)
(* section, role, PIN variable, session budget, base URL and CRL floor     *)
(* parse.  c.profiles is <<>> when the section is absent.  c.tls and       *)
(* c.ocsp are None when theirs is.                                         *)

ProfileSet(c) == IF c.profiles = <<>> THEN Builtin ELSE c.profiles

(* loadProfiles.                                                           *)
ProfilesLoad(c) ==
    /\ \A n \in DOMAIN c.profiles : Compiles(c.profiles[n])
    /\ ValidSet(ProfileSet(c), c.ceiling)

GrantsLoad(c) ==
    \A i \in DOMAIN c.issuers : /\ EntitlementCompiles(c.issuers[i])
                                /\ c.issuers[i].profiles \subseteq DOMAIN ProfileSet(c)

(* validateAuthenticatedSurface.                                           *)
SurfaceLoads(c) ==
    \/ /\ c.tls = None
       /\ DOMAIN c.issuers = {} /\ c.revokers = {}
    \/ /\ c.tls # None
       /\ c.tls.label # c.intermediate
       /\ DOMAIN c.issuers # {} /\ c.revokers # {}
       /\ GrantsLoad(c)

(* validateOCSP.                                                           *)
OCSPLoads(c) ==
    c.ocsp # None =>
        /\ c.ocsp # c.intermediate
        /\ c.tls # None => c.ocsp # c.tls.label
        /\ "ocsp-responder" \in DOMAIN ProfileSet(c)

Loads(c) ==
    /\ c.complete
    /\ c.ceiling > 0
    /\ ProfilesLoad(c)
    /\ SurfaceLoads(c)
    /\ OCSPLoads(c)
=============================================================================
