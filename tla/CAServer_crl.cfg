\* Revocation and the CRL, without a responder.
SPECIFICATION Spec
CONSTANTS
    None = None
    Serials = {s1, s2}
    Reasons = {1, 8}
    MillisPerTick = 1
    CRLNumberFloor = 0
    MaxTime = 1
    MaxNumber = 3
    OCSPClients = {}
    ResponderEnabled = FALSE
    ResponseWindow = 1
    ResponderTTL = 1
    ClockSkew = 1
    IssuerNotAfter = 1
    CRLClients = {c1, c2}
    Writers = {w1}
    CRLValidity = 1
    LeafTTL = 1
    KeytoolFailures = 0
SYMMETRY Symmetry
INVARIANTS
    TypeOK
    CRLComplete
    CRLOrdered
    HeldIsRecorded
PROPERTIES
    RevocationPermanent
    ImplementsLedger
