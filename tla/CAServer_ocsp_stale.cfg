\* A lookup in flight across a revocation.
SPECIFICATION Spec
CONSTANTS
    None = None
    Serials = {s1, s2}
    Reasons = {1}
    MillisPerTick = 1
    CRLNumberFloor = 0
    MaxTime = 0
    MaxNumber = 1
    OCSPClients = {o1}
    ResponderEnabled = TRUE
    ResponseWindow = 1
    ResponderTTL = 1
    ClockSkew = 1
    IssuerNotAfter = 1
    CRLClients = {}
    Writers = {w1}
    CRLValidity = 1
    LeafTTL = 1
    KeytoolFailures = 0
SYMMETRY Symmetry
INVARIANT OCSPFresh
