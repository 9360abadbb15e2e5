\* A GET /crl between its two turns at the lock.
SPECIFICATION Spec
CONSTANTS
    None = None
    Serials = {s1}
    Reasons = {1}
    MillisPerTick = 1
    CRLNumberFloor = 0
    MaxTime = 1
    MaxNumber = 2
    OCSPClients = {}
    ResponderEnabled = FALSE
    ResponseWindow = 1
    ResponderTTL = 1
    ClockSkew = 1
    IssuerNotAfter = 2
    CRLClients = {c1, c2}
    Writers = {w1}
    CRLValidity = 1
    LeafTTL = 1
    KeytoolFailures = 0
SYMMETRY Symmetry
INVARIANT CRLLifetimeIsItsOwn
