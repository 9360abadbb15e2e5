\* The responder and the writes: lookups, concurrent issuance and
\* revocation, renewal and restart.
SPECIFICATION Spec
CONSTANTS
    None = None
    Serials = {s1, s2}
    Reasons = {1}
    MillisPerTick = 1
    CRLNumberFloor = 0
    MaxTime = 1
    MaxNumber = 1
    OCSPClients = {o1}
    ResponderEnabled = TRUE
    ResponseWindow = 1
    ResponderTTL = 1
    ClockSkew = 1
    IssuerNotAfter = 3
    CRLClients = {}
    Writers = {w1, w2}
    CRLValidity = 1
    LeafTTL = 1
    KeytoolFailures = 0
SYMMETRY Symmetry
INVARIANTS
    RevokedClientRefused
    IssuedNeverUnknown
    OCSPStaleOnlyByRace
    OCSPStaleBounded
    CacheSignedByCurrent
    ChannelsAgree
