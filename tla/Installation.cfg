\* An installation provisioned, configured, served, rotated, and its store lost.
SPECIFICATION Spec
CONSTANTS
    None = None
    Names <- MCNames
    BuiltinValidity <- MCBuiltinValidity
    Serials = {s1, s2, s3, s4}
    Labels = {"ca", "ca2", "k1", "k2"}
    Paths = {"ca.pem", "ca2.pem", "tls.pem", "tls2.pem", "alice.pem"}
    Configs <- MCConfigs
    Requests <- MCRequests
    CAFlags <- MCCAFlags
    ClientFlags <- MCClientFlags
    TLSFlags <- MCTLSFlags
    OCSPFlags <- MCOCSPFlags
    ServiceName = "carol"
    MaxTime = 2
SYMMETRY Symmetry
INVARIANTS
    Confined
    RevokedNeverReturns
    Restartable
    KeysSeparate
CHECK_DEADLOCK FALSE
