\* Progress of the janitor and of Close on a module whose calls succeed.
SPECIFICATION FairSpec
CONSTANTS
    None = None
    Users = {u1, u2}
    Handles = {h1, h2}
    IdleTimeout = 1
    MaxTTL = 1
    Failures = FALSE
    SessionLogins = FALSE
    MaxTime = 2
CHECK_DEADLOCK FALSE
PROPERTIES
    ExpiredReclaimed
    CloseReturns
