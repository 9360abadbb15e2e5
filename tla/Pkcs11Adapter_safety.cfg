\* Two callers, the janitor and Close, sessions with and without a login
\* of their own, on a module whose calls may fail.
SPECIFICATION Spec
CONSTANTS
    None = None
    Users = {u1, u2}
    Handles = {h1, h2}
    IdleTimeout = 1
    MaxTTL = 1
    Failures = TRUE
    SessionLogins = TRUE
    MaxTime = 2
SYMMETRY Symmetry
CHECK_DEADLOCK FALSE
INVARIANTS
    TypeOK
    NoCallAfterFinalize
    OperationUndisturbed
    AnchorKeepsLogin
    OpenIsAccountedFor
