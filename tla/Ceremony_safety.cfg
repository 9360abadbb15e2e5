\* Ceremonies and re-issues at once, on tokens that may be one key space
\* and change roles.
SPECIFICATION Spec
CONSTANTS
    None = None
    Operators = {o1, o2}
    w1 = w1
    w2 = w2
    l1 = l1
    l2 = l2
    l3 = l3
    Workspaces <- MCWorkspaces
    Labels <- MCLabels
    Requests <- MCRequests
    Spaces = {s1, s2}
    Keys = {k1, k2, k3, k4}
    RootValidity = 1
    MaxTime = 1
SYMMETRY Symmetry
CHECK_DEADLOCK FALSE
INVARIANTS
    TypeOK
    LoginsDoNotOverlap
    HierarchyIsSplit
    ChainHolds
    RootStaysOffline
PROPERTY
    NothingDiscarded
