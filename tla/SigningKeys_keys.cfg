\* One operator, every command failing anywhere, a token that repeats points.
SPECIFICATION Spec
CONSTANTS
    None = None
    Operators = {o1}
    Labels = {l1, l2}
    Pairs = {p1, p2}
    Points = {x1, x2}
    Purposes = {"image"}
    Validities = {1}
    MaxVersion = 2
    MaxTime = 2
SYMMETRY Symmetry
CHECK_DEADLOCK FALSE
INVARIANTS
    LabelNamesOnePair
    ReturnedKeysDiffer
    RetiredIsGone
    ActiveIsOnToken
    RetiredNeverRendered
