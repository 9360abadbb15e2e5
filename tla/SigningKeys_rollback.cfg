\* An older document handed to select-key.
SPECIFICATION Spec
CONSTANTS
    None = None
    Operators = {o1}
    Labels = {l1}
    Pairs = {p1}
    Points = {x1}
    Purposes = {"image", "artifact"}
    Validities = {1, 2}
    MaxVersion = 2
    MaxTime = 1
CHECK_DEADLOCK FALSE
PROPERTY SelectRefusesRollback
