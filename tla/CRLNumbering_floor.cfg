\* A store rebuilt with the last number as its floor, on a clock set back.
SPECIFICATION Spec
CONSTANTS
    MaxClock = 5
    MaxNumber = 6
    MaxDraws = 4
INVARIANT LastNumberIsEnough
CHECK_DEADLOCK FALSE
