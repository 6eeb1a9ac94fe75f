SPECIFICATION Spec
CONSTANTS
    Unit = 12
    MaxRounds = 3
INVARIANTS
    DrawdownsAreSeen
CHECK_DEADLOCK FALSE
