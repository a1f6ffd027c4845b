SPECIFICATION Spec
CONSTANTS
    DEPTH = 3
    Data = {"a"}
    Undef = Undef
    COUNTER_MOD = 4
    DISCARD_AT_WRAP = TRUE
INVARIANTS
    WaitMeansFull
