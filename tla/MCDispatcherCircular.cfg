SPECIFICATION Spec
CONSTANTS
    w1 = w1
    w2 = w2
    w3 = w3
    Workers = {w1, w2, w3}
    NULL = NULL
    Leaves = 3
    TicksCnt = 3
    LateJoin = FALSE
    MaxLosses = 0
INVARIANTS
    SingleHolder
SYMMETRY Symmetry
CHECK_DEADLOCK FALSE
CONSTRAINT Smoothly
