SPECIFICATION Spec
CONSTANTS
    w1 = w1
    w2 = w2
    Workers = {w1, w2}
    NULL = NULL
    Leaves = 2
    TicksCnt = 2
    LateJoin = FALSE
    MaxLosses = 0
PROPERTIES
    TickComplete
CHECK_DEADLOCK FALSE
CONSTRAINT FlagsExact
