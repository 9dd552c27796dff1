SPECIFICATION Spec
CONSTANTS
    GroupSize = 4
    Tps = 2
    Unroll = 2
    MaxLocal = 4
    MaxNeighbors = 9
INVARIANTS
    NoFault
    ResultsDetermined
    EveryStarMoved
CHECK_DEADLOCK FALSE
