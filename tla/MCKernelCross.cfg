SPECIFICATION Spec
CONSTANTS
    GroupSize = 4
    Tps = 2
    Unroll = 2
    MaxLocal = 1
    MaxNeighbors = 4
INVARIANTS
    NCrossM
CHECK_DEADLOCK FALSE
