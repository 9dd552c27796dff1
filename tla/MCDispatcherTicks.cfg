SPECIFICATION FairSpec
CONSTANTS
    w1 = w1
    w2 = w2
    Workers = {w1, w2}
    NULL = NULL
    Leaves = 2
    TicksCnt = 3
    LateJoin = FALSE
    MaxLosses = 0
INVARIANTS
    TypeOK
    NoFault
    TokensMatchPool
    BundleInOnePlace
    SavesInOwnFile
PROPERTIES
    ImplementsTicks
    SimulationCompletes
CHECK_DEADLOCK FALSE
CONSTRAINT TwoTicks
