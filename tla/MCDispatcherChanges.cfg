SPECIFICATION Spec
CONSTANTS
    w1 = w1
    w2 = w2
    w3 = w3
    Workers = {w1, w2, w3}
    NULL = NULL
    Leaves = 3
    TicksCnt = 1
    LateJoin = TRUE
    MaxLosses = 1
INVARIANTS
    TokensMatchPool
    BundleInOnePlace
    SingleHolder
    OneBundleEach
    CellsRemembered
CONSTRAINT Bound
SYMMETRY Symmetry
CHECK_DEADLOCK FALSE
