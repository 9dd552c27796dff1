SPECIFICATION Spec
CONSTANTS
    c1 = c1
    c2 = c2
    c3 = c3
    Cells = {c1, c2, c3}
    LeafCnt = 3
    BucketCnt = 2
    MaxWorkers = 3
    MaxNeighbors = 2
INVARIANTS
    LeavesInOrder
    NeighborhoodKept
    CellsSentOnce
SYMMETRY Symmetry
CHECK_DEADLOCK FALSE
