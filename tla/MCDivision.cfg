SPECIFICATION Spec
CONSTANTS
    Points <- MCPoints
    MaxBodies = 5
    Depth = 2
    LeafThreshold = 3
    ThreadCnt = 4
INVARIANTS
    CodesKept
    CodesAscend
    LeavesTile
    NeighborhoodCovers
    AllAssembled
CHECK_DEADLOCK FALSE
