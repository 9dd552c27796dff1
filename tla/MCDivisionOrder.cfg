SPECIFICATION FairSpec
CONSTANTS
    Points <- MCPoints
    MaxBodies = 2
    Depth = 2
    LeafThreshold = 2
    ThreadCnt = 2
PROPERTIES
    ArrangedOnZOrder
CHECK_DEADLOCK FALSE
