SPECIFICATION FairSpec
CONSTANTS
    MaxBundles = 2
    UnitCounts = {1, 2}
INVARIANTS
    TypeOK
    NeverPopsEmpty
    LastAnswerFlagged
    SingleUnitsFlagged
    OneBundleAtATime
PROPERTIES
    EverythingAnswered
    ImplementsService
CHECK_DEADLOCK FALSE
