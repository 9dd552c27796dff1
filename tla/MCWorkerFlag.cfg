SPECIFICATION Spec
CONSTANTS
    MaxBundles = 1
    UnitCounts = {2}
INVARIANTS
    FlagIsLastOfBundle
CHECK_DEADLOCK FALSE
