CONSTANTS
    alpha = 500
    PValue <- MCPValue
    WORST_GROUP_MIN_DOMINATORS = 4
    VARIANTS <- MCVariants
    Worlds <- MCWorlds
    Measured <- MCMeasured
    MaxSweeps = 3
    MaxCrashes = 1
SPECIFICATION Spec
CHECK_DEADLOCK FALSE
INVARIANTS
    DataMatchesHash
    FailsOnTornFileOnly
    BestIsTop
    GradesIgnoreNames
    GrowthIgnoresLevel
PROPERTY
    ForcedSweepHonest
