CONSTANTS
    Backlogs <- MCBacklogs
    Marks = {m1, m2}
    Regenerations = 2
    Items = {a, b}
    MaxDrafts = 4
    MaxNesting = 3
    Drafted = {1, 2}
    MaxPauses = 5
SYMMETRY Symmetry
SPECIFICATION Spec
CHECK_DEADLOCK FALSE
INVARIANTS
    DependenciesPass
    GateClearedByHuman
    AlwaysEligible
    TrailComplete
    DecidedOncePerPause
    PausedIsDurable
PROPERTIES
    EmergencyStop
