CONSTANTS
    LatencySamples = {1, 2}
    timeout_s = 4
    throttle_delay_s = 1
    RoundDown = {0, 1}
    Items <- MCShapes
    n_collaborators = 2
    DefaultStages = 3
    EventChain = 3
    n_specialists = 2
    contention_per_writer_s = 1
    Tools <- MCTools
    Patterns = {"P1", "P2", "P3", "P4", "P5", "P6", "P7"}
    Platforms = {"bedrock", "agentforce"}
    Faults <- MCAllFaults
    Window <- MCWindow
    MaxRequests = 2
    Starts = {0, 2, 4}
    concurrency = 2
    probability = 50
    threshold = 95
SPECIFICATION Spec
CHECK_DEADLOCK FALSE
INVARIANTS
    TypeOK
    UntraversedUnharmed
    OkMeansComplete
    TimesAccounted
    BusOutageAbsorbedUpToRounding
    BulkheadHolds
    HumanDecides
    ContainmentTable
PROPERTY
    CellCompletes
