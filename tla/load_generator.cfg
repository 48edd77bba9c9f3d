CONSTANTS
    n = 5
    concurrency = 1
    consumer_scale = 2
    IsChoreography = TRUE
    Gaps = {0, 1, 3}
    Demands <- MCDemands
SPECIFICATION Spec
CHECK_DEADLOCK FALSE
INVARIANTS
    StartsInOrder
    OneAtATime
    InFlightNotUnderstated
