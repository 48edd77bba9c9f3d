CONSTANTS
    max_attempts = 4
    Workers = {w1}
SPECIFICATION Spec
CHECK_DEADLOCK FALSE
INVARIANTS
    SingleFlight
PROPERTIES
    SuppressedCarriesResult
    NoSilentDuplicate
    WaitersWake
    CallEnds
