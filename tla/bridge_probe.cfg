CONSTANTS
    N = 4
    max_crashes = 3
    Stream <- MCStream
SPECIFICATION ServedSpec
CHECK_DEADLOCK FALSE
INVARIANTS
    TypeOK
    NoDuplicateInvocation
    DuplicatesBoundedByCrashes
    CursorNeverSkips
    SummaryAccounts
PROPERTIES
    LedgerRefined
    RunEnds
