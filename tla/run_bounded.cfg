CONSTANTS
    N = 4
    max_crashes = 3
    Stream <- MCStream
SPECIFICATION FairSpec
CHECK_DEADLOCK FALSE
PROPERTY
    RunEnds
