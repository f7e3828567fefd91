SPECIFICATION LiveSpec
CONSTANTS
    Nodes <- MCNodes
    Dials <- MCDials
    InitHead <- MCInitHead
    Lag = 1
    Span = 2
    Producers = {1}
    MaxHead = 6
    MaxFaults = 1
INVARIANTS NothingSkipped
PROPERTIES CatchesUp ReachesHead
CHECK_DEADLOCK FALSE
