SPECIFICATION Spec
CONSTANTS
    Nodes <- MCNodes
    Dials <- MCDials
    InitHead <- UnequalHeads
    Lag = 1
    Span = 2
    Producers = {3}
    MaxHead = 6
    MaxFaults = 1
INVARIANTS WaitsForSomeone
CHECK_DEADLOCK FALSE
