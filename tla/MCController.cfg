SPECIFICATION Spec
CONSTANTS
    Block <- ForkBlock
    Genesis = "g"
    Parent <- ForkParent
    Num <- ForkNum
    Lib <- ForkLib
    Bad = {"x8", "y6"}
    Own = {"a6", "b7"}
    MaxRestart = 2
INVARIANTS StateSynced Replays AssertionsHold OnBestFork MarksFollowHead
PROPERTIES ImplementsLedger
CHECK_DEADLOCK FALSE
