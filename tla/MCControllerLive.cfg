SPECIFICATION FairSpec
CONSTANTS
    Block <- RaceBlock
    Genesis = "g"
    Parent <- RaceParent
    Num <- RaceNum
    Lib <- RaceLib
    Bad = {"x6"}
    Own = {"a6"}
    MaxRestart = 2
INVARIANTS AssertionsHold StateSynced Replays
PROPERTIES HandlersEnd Converges
CHECK_DEADLOCK FALSE
