SPECIFICATION Spec
CONSTANTS
    Producer = {"p1", "p2", "p3", "p4", "p5"}
    FirstSchedule <- Four
    Schedules <- Fours
    Repetitions = 1
    MaxTracked = 5
    Word = 256
    Overclaims = {20}
    MaxBlock = 17
    MaxFaults = 2
INVARIANTS CountsMatchConfirmations ProposedByTwoThirds VersionsLineUp
PROPERTIES LibByBuilders LibNeverFalls
CHECK_DEADLOCK FALSE
