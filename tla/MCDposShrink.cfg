SPECIFICATION Spec
CONSTANTS
    Producer = {"p1", "p2", "p3", "p4", "p5"}
    FirstSchedule <- Four
    Schedules <- Shrunk
    Repetitions = 1
    MaxTracked = 24
    Word = 256
    Overclaims = {}
    MaxBlock = 24
    MaxFaults = 3
PROPERTIES LibNeverFalls
CHECK_DEADLOCK FALSE
