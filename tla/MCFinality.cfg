SPECIFICATION ForksSpec
CONSTANTS
    Producer = {"p1", "p2", "p3", "p4", "p5"}
    Repetitions = 1
    MaxTracked = 8
    Word = 256
    Starts <- All
    MaxNew = 4
    MaxRestarts = 1
INVARIANTS ConfirmsOnce ProposedOnce
CHECK_DEADLOCK FALSE
