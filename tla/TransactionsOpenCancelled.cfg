SPECIFICATION LeakySpec
CONSTANTS
    NoTask = NoTask
    Tasks = {t1, t2}
    MaxDepth = 1
    MaxName = 3
    Faults = {}
    Leaks = {"open"}
INVARIANTS
    SuccessIsDurable
