SPECIFICATION Spec
CONSTANTS
    NoTask = NoTask
    Tasks = {t1, t2, t3}
    MaxDepth = 2
    MaxName = 4
    Faults = {"waiting", "open fails", "body", "drop", "release", "crash"}
    Leaks = {}
SYMMETRY Symmetry
INVARIANTS
    TypeOK
    SuccessIsDurable
    ReadersSeeCommitted
    FailureLeavesNoTrace
PROPERTIES
    UnitsAreAtomic
