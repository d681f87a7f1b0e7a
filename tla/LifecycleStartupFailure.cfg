SPECIFICATION Spec
CONSTANTS
    MaxSessions = 2
    MaxLosses = 1
    MaxErrors = 1
CHECK_DEADLOCK FALSE
INVARIANTS
    CleanExit
