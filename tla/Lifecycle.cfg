SPECIFICATION HostSpec
CONSTANTS
    MaxSessions = 4
    MaxLosses = 3
    MaxErrors = 2
    None = None
    Absent = Absent
    Bad = Bad
    Global = Global
    t1 = t1
    t2 = t2
CHECK_DEADLOCK FALSE
INVARIANTS
    TypesOK
    SessionsAreSound
    CleanExitOnSignal
    DataIsSafe
    
PROPERTIES
    WorkSettles
