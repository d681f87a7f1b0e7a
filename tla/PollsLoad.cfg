SPECIFICATION Spec
CONSTANTS
    Voters = {a}
    MaxHistory = 1
    MaxPolls = 2
    MaxLoads = 2
CHECK_DEADLOCK FALSE
INVARIANTS
    LoadSucceeds
