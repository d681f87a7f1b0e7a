SPECIFICATION Spec
CONSTANTS
    Absent = Absent
    None = None
    Clients = {c1, c2}
    Jids = {alice, global}
    Global = global
    Fields = {f1}
    Limit = 2
    MaxChanges = 2
    MaxFlushErrors = 0
    MaxCrashes = 0
    SharedLoads = TRUE
    DeleteRaces = FALSE
SYMMETRY Symmetry
INVARIANTS
    NoUpdateIsLost
