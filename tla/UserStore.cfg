SPECIFICATION Spec
CONSTANTS
    Absent = Absent
    None = None
    Clients = {c1, c2}
    Jids = {alice, global}
    Global = global
    Fields = {f1}
    Limit = 2
    MaxChanges = 2
    MaxFlushErrors = 1
    MaxCrashes = 1
    SharedLoads = TRUE
    DeleteRaces = TRUE
SYMMETRY Symmetry
INVARIANTS
    StoreIsConsistent
    UpdatesAreKept
    NoResurrection
