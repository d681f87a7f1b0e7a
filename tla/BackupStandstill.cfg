SPECIFICATION Spec
CONSTANTS
    None = None
    Commands = {c}
    Keep = 1
    MaxWrites = 1
    MaxArchives = 2
    MaxFaults = 0
CHECK_DEADLOCK FALSE
INVARIANTS
    ConnectionServes
