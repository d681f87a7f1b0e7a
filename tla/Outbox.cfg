SPECIFICATION HostSpec
CONSTANTS
    c1 = c1
    c2 = c2
    chat = chat
    room = room
    alert = alert
    r1 = r1
    r2 = r2
    u1 = u1
    d1 = d1
    d2 = d2
    scan = scan
    None = None
    Callers = {c1, c2}
    Keys = {chat, alert}
    RoomKeys = {alert}
    AlertKeys = {alert}
    MaxAttempts = 2
    MaxPending = 2
    BatchSize = 2
    MaxSends = 2
    MaxCuts = 1
    MaxDrops = 1
INVARIANTS
    TypesOK
    OutboxOwns
    ReplaysAreHonest
    RemindersArrive
    EntriesArrive
    RoomsHearOnce
PROPERTIES
    NothingIsUndone
    QueueDrains
CHECK_DEADLOCK FALSE
