SPECIFICATION HostSpec
CONSTANTS
    c1 = c1
    c2 = c2
    s1 = s1
    a1 = a1
    a2 = a2
    a3 = a3
    Stop = Stop
    olga = olga
    uma = uma
    vera = vera
    r1 = r1
    nick1 = nick1
    nick2 = nick2
    t1 = t1
    t2 = t2
    None = None
    Clients = {a1, a2, a3}
    Capacity = 1
    RefillAmount = 1
    RefillInterval = 2
    DenyWindow = 2
    DenyThreshold = 2
    BaseBlock = 2
    Multiplier = 2
    MaxBlock = 3
    NotifyCooldown = 3
    IdleTtl = 3
    PruneInterval = 2
    MaxClients = 2
    MaxTime = 4
    MaxReloads = 1
CHECK_DEADLOCK FALSE
INVARIANTS
    TypesOK
    CacheIsKept
    RateBound
    
    RepliesAreSettled
    RoomsAreTrue
    
    PeopleAreKnown
PROPERTIES
    BlocksAreServed
    WorkIsServed
