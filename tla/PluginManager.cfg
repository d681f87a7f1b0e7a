SPECIFICATION HostSpec
CONSTANTS
    rooms = rooms
    vcard = vcard
    weather = weather
    Boot = Boot
    Down = Down
    Nobody = Nobody
    Plugins = {rooms, vcard, weather}
    Core = {rooms}
    Requires <- Chain
    Discovery <- CoreFirst
    Admins = {admin1}
    MaxCommands = 2
    MaxFaults = 2
    r1 = r1
    r2 = r2
    p1 = p1
    p2 = p2
    t1 = t1
    t2 = t2
    n1 = n1
    n2 = n2
    s1 = s1
    f1 = f1
    None = None
    Absent = Absent
    Global = Global
    Free = Free
CHECK_DEADLOCK FALSE
INVARIANTS
    TypesOK
    DependenciesLoaded
    RegistryIsExact
    PlayIsFair
    RoomDataIsKept
PROPERTIES
    UnloadingNeverLoads
    SwapsAreFair
    WorkEnds
