SPECIFICATION Spec
CONSTANTS
    rooms = rooms
    vcard = vcard
    weather = weather
    Boot = Boot
    Down = Down
    Nobody = Nobody
    Plugins = {rooms, vcard, weather}
    Core = {rooms}
    Requires <- Chain
    Discovery <- CoreFirst
    Admins = {admin1}
    MaxCommands = 0
    MaxFaults = 1
CHECK_DEADLOCK FALSE
INVARIANTS
    SessionHooksRun
