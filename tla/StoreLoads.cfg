SPECIFICATION Spec
CONSTANTS
    Procs = {a, b}
    None = None
    last = last
    ring = ring
    Always = {last}
    Rings = {ring}
    Dailies = {last, ring}
    Days = {1}
    DayTicks = 1
    MaxSafe = 5
    MapCap = 1
    RetryTicks = 1
    MaxClock = 4
    MaxWrites = 3
    MaxEras = 2
    Faults = {"grouped", "lostReply", "groupLost", "unstamped"}
SYMMETRY Symmetry
INVARIANT TypeOK
PROPERTY ReloadsTheBook
PROPERTY StampsAreNew
CHECK_DEADLOCK FALSE
