SPECIFICATION Spec
CONSTANTS
    Procs = {a, b}
    None = None
    last = last
    ring = ring
    Always = {last}
    Rings = {ring}
    Dailies = {last, ring}
    Days = {1}
    DayTicks = 2
    MaxSafe = 4
    MapCap = 2
    RetryTicks = 1
    MaxClock = 3
    MaxWrites = 3
    MaxEras = 2
    Faults = {"grouped", "groupLost"}
SYMMETRY Symmetry
PROPERTY ReloadsTheWholeBook
CHECK_DEADLOCK FALSE
