SPECIFICATION Spec
CONSTANTS
    Pairs = {1, 2}
    Volume <- MCVolume
    DayBars = 3
    Window = 2
    MaxOpen = 1
    Kill = 2
    Trials <- MCLive
    MaxClock = 6
    MaxCrashes = 1
INVARIANT FillBarIsHeld
CHECK_DEADLOCK FALSE
