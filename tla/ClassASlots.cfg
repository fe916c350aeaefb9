SPECIFICATION Spec
CONSTANTS
    Pairs = {1, 2}
    Volume <- MCVolume
    DayBars = 3
    Window = 2
    MaxOpen = 1
    Kill = 2
    Trials <- MCAhead
    MaxClock = 6
    MaxCrashes = 1
INVARIANT SlotsHold
CHECK_DEADLOCK FALSE
