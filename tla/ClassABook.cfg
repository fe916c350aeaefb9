SPECIFICATION Spec
CONSTANTS
    Pairs = {1, 2}
    Volume <- MCVolume
    DayBars = 3
    Window = 2
    MaxOpen = 1
    Kill = 2
    Trials <- MCTrials
    MaxClock = 6
    MaxCrashes = 1
INVARIANT TypeOK
INVARIANT AccountsAgree
INVARIANT FillsGoByRank
INVARIANT NofillIsTrue
INVARIANT LiveSlotsHold
INVARIANT NoReentry
PROPERTY SignalsStand
PROPERTY OldBucketsStand
CHECK_DEADLOCK FALSE
