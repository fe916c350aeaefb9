SPECIFICATION MCSpec
CONSTANTS
    btc = btc
    sol = sol
    Pairs = {btc}
    Slots = {s}
    None = None
    Pooled = FALSE
    Lot = 2
    PrintSize = 1
    MAX_GROSS = 4
    BANKROLL = 4
    MaxOrders = 12
    MaxIntents = 2
    MaxFaults = 1
    Enabled = {"exit", "stop"}
    Spent <- MCSpent
INVARIANT RecordsAreWellFormed
INVARIANT NoOverfill
INVARIANT RestartsKeepTheWayOut
INVARIANT LedgerIsPosition
INVARIANT PoolCashFollowsTheRows
INVARIANT SharedGrossWithinCap
PROPERTY SpotLongsAreClosed
PROPERTY SpotStopFlattens
