SPECIFICATION Spec
CONSTANTS
    Pairs = {p}
    Slots = {s}
    None = None
    Pooled = TRUE
    Lot = 2
    PrintSize = 1
    MAX_GROSS = 4
    BANKROLL = 4
    MaxOrders = 10
    MaxIntents = 2
    MaxFaults = 1
    Enabled = {"exit", "stop"}
    Spent <- MCSpent
INVARIANT PoolConserves
