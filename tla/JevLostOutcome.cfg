SPECIFICATION Spec
CONSTANTS
  a = a
  b = b
  eth = eth
  None = None
  Btc = Btc
  Procs = {a, b}
  Pairs = {Btc, eth}
  Bars = {0, 1}
  Bar = 1
  Expiry = 2
  DoneBars = 1
  Cap = 5
  MonthCap = 5
  Reserve = 2
  Prices = {1, 3}
  MonthTicks = 2
  Scenarios <- MCScenarios
CHECK_DEADLOCK FALSE
INVARIANT OutcomesAreStored
