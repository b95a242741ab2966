SPECIFICATION ClockSpec
CONSTANTS
  a2 = a2
  MaxHours = 1
  MaxInt64 = 1000
  a1 = a1
  l1 = l1
  l2 = l2
  l3 = l3
  p1 = p1
  p2 = p2
  None = None
  Agents = {a1}
  Loops = {l1, l2}
  Pairs = {p1, p2}
  Trades <- TwoTrades
  Confs <- OnePerHour
  InitLosses = {0}
  MaxToolCallRounds = 1
  MaxCalls = 2
  MaxCycles = 1
  MaxFaults = 0
  MaxLate = 1
  MaxCrashes = 0
  MaxTroubles = 0
SYMMETRY Symm
CHECK_DEADLOCK FALSE
PROPERTIES
  RateLimitIsHourly
