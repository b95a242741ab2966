SPECIFICATION FairSpec
CONSTANTS
  a1 = a1
  a2 = a2
  l1 = l1
  l2 = l2
  l3 = l3
  p1 = p1
  p2 = p2
  None = None
  Agents = {a1}
  Loops = {l1}
  Pairs = {p1, p2}
  Trades <- TwoTrades
  Confs <- TwoConfs
  InitLosses = {0, 1}
  MaxInt64 = 1000
  MaxToolCallRounds = 2
  MaxCalls = 2
  MaxCycles = 2
  MaxFaults = 0
  MaxLate = 0
  MaxCrashes = 0
  MaxTroubles = 0
INVARIANTS
  LimitsKept
PROPERTIES
  CycleTerminates
  StoppedLoopExits
CHECK_DEADLOCK FALSE
