SPECIFICATION FairSpec
CONSTANTS
  a1 = a1
  a2 = a2
  l1 = l1
  l2 = l2
  l3 = l3
  p1 = p1
  p2 = p2
  None = None
  Agents = {a1, a2}
  Loops = {l1, l2}
  Pairs = {p1, p2}
  Trades <- OneTrade
  Confs <- OneConf
  InitLosses = {0}
  MaxInt64 = 1000
  MaxToolCallRounds = 0
  MaxCalls = 1
  MaxCycles = 0
  MaxFaults = 1
  MaxLate = 0
  MaxCrashes = 0
  MaxTroubles = 1
PROPERTIES
  RestoreCompletes
CHECK_DEADLOCK FALSE
