SPECIFICATION Spec
CONSTANTS
  a2 = a2
  MaxInt64 = 1000
  a1 = a1
  l1 = l1
  l2 = l2
  l3 = l3
  p1 = p1
  p2 = p2
  None = None
  Agents = {a1}
  Loops = {l1, l2}
  Pairs = {p1, p2}
  Trades <- OneTrade
  Confs <- OneConf
  InitLosses = {0, 1}
  MaxToolCallRounds = 1
  MaxCalls = 1
  MaxCycles = 1
  MaxFaults = 1
  MaxLate = 1
  MaxCrashes = 1
  MaxTroubles = 1
SYMMETRY Symm
INVARIANTS
  TypeOK
  LiveIsRegistered
  TradesAudited
  AtMostOneLiveLoop
  HistoryComplete
  DeletedNeverTraded
PROPERTIES
  CancelledLoopsAreSpent
  RiskPauseStops
CHECK_DEADLOCK FALSE
