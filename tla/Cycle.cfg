SPECIFICATION CycleSpec
CONSTANTS
  MaxInt64 = 7
  Trades <- MCTrades
  ParamSets <- MCParamSets
  States <- MCStates
  s1 = s1
  s2 = s2
  t1 = t1
  t2 = t2
  t3 = t3
  Servers = {s1, s2}
  Tools = {t1, t2, t3}
  Provides <- MCProvides
  Strategies <- MCStrategies
  Numbers = {0, 1}
  Asks <- MCAsks
  Float64 <- MCFloat64
  MaxExact = 2
  None = None
  Bad = Bad
  Malformed = Malformed
  MaxToolCallRounds = 2
  MaxCalls = 2
  MaxAsked = 3
INVARIANTS
  CycleTypeOK
  ApprovedIffWithinLimits
  ReturnedDecisionIsLogged
  CallsAnswered
  TradesAsAsked
  FastPathDecides
CHECK_DEADLOCK FALSE
