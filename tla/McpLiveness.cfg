SPECIFICATION FairSpec
CONSTANTS
  c1 = c1
  c2 = c2
  hc = hc
  Callers = {c1}
  Checker = hc
  FailureThreshold = 3
  DbMayFail = FALSE
PROPERTIES
  OpenIsProbed
  Recovers
  StaleCountHeals
