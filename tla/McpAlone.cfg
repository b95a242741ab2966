SPECIFICATION Spec
CONSTANTS
  c1 = c1
  c2 = c2
  hc = hc
  Callers = {}
  Checker = hc
  FailureThreshold = 3
  DbMayFail = TRUE
INVARIANTS
  TypeOK
  BreakerConsistent
  OpenIsPublished
PROPERTIES
  ThreeStrikesOpen
  ImplementsBreaker
