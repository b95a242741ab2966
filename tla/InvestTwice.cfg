SPECIFICATION Spec
CONSTANTS
  u1 = u1
  u2 = u2
  r1 = r1
  r2 = r2
  Users = {u1, u2}
  Requests = {r1, r2}
  Amounts = {10}
  Scale = 100
  ProfitSharePct = 20
  MaxInt64 = 100000
  MaxInvestments = 2
  MaxSweeps = 0
SYMMETRY Symm
INVARIANTS
  RedeemedOnce
CHECK_DEADLOCK FALSE
