SPECIFICATION Spec
CONSTANTS
  u1 = u1
  u2 = u2
  r1 = r1
  r2 = r2
  Users = {u1, u2}
  Requests = {r1}
  Amounts = {10, 25}
  Scale = 100
  ProfitSharePct = 20
  MaxInt64 = 100000
  MaxInvestments = 3
  MaxSweeps = 2
SYMMETRY Symm
INVARIANTS
  TypeOK
  BooksBalance
  Solvent
  FeeSparesPrincipal
PROPERTIES
  ImplementsFund
CHECK_DEADLOCK FALSE
