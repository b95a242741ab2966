SPECIFICATION Spec
CONSTANTS
  None = None
  u1 = u1
  u2 = u2
  Users = {u1, u2}
  Nonces = {n1, n2}
  Requests = {r1, r2}
  Agents = {a1, a2, a3}
  Owner <- MCOwner
  Clients = {c1}
  Asked <- MCAsked
  DefaultLimit = 2
  MaxLimit = 1
  NonceTTL = 1
  JwtTTL = 1
  MaxTime = 3
  MaxCreate = 1
SYMMETRY Symmetry
INVARIANTS
  TypeOK
  OneTokenPerNonce
  AnswersAreAuthorized
  PagesDescend
  ListedOrAtCursor
CHECK_DEADLOCK FALSE
