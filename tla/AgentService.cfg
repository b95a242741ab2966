SPECIFICATION FairSpec
CONSTANTS
  None = None
  Agents = {a1}
  Servers = {s1, s2}
  Requests = {r1, r2, r3}
INVARIANTS
  TypeOK
  BindingsAreConfigured
PROPERTIES
  ImplementsAgentRow
  RequestsReturn
CHECK_DEADLOCK FALSE
