SPECIFICATION Spec
CONSTANTS
  Request = {r1, r2}
  Hoisted = Hoisted
  Chains <- MCChains
  Clients <- MCClients
  Headers <- MCHeaders
  Times = {1, 2, 5, 6, 7}
  PerBuf = 2
  MaxHops = 2
  MaxIds = 5
  MaxWrites = 2
SYMMETRY Symmetry
INVARIANTS IdsUnique HeadersIsolated VerdictExact RealClient
CHECK_DEADLOCK FALSE
