SPECIFICATION Spec
CONSTANTS
  g1 = g1
  g2 = g2
  Requests = {g1, g2}
  Cells = {1, 2, 3, 4, 5, 6, 7, 8}
  Routes <- MCRoutes
  MaxDepth = 2
  MaxKept = 1
SYMMETRY Symmetric
VIEW Reachable
INVARIANTS NoSharing OwnParams
CHECK_DEADLOCK FALSE
