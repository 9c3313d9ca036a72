SPECIFICATION Spec
CONSTANTS
  Slash = "/"
  Prefixes <- MCPrefixes
  Paths <- MCPaths
  Methods = {"GET", "HEAD"}
  CatchAll = "*f"
  rawPathDecode = FALSE
  MaxUse = 5
  MaxUseFast = 1
  MaxGroups = 2
  MaxRoutes = 1
INVARIANTS ChainsExact FastNeverBypasses PatternsJoined
CHECK_DEADLOCK FALSE
