SPECIFICATION Spec
CONSTANTS
  Slash = "/"
  Dot = "."
  Percent = "%"
  Param = ":"
  CatchAll = "*"
  Hex <- MCHex
  Muxes = {1, 2, 3}
  Routes <- MCRoutes
  Starts <- MCStarts
  Configs <- MCConfigs
  Methods = {"GET", "POST", "OPTIONS", "CONNECT"}
  Urls <- MCUrls
  MaxMissing = 2
  RawPath = FALSE
INVARIANTS AnswersSnapshot
CHECK_DEADLOCK FALSE
