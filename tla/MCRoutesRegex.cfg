SPECIFICATION Spec
CONSTANTS
  Slash = "/"
  Letters = {"a", "b", "A", "B"}
  Params = {":p", ":q", ":o"}
  Regexes = {"{x}", "{y}"}
  CatchAlls = {"*c", "*d"}
  BadTokens = {":"}
  Optionals = {"{/:o}", "{/:x}"}
  OptionalToken <- MCOptionalToken
  MaxOptionals = 2
  Method = {"GET"}
  Families <- RegexFamily
  Requests <- MCRequests
  Fold <- MCFold
  Accepts <- MCAccepts
  InlineParams = 1
  RequestPaths <- MCPaths
  HintFamilies <- MCHintFamilies
CONSTRAINT OneFamily
INVARIANT WalkExact
