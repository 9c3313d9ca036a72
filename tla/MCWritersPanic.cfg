SPECIFICATION WritersSpec
CONSTANTS
  Chains <- MCChains
  minCompressSize = 2
  sniffBufSize = 3
  Codes = {103, 200, 404}
  ChunkSizes = {1, 2, 4}
  MaxCalls = 3
  MaxServed = 2
INVARIANT PanicGets500
CHECK_DEADLOCK FALSE
