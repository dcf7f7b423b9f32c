SPECIFICATION ReadSpec
CONSTANTS
  Paths = {p, q}
  MaxVersion = 2
  MaxTokens = 3
  MaxReads = 4
  MaxClears = 1
INVARIANT FullReadsComplete
CHECK_DEADLOCK FALSE
