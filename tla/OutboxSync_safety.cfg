SPECIFICATION Spec
CONSTANTS
  ChanOps = {c1}
  HookOps = {h1}
  CallOps = {k1}
  Poison = {}
  Drainers = {mcp, hook}
  McpDrain = mcp
  NoOp = NoOp
  RenameReplaces = TRUE
  AttemptsLimit = 2
  MaxFaults = 1
  MaxKills = 1
  MaxStarts = 1
INVARIANTS
  TypeOK
  NoDurableLoss
  DoneMeansSafe
  AttemptsNeverOvercount
CHECK_DEADLOCK FALSE
