SPECIFICATION Spec
CONSTANTS
  ChanOps = {}
  HookOps = {}
  CallOps = {k1}
  Poison = {}
  Drainers = {mcp, hook}
  McpDrain = mcp
  NoOp = NoOp
  RenameReplaces = TRUE
  AttemptsLimit = 2
  MaxFaults = 2
  MaxKills = 0
  MaxStarts = 1
INVARIANTS
  SettledStaysOut
CHECK_DEADLOCK FALSE
