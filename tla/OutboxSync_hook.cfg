SPECIFICATION Spec
CONSTANTS
  ChanOps = {}
  HookOps = {h1}
  CallOps = {}
  Poison = {}
  Drainers = {mcp, hook}
  McpDrain = mcp
  NoOp = NoOp
  RenameReplaces = TRUE
  AttemptsLimit = 2
  MaxFaults = 0
  MaxKills = 0
  MaxStarts = 1
INVARIANTS
  HookEventNotDropped
CHECK_DEADLOCK FALSE
