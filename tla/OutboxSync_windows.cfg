SPECIFICATION Spec
CONSTANTS
  ChanOps = {}
  HookOps = {}
  CallOps = {k1}
  Poison = {}
  Drainers = {mcp, hook}
  McpDrain = mcp
  NoOp = NoOp
  RenameReplaces = FALSE
  AttemptsLimit = 2
  MaxFaults = 2
  MaxKills = 1
  MaxStarts = 1
INVARIANTS
  NoDurableLoss
CHECK_DEADLOCK FALSE
