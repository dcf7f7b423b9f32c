SPECIFICATION Spec
CONSTANTS
  ChanOps = {c1}
  HookOps = {}
  CallOps = {k1}
  Poison = {}
  Drainers = {mcp}
  McpDrain = mcp
  NoOp = NoOp
  RenameReplaces = TRUE
  AttemptsLimit = 2
  MaxFaults = 2
  MaxKills = 1
  MaxStarts = 3
INVARIANTS
  SettledStaysOut
  DuplicatesOnlyAfterUnknown
CHECK_DEADLOCK FALSE
