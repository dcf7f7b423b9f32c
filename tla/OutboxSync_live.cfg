SPECIFICATION FairSpec
CONSTANTS
  ChanOps = {c1}
  HookOps = {}
  CallOps = {k1}
  Poison = {c1}
  Drainers = {mcp, hook}
  McpDrain = mcp
  NoOp = NoOp
  RenameReplaces = FALSE
  AttemptsLimit = 2
  MaxFaults = 1
  MaxKills = 0
  MaxStarts = 1
PROPERTIES
  OutboxEmpties
  ImplementsDurableDelivery
CHECK_DEADLOCK FALSE
