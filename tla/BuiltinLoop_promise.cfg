SPECIFICATION BuiltinSpec
CONSTANTS
  Parts = {"loop", "conversation", "reads"}
  MaxGen = 4
  MaxSteps = 2
  MaxRetries = 1
  MaxCalls = 2
  Modes = {"readonly", "ask", "acceptEdits"}
  ToolNames = {"read", "bash"}
  CallIds = {"c0", "c1"}
  MaxTurnCalls = 2
  MaxTurns = 3
  MaxToolBytes = 6
  FileLines = 4
  Widths = {0, 2, 7}
  Limits = {0, 1, 2}
  MaxPages = 5
  MaxEdits = 1
INVARIANTS BuiltinTypeOK LoopSafe ConversationSafe PagesTile
PROPERTIES KeepsApprovalPromise LoopEnds
CHECK_DEADLOCK FALSE
