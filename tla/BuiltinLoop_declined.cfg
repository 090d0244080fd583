SPECIFICATION BuiltinSpec
CONSTANTS
  Parts = {"loop"}
  MaxGen = 4
  MaxSteps = 1
  MaxRetries = 0
  MaxCalls = 1
  Modes = {"ask"}
  ToolNames = {"read"}
  CallIds = {"c0"}
  MaxTurnCalls = 1
  MaxTurns = 1
  MaxToolBytes = 6
  FileLines = 1
  Widths = {0}
  Limits = {0}
  MaxPages = 1
  MaxEdits = 0
PROPERTY OnlyUserAnswers
CHECK_DEADLOCK FALSE
