SPECIFICATION ReportSpec
CONSTANTS
  bi = bi
  ol = ol
  ma = ma
  mb = mb
  mc = mc
  Endpoints = {bi, ol}
  Builtin = bi
  Placeholder = ol
  Probed = {ol}
  ModelsOf <- MCModelsOf
  Family <- MCFamily
  NoneYet = none
  MaxPicks = 1
  MaxOutages = 2
  StreamSessions = {s1}
  MaxTurn = 3
  MaxQueue = 2
  MaxServers = 2
  MaxUpsets = 2
  MaxCommands = 3
  MaxHalts = 1
  Cap = 2
  PipeSize = 1
  MaxBlocks = 4
  MaxSkipped = 2
  MaxPages = 2
  MaxLines = 2
INVARIANTS ReportTypeOK ChoiceSafe StreamsSafe RunnersSafe ToolsSafe
PROPERTIES Settles
CHECK_DEADLOCK FALSE
