SPECIFICATION RuntimeSpec
CONSTANTS
  ma = ma
  mb = mb
  MaxRestarts = 2
  MaxProcs = 5
  MaxUser = 0
  MaxFaults = 3
  MaxLaunches = 2
  SpawnMayFail = {"auto"}
  MaxServed = 2
  Capacity = 1
  ServedModels = {ma, mb}
  NoModel = none
  Fits <- MCFits
  MaxStarts = 2
  MaxTurns = 2
  Urls = {re, lo}
  Local = {lo}
  Adding = new
  MaxWrites = 2
  MaxGestures = 3
  MaxSessions = 2
INVARIANTS RuntimesTypeOK ServerSafe ExternalSafe
PROPERTIES RuntimesSettle
CHECK_DEADLOCK FALSE
