SPECIFICATION SessionsSpec
CONSTANTS
  MaxOps = 4
  ClearsAlone = TRUE
  Sessions = {s1, s2}
  NoSession = null
  MaxMessages = 2
  MaxGestures = 3
  MaxSaves = 1
  MaxLaunches = 2
  Runs = {1, 2}
  Dialects = {"react", "protocol", "smallcode"}
  Calls = 2
  MaxLines = 4
  TaskTypes = {t1, t2}
  Nodes = {1, 2, 3}
  NodeSets = {{1}, {1, 2, 3}}
  NoBundle = null
  Compiles = {c1}
  MaxEdges = 3
  MaxCompiles = 3
  MaxDeaths = 1
INVARIANTS SessionsTypeOK CheckpointsSafe HistorySafe WorkSafe 
PROPERTIES NoMessageLost ArchiveCatchesUp
CHECK_DEADLOCK FALSE
