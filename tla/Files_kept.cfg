SPECIFICATION KeptSpec
CONSTANTS
  r1 = r1
  r2 = r2
  q1 = q1
  q2 = q2
  Typings = {t1, t2}
  Edits = {e1}
  Others = {o1}
  MaxSaves = 1
  MaxForeign = 1
  Projects = {p1, p2}
  Imported = {p1}
  NoProject = none
  MaxOpens = 2
  MaxConfigSaves = 2
  MaxSettings = 1
  MaxCrashes = 1
  MaxDownloads = 2
  Chunks = 2
  MaxEvents = 2
  Repos = {r1, r2}
  Tree <- MCTree
  Owner <- MCOwner
  Labels = {q1, q2}
  Queries = {x, y}
  NoQuery = none
  NoRepo = none
  NoLabel = none
  MaxSearches = 2
  ma = ma
  Folders = {f1, f2}
  NoFolder = none
  Jobs = {j1}
  MaxSwitches = 3
  MaxVanishes = 1
  ServerNames = {n1, n2}
  ServerCommands = {ma, mb}
  Unset = none
  MaxCalls = 2
  MaxLists = 2
INVARIANTS KeptTypeOK   ModelsSafe
PROPERTIES TypedSurvives PickNeverDeadEnds
CHECK_DEADLOCK FALSE
