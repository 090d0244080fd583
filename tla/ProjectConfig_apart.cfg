SPECIFICATION ConfigSpec
CONSTANTS
  Projects = {p1, p2}
  Imported = {p1, p2}
  NoProject = none
  MaxOpens = 2
  MaxConfigSaves = 3
  MaxSettings = 1
  MaxCrashes = 0
INVARIANT ConfigsStayApart
CHECK_DEADLOCK FALSE
