SPECIFICATION SidecarSpec
CONSTANTS
  MaxRestarts = 1
  MaxProcs = 3
  MaxUser = 1
  MaxFaults = 1
  MaxLaunches = 2
  SpawnMayFail = {"boot", "auto", "user"}
INVARIANTS Supervised OneCurrentWatcher
CHECK_DEADLOCK FALSE
