SPECIFICATION Spec
CONSTANTS
  Sessions = {s1}
  NoSession = NoSession
  MaxGen = 3
  MaxEvents = 1
  Kinds = {"text"}
  Gestures = {"pause", "restart"}
PROPERTY KilledRunEnds
CHECK_DEADLOCK FALSE
