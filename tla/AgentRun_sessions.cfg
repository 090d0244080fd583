SPECIFICATION SafeSpec
CONSTANTS
  Sessions = {s1, s2}
  NoSession = NoSession
  MaxGen = 2
  MaxEvents = 0
  Kinds = {}
  Gestures = {"navigate", "restart", "delete"}
INVARIANTS ShownIffCurrentActive
SYMMETRY Symmetry
CHECK_DEADLOCK FALSE
