SPECIFICATION SafeSpec
CONSTANTS
  Sessions = {s1}
  NoSession = NoSession
  MaxGen = 4
  MaxEvents = 1
  Kinds = {"tool", "toolend", "ask"}
  Gestures = {"restart", "noproject"}
INVARIANTS TypeOK ShownIffCurrentActive FinishedIsQuiet HandleInFlight TornDownIsOver
PROPERTIES OnlyOwnerClears 
CHECK_DEADLOCK FALSE
