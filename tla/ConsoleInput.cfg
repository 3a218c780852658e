SPECIFICATION FairSpec
CONSTANTS
  HoldTime = 2
  TapTime = 1
  Kinds = {"key", "other key", "wheel", "right press", "press", "mouse move", "release", "swipe", "pinch", "hover"}
  Paces = {TRUE, FALSE}
  MaxQueue = 1
CHECK_DEADLOCK FALSE
INVARIANTS HoldsAreSound ViewIsFresh
PROPERTIES HoldActs
