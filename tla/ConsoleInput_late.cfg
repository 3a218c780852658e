SPECIFICATION Spec
CONSTANTS
  HoldTime = 2
  TapTime = 1
  Kinds = {}
  Paces = {FALSE}
  MaxQueue = 2
CHECK_DEADLOCK FALSE
INVARIANTS ActsOnExpiry
