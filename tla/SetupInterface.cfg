SPECIFICATION Spec
CONSTANTS
  LastStep = 2
  Acquire = 2
  Folders = {"a", "b"}
  MaxQueue = 2
  MaxLines = 1
CHECK_DEADLOCK FALSE
INVARIANTS BuildIsShown ScreenIsFresh PackagesAsAnswered
