SPECIFICATION BothSpec
CONSTANTS
  Kinds = {"drags"}
  Streams = {"Output"}
  Characters = {"n", "LF"}
  TabStop = 2
  Columns = {2}
  Heights = {2, 3}
  MaxEntries = 2
  MaxLines = 2
  MaxLength = 2
  MaxScroll = 0
  MaxTouch = 2
CHECK_DEADLOCK FALSE
INVARIANTS SelectionHasBothEnds
