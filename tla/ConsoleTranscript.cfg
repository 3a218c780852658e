SPECIFICATION BothSpec
CONSTANTS
  Kinds = {"drags", "line"}
  Streams = {"Output"}
  Characters = {"n", "LF"}
  TabStop = 2
  Columns = {2}
  Heights = {3}
  MaxEntries = 2
  MaxLines = 2
  MaxLength = 2
  MaxScroll = 0
  MaxTouch = 2
CHECK_DEADLOCK FALSE
INVARIANTS RowsShowTheText CopiesWhatIsShown
