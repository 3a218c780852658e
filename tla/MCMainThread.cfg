SPECIFICATION MainSpec
CONSTANTS
  PointerSizes = {4, 8}
  StoreEntries <- MCStoreEntries
  Requests <- MCRequests
  MaxActivities = 2
  MaxWindows = 3
INVARIANTS CallbacksLeaveNothing WindowGoesClean HostHandsOver CaretIsSound
PROPERTIES DraftIsRestored CompletionKeepsTyping
CHECK_DEADLOCK FALSE
