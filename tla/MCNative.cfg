SPECIFICATION NativeSpec
CONSTANTS
  Threads = {t1, t2}
  NoThread = nobody
  Sources <- MCSources
  Requests <- MCRequests
  Processes = {p1, p2}
  Loader = p1
  Starts = {1, 2}
INVARIANTS OpensItsOwnImage LoadedIsWhole AcceptsWhatResolves SetupLibraryLoads LoadIsFaithful ProtectionsSettle FeaturesAgree ReadsBack
PROPERTIES OpenReturns RelroKeepsContents GoesForward
CHECK_DEADLOCK FALSE
