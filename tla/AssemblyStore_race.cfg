SPECIFICATION Spec
CONSTANTS
  Threads = {t1, t2}
  NoThread = nobody
  Sources <- MCSources
  Requests <- MCRequests
INVARIANT NothingBadHappens
CHECK_DEADLOCK FALSE
