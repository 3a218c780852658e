SPECIFICATION FairSpec
CONSTANTS
  Readers = {r1}
  Writer = w
  Parts = 2
  MaxFrames = 4
  SerialAttach = TRUE
CHECK_DEADLOCK FALSE
INVARIANTS NoTornFrame
PROPERTIES NeverGoesBack ImplementsLatestFrame WriterNeverWaits AcquireReturns
