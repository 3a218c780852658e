SPECIFICATION FairSpec
CONSTANTS
  MaxId = 2
  MaxOpens = 2
  MaxSent = 2
  MaxWritten = 1
  MaxTimeouts = 1
  MaxRestarts = 1
CHECK_DEADLOCK FALSE
INVARIANTS ReadsAreWhole ProtocolIsKept WriteIsAccepted
PROPERTIES WriteReturns
