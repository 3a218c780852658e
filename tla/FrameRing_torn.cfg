SPECIFICATION Spec
CONSTANTS
  Readers = {r1, r2}
  Writer = w
  Parts = 2
  MaxFrames = 3
  SerialAttach = TRUE
CHECK_DEADLOCK FALSE
INVARIANTS NoTornFrame
