\* One browser with gated output, or two on one slave, one after the other.
CONSTANTS
  Sessions = 2
  Outputs <- MCOutputs
  MaxInput = 1
  ErrsCap = 2
  InitMessages = 1
  HasStartFlag = TRUE
CHECK_DEADLOCK FALSE
SPECIFICATION MCSpec
INVARIANT Safe
PROPERTIES NoneLeft ClosedConnEndsLoneRun
