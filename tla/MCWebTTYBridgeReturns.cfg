\* webtty.go:170: Run returns when its connection is closed.
CONSTANTS
  Sessions = 2
  Outputs <- PlainOutputs
  MaxInput = 1
  ErrsCap = 2
  InitMessages = 1
  HasStartFlag = FALSE
CHECK_DEADLOCK FALSE
SPECIFICATION FairSpec
PROPERTIES ClosedConnEndsRun
