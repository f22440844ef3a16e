\* ssh_session.go:199: output reaches the websocket.
CONSTANTS
  Runs = 1
  Portions = 2
  MaxInput = 0
  Commands = {}
  FilterMap = {}
  QuitCap = 3
  Closes = FALSE
CHECK_DEADLOCK FALSE
SPECIFICATION Spec
INVARIANTS OutputSent
