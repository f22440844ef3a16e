\* One run, or two runs on one shell; Close at any time.
CONSTANTS
  Runs = 2
  Portions = 3
  MaxInput = 3
  Commands <- MCCommands
  FilterMap <- MCFilterMap
  QuitCap = 3
  Closes = TRUE
CHECK_DEADLOCK FALSE
SPECIFICATION MCSpec
INVARIANTS Inv FilterSeesLine
PROPERTIES QuitTogether
