\* One instance that registers again and again, one client.
CONSTANTS
  Service = {s1}
  Watcher = {w1}
  MaxLeases = 3
CHECK_DEADLOCK FALSE
SPECIFICATION FairSpec
INVARIANTS Safe KeyHasLease
PROPERTIES EventuallyCurrent CrashedGoAway
