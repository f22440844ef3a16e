\* Two keys, two slaves and goroutines that outlive their registrations.
CONSTANTS
  Key = {k1, k2}
  Caller = {c1, c2}
  Slave = {s1, s2}
  Recycler = {r1, r2}
  KeepAlive = {0, 2}
  Slack = 1
  None = None
SPECIFICATION FairSpec
INVARIANT Safe
PROPERTIES CloseOnlyWhenIdle Implements EventuallyDropped
