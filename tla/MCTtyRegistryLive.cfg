\* One key, one caller that comes back, two seconds between looks: WebTTYs go away in time, the lock is released.
CONSTANTS
  Key = {k1}
  Caller = {c1}
  Reader = {g1}
  Slave = {s1, s2}
  Recycler = {r1, r2}
  Tty = {t1, t2}
  TtyRecycler = {q1, q2}
  KeepAlive = {1}
  TtyKeepAlive = {2}
  Slack = 0
  None = None
SPECIFICATION FairSpec
INVARIANT TtyIdleBound
PROPERTIES EventuallyDropped
