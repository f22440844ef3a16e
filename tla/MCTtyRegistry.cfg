\* Two keys, two callers, two slaves and two WebTTYs: safety and refinement.
CONSTANTS
  Key = {k1, k2}
  Caller = {c1, c2}
  Reader = {g1}
  Slave = {s1, s2}
  Recycler = {r1, r2}
  Tty = {t1, t2}
  TtyRecycler = {q1, q2}
  KeepAlive = {1}
  TtyKeepAlive = {1}
  Slack = 0
  None = None
SYMMETRY Symmetry
SPECIFICATION Spec
INVARIANT Safe
PROPERTIES Implements
