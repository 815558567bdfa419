CONSTANTS
  t1 = t1
  t2 = t2
  t3 = t3
  t4 = t4
  sa = sa
  sb = sb
  NULL = NULL
  Threads = {t1, t2, t3, t4}
  Sems = {sa, sb}
  Addrs = {sa, sb}
  IntMax = 2
SPECIFICATION Spec
INVARIANTS SemTypeOK Placement NoLostWakeup CountOK
PROPERTY ImplementsAtomic
CHECK_DEADLOCK FALSE
