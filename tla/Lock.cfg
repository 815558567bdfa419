CONSTANTS
  t1 = t1
  t2 = t2
  t3 = t3
  t4 = t4
  la = la
  lb = lb
  NULL = NULL
  Junk = Junk
  Threads = {t1, t2, t3, t4}
  Locks = {la, lb}
  Addrs = {la, lb}
  FreshOwner <- Zeroed
SPECIFICATION Spec
INVARIANTS LockTypeOK Placement MutualExclusion HoldIsTruth NoSleeperOnFree
PROPERTY ImplementsMutex
CHECK_DEADLOCK FALSE
