CONSTANTS
  t1 = t1
  t2 = t2
  la = la
  NULL = NULL
  Junk = Junk
  Threads = {t1, t2}
  Locks = {la}
  Addrs = {la}
  FreshOwner <- Recycled
SPECIFICATION Spec
INVARIANT NoSleeperOnFree
CHECK_DEADLOCK FALSE
