CONSTANTS
  boot = boot
  t1 = t1
  t2 = t2
  a = a
  NULL = NULL
  Threads = {boot, t1, t2}
  Boot = boot
  Addrs = {a}
  FreshStruct <- Flagged
SPECIFICATION Spec
INVARIANTS LifeTypeOK TurnsAccounted NumthreadsOK ChildrenAlive StopsInSearches CwdCounted
PROPERTY Reclaimed
CHECK_DEADLOCK FALSE
