CONSTANTS
  t1 = t1
  t2 = t2
  t3 = t3
  t4 = t4
  ca = ca
  cb = cb
  la = la
  NULL = NULL
  Threads = {t1, t2, t3, t4}
  Locks = {la}
  CVs = {ca, cb}
  Addrs = {la, ca, cb}
  FreshOwner <- Zeroed
  LockOf <- SharedLock
  SignalCVs = {}
  SignalIndex = {0}
SPECIFICATION CvSpec
INVARIANT Placement
PROPERTY ImplementsMonitor
CHECK_DEADLOCK FALSE
