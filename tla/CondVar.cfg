CONSTANTS
  t1 = t1
  t2 = t2
  t3 = t3
  t4 = t4
  ca = ca
  cb = cb
  la = la
  NULL = NULL
  Threads = {t1, t2, t3, t4}
  Locks = {la}
  CVs = {ca, cb}
  Addrs = {la, ca, cb}
  FreshOwner <- Zeroed
  LockOf <- SharedLock
  SignalCVs = {ca}
  SignalIndex = {0, 1}
SPECIFICATION CvSpec
INVARIANTS CvTypeOK HoldIsTruth NoSleeperOnFree  StopsInSignal
CHECK_DEADLOCK FALSE
