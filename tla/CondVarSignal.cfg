CONSTANTS
  t1 = t1
  t2 = t2
  t3 = t3
  ca = ca
  cb = cb
  la = la
  NULL = NULL
  Threads = {t1, t2, t3}
  Locks = {la}
  CVs = {ca, cb}
  Addrs = {la, ca, cb}
  FreshOwner <- Zeroed
  LockOf <- SharedLock
  SignalCVs = {ca, cb}
  SignalIndex = {0}
SPECIFICATION CvSpec
PROPERTY SignalWakesOne
CHECK_DEADLOCK FALSE
