CONSTANTS
  b = b
  t1 = t1
  t2 = t2
  clk = clk
  d = d
  NULL = NULL
  Threads = {b, t1, t2}
  Boot = b
  Addrs = {clk, d}
  FreshStruct <- Flagged
  MAXMENUARGS = 3
  BootLines <- Boots
  InputLines <- Inputs
  lbolt = clk
  dev = d
SPECIFICATION MenuSpec
INVARIANTS MenuTypeOK BootLineDone
PROPERTY MenuReturns
CHECK_DEADLOCK FALSE
