CONSTANTS
  boot = boot
  t1 = t1
  t2 = t2
  NULL = NULL
  Threads = {boot, t1, t2}
  Boot = boot
  Addrs = {}
  FreshStruct <- Unassigned
SPECIFICATION Spec
SYMMETRY Symmetry
INVARIANT DescriptorRetained
CHECK_DEADLOCK FALSE
