CONSTANTS
  THREAD_COUNT = 2
  M = 2
  N = 4
  K = 4
  Inputs <- Samples
SPECIFICATION Spec
INVARIANTS MatrixTypeOK NoLostUpdate ProductAtEnd
PROPERTY Terminates
CHECK_DEADLOCK FALSE
