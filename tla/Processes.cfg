CONSTANTS
  MAX_COUNT = 3
  Entered <- Values
SPECIFICATION Spec
INVARIANTS ProcTypeOK MessagesDelivered OutputInOrder PrintedOnce ValuesShown KilledByFailure
PROPERTY Terminates
CHECK_DEADLOCK FALSE
