SPECIFICATION Spec
CONSTANTS
  MaxEvents = 4
  MaxConns = 1
  SendQueue = 1
  MaxPending = 1
  ReplayLimit = 4
CHECK_DEADLOCK FALSE
INVARIANT NoGapAfterReconnecting
