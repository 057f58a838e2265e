SPECIFICATION Spec
CONSTANTS
  d1 = d1
  d2 = d2
  Free = Free
  Dispatchers <- MCDispatchers
  Msgs <- MCMsgs
  MaxMsgs = 2
  Scenarios <- MCLost
SYMMETRY Threads
INVARIANT WakeupIsConsumed
CHECK_DEADLOCK FALSE
