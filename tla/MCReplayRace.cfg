SPECIFICATION Spec
CONSTANTS
  d1 = d1
  d2 = d2
  Free = Free
  Dispatchers <- MCDispatchers
  Msgs <- MCMsgs
  MaxMsgs = 1
  Scenarios <- MCReplayed
SYMMETRY Threads
INVARIANT NeverReplayed
CHECK_DEADLOCK FALSE
