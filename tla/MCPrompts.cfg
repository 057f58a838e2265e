SPECIFICATION Spec
CONSTANTS
  d1 = d1
  d2 = d2
  Free = Free
  Dispatchers <- MCDispatchers
  Msgs <- MCMsgs
  MaxMsgs = 2
  Scenarios <- MCDelivered
SYMMETRY Threads
INVARIANTS
  NoStrandedHead
  ForegroundAgrees
  PromptFindsHelperFree
  NothingLost
  ClaimIsOwned
PROPERTIES
  ImplementsDelivery
CHECK_DEADLOCK FALSE
