SPECIFICATION FairSpec
CONSTANTS
  d1 = d1
  d2 = d2
  Free = Free
  Dispatchers <- MCDispatchers
  Msgs <- MCMsgs
  MaxMsgs = 1
  Scenarios <- MCAnswered
PROPERTIES
  EveryPromptIsAnswered
CHECK_DEADLOCK FALSE
