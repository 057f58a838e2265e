SPECIFICATION StoresSpec
CONSTANTS
  BridgeBounds <- MCBridgeBounds
  CronBounds <- MCCronBounds
  Readers <- MCReaders
  LogBounds <- MCLogBounds
CHECK_DEADLOCK FALSE
INVARIANT AttentionMatchesEvents
