SPECIFICATION StoresSpec
CONSTANTS
  BridgeBounds <- MCBridgeBounds
  CronBounds <- MCCronBounds
  Readers <- MCReaders
  LogBounds <- MCLogBounds
CHECK_DEADLOCK FALSE
INVARIANTS
  SubmittedOnce
  SentOnce
  EndedMeansOneInvocation
  ReplyConfirmsOne
  OutcomesAreQueued
  DecisionsCoverEvents
  ReportedOutcomeStands
  OrphanIsRecoverable
  NoResultIsLost
  ResultsKeepTheirGrant
  AppendedIsAccountedFor
  BackfillIsComplete
