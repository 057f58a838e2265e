SPECIFICATION Spec
CONSTANTS
  Scopes <- MCScopes
INVARIANTS
  DoubtOnRetirement
  OneRequestOnTheWire
  NoWaitForRetiredHelper
PROPERTIES
  OwnershipIsExclusive
  ClearedBlockerIsAnnounced
  OldQueryIsInert
  DoubtSurvivesLateAck
  PermissionBarrier
  SteerIsDecidedOnce
