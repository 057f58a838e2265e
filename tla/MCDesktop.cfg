SPECIFICATION DesktopSpec
CONSTANTS
  Msgs = {m1, m2, m3}
  Fences <- MCFences
  MaxClaims = 3
  MaxClears = 1
  MaxHelpers = 2
  MaxHandoffs = 2
  MaxPrompts = 1
  MaxDeaths = 1
  RetryBudget = 2
  MaxTombstones = 1
  WebBounds <- MCWebBounds
SYMMETRY MsgSymmetry
CHECK_DEADLOCK FALSE
INVARIANTS
  TypeOK
  OnlyHeadIsOut
  ClaimCarriesNewestId
  EachMessageAccounted
  FifoOrder
  QueuedOnce
  OneWriter
  ReservationIsOwned
  PanelsAreSaved
  ClosedStaysClosed
  WaitingIsServed
PROPERTIES
  ClaimedBatchIsFrozen
