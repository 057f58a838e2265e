SPECIFICATION DesktopSpec
CONSTANTS
  Msgs = {m1, m2, m3}
  Fences <- MCFences
  MaxClaims = 0
  MaxClears = 0
  MaxHelpers = 1
  MaxHandoffs = 0
  MaxPrompts = 1
  MaxDeaths = 0
  RetryBudget = 2
  MaxTombstones = 1
  WebBounds <- MCWebBounds
SYMMETRY MsgSymmetry
CHECK_DEADLOCK FALSE
INVARIANT RegisteredIsShown
