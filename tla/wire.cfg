SPECIFICATION Spec
CONSTANTS
  Tabs = {3, 5}
  Bodies <- BoundaryBodies
  SidTexts <- BoundarySids
  PtyReads <- BoundaryReads
  MaxSessions = 64
  MaxTotal = 2
INVARIANTS
  RelayKeepsLink
  DeliveredIntact
CHECK_DEADLOCK FALSE
