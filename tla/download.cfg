SPECIFICATION FairSpec
CONSTANTS
  Sizes = {1, 2}
  ChanCap = 2
  PipeCap = 1
  MaxInflight = 1
  MaxDownloads = 2
  MaxSessions = 2
  MaxReconnects = 1
INVARIANTS
  SavedIntact
  ExitFlushesEnds
PROPERTY ExitEndsStream
CHECK_DEADLOCK FALSE
