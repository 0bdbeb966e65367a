SPECIFICATION Spec
CONSTANTS
  Groups <- TwoActions
  GroupSize = 2
  SizeOf <- SmallFiles
  None = None
  MaxPastes = 2
  MaxGroups = 1
  MaxBytes = 2
  WireCap = 1
  MaxFrames <- FrameBound
INVARIANTS
  TypeOK
  WholeGroups
  DiskAccounted
  CleanupMissesOnlyDropped
CHECK_DEADLOCK FALSE
