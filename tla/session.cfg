SPECIFICATION Spec
CONSTANTS
  Streams = {s1, s2}
  Sizes = {z1, z2}
  None = None
  NoSize = NoSize
  InitialSize = z1
  BroadcastCap = 2
  ScrollbackCap = 1
  InputCap = 1
  MaxChunk = 2
  MaxOutput = 2
  MaxRequests = 2
SYMMETRY StreamSymmetry
INVARIANTS
  NoStaleAttachment
  OneSelf
  NoDupNoGap
PROPERTY ImplementsLease
CHECK_DEADLOCK FALSE
