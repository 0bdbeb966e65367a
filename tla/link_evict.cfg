SPECIFICATION FairSpec
CONSTANTS
  Conns = {c1, c2}
  Proxies = {p1}
  None = None
  MaxStreams = 1
  ChanCap = 1
  WriterCap = 1
  MaxFrames = 0

PROPERTY EvictedLinkEnds
CHECK_DEADLOCK FALSE
