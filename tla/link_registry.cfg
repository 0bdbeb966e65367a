SPECIFICATION TaskSpec
CONSTANTS
  Conns = {c1, c2}
  Proxies = {p1}
  None = None
  MaxStreams = 1
  ChanCap = 1
  WriterCap = 1
  MaxFrames = 2
INVARIANTS
  MapIsNewestLink
  StreamHasNoGap
  NoLeakedStream
PROPERTY TornDownProxyEnds
CHECK_DEADLOCK FALSE
