SPECIFICATION ConnFairSpec
CONSTANTS
  Tasks = {t1, t2}
  MaxShells = 1
  MaxConns = 2
  HubCap = 1
  StreamCap = 1
INVARIANTS
  AttachmentsBacked
  NoStreamForgotten
PROPERTIES
  DetachedOnlyByReuse
  ConnectionWindsDown
CHECK_DEADLOCK FALSE
