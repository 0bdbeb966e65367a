SPECIFICATION Spec
CONSTANTS
  Texts <- Texts21
  MaxTyped = 2
  QueueLen = 1
  PtyBuf = 2
  MaxOsc = 3
  MaxCsi = 2
INVARIANTS
  ForwardsReference
  QueriesAnswered
  ExitAfterOutput
PROPERTIES
  OutputFlows
  ThreadsEnd
CHECK_DEADLOCK FALSE
