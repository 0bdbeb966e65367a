SPECIFICATION ManagerFairSpec
CONSTANTS
  Ids = {a, b}
  Tasks = {t1, t2}
  MaxSessions = 1
  MaxSpawns = 2
  MaxKills = 1
INVARIANTS
  MapCapped
  DoomedUnmapped
PROPERTY ExitedCollected
CHECK_DEADLOCK FALSE
