SPECIFICATION ManagerSpec
CONSTANTS
  Ids = {a, b}
  Tasks = {t1, t2}
  MaxSessions = 2
  MaxSpawns = 2
  MaxKills = 0

INVARIANT NoOrphanShell
CHECK_DEADLOCK FALSE
