SPECIFICATION FairSpec
CONSTANTS
  init = init
  issue1 = issue1
  issue2 = issue2
  revoke = revoke
  m = m
  o = o
  Admins <- FourAdmins
  CommandOf <- OneOfEach
  Machines = {m}
  Outs = {o}
  Headers = {h1}
  Upgrades = {u1, u2}
  Ahead = {1}
  None = None
  SkewSecs = 1
  MaxTime = 5
  MaxRestarts = 1
INVARIANTS
  PairsMatch
  
PROPERTIES
  ChangesAreAtomic
  RevocationHolds
  AllowedGetsIn
CHECK_DEADLOCK FALSE
