SPECIFICATION Spec
CONSTANTS
  yubikey = yubikey
  phone = phone
  Creds <- Both
  Registered = {yubikey}
  Counting = {yubikey}
  LabelOf <- OneLabel
  PrefixesOf <- OnePrefix
  Nonces = {n1, n2}
  Posts = {r1, r2}
  Admins = {a1, a2}
  None = None
  MaxPending = 1
  LoginTtl = 1
  TokenTtl = 1
  EnvelopeTtl = 0
  MaxTime = 1
  MaxRestarts = 1
INVARIANTS
  TypeOK
  StoreMatchesAdmin
  OneTokenPerNonce
  NewestAssertionPasses
PROPERTY ImplementsStore
SYMMETRY PasskeySymmetry
CHECK_DEADLOCK FALSE
