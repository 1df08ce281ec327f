SPECIFICATION FairSpec
CONSTANTS
  Suites = {s1}
  Pids = {p1, p2, p3}
  UserPids = {p1}
  Nobody = Nobody
  User = User
  MaxTests = 1
  MaxMishaps = 1
  Mishaps = {"oserror", "interrupt"}
  ForkDuringScan = FALSE
INVARIANTS
  IndInv
PROPERTIES
  LockIsReleased
CHECK_DEADLOCK FALSE
