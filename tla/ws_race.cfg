SPECIFICATION Spec
CONSTANTS
  Suites = {s1}
  Pids = {p1, p2, p3}
  UserPids = {}
  Nobody = Nobody
  User = User
  MaxTests = 1
  MaxMishaps = 0
  Mishaps = {}
  ForkDuringScan = TRUE
INVARIANTS
  QuietCollection
SYMMETRY Symmetry
CHECK_DEADLOCK FALSE
