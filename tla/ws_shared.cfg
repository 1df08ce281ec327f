SPECIFICATION Spec
CONSTANTS
  Suites = {s1, s2}
  Pids = {p1, p2}
  UserPids = {p1}
  Nobody = Nobody
  User = User
  MaxTests = 1
  MaxMishaps = 1
  Mishaps = {"oserror", "crash", "interrupt"}
  ForkDuringScan = FALSE
INVARIANTS
  UserTracesSafe
  CollectsOwnRows
  PassedHasOwnTraces
  QuietCollection
  HandsBackDirectory
  OneTracedRun
SYMMETRY Symmetry
CHECK_DEADLOCK FALSE
