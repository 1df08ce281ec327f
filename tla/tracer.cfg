SPECIFICATION Spec
CONSTANTS
  Pids = {p1, p2}
  Threads = {t1, t2}
  Sites = {c1, c2}
  Targets = {f1, f2}
  NotRecorded = NotRecorded
  None = None
  Copies = {1, 2}
  MaxCalls = 2
  MaxFailures = 1
INVARIANTS
  TypeOK
  EdgeTraceIsHistory
  FastTraceIsCoverage
  NoForeignSites
SYMMETRY Symmetry
CHECK_DEADLOCK FALSE
