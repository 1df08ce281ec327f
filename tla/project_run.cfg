SPECIFICATION Spec
CONSTANTS
  NumTargets = 2
  MaxRuns = 2
INVARIANTS
  TypeOK
  RowsOfThisRun
  CutTraceIsFailed
  ProgressIsPersisted
  FinishedRunIsReported
CHECK_DEADLOCK FALSE
