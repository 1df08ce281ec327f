SPECIFICATION Spec
CONSTANTS
  NumUnits = 2
  Contents = {a, b}
  MaxRuns = 3
  MaxFailures = 3
INVARIANTS
  Recoverable
  ReportsPointAtIR
  ReportIsComplete
  IndInv
PROPERTIES
  ImplementsContract
SYMMETRY Symmetry
CHECK_DEADLOCK FALSE
