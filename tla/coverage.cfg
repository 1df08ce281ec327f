SPECIFICATION Spec
CONSTANTS
  PageSize = 4
  Radix = 2
  Images <- MCImages
  LoadBiases = {0, 8}
  Tests = {t1, t2}
  LibuvCompat = TRUE
  MaxCalls = 3
INVARIANTS
  TypeOK
  CoverageIsExact
  SourceCallsCount
  EdgesAreObserved
  AddressesRoundTrip
SYMMETRY Symmetry
CHECK_DEADLOCK FALSE
