SPECIFICATION Spec
CONSTANTS
  Listings <- MCListings
  Identities = {i1, i2}
  Unknown = Unknown
  MaxSelected = 2
  MaxRuns = 3
INVARIANTS
  TypeOK
  ExitZeroIsEarned
  AggregatesMatchStored
  AggregatesAgree
PROPERTIES
  EmptySelectionLeavesNothing
SYMMETRY Symmetry
CHECK_DEADLOCK FALSE
