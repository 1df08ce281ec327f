SPECIFICATION Spec
CONSTANTS
  Responses <- MCResponses
  Arguments <- MCArguments
  MaxSize = 4
  Rules <- MCRules
  CandidateSets <- MCCandidateSets
  Site <- MCSite
  Function <- MCFunction
  CallSite <- MCCallSite
  Entry <- MCEntry
  Traces <- MCTraces
  Binaries <- MCBinaries
INVARIANTS
  TypeOK
  RewriteIsFaithful
  TablesAreExact
  EveryCallIsAccounted
  CandidatesAreFound
CHECK_DEADLOCK FALSE
