CONSTANTS
  MaxWorkers = 2
  Cube = {c1}
  NoCube = none
  MaxTime = 2
  PrefixTime <- MCPrefixTime
  FailuresBeatTarget = FALSE
SPECIFICATION Spec
INVARIANTS
  ReturnedSolutionValid
