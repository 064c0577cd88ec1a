CONSTANTS
  MaxWorkers = 2
  Cube = {c1, c2}
  NoCube = none
  MaxTime = 2
  PrefixTime <- MCPrefixTime
  FailuresBeatTarget = TRUE
SPECIFICATION FairSpec
INVARIANTS
  NoPickRace
  AnswersTheRequest
  NoLostWakeup
PROPERTIES
  RequestsNotOverwritten
  CleanRoundSucceeds
  CallsReturn
