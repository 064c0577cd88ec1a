SPECIFICATION CubeSpec
CONSTANT MaxTurns = 2
CHECK_DEADLOCK FALSE
INVARIANTS
  LevelsAgree
  PhasesAsDocumented
  SearchMirrorsTheCube
  VerdictsAsDocumented
PROPERTY TurnsACube
