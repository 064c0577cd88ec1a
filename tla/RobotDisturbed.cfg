SPECIFICATION LiveSpec
CONSTANTS
  FirstSpeed = "1"
  Cube <- MCCube
  Turn <- MCTurn
  Digit <- MCDigit
  Effect <- MCEffect
  Solved = 0
  Unknown = Unknown
  Solution <- MCSolution
  SolverFails = FALSE
  Glare = TRUE
  Moves <- MCMoves
  Rotation <- MCNone
  CalState <- MCNone
  Shown <- MCShown
  CalFile <- MCFiles
  CalSpeed = "3"
  SolveSpeed = "1"
  Keys = {"F10", "]"}
  Resets = TRUE
  MaxWire = 1
INVARIANTS
  MotorsOffAfterProgram
  EchoAccountsForCommands
PROPERTIES
  SolvedTimeIsTrue
  AbortStopsMotors
  RunsEnd
