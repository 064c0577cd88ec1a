SPECIFICATION Spec
CONSTANTS
  FirstSpeed = "3"
  Cube <- CornerCube
  Turn <- CornerTurn
  Digit <- CornerDigit
  Effect <- CornerEffect
  Solved <- CornerSolved
  Unknown = Unknown
  Solution <- CornerSolution
  SolverFails = TRUE
  Glare = FALSE
  Moves <- CornerMoves
  Rotation <- CornerRotation
  CalState <- CornerCalState
  Shown <- CornerShown
  CalFile <- CornerFiles
  CalSpeed = "3"
  SolveSpeed = "3"
  Keys = {"F1", "F2", "moves", "F7", "["}
  Resets = FALSE
  MaxWire = 1
INVARIANTS
  TurnsAsOrdered
PROPERTIES
  CalibrationIsRight
