SPECIFICATION LineSpec
CONSTANTS
  Cube = {0, 1}
  Turn = {"a"}
  Digit = {"1"}
  Effect <- MCEffect
  FirstSpeed = "1"
  Bytes <- MCBytes
  Strings <- MCStrings
  TtyRoom = 2
  ReadBuffer = 2
  MayFail = TRUE
  MaxCommands = 4
  MaxGreeted = 2
  MaxBytes = 6
CHECK_DEADLOCK FALSE
INVARIANTS
  OffMeansOff
PROPERTIES
  EchoesInOrder
  StreamsInOrder
  BytesArrive
