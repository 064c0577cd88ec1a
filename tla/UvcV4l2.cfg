SPECIFICATION Spec
CONSTANTS
  Unit = 10000000
  Word = 2147483647
  RestrictRate = FALSE
  OldVersion = FALSE
  Thread = {t1, t2}
  Handle = {a, b}
  None = none
  Shared = FALSE
  Descriptors <- Cameras
  Requests <- Asks
  Fractions <- Rates
  Sizes = {5, 7}
  Payloads = {800, 4000}
  Packets = {128, 5120}
  Quirks = {"FIX_BANDWIDTH"}
INVARIANTS
  OwnerHolds
  BuffersFit
  NearestChosen
PROPERTY
  IsLock
