SPECIFICATION Spec
CONSTANTS
  Buffer = {1, 2}
  FrameLen = 2
  DropCorrupted = TRUE
  Urbs = 2
  PerUrb = 1
INVARIANTS
  OneOwner
  WholeFrames
  NobodyWaitsInVain
  ClockOutlivesUrbs
PROPERTIES
  NoticeEnds
CHECK_DEADLOCK FALSE
