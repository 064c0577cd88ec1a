SPECIFICATION Spec
CONSTANTS
  Handle = {a, b}
  Cameras <- SomeCameras
CHECK_DEADLOCK FALSE
INVARIANTS
  ChainsSound
  StatusFollowsUsers
  NobodyHoldsTheDeleted
PROPERTY
  GoneIsDeleted
