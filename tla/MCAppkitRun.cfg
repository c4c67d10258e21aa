SPECIFICATION Spec
CONSTANTS
  Image <- Images
  NoRole = NoRole
  MaxFrames = 3
INVARIANTS RunInv ReturnsQuiescent
PROPERTIES FrameServed HostRunEnds
CHECK_DEADLOCK FALSE
