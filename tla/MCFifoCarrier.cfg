SPECIFICATION Spec
CONSTANTS
  Site <- Sites
  PayloadWords = {0, 1, 33}
  FifoDepth = 4
  None = None
  MaxFrames = 2
INVARIANTS ReceiveInv WholeFrames
PROPERTIES ChannelUntilCut SendCompletes
CHECK_DEADLOCK FALSE
