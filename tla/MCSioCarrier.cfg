SPECIFICATION Spec
CONSTANTS
  Site <- Sites
  None = None
  MaxFrames = 3
INVARIANTS CarrierInv ExactlyOnce InOrder
CHECK_DEADLOCK FALSE
