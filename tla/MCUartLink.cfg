SPECIFICATION Spec
CONSTANTS
  Site <- Sites
  PayloadLen = {0, 1}
  MAGIC_LEN = 2
  UART_CARRIER_HEADER_BYTES = 3
  PROOF_CARRIER_QUEUE_DEPTH = 2
  RX_RING_CAP = 3
  None = None
  MaxFrames = 3
  MaxLosses = 1
INVARIANTS LinkInv NothingLost
PROPERTY Delivered
CHECK_DEADLOCK FALSE
