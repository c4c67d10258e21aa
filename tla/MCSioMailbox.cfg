SPECIFICATION Spec
CONSTANTS
  t0 = t0
  t1 = t1
  t2 = t2
  Tx <- MCTx
  CoreOf <- MCCoreOf
  Frame <- MCFrame
  NoFrame = NoFrame
  NoTx = NoTx
  SIO_FRAME_BYTES = 2
  MaxFrames = 2
INVARIANTS SlotExclusive MailboxInv
PROPERTIES NoRetraction ChannelSpec
