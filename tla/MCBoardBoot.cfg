CONSTANTS
  Site <- MCSite
  PolicyImage = "timer"
  Cells = 2
  EPF_TAP_SPOOL_EVENTS = 1
  None = "none"
  Mixed = "mixed"
  MaxEvents = 2
  MaxUploads = 2
  CORE1_LAUNCH_RETRIES = 2
  FifoDepth = 4
SPECIFICATION Spec
INVARIANTS
  BoardInv
  DigestMatches
  NoEventMissed
  LaunchSound
CHECK_DEADLOCK FALSE
PROPERTIES
  CommitAnswered
  PolicySucceeds
  LaunchEnds
