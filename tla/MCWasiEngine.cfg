SPECIFICATION EngineSpec
CONSTANTS
  a = a
  b = b
  Value <- MCValue
  NoValue = NoValue
  MaxCalls = 3
INVARIANTS EngineInv
PROPERTIES CallsAreRemote RequestSettled
CHECK_DEADLOCK FALSE
