SPECIFICATION AlarmSpec
CONSTANTS
  Users = {0}
  Kinds = {"fuse", "delay", "route"}
  MaxWaits = 3
INVARIANTS AlarmInv
PROPERTY FuseBlows
CHECK_DEADLOCK FALSE
