SPECIFICATION AlarmSpec
CONSTANTS
  Users = {0}
  Kinds = {"delay"}
  MaxWaits = 1
PROPERTY DelayReturns
CHECK_DEADLOCK FALSE
