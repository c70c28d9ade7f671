CONSTANTS
  AB_MAX_FAIL_COUNT = 3
  CrcMod = 2
  MaxFails = 3
  MaxBoots = 1
  MaxRestarts = 2
SPECIFICATION Spec
INVARIANT FailoverAtLimit
CHECK_DEADLOCK FALSE
