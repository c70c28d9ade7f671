CONSTANTS
  Caller = {p}
  Target = {"rk", "h747"}
  Provisioned = TRUE
  MaxRuns = 3
  OtaRestarts = 3
  AB_MAX_FAIL_COUNT = 2
  CrcMod = 2
  MaxFails = 2
  AbBoots = 1
  AbRestarts = 1
  Size = {2, 3}
  RESUME_MAX_ATTEMPTS = 2
  MaxChanges = 1
  MaxUnsaved = 2
  CanFail = TRUE
  MaxStagings = 3
  Blocks = 2
  UPGRADE_TIMEOUT = 2
  MAX_RETRIES = 2
  MaxGap = 1
  Byte = {0, 1}
  MaxSize = 4
  SaCounters = 2
  DIFF_MIN_MATCH = 2
  MaxAttempts = 1
  MaxUpgrades = 2
  MaxBoots = 4
SPECIFICATION Spec
INVARIANT TypeOK ImagesHold PatchesApply RecordsHold
PROPERTY AttemptsBounded
CHECK_DEADLOCK FALSE
