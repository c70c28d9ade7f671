CONSTANTS
  MotorGap = 2
  SIDE_STALL_TIME = 4
  SideRelease = 2
  SIDE_RAMP = 5
  SideCap = 1
  SIDE_SPEED_MIN = 8
  SIDE_SPEED_MAX = 35
  SideSpeed <- SideSpeeds
  ROLLER_STALL_TIME = 5
  RollerRelease = 2
  ROLLER_CARPET_DEBOUNCE = 2
  FanLevels = 5
  FanMin = 2
  FanDefault = 4
  BaselineTime = 2
  DUST_FULL_DEBOUNCE = 2
  NUM_MOTORS = 2
  IqMax <- IqLimits
  Budget = 2
  Iq <- IqSamples
  Pair = {"tilt", "current", "voltage"}
  DISAGREE_DEBOUNCE = 2
  DEGRADED_DEBOUNCE = 3
  SAFESTOP_DEBOUNCE = 2
  RED_RECOVERY = 3
  RedGap = 1
  Injector = {"now", "later", "condition"}
  Delay <- InjectorDelay
  MaxTriggers = 4
  EVENTS_MAX_FILES = 2
  FileCap = 2
  MaxSeen = 4
  MaxOpens = 6
  MaxClock = 3
  TRACE_BUFFER_SIZE = 3
  MaxPushes = 7
  MaxCrashes = 3
  Task = {"a", "b", "c"}
  PERF_MAX_TASKS = 2
  MaxTime = 4
  Dtc = {"a", "b", "c"}
  DTC_SLOTS = 2
  OccurrenceWidth = 1
  Drive = {1, 2}
  OtherDrive = 2
  MODBUS_RETRY_COUNT = 2
  MaxTransactions = 2
  Assembly = {"x"}
  MaxRequests = 2
  MaxQueue = 2
  Dp = {"battery", "state"}
  MaxFrames = 2
  TUYA_HEARTBEAT_INTERVAL = 1
  Version = {1, 2}
  max_retries = 1
  MaxOnWay = 1
SPECIFICATION Spec
INVARIANT TypeOK MotorsAndChecks LogsHold EndsAgree
CHECK_DEADLOCK FALSE
