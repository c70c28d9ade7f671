CONSTANTS
  ACK_TIMEOUT = 1
  SYNC_TIMEOUT = 2
  FirstDelay = 1
  LaterDelay = 2
  LinkClock = 3
  LinkGap = 1
  FP_MAX_QUEUE_LENGTH = 2
  FP_STARVATION_TIMEOUT = 2
  ClockMod = 8
  QueueGap = 1
  Ap2 = {"g"}
  Ap5 = {"n"}
  Attenuation = {60, 100}
  RoamAttenuation = 70
  ROAM_HYSTERESIS_DB = 5
  SIGNAL_5GHZ_BOOST = 10
  LteAttenuation = 80
  ROAM_TRIGGER_TIME = 2
  ROAM_SCAN_INTERVAL = 1
  ROAM_SETTLE = 1
  LTE_CHECK_INTERVAL = 1
  MaxLate = 1
  Topic = {"a", "b"}
  MaxLosses = 1
  NameSize = {13}
  PacketSize = {2, 5000, 16383}
  TELEMETRY_MAX_POINTS = 2
  SPILL_MAX = 16
  SPILL_CHUNK = 8
  SPILL_HEADER = 1
  BatchSizes = {3, 4}
  MaxBatches = 3
  MaxReplays = 1
  MaxUpdates = 2
  MaxCommands = 2
SPECIFICATION Spec
INVARIANT TypeOK SessionsHold
PROPERTY ComesBack
CHECK_DEADLOCK FALSE
