CONSTANTS
  MissLimit = 5
  CntMod = 256
  WdgPolls = 12
  HbMod = 2
  MaxLag = 100
  LagCap = 8
  M7Takes = FALSE
  M7Counts = TRUE
  M7Dies = TRUE
  Hangs = TRUE
SPECIFICATION FairSpec
INVARIANT TypeOK VerdictAndOutputs DetectionLatency KilledOnlyIfSilent CounterNeverWraps
PROPERTY RestoredOnlyOnLife DeadM7IsKilled FailsafeHangResets
