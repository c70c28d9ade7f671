CONSTANTS
  MissLimit = 2
  CntMod = 256
  WdgPolls = 5
  HbMod = 2
  MaxLag = 5
  LagCap = 5
  M7Takes = FALSE
  M7Counts = TRUE
  M7Dies = TRUE
  Hangs = FALSE
  MaxStandbys = 1
SPECIFICATION StandbySpec
PROPERTY RestoredOnlyOnLife
