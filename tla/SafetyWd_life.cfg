CONSTANTS
  MissLimit = 5
  CntMod = 256
  WdgPolls = 28
  HbMod = 2
  MaxLag = 1
  LagCap = 8
  M7Takes = FALSE
  M7Counts = FALSE
  M7Dies = FALSE
  Hangs = FALSE
SPECIFICATION Spec
INVARIANT LivingM7NotDeclaredDead
