CONSTANTS
  Currents = {0, 25}
  Volts = {300, 425}
  Temps = {25, 65}
  OC_TRIP_TIME = 3
  SC_COOL_OFF = 1
  TickMod = 8
  MaxGap = 1
  MixedCurrents = {0, 25}
  MixedVolts = {300, 425}
  MixedTemps = {25, 65}
SPECIFICATION Spec
INVARIANT OvOpensCharge
CHECK_DEADLOCK FALSE
