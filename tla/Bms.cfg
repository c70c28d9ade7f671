CONSTANTS
  OC_TRIP_TIME = 2
  SC_COOL_OFF = 1
  TickMod = 6
  ProtGap = 1
  Currents = {0, 15}
  Volts = {280, 300, 425}
  Temps = {0, 3, 25, 65}
  MixedCurrents = {0, 9, 15, 25}
  MixedVolts = {300}
  MixedTemps = {25, 65}
  ChgTemps = {0, 25, 40, 60}
  ChgVolts = {2900, 3600, 4200}
  CellCount = 1
  CHG_PRECHARGE_TIMEOUT = 1
  CC_TIMEOUT = 4
  CV_TIMEOUT = 2
  MaxGap = 1
  PRECHARGE_TIMEOUT = 2
  PRECHARGE_RETRY_COOLDOWN = 10
  PRECHARGE_MAX_RETRIES = 3
  Capacities = {20, 22}
  MaxStep = 3
  MaxRestarts = 1
  Cell = {0, 1, 2}
  Milli = {0, 27, 40}
  BALANCE_THRESHOLD_mV = 30
  BALANCE_HYSTERESIS_mV = 5
  max_balance_cells = 1
  DutyMod = 3
  BALANCE_MAX_DUTY_CYCLES = 7
SPECIFICATION Spec
INVARIANT TypeOK FetsSafe LimitsInTime FlatIsNoticed Balances
PROPERTY Recovery OcOnlyAfterPersisting
CHECK_DEADLOCK FALSE
