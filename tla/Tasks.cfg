CONSTANTS
  Volts = {280, 320, 415, 426}
  Temps = {298, 320}
  Currents = {300, 3000}
  RSocs = {50, 98}
  CC0_TIMEOUT_S = 1
  CC1_TIMEOUT_S = 2
  CC2_TIMEOUT_S = 1
  CV_TIMEOUT_S = 2
  TickMod = 10
  MaxGap = 1
  CanFail = {"temp", "voltage", "rsoc", "cells"}
  Rail = {0, 10, 19}
  ADC_SAMPLES = 2
  ALIGN_TIMEOUT = 3
  DOCKED_TIME = 1
  LOST_TIMEOUT = 5
  STANDBY_DELAY = 9
  CHARGE_TIMEOUT = 11
  UpdateGap = 1
  COLLISION_JERK_SAMPLES = 2
  COLLISION_JERK_WINDOW = 2
  COLLISION_BUMPER_DEBOUNCE = 2
  StopTime = 1
  RetreatTime = 2
  TurnTime = 3
  COLLISION_RESUME_DELAY = 2
  Angle = {0, 14, 20, 27, 35, 45}
  TILT_RECOVERY_REVERSE = 2
  TILT_RECOVERY_SETTLE = 3
  TILT_RECOVERY_DEBOUNCE = 2
  Motor = {"wheel_l", "wheel_r"}
  SoftMotor = {"wheel_l"}
  HARD_STALL_TIME = 1
  SOFT_STALL_TIME = 2
  SLIP_TIME = 1
  SlipRelease = 2
  HardRecovery = 2
  SoftRecovery = 3
  SlipRecovery = 1
  Sensor = {"FL", "FR"}
  Left = {"FL"}
  Front = {"FL", "FR"}
  CLIFF_DEBOUNCE = 2
  CLIFF_IR_TOF_FAULT_SAMPLES = 2
SPECIFICATION BenchSpec
INVARIANT TasksTypeOK ChargeIsSafe SensorsAnswer
PROPERTY FaultLeftInWindow StandbyReached
CHECK_DEADLOCK FALSE
