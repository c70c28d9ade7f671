------------------------------ MODULE MCTasks -------------------------------
(***************************************************************************)
(* A test bench for periodic work of the M4: vBmsTask of main_m4.c, which  *)
(* is PackCharge with its constants given by the .cfg, or vDockTask with   *)
(* the standby, or one of the four detectors of Core/safety.  What         *)
(* vDockTask sees of vBmsTask is part of DockStandby.                      *)
(***************************************************************************)
EXTENDS PackCharge

CONSTANTS
  Rail, ADC_SAMPLES, ALIGN_TIMEOUT, DOCKED_TIME, LOST_TIMEOUT,        \* dock
  STANDBY_DELAY, CHARGE_TIMEOUT,
  UpdateGap,                                                          \* detectors
  COLLISION_JERK_SAMPLES, COLLISION_JERK_WINDOW, COLLISION_BUMPER_DEBOUNCE,
  StopTime, RetreatTime, TurnTime, COLLISION_RESUME_DELAY,
  Angle, TILT_RECOVERY_REVERSE, TILT_RECOVERY_SETTLE, TILT_RECOVERY_DEBOUNCE,
  Motor, SoftMotor, HARD_STALL_TIME, SOFT_STALL_TIME, SLIP_TIME, SlipRelease,
  HardRecovery, SoftRecovery, SlipRecovery,
  Sensor, Left, Front, CLIFF_DEBOUNCE, CLIFF_IR_TOF_FAULT_SAMPLES

VARIABLES setup, dock_state, rail, adc_sum, adc_count, ir, ir_changing, elapsed, chrg_en,
          pc, shared, backup, dock_seen, low,
          coll, held, resp, tilt, over, stall, slip, stuck, ignored,
          drop, cliff_active, edge_follow_active, below

Dock == INSTANCE DockStandby WITH state <- dock_state, seen <- dock_seen
Sensors == INSTANCE SafetySensors WITH MaxGap <- UpdateGap

ASSUME SetupAssumption ==
  PackAssumption /\ Dock!DockAssumption /\ Sensors!SensorsAssumption

dockvars == <<dock_state, rail, adc_sum, adc_count, ir, ir_changing, elapsed, chrg_en,
              pc, shared, backup, dock_seen, low>>
collvars  == <<coll, held, resp>>
tiltvars  == <<tilt, over>>
stallvars == <<stall, slip, stuck, ignored>>
dropvars  == <<drop, cliff_active, edge_follow_active, below>>
sensorvars == <<collvars, tiltvars, stallvars, dropvars>>
benchvars == <<setup, vars, dockvars, sensorvars>>

BenchInit == /\ setup \in {"bms", "dock", "collision", "tilt", "stall", "drop"}
             /\ Init /\ Dock!Init /\ Sensors!Init

Detectors ==
  \/ setup = "collision" /\ Sensors!CollNext /\ UNCHANGED <<tiltvars, stallvars, dropvars>>
  \/ setup = "tilt" /\ Sensors!TiltNext /\ UNCHANGED <<collvars, stallvars, dropvars>>
  \/ setup = "stall" /\ Sensors!StallNext /\ UNCHANGED <<collvars, tiltvars, dropvars>>
  \/ setup = "drop" /\ Sensors!DropNext /\ UNCHANGED <<collvars, tiltvars, stallvars>>

BenchNext ==
  /\ UNCHANGED setup
  /\ \/ setup = "bms" /\ Next /\ UNCHANGED <<dockvars, sensorvars>>
     \/ setup = "dock" /\ Dock!Next /\ UNCHANGED <<vars, sensorvars>>
     \/ Detectors /\ UNCHANGED <<vars, dockvars>>

(* The scheduler keeps the period of vDockTask, and a timer ends its sleep.*)
BenchSpec ==
  /\ BenchInit /\ [][BenchNext]_benchvars
  /\ WF_benchvars(setup = "dock" /\ Dock!vDockTask
                  /\ UNCHANGED <<setup, vars, sensorvars>>)

-----------------------------------------------------------------------------
(* Every variable of the tasks and of the detectors stays in its type.     *)
TasksTypeOK == TypeOK /\ Dock!TypeOK /\ Sensors!TypeOK

(* vBmsTask: the charger is off at an over-voltage, and no charge is       *)
(* longer than its stages may be.  Dock_Run: the charger is off while the  *)
(* robot aligns itself, whatever way it left the dock, and without the     *)
(* rail it is disabled in time, also when it was lost during a sleep.      *)
ChargeIsSafe ==
  /\ OverVoltageStops /\ ChargeTimeBounded
  /\ Dock!OffWhileAligning /\ Dock!RailLossStopsCharger

(* vDockTask: a robot left on a powered dock goes to standby for ever.     *)
StandbyReached == setup = "dock" => Dock!StandbyReached

(* A pressed bumper and a critical tilt are answered in time, whatever was *)
(* going on before, and the answer to a collision ends.  A motor blocked   *)
(* for too long is answered when its current jumps once more; a current    *)
(* that stays high is never answered (BlockedIsAnswered).                  *)
SensorsAnswer ==
  /\ Sensors!BumperStops /\ Sensors!ResponseEnds /\ Sensors!TiltStops
  /\ Sensors!StallIsAnswered
=============================================================================
