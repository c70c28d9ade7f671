------------------------------- MODULE MCBms -------------------------------
(***************************************************************************)
(* A test bench for the modules of l1_m4/Core/bms that act on the FETs of  *)
(* the pack and of its cells.  Each is run with the others at rest, in one *)
(* of these set-ups, chosen at the start:                                  *)
(*   "protect"      bms_protect.c with one fault at a time;                *)
(*   "overcurrent"  bms_protect.c with currents of every range and the     *)
(*                  comparator interrupt at any point;                     *)
(*   "charge", "precharge", "discharge", "balance"  the module of that     *)
(*                  name.                                                  *)
(***************************************************************************)
EXTENDS Integers

CONSTANTS
  OC_TRIP_TIME, SC_COOL_OFF, TickMod, ProtGap,                 \* bms_protect.c:
  Currents, Volts, Temps,                                      \* protect
  MixedCurrents, MixedVolts, MixedTemps,                       \* overcurrent
  ChgTemps, ChgVolts, CellCount,                               \* charge
  CHG_PRECHARGE_TIMEOUT, CC_TIMEOUT, CV_TIMEOUT, MaxGap,
  PRECHARGE_TIMEOUT, PRECHARGE_RETRY_COOLDOWN, PRECHARGE_MAX_RETRIES,   \* precharge
  Capacities, MaxStep, MaxRestarts,                            \* discharge
  Cell, Milli, BALANCE_THRESHOLD_mV, BALANCE_HYSTERESIS_mV,    \* balance
  max_balance_cells, DutyMod, BALANCE_MAX_DUTY_CYCLES

VARIABLES setup,
          fet, tripped, sample, pc, now, oc_start, sc_assert, gap, persist,
          charge_fet, phase, age, cv, seen, charged, chg_gap,
          precharge_fet, main_fet, pre_phase, retry_count, elapsed, load, closing,
          discharge_fet, passed, fcc, low_warning, critical_stop, flash, sampled,
          restarts,
          cell_mV, balancing_active, duty_counter, paused_thermal, ran

Protect == INSTANCE BmsProtect WITH MaxGap <- ProtGap, mixed <- setup = "overcurrent"

Charge == INSTANCE BmsCharge WITH
  Temps <- ChgTemps, Volts <- ChgVolts, PRECHARGE_TIMEOUT <- CHG_PRECHARGE_TIMEOUT,
  gap <- chg_gap

Precharge == INSTANCE BmsPrecharge WITH phase <- pre_phase, discharge_fet <- main_fet
Discharge == INSTANCE BmsDischarge
Balance   == INSTANCE BmsBalance

ASSUME SetupAssumption ==
  /\ Protect!ProtAssumption /\ Charge!ChargeAssumption
  /\ Precharge!PrechargeAssumption /\ Discharge!DischargeAssumption
  /\ Balance!BalanceAssumption

protect   == <<fet, tripped, sample, pc, now, oc_start, sc_assert, gap, persist>>
charge    == <<charge_fet, phase, age, cv, seen, charged, chg_gap>>
precharge == <<precharge_fet, main_fet, pre_phase, retry_count, elapsed, load, closing>>
discharge == <<discharge_fet, passed, fcc, low_warning, critical_stop, flash, sampled,
               restarts>>
balance   == <<cell_mV, balancing_active, duty_counter, paused_thermal, ran>>
vars      == <<setup, protect, charge, precharge, discharge, balance>>

(* A module at rest is in one of its initial states.                       *)
Init ==
  /\ setup \in {"protect", "overcurrent", "charge", "precharge", "discharge",
                "balance"}
  /\ Protect!Init /\ Charge!Init /\ Precharge!Init /\ Discharge!Init /\ Balance!Init
  /\ \/ setup \in {"protect", "overcurrent"}
     \/ fet = {} /\ sample = CHOOSE s \in Protect!Sample : Protect!Healthy(s)
  /\ setup = "charge" \/ seen = CHOOSE m \in Charge!Measured : TRUE
  /\ setup = "discharge" \/ (~discharge_fet /\ fcc = CHOOSE c \in Capacities : TRUE)

Run(names, step) == setup \in names /\ UNCHANGED setup /\ step
ProtectSetups == {"protect", "overcurrent"}

Next ==
  \/ Run(ProtectSetups, Protect!Next) /\ UNCHANGED <<charge, precharge, discharge, balance>>
  \/ Run({"charge"}, Charge!Next) /\ UNCHANGED <<protect, precharge, discharge, balance>>
  \/ Run({"precharge"}, Precharge!Next) /\ UNCHANGED <<protect, charge, discharge, balance>>
  \/ Run({"discharge"}, Discharge!Next) /\ UNCHANGED <<protect, charge, precharge, balance>>
  \/ Run({"balance"}, Balance!Next) /\ UNCHANGED <<protect, charge, precharge, discharge>>

(* The periodic function of the module is called again and again, and time *)
(* passes.                                                                 *)
Called ==
  \/ Run(ProtectSetups, Protect!Pass) /\ UNCHANGED <<charge, precharge, discharge, balance>>
  \/ Run({"precharge"}, Precharge!Task) /\ UNCHANGED <<protect, charge, discharge, balance>>
TimePasses ==
  \/ Run(ProtectSetups, Protect!Tick) /\ UNCHANGED <<charge, precharge, discharge, balance>>
  \/ Run({"precharge"}, Precharge!Tick) /\ UNCHANGED <<protect, charge, discharge, balance>>

Spec == Init /\ [][Next]_vars /\ WF_vars(Called) /\ WF_vars(TimePasses)

-----------------------------------------------------------------------------
(* Every variable of the five modules stays in its type.                   *)
TypeOK == /\ Protect!TypeOK /\ Charge!TypeOK /\ Precharge!TypeOK
          /\ Discharge!TypeOK /\ Balance!TypeOK

(* bms_protect.c with one fault at a time: a FET that a tripped protection *)
(* opened stays open until that protection has recovered.  bms_precharge.c *)
(* closes the main FET only onto a precharged load, and its resistor path  *)
(* is open when no attempt is under way.                                   *)
FetsSafe ==
  /\ setup # "overcurrent" => Protect!OpenWhileTripped
  /\ Precharge!ClosedOntoChargedLoad /\ Precharge!ResistorOnlyWhileActive

(* Once all samples stay healthy, every trip flag but that of the short   *)
(* circuit clears for good, whatever was tripped together, and a FET that  *)
(* a single fault opened closes again.  And every precharge ends, however  *)
(* late its calls come.                                                    *)
Recovery == /\ setup = "overcurrent" => Protect!AutoRecovery
            /\ setup = "protect" => Protect!FetsComeBack
            /\ setup = "precharge" => Precharge!PrechargeEnds

(* PROT_Task trips on an overcurrent only if every sample of the last      *)
(* OC_TRIP_TIME was over 10 A, over dips, trips and wraps of the tick.     *)
OcOnlyAfterPersisting == Protect!OcOnlyAfterPersisting

(* And it does trip then, at most four late calls later.  bms_charge.c:    *)
(* the charge FET is only closed during a charge, and no charge is longer  *)
(* than its three stages may be.                                           *)
LimitsInTime == Protect!OcTripsInTime /\ Charge!ChargeTimeBounded

(* bms_discharge.c: at most 20 % left means a warning or a critical stop,  *)
(* and during a critical stop the FET is open and the record on flash      *)
(* stops the robot again after a restart.                                  *)
FlatIsNoticed == Discharge!FlatIsNoticed /\ Discharge!CriticalIsOnFlash

(* bms_balance.c: only cells above the lowest one are bled, over changes   *)
(* of the selection and pauses, and of those that are high enough all or   *)
(* as many as the resistors may carry.                                     *)
Balances == Balance!BleedsHighCells /\ Balance!HighCellsAreBled
=============================================================================
