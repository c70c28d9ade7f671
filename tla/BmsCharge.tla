----------------------------- MODULE BmsCharge ------------------------------
(***************************************************************************)
(* The charge state machine of l1_m4/Core/bms/bms_charge.c: precharge,     *)
(* constant current, constant voltage, each with a time limit, and the     *)
(* temperature window.  Each call measures temperature, cells, pack and    *)
(* current afresh.  The efficiency statistics are left out.                *)
(***************************************************************************)
EXTENDS Integers

CONSTANTS
  Temps,                 \* temperatures, degrees Celsius
  Volts,                 \* cell voltages, in mV
  CellCount,             \* BMS_CELL_COUNT: cells in series
  PRECHARGE_TIMEOUT, CC_TIMEOUT, CV_TIMEOUT,  \* CHARGE_*_TIMEOUT_S, in clock ticks
  MaxGap                 \* bound: clock ticks between two calls of CHG_Task

ChargeAssumption ==
  /\ PRECHARGE_TIMEOUT \in Nat \ {0} /\ CC_TIMEOUT \in Nat \ {0}
  /\ CV_TIMEOUT \in Nat \ {0} /\ MaxGap \in Nat \ {0} /\ CellCount \in Nat \ {0}
  /\ Temps \subseteq Int

VARIABLES
  charge_fet,  \* does the GPIO drive the charge FET closed?
  phase,       \* chg_.phase
  age,         \* time since chg_.phase_start_tick
  cv,          \* chg_.cv_voltage_mV
  seen,        \* history: temperature and cells of the last measurement
  charged,     \* history: time since CHG_Start
  gap          \* ticks since the last call of CHG_Task

vars == <<charge_fet, phase, age, cv, seen, charged, gap>>

Charging == {"PRECHARGE", "CC", "CV"}          \* CHG_IsCharging
Phases == Charging \union {"IDLE", "TERMINATED", "FAULT"}
Limit == [PRECHARGE |-> PRECHARGE_TIMEOUT, CC |-> CC_TIMEOUT, CV |-> CV_TIMEOUT]
AgeMax == PRECHARGE_TIMEOUT + CC_TIMEOUT + CV_TIMEOUT + 4 * MaxGap

charge_temp_ok(t) == 0 <= t /\ t <= 55

(* Mutant: not limited from above.                                         *)
charge_cv_compensated_m(t) == LET comp == 4200 + (t - 25) * 3
                              IN IF comp < 4000 THEN 4000 ELSE comp

charge_cv_compensated(t) == LET comp == 4200 + (t - 25) * 3
                            IN IF comp < 4000 THEN 4000 ELSE IF comp > 4200 THEN 4200 ELSE comp

Measured == {m \in [t : Temps, v_min : Volts, v_max : Volts] : m.v_min <= m.v_max}
(* The pack voltage, with one cell at each end and the others in between.  *)
PackVoltages(m) == IF CellCount = 1 THEN {m.v_max}
                   ELSE {m.v_min + m.v_max + (CellCount - 2) * v : v \in {m.v_min, m.v_max}}

Init == /\ charge_fet = FALSE /\ phase = "IDLE" /\ age = 0 /\ cv = 0
        /\ seen \in Measured /\ charged = 0 /\ gap = 0

Measure(m) == seen' = m /\ cv' = charge_cv_compensated(m.t)

CHG_Start == \E m \in Measured :
  /\ phase = "IDLE" /\ charge_temp_ok(m.t)
  /\ phase' = IF m.v_min < 3000 THEN "PRECHARGE" ELSE "CC"
  /\ charge_fet' = TRUE /\ age' = 0 /\ charged' = 0 /\ Measure(m)
  /\ UNCHANGED gap

(* The three ways a call of CHG_Task ends: the phase goes on, the next one *)
(* begins, or charging stops with the FET opened.                          *)
GoOn == UNCHANGED <<charge_fet, phase, age>>
Enter(p) == phase' = p /\ age' = 0 /\ UNCHANGED charge_fet
(* Mutants: the FET stays closed; the constant voltage stage has no limit. *)
StopIn_m(p) == phase' = p /\ UNCHANGED <<charge_fet, age>>
TimeUp_m == phase # "CV" /\ age >= Limit[phase]

StopIn(p) == phase' = p /\ charge_fet' = FALSE /\ UNCHANGED age

TimeUp == age >= Limit[phase]

PrechargeStep(m) == \/ m.v_min >= 3000 /\ Enter("CC")
                    \/ m.v_min < 3000 /\ TimeUp /\ StopIn("FAULT")
                    \/ m.v_min < 3000 /\ ~TimeUp /\ GoOn
CcStep(m) == \/ TimeUp /\ StopIn("FAULT")
             \/ ~TimeUp /\ \E v \in PackVoltages(m) :
                  IF v >= cv' THEN Enter("CV") ELSE GoOn
CvStep == \/ TimeUp /\ StopIn("FAULT")
          \/ ~TimeUp /\ StopIn("TERMINATED")   \* 0 < I < 100 mA
          \/ ~TimeUp /\ GoOn

CHG_Task == \E m \in Measured :
  /\ phase \in Charging /\ gap' = 0
  /\ \/ /\ ~charge_temp_ok(m.t)
        /\ StopIn("FAULT") /\ seen' = m /\ UNCHANGED cv
     \/ /\ charge_temp_ok(m.t) /\ Measure(m)
        /\ \/ phase = "PRECHARGE" /\ PrechargeStep(m)
           \/ phase = "CC" /\ CcStep(m)
           \/ phase = "CV" /\ CvStep
  /\ UNCHANGED charged

CHG_Idle_Task == phase \notin Charging /\ gap' = 0 /\ gap # 0
                 /\ UNCHANGED <<charge_fet, phase, age, cv, seen, charged>>

CHG_Stop == /\ charge_fet' = FALSE /\ phase' = "IDLE"
            /\ UNCHANGED <<age, cv, seen, charged, gap>>

Cap(n) == IF n < AgeMax THEN n + 1 ELSE n
Tick == /\ gap < MaxGap /\ gap' = gap + 1
        /\ age' = Cap(age) /\ charged' = IF phase \in Charging THEN Cap(charged) ELSE charged
        /\ UNCHANGED <<charge_fet, phase, cv, seen>>

Task == CHG_Task \/ CHG_Idle_Task
Next == CHG_Start \/ Task \/ CHG_Stop \/ Tick

Spec == Init /\ [][Next]_vars /\ WF_vars(Task) /\ WF_vars(Tick)
-----------------------------------------------------------------------------
TypeOK ==
  /\ charge_fet \in BOOLEAN /\ phase \in Phases /\ age \in 0..AgeMax
  /\ cv \in {0} \union 4000..4200 /\ seen \in Measured
  /\ charged \in 0..AgeMax /\ gap \in 0..MaxGap

(* While the charge FET is closed a charge is under way, which has not     *)
(* lasted longer than its three stages may, plus the wait for the call     *)
(* that notices the end of each: every fault, time limit, termination and  *)
(* stop opens it, and no path leads back to an earlier stage               *)
(* (bms_charge.c:6).                                                       *)
ChargeTimeBounded ==
  charge_fet =>
    /\ phase \in Charging
    /\ charged <= PRECHARGE_TIMEOUT + CC_TIMEOUT + CV_TIMEOUT + 3 * MaxGap
=============================================================================
