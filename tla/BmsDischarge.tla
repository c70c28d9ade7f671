---------------------------- MODULE BmsDischarge ----------------------------
(***************************************************************************)
(* The discharge monitor of l1_m4/Core/bms/bms_discharge.c: the charge     *)
(* drawn since the pack was full, the low battery warning and the critical *)
(* stop with their hysteresis, and the record on flash that a critical     *)
(* stop leaves.  The state of charge is kept as drawn charge and capacity. *)
(***************************************************************************)
EXTENDS Integers

CONSTANTS
  Capacities,  \* full charge capacities that SOH_GetPercent may lead to
  MaxStep,     \* bound: charge drawn between two samples
  MaxRestarts  \* bound: restarts of the controller

DischargeAssumption ==
  Capacities \subseteq Nat \ {0} /\ MaxStep \in Nat /\ MaxRestarts \in Nat

VARIABLES
  discharge_fet,               \* what the GPIO drives
  passed,                      \* dis_.passed_charge_mAh
  fcc,                         \* dis_.full_charge_capacity_mAh
  low_warning, critical_stop,  \* dis_
  flash,                       \* the record in FLASH_SECTOR_DISCHARGE
  sampled,                     \* history: has DISCH_Task run since the state was set?
  restarts

vars == <<discharge_fet, passed, fcc, low_warning, critical_stop, flash, sampled, restarts>>

Record(p, f) == [passed |-> p, fcc |-> f]
NoRecord == Record(0, 0)     \* erased, or cut off while it was written

(* State of charge at most, or above, n percent.                           *)
Remaining(p, f) == IF p < f THEN f - p ELSE 0
AtMost(n, p, f) == 100 * Remaining(p, f) <= n * f

Init == /\ discharge_fet \in BOOLEAN /\ passed = 0 /\ fcc \in Capacities
        /\ low_warning = FALSE /\ critical_stop = FALSE
        /\ flash = NoRecord /\ sampled = FALSE /\ restarts = 0

(* Mutant: the record is not written.                                      *)
DISCH_SaveState_m == UNCHANGED flash

DISCH_SaveState == flash' = Record(passed', fcc')

(* One sample: the capacity is refreshed, what was drawn is added, and the *)
(* two thresholds are compared.  A charging current adds nothing, and a    *)
(* flat pack delivers nothing.                                             *)
Critical ==
  \/ /\ critical_stop /\ ~AtMost(8, passed', fcc')
     /\ critical_stop' = FALSE /\ discharge_fet' = TRUE /\ UNCHANGED flash
  \/ /\ ~critical_stop /\ AtMost(5, passed', fcc')
     /\ critical_stop' = TRUE /\ discharge_fet' = FALSE /\ DISCH_SaveState
  \/ /\ IF critical_stop THEN AtMost(8, passed', fcc') ELSE ~AtMost(5, passed', fcc')
     /\ UNCHANGED <<critical_stop, discharge_fet, flash>>

(* Mutant: the hysteresis has the wrong sign.                              *)
Low_m == low_warning' = IF low_warning THEN AtMost(17, passed', fcc')
                        ELSE AtMost(20, passed', fcc') /\ ~critical_stop'

Low == low_warning' = IF low_warning THEN AtMost(23, passed', fcc')
                      ELSE AtMost(20, passed', fcc') /\ ~critical_stop'

DISCH_Task == /\ fcc' \in Capacities
              /\ passed' \in {p \in passed..passed + MaxStep : Remaining(passed, fcc') > 0 \/ p = passed}
              /\ Critical /\ Low /\ sampled' = TRUE
              /\ UNCHANGED <<restarts>>

DISCH_ResetState == /\ passed' = 0 /\ fcc' \in Capacities
                    /\ low_warning' = FALSE /\ critical_stop' = FALSE /\ sampled' = FALSE
                    /\ UNCHANGED <<discharge_fet, flash, restarts>>

(* A power loss, possibly while the record is written; then DISCH_Init,    *)
(* and PROT_Init, which opens the FET.                                     *)
PowerLoss == /\ restarts < MaxRestarts /\ restarts' = restarts + 1
             /\ flash' \in {flash, NoRecord}
             /\ passed' = 0 /\ fcc' \in Capacities /\ discharge_fet' = FALSE
             /\ low_warning' = FALSE /\ critical_stop' = FALSE /\ sampled' = FALSE

DISCH_RestoreState == /\ flash # NoRecord /\ ~sampled
                      /\ passed' = flash.passed /\ fcc' = flash.fcc
                      /\ UNCHANGED <<discharge_fet, low_warning, critical_stop, flash, sampled, restarts>>

(* PRECHARGE_Task closes the FET when the robot is started.                *)
PRECHARGE_Task == /\ ~discharge_fet /\ ~sampled /\ discharge_fet' = TRUE
                  /\ UNCHANGED <<passed, fcc, low_warning, critical_stop, flash, sampled, restarts>>

Next == DISCH_Task \/ DISCH_ResetState \/ PowerLoss \/ DISCH_RestoreState \/ PRECHARGE_Task

Spec == Init /\ [][Next]_vars
-----------------------------------------------------------------------------
TypeOK ==
  /\ {discharge_fet, low_warning, critical_stop, sampled} \subseteq BOOLEAN
  /\ passed \in Nat /\ fcc \in Capacities
  /\ flash = NoRecord \/ (flash.passed \in Nat /\ flash.fcc \in Capacities)
  /\ restarts \in 0..MaxRestarts

(* A flat pack never goes unnoticed: after every sample at most 20 % means *)
(* the warning or the critical stop, through both hystereses, changes of   *)
(* the capacity and restored records.                                      *)
FlatIsNoticed == (sampled /\ AtMost(20, passed, fcc)) => low_warning \/ critical_stop

(* bms_discharge.c:6, "Critical at 5 % -> immediate stop + save state to   *)
(* flash": while the critical stop lasts, the FET is open and the record   *)
(* on flash is one that stops the robot again after a restart.             *)
CriticalIsOnFlash ==
  critical_stop => /\ ~discharge_fet
                   /\ flash # NoRecord /\ AtMost(5, flash.passed, flash.fcc)
                   /\ flash.passed <= passed
=============================================================================
