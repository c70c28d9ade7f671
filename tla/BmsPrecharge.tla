---------------------------- MODULE BmsPrecharge ----------------------------
(***************************************************************************)
(* The precharge of the load in l1_m4/Core/bms/bms_precharge.c: the        *)
(* precharge FET is closed, and the main discharge FET follows once the    *)
(* load has reached 90 % of the pack voltage; with a time limit for each   *)
(* attempt and a pause between attempts.                                   *)
(***************************************************************************)
EXTENDS Integers

CONSTANTS
  PRECHARGE_TIMEOUT,        \* PRECHARGE_TIMEOUT_MS, in clock ticks
  PRECHARGE_RETRY_COOLDOWN, \* PRECHARGE_RETRY_COOLDOWN_MS, in clock ticks
  PRECHARGE_MAX_RETRIES     \* attempts before the fault (3)

PrechargeAssumption ==
  /\ PRECHARGE_TIMEOUT \in Nat \ {0} /\ PRECHARGE_RETRY_COOLDOWN \in Nat
  /\ PRECHARGE_MAX_RETRIES \in Nat \ {0}

VARIABLES
  precharge_fet, discharge_fet,  \* what the GPIO drives
  phase, retry_count,            \* pre_
  elapsed,                       \* time since pre_.start_tick
  load,                          \* has the load reached 90 % of the pack voltage?
  closing                        \* in the 500 us between the two FETs

vars == <<precharge_fet, discharge_fet, phase, retry_count, elapsed, load, closing>>

ElapsedMax == PRECHARGE_TIMEOUT + PRECHARGE_RETRY_COOLDOWN + 1

(* After PRECHARGE_Init.                                                   *)
Init == /\ precharge_fet = FALSE /\ discharge_fet = FALSE
        /\ phase = "IDLE" /\ retry_count = 0 /\ elapsed = 0
        /\ load = FALSE /\ closing = FALSE

PRECHARGE_Start ==
  /\ phase # "ACTIVE" /\ phase' = "ACTIVE" /\ retry_count' = 0 /\ elapsed' = 0
  /\ precharge_fet' = TRUE /\ discharge_fet' = FALSE
  /\ UNCHANGED <<load, closing>>

TimedOut == elapsed >= PRECHARGE_TIMEOUT
OutOfRetries == retry_count' >= PRECHARGE_MAX_RETRIES
CoolingDown == retry_count > 0 /\ elapsed < PRECHARGE_RETRY_COOLDOWN

(* Mutants: a timeout is not counted; the load is not looked at; the       *)
(* precharge FET stays closed.                                             *)
Timeout_m ==
  /\ phase = "ACTIVE" /\ ~closing /\ TimedOut
  /\ precharge_fet' = FALSE /\ elapsed' = 0
  /\ UNCHANGED <<phase, retry_count, discharge_fet, load, closing>>

Timeout ==
  /\ phase = "ACTIVE" /\ ~closing /\ TimedOut
  /\ precharge_fet' = FALSE /\ retry_count' = retry_count + 1
  /\ IF OutOfRetries
     THEN phase' = "FAILED" /\ UNCHANGED elapsed
     ELSE elapsed' = 0 /\ UNCHANGED phase
  /\ UNCHANGED <<discharge_fet, load, closing>>

Check_m ==
  /\ phase = "ACTIVE" /\ ~closing /\ ~TimedOut /\ ~CoolingDown
  /\ closing' = TRUE /\ discharge_fet' = TRUE
  /\ UNCHANGED <<precharge_fet, phase, retry_count, elapsed, load>>
Complete_m == /\ closing /\ closing' = FALSE /\ phase' = "COMPLETE"
              /\ UNCHANGED <<precharge_fet, discharge_fet, retry_count, elapsed, load>>

(* Past the time limit and the pause, the code would close the FET again   *)
(* for the next attempt; then it looks at the load.                        *)
Check ==
  /\ phase = "ACTIVE" /\ ~closing /\ ~TimedOut /\ ~CoolingDown
  /\ IF retry_count > 0
     THEN /\ precharge_fet' = TRUE
          /\ elapsed' = PRECHARGE_RETRY_COOLDOWN /\ retry_count' = 0
     ELSE UNCHANGED <<precharge_fet, elapsed, retry_count>>
  /\ IF load THEN closing' = TRUE /\ discharge_fet' = TRUE
             ELSE UNCHANGED <<closing, discharge_fet>>
  /\ UNCHANGED <<phase, load>>

Complete == /\ closing /\ closing' = FALSE
            /\ precharge_fet' = FALSE /\ phase' = "COMPLETE"
            /\ UNCHANGED <<discharge_fet, retry_count, elapsed, load>>

PRECHARGE_Reset == /\ precharge_fet' = FALSE /\ discharge_fet' = FALSE
                   /\ phase' = "IDLE" /\ retry_count' = 0 /\ ~closing
                   /\ UNCHANGED <<elapsed, load, closing>>

(* The load charges through the precharge FET, or fails to, and discharges *)
(* while no FET is closed.                                                 *)
LoadChanges == /\ load' = ~load
               /\ (load' => precharge_fet) /\ (~load' => ~discharge_fet)
               /\ UNCHANGED <<precharge_fet, discharge_fet, phase, retry_count, elapsed, closing>>

Tick == /\ ~closing /\ elapsed < ElapsedMax /\ elapsed' = elapsed + 1
        /\ UNCHANGED <<precharge_fet, discharge_fet, phase, retry_count, load, closing>>

Task == Timeout \/ Check \/ Complete
Next == PRECHARGE_Start \/ Task \/ PRECHARGE_Reset \/ LoadChanges \/ Tick

(* Time passes and PRECHARGE_Task is called again and again.               *)
Spec == Init /\ [][Next]_vars /\ WF_vars(Task) /\ WF_vars(Tick)
-----------------------------------------------------------------------------
TypeOK ==
  /\ {precharge_fet, discharge_fet, load, closing} \subseteq BOOLEAN
  /\ phase \in {"IDLE", "ACTIVE", "COMPLETE", "FAILED"}
  /\ retry_count \in 0..PRECHARGE_MAX_RETRIES
  /\ elapsed \in 0..ElapsedMax

(* The main FET is closed only onto a load that has been precharged, never *)
(* during or after an attempt that failed.                                 *)
ClosedOntoChargedLoad == discharge_fet => load /\ (closing \/ phase = "COMPLETE")

(* The resistor path is open whenever no attempt is under way.             *)
ResistorOnlyWhileActive == precharge_fet => phase = "ACTIVE"

(* A precharge that is started comes to an end: it completes, fails, or is *)
(* reset.  The three attempts cannot go on for ever.                       *)
PrechargeEnds == phase = "ACTIVE" ~> phase # "ACTIVE"
=============================================================================
