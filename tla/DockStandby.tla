---------------------------- MODULE DockStandby -----------------------------
(***************************************************************************)
(* The dock: Dock_Run of l1_m4/Core/dock_handshake.c, called by vDockTask  *)
(* of main_m4.c every 100 ms, and Enter_Dock_Standby of lpwr_stop2.c, in   *)
(* steps, since vBmsTask may write SRAM3 between any two of them.          *)
(* Time is counted in calls of Dock_Run.  The LED, the clocks and the wake *)
(* source, which nothing reads, are left out.                              *)
(***************************************************************************)
EXTENDS Integers

CONSTANTS
  Rail,          \* readings of the 19 V rail, in V
  ADC_SAMPLES,   \* ADC_19V_SAMPLES (4)
  ALIGN_TIMEOUT, DOCKED_TIME, LOST_TIMEOUT,  \* 500, 200 and 1000 ms, in calls
  STANDBY_DELAY, CHARGE_TIMEOUT              \* 60 s and 6 h, in calls

DockAssumption ==
  /\ Rail \subseteq Nat /\ ADC_SAMPLES \in Nat \ {0}
  /\ {ALIGN_TIMEOUT, DOCKED_TIME, LOST_TIMEOUT, STANDBY_DELAY, CHARGE_TIMEOUT} \subseteq Nat
  /\ DOCKED_TIME < LOST_TIMEOUT

VARIABLES
  state,              \* s_dock_state
  rail,               \* s_19v_mV, times ADC_SAMPLES
  adc_sum, adc_count,
  ir, ir_changing,    \* s_ir_detected; s_ir_change_tick is not 0
  elapsed,            \* calls since s_state_entry_tick
  chrg_en,            \* the charger is enabled
  pc,                 \* next step of vDockTask
  shared,             \* the bytes of SRAM3 that are used here
  backup,             \* the record in SRAM2
  seen,               \* the last readings of rail and IR sensor
  low                 \* history: calls with the rail below 5 V and the charger on

dock == <<state, rail, adc_sum, adc_count, ir, ir_changing, elapsed, chrg_en, seen, low>>
vars == <<dock, pc, shared, backup>>

States == {"SEARCHING", "ALIGNING", "DOCKED", "CHARGING", "STANDBY"}
ElapsedMax == ALIGN_TIMEOUT + LOST_TIMEOUT + STANDBY_DELAY + CHARGE_TIMEOUT + 1
LowMax == LOST_TIMEOUT + DOCKED_TIME + 3

NoBackup == [dock_state |-> "none", rsoc |-> 0]

(* After Dock_Init.                                                        *)
Init ==
  /\ state = "SEARCHING" /\ rail = 0 /\ adc_sum = 0 /\ adc_count = 0
  /\ ir = FALSE /\ ir_changing = FALSE /\ elapsed = 0 /\ chrg_en = FALSE
  /\ pc = "run" /\ backup = NoBackup /\ seen = [rail |-> 0, ir |-> FALSE] /\ low = 0
  /\ shared = [bms_rsoc |-> 0, byte5 |-> 0, current_low |-> 0, dock_state |-> "SEARCHING",
               cycle_count |-> "count", m7_heartbeat_cnt |-> "count"]

(* Mutant: the counter is not reset.                                       *)
Average_m(v) == IF adc_count + 1 >= ADC_SAMPLES
                THEN rail' = adc_sum + v /\ adc_sum' = 0 /\ adc_count' = adc_count + 1
                ELSE adc_sum' = adc_sum + v /\ adc_count' = adc_count + 1 /\ UNCHANGED rail

(* The average is taken of ADC_SAMPLES readings that do not overlap.       *)
Average(v) == IF adc_count + 1 = ADC_SAMPLES
              THEN rail' = adc_sum + v /\ adc_sum' = 0 /\ adc_count' = 0
              ELSE adc_sum' = adc_sum + v /\ adc_count' = adc_count + 1 /\ UNCHANGED rail

(* 100 ms lie between two calls, so a change is taken over at the second.  *)
IR_Debounce(level) ==
  /\ ir' = IF level # ir /\ ir_changing THEN level ELSE ir
  /\ ir_changing' = (level # ir /\ ~ir_changing)

Present == rail' >= 15 * ADC_SAMPLES      \* ADC_19V_THRESHOLD_mV
Lost == rail' < 5 * ADC_SAMPLES           \* ADC_19V_LOST_mV
After(t) == elapsed + 1 > t

To(s) == state' = s

(* Mutant: the charger is left as it is.                                   *)
Searching_m == state = "SEARCHING" /\ To(IF ir' THEN "ALIGNING" ELSE state) /\ UNCHANGED chrg_en

Searching == state = "SEARCHING" /\ chrg_en' = FALSE /\ To(IF ir' THEN "ALIGNING" ELSE state)

Aligning == /\ state = "ALIGNING" /\ UNCHANGED chrg_en
            /\ To(CASE Present /\ ir' -> "DOCKED"
                    [] ~ir' /\ After(ALIGN_TIMEOUT) -> "SEARCHING"
                    [] OTHER -> state)

(* Docked and charging: once the state has lasted LOST_TIMEOUT, the first  *)
(* low average ends it.                                                    *)
RailGone == Lost /\ After(LOST_TIMEOUT)
Undock == chrg_en' = FALSE /\ To("SEARCHING")

Docked == /\ state = "DOCKED"
          /\ IF RailGone THEN Undock
             ELSE chrg_en' = TRUE /\ To(IF After(DOCKED_TIME) THEN "CHARGING" ELSE state)

(* Mutant: no limit of six hours.                                          *)
ChargeOver_m == shared.byte5 >= 98

ChargeOver == shared.byte5 >= 98 \/ After(CHARGE_TIMEOUT)

Charging == /\ state = "CHARGING"
            /\ IF RailGone THEN Undock
               ELSE UNCHANGED chrg_en /\ To(IF ChargeOver THEN "STANDBY" ELSE state)

(* Mutant: the rail is not tested in standby.                              *)
Standby_m == /\ state = "STANDBY" /\ UNCHANGED chrg_en
              /\ To(IF After(STANDBY_DELAY) THEN "SEARCHING" ELSE state)

(* The test of the rail comes after the sleep, on the average from before. *)
Standby ==
  /\ state = "STANDBY"
  /\ IF Lost THEN Undock
     ELSE UNCHANGED chrg_en /\ To(IF After(STANDBY_DELAY) THEN "SEARCHING" ELSE state)

Sleeps == state = "STANDBY" /\ After(STANDBY_DELAY)

(* One call of Dock_Run.  When it enters standby, the robot is asleep      *)
(* before the new state is stored; nothing else reads it meanwhile.        *)
Dock_Run ==
  /\ pc = "run"
  /\ \E v \in Rail, level \in BOOLEAN :
       Average(v) /\ IR_Debounce(level) /\ seen' = [rail |-> v, ir |-> level]
  /\ Searching \/ Aligning \/ Docked \/ Charging \/ Standby
  /\ elapsed' = IF state' # state THEN 0 ELSE IF elapsed < ElapsedMax THEN elapsed + 1 ELSE elapsed
  /\ low' = IF Lost /\ chrg_en' THEN (IF low < LowMax THEN low + 1 ELSE low) ELSE 0
  /\ pc' = IF Sleeps THEN "signal" ELSE "publish"
  /\ UNCHANGED <<shared, backup>>

(* vDockTask stores the state that Dock_Run returned.                      *)
Publish == /\ pc = "publish" /\ pc' = "run"
           /\ shared' = [shared EXCEPT !.dock_state = state]
           /\ UNCHANGED <<dock, backup>>

(* Offset 60 of SRAM3, which no code of the M7 reads as a command, is      *)
(* m7_heartbeat_cnt; the wait for the answer ends after 10 ms.             *)
Signal_M7_DeepSleep ==
  /\ pc = "signal" /\ pc' = "backup"
  /\ shared' = [shared EXCEPT !.m7_heartbeat_cnt = "0xDEADBEEF"]
  /\ UNCHANGED <<dock, backup>>

(* The offsets are in words: the byte taken for dock_state is the cycle    *)
(* count of the battery, the one taken for the rsoc is of the current.     *)
Backup_State ==
  /\ pc = "backup" /\ pc' = "sleep"
  /\ backup' = [dock_state |-> shared.cycle_count, rsoc |-> shared.current_low]
  /\ UNCHANGED <<dock, shared>>

(* The wake-up: Restore_State, which puts back what Backup_State took, and *)
(* Signal_M7_Wake.                                                         *)
Wake ==
  /\ pc = "sleep" /\ pc' = "publish"
  /\ shared' = [shared EXCEPT !.cycle_count = backup.dock_state, !.current_low = backup.rsoc,
                              !.m7_heartbeat_cnt = "0xCAFEBABE"]
  /\ UNCHANGED <<dock, backup>>

(* vBmsTask writes rsoc and current; byte 5 is padding that nothing writes.*)
BmsWrites == /\ \E r \in {50, 98}, c \in {0, 98} :
                  shared' = [shared EXCEPT !.bms_rsoc = r, !.current_low = c]
             /\ shared' # shared
             /\ UNCHANGED <<dock, pc, backup>>

vDockTask == Dock_Run \/ Publish \/ Signal_M7_DeepSleep \/ Backup_State \/ Wake

Next == vDockTask \/ BmsWrites

(* The scheduler keeps the task's period of 100 ms, and a timer ends sleep.*)
Spec == Init /\ [][Next]_vars /\ WF_vars(vDockTask)
-----------------------------------------------------------------------------
TypeOK ==
  /\ state \in States /\ rail \in Nat /\ adc_sum \in Nat /\ adc_count \in 0..ADC_SAMPLES - 1
  /\ {ir, ir_changing, chrg_en} \subseteq BOOLEAN
  /\ elapsed \in 0..ElapsedMax /\ pc \in {"run", "publish", "signal", "backup", "sleep"}
  /\ shared.dock_state \in States /\ backup.dock_state \in {"none", "count"} /\ low \in 0..LowMax

(* The charger is off while the robot aligns itself: whatever way it left  *)
(* the dock, with a lost rail, a full battery or from sleep, the contacts  *)
(* carry no load when it comes back.                                       *)
OffWhileAligning == state = "ALIGNING" => ~chrg_en

(* The charger does not stay on without the rail: it is disabled at most   *)
(* LOST_TIMEOUT after the charge began, or at once.                        *)
RailLossStopsCharger == low <= LOST_TIMEOUT + DOCKED_TIME + 1

(* A robot that stays on a powered dock goes to standby again and again.   *)
OnDock == seen.ir /\ seen.rail >= 15
StandbyReached == <>[]OnDock => []<>(pc = "sleep")
=============================================================================
