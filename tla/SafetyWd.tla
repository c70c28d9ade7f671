------------------------------ MODULE SafetyWd ------------------------------
(***************************************************************************)
(* The M4 safety watchdog of l1_m4/Core/safety_wd.c with its callers in    *)
(* main_m4.c: the boot sequence that may force a fail-safe state, the      *)
(* 10 ms heartbeat poll of the M7 core, the kill and the recovery of the   *)
(* motor PWM, the window watchdog and its early-wake interrupt, and the    *)
(* reset of the M4.  The M7 side is vIpcBridgeTask of l1_m7/Core/main_m7.c *)
(* together with the two heartbeats Safety_Monitor expects from the M7.    *)
(*                                                                         *)
(* Time is counted in polls of 10 ms.                                      *)
(***************************************************************************)
EXTENDS Integers

CONSTANTS
  MissLimit,   \* misses tolerated before the M7 is declared dead (5)
  CntMod,      \* number of values of the uint8_t miss counter (256)
  WdgPolls,    \* polls from a WWDG reload to the reset, at most (28)
  HbMod,       \* values kept of the 32-bit m7_heartbeat_cnt
  MaxLag,      \* polls an M7 that is alive may need for one loop iteration
  LagCap,      \* bound on the history counter lag
  M7Takes,     \* the M7 loop takes HSEM(0), as safety_wd.c expects
  M7Counts,    \* the M7 loop increments m7_heartbeat_cnt, as it expects
  M7Dies,      \* the M7 may die and come back
  Hangs        \* the M4 tasks may hang

ASSUME SafetyWdAssumption ==
  /\ MissLimit \in Nat /\ WdgPolls \in Nat /\ WdgPolls > 2
  /\ CntMod \in Nat /\ MissLimit + WdgPolls + 2 < CntMod
  /\ HbMod \in Nat /\ HbMod > 1
  /\ MaxLag \in Nat \ {0}
  /\ LagCap \in Nat /\ LagCap > MissLimit + 1

ASSUME SwitchAssumption ==
  /\ M7Takes \in BOOLEAN /\ M7Counts \in BOOLEAN
  /\ M7Dies \in BOOLEAN /\ Hangs \in BOOLEAN

FS_NORMAL      == 0
FS_SPIN_HOME   == 1
FS_DOCK_SEARCH == 2
FS_STOP        == 3
M7_HB_LOSS     == 161      \* fault code 0xA1

BootSteps == {"clock", "gpio", "i2c", "wwdt", "init", "run", "hung", "trap"}
Bit       == {0, 1}

VARIABLES
  boot,              \* how far main() and vSafetyWdTask have come; "hung":
                     \* no task runs any more, interrupts still do
  m7_alive_cnt, fail_safe_state, m7_was_dead, last_hb_cnt,
  pwmPin,            \* PWM_SHUTDOWN (PD12) is high: drivers disabled
  bk,                \* TIM1->BDTR.BK: PWM outputs forced idle
  wdg, ewi, ewif,    \* WWDG: polls left to the early wake, its enable, its flag
  shm_fault, shm_fs, \* fault_code and fail_safe_state in SRAM3
  m7_heartbeat_cnt,  \* in SRAM3, written by the M7
  hsem0,             \* HSEM(0) is taken
  m7, heartbeat,     \* the M7 core and the static counter of its bridge task
  lag                \* history: polls since the last M7 loop iteration

m4vars  == <<m7_alive_cnt, fail_safe_state, m7_was_dead, last_hb_cnt>>
outvars == <<pwmPin, bk, shm_fault, shm_fs>>
wdgvars == <<wdg, ewi, ewif>>
m7vars  == <<m7_heartbeat_cnt, hsem0, m7, heartbeat>>
vars    == <<boot, m4vars, outvars, wdgvars, m7vars, lag>>

(* Unsigned increment of a counter with mod values.                        *)
Inc(x, mod) == IF x + 1 = mod THEN 0 ELSE x + 1

(* The motors can be driven neither through the drivers nor through TIM1.  *)
Killed == pwmPin = 1 /\ bk = 1

Init ==
  /\ boot = "clock"
  /\ m7_alive_cnt = 0 /\ fail_safe_state = FS_NORMAL
  /\ m7_was_dead = 0 /\ last_hb_cnt = 0
  /\ pwmPin = 0 /\ bk = 0 /\ shm_fault = 0 /\ shm_fs = FS_NORMAL
  /\ wdg = WdgPolls /\ ewi = 0 /\ ewif = 0
  /\ m7_heartbeat_cnt = 0 /\ hsem0 = 0 /\ m7 = "alive" /\ heartbeat = 0
  /\ lag = 0

-----------------------------------------------------------------------------
(* Boot: main() of main_m4.c.                                              *)

(* The SRAM3 block is cleared before anything else.                        *)
(* Before Safety_Init the clock of TIM1 may be off, in which case the      *)
(* write of BDTR.BK is lost.                                               *)
Safety_Failsafe(state) ==
  /\ fail_safe_state' = state
  /\ pwmPin' = 1
  /\ bk' \in {bk, 1}
  /\ shm_fault' = state /\ shm_fs' = state

Boot_Clock ==
  /\ boot = "clock"
  /\ boot' = "gpio"
  /\ m7_heartbeat_cnt' = 0
  /\ \/ Safety_Failsafe(FS_STOP)             \* HAL_RCC_*Config failed
     \/ /\ shm_fault' = 0 /\ shm_fs' = FS_NORMAL
        /\ UNCHANGED <<fail_safe_state, pwmPin, bk>>
  /\ UNCHANGED <<m7_alive_cnt, m7_was_dead, last_hb_cnt, wdgvars,
                 hsem0, m7, heartbeat, lag>>

Boot_Gpio ==
  /\ boot = "gpio"
  /\ boot' = "i2c"
  /\ pwmPin' = 0
  /\ UNCHANGED <<m4vars, bk, shm_fault, shm_fs, wdgvars, m7vars, lag>>

Boot_I2c ==
  /\ boot = "i2c"
  /\ boot' = "wwdt"
  /\ \/ Safety_Failsafe(FS_STOP)             \* HAL_I2C_Init failed
     \/ UNCHANGED <<fail_safe_state, outvars>>
  /\ UNCHANGED <<m7_alive_cnt, m7_was_dead, last_hb_cnt, wdgvars,
                 m7vars, lag>>

Safety_WWDT_Init ==
  /\ boot = "wwdt"
  /\ wdg' = WdgPolls /\ ewi' = 1 /\ ewif' = 0
  /\ \/ /\ boot' = "init"                    \* the scheduler starts
        /\ UNCHANGED <<fail_safe_state, outvars>>
     \/ /\ boot' = "trap"                    \* vTaskStartScheduler returned
        /\ Safety_Failsafe(FS_STOP)
  /\ UNCHANGED <<m7_alive_cnt, m7_was_dead, last_hb_cnt, m7vars, lag>>

(* First lines of vSafetyWdTask, the task of the highest priority.         *)
Safety_Init ==
  /\ boot = "init"
  /\ boot' = "run"
  /\ pwmPin' = 0
  /\ fail_safe_state' = FS_NORMAL
  /\ m7_alive_cnt' = 0 /\ m7_was_dead' = 0
  /\ lag' = 0
  /\ UNCHANGED <<last_hb_cnt, bk, shm_fault, shm_fs, wdgvars, m7vars>>

-----------------------------------------------------------------------------
(* The poll.                                                               *)

\* Mutants: a limit the 8-bit counter cannot exceed; a test for equality;
\* one miss too many.
MissedTooMany_mWide(cnt)  == cnt > CntMod - 1
MissedTooMany_mEqual(cnt) == cnt = MissLimit + 1
MissedTooMany_mLate(cnt)  == cnt > MissLimit + 1

MissedTooMany(cnt) == cnt > MissLimit

HbChanged == m7_heartbeat_cnt # last_hb_cnt
Misses    == IF hsem0 = 1 THEN 0 ELSE Inc(m7_alive_cnt, CntMod)

\* Mutant: a new heartbeat count clears the counter but not the verdict.
M7Dead_m == hsem0 = 0 /\ MissedTooMany(Misses)

M7Dead == hsem0 = 0 /\ MissedTooMany(Misses) /\ ~HbChanged

\* Mutants: only the timer break is asserted; fault code and state swapped.
KillPwm_mPin ==
  /\ m7_was_dead' = 1
  /\ pwmPin' = pwmPin /\ bk' = 1
  /\ shm_fault' = M7_HB_LOSS
  /\ fail_safe_state' = FS_SPIN_HOME
  /\ ewi' = 0
KillPwm_mSwap ==
  /\ m7_was_dead' = 1
  /\ pwmPin' = 1 /\ bk' = 1
  /\ shm_fault' = FS_SPIN_HOME
  /\ fail_safe_state' = M7_HB_LOSS
  /\ ewi' = 0

KillPwm ==
  /\ m7_was_dead' = 1
  /\ pwmPin' = 1 /\ bk' = 1
  /\ shm_fault' = M7_HB_LOSS
  /\ fail_safe_state' = FS_SPIN_HOME
  /\ ewi' = 0

RestorePwm ==
  /\ m7_was_dead' = 0
  /\ pwmPin' = 0 /\ bk' = 0
  /\ shm_fault' = 0
  /\ fail_safe_state' = FS_NORMAL
  /\ ewi' = 1

(* 10 ms pass: the window watchdog counts down.  The early wake comes 4 ms  *)
(* before the reset; at most one poll falls between the two.               *)
WdgCount ==
  /\ wdg' = wdg - 1
  /\ ewif' = IF wdg = 2 THEN 1 ELSE ewif

(* The interrupt has priority over every task: while it is pending no poll *)
(* starts.  An M7 that is alive loops at least once in MaxLag polls.       *)
EwiPending == ewif = 1 /\ ewi = 1

Safety_Monitor ==
  /\ boot = "run"
  /\ wdg > 0 /\ ~EwiPending
  /\ m7 = "alive" => lag < MaxLag
  /\ m7_alive_cnt' = IF HbChanged THEN 0 ELSE Misses
  /\ last_hb_cnt' = m7_heartbeat_cnt
  /\ \/ M7Dead /\ m7_was_dead = 0 /\ KillPwm
     \/ ~M7Dead /\ m7_was_dead = 1 /\ RestorePwm
     \/ /\ M7Dead <=> m7_was_dead = 1
        /\ UNCHANGED <<m7_was_dead, fail_safe_state, pwmPin, bk, shm_fault, ewi>>
  /\ shm_fs' = fail_safe_state'
  /\ WdgCount
  /\ lag' = IF lag < LagCap THEN lag + 1 ELSE lag
  /\ UNCHANGED <<boot, m7vars>>

-----------------------------------------------------------------------------
(* Window watchdog.                                                        *)

\* Mutant: the early wake refreshes in every state.
Refreshable_m(state) == TRUE

Refreshable(state) == state = FS_NORMAL

WWDG_IRQHandler ==
  /\ EwiPending
  /\ ewif' = 0
  /\ wdg' = IF Refreshable(fail_safe_state) THEN WdgPolls ELSE wdg
  /\ UNCHANGED <<boot, m4vars, outvars, ewi, m7vars, lag>>

(* The reset may be one of the M4 core alone or of the whole chip, which   *)
(* restarts the M7.                                                        *)
Wwdg_Reset ==
  /\ boot \in {"init", "run", "hung", "trap"}
  /\ wdg <= 1 /\ ~EwiPending
  /\ boot' = "clock"
  /\ m7_alive_cnt' = 0 /\ fail_safe_state' = FS_NORMAL
  /\ m7_was_dead' = 0 /\ last_hb_cnt' = 0
  /\ wdg' = WdgPolls /\ ewi' = 0 /\ ewif' = 0
  /\ \/ UNCHANGED <<outvars, m7vars>>
     \/ /\ pwmPin' = 0 /\ bk' = 0
        /\ m7' = "alive" /\ hsem0' = 0 /\ heartbeat' = 0
        /\ UNCHANGED <<shm_fault, shm_fs, m7_heartbeat_cnt>>
  /\ UNCHANGED lag

(* 10 ms pass in which no task runs: the M4 tasks hang, or main() sits in  *)
(* its trap loop.                                                          *)
Idle_Tick ==
  /\ boot \in {"hung", "trap"}
  /\ wdg > 0 /\ ~EwiPending
  /\ m7 = "alive" => lag < MaxLag
  /\ WdgCount
  /\ lag' = IF lag < LagCap THEN lag + 1 ELSE lag
  /\ UNCHANGED <<boot, m4vars, outvars, ewi, m7vars>>

Hang ==
  /\ Hangs /\ boot = "run"
  /\ boot' = "hung"
  /\ UNCHANGED <<m4vars, outvars, wdgvars, m7vars, lag>>

-----------------------------------------------------------------------------
(* The M7.                                                                 *)

(* One iteration of vIpcBridgeTask: every tenth releases HSEM(0).          *)
vIpcBridgeTask ==
  /\ m7 = "alive" /\ lag > 0
  /\ lag' = 0
  /\ heartbeat' = IF heartbeat + 1 >= 10 THEN 0 ELSE heartbeat + 1
  /\ hsem0' = IF heartbeat + 1 >= 10 THEN 0 ELSE IF M7Takes THEN 1 ELSE hsem0
  /\ m7_heartbeat_cnt' =
       IF M7Counts THEN Inc(m7_heartbeat_cnt, HbMod) ELSE m7_heartbeat_cnt
  /\ UNCHANGED <<boot, m4vars, outvars, wdgvars, m7>>

M7_Die ==
  /\ M7Dies /\ m7 = "alive"
  /\ m7' = "dead"
  /\ UNCHANGED <<boot, m4vars, outvars, wdgvars, m7_heartbeat_cnt,
                 hsem0, heartbeat, lag>>

M7_Restart ==
  /\ m7 = "dead"
  /\ m7' = "alive" /\ heartbeat' = 0
  /\ UNCHANGED <<boot, m4vars, outvars, wdgvars, m7_heartbeat_cnt,
                 hsem0, lag>>

-----------------------------------------------------------------------------
Boot == Boot_Clock \/ Boot_Gpio \/ Boot_I2c \/ Safety_WWDT_Init \/ Safety_Init
Wdg  == WWDG_IRQHandler \/ Wwdg_Reset \/ Idle_Tick
M7   == vIpcBridgeTask \/ M7_Die \/ M7_Restart

Next == Boot \/ Safety_Monitor \/ Wdg \/ Hang \/ M7

Spec == Init /\ [][Next]_vars

(* Time passes whatever the M7 does: the hardware keeps counting, and the  *)
(* task of the highest priority keeps its period.                          *)
Fairness ==
  /\ WF_vars(Boot) /\ SF_vars(Safety_Monitor) /\ SF_vars(Wdg)
  /\ WF_vars(vIpcBridgeTask)

FairSpec == Spec /\ Fairness

-----------------------------------------------------------------------------
(* Properties.                                                             *)

(* Every variable stays in its type.                                       *)
TypeOK ==
  /\ boot \in BootSteps
  /\ m7_alive_cnt \in 0..(CntMod - 1)
  /\ fail_safe_state \in {FS_NORMAL, FS_SPIN_HOME, FS_DOCK_SEARCH, FS_STOP}
  /\ m7_was_dead \in Bit /\ last_hb_cnt \in 0..(HbMod - 1)
  /\ pwmPin \in Bit /\ bk \in Bit
  /\ wdg \in 0..WdgPolls /\ ewi \in Bit /\ ewif \in Bit
  /\ shm_fault \in {0, FS_STOP, M7_HB_LOSS}
  /\ shm_fs \in {FS_NORMAL, FS_SPIN_HOME, FS_DOCK_SEARCH, FS_STOP}
  /\ m7_heartbeat_cnt \in 0..(HbMod - 1) /\ hsem0 \in Bit
  /\ m7 \in {"alive", "dead"} /\ heartbeat \in 0..9
  /\ lag \in 0..LagCap

(* Safety_Monitor's outputs agree with its verdict: from the poll that     *)
(* declares the M7 dead to the one that sees it again, both shut-off paths *)
(* are held, the state is FS_SPIN_HOME, the fault is logged and the early  *)
(* wake is off; and the state is never a fail-safe one otherwise.          *)
VerdictAndOutputs ==
  boot = "run" =>
    /\ m7_was_dead = 1 =>
         /\ Killed /\ ewi = 0
         /\ fail_safe_state = FS_SPIN_HOME /\ shm_fault = M7_HB_LOSS
    /\ m7_was_dead = 0 => /\ pwmPin = 0 /\ ewi = 1
                       /\ fail_safe_state = FS_NORMAL
                       /\ shm_fault # M7_HB_LOSS

(* Detection latency: an M7 that has not looped for more than MissLimit+1  *)
(* polls of a running M4 has its PWM killed, whatever the reason.          *)
DetectionLatency ==
  boot = "run" /\ lag > MissLimit + 1 => Killed

(* No false kill: the PWM is only held off after MissLimit+1 polls without *)
(* an M7 iteration (lag = 0: it has just come back, the next poll sees it).*)
KilledOnlyIfSilent ==
  boot = "run" /\ m7_was_dead = 1 => lag > MissLimit \/ lag = 0

(* The 8-bit miss counter does not run through its 256 values, which would *)
(* make Safety_Monitor take a dead M7 for a recovered one: the window      *)
(* watchdog, no longer refreshed in a fail-safe state, resets the M4 first.*)
CounterNeverWraps == m7_alive_cnt <= MissLimit + 1 + WdgPolls

(* A running M4 gives the motors back only on a sign of life of the M7.    *)
RestoredOnlyOnLife ==
  [][boot = "run" /\ boot' = "run" /\ pwmPin = 1 /\ pwmPin' = 0 => lag = 0]_vars

(* An M7 that stays dead has its drivers cut again and again, through every *)
(* watchdog reset of the M4, as long as the tasks of the M4 do not hang.   *)
DeadM7IsKilled ==
  (<>[](m7 = "dead") /\ []<>(boot = "run")) => []<>(pwmPin = 1)

(* In a fail-safe state a hang is ended by the watchdog reset, as the      *)
(* comment of WWDG_IRQHandler says: it does not refresh there.             *)
FailsafeHangResets ==
  boot \in {"hung", "trap"} /\ fail_safe_state # FS_NORMAL ~> boot = "clock"

(* safety_wd.c:153, the "M7 periodically takes HSEM(0) in its main loop",  *)
(* so that an M7 that loops every 10 ms is not declared dead.  NOT kept by *)
(* the code: vIpcBridgeTask only ever releases HSEM(0), and nothing takes  *)
(* it or writes m7_heartbeat_cnt (M7Takes and M7Counts are FALSE).         *)
LivingM7NotDeclaredDead == boot = "run" => m7_was_dead = 0
=============================================================================
