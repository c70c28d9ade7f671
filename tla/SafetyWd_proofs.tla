-------------------------- MODULE SafetyWd_proofs --------------------------
(***************************************************************************)
(* Proofs about the M4 safety watchdog, for every miss limit, watchdog     *)
(* period and counter width the assumption of SafetyWd allows.             *)
(***************************************************************************)
EXTENDS SafetyWd, TLAPS

USE DEF Bit, FS_NORMAL, FS_SPIN_HOME, FS_DOCK_SEARCH, FS_STOP, M7_HB_LOSS

(***************************************************************************)
(* Type correctness.                                                       *)
(***************************************************************************)

(* An unsigned increment stays in range and, with more than one value,     *)
(* changes the counter.                                                    *)
LEMMA IncType ==
  ASSUME NEW mod \in Nat, mod > 1, NEW x \in 0..(mod - 1)
  PROVE  Inc(x, mod) \in 0..(mod - 1) /\ Inc(x, mod) # x
  BY SMT DEF Inc

(* Counting one more miss while one poll of the watchdog period passes     *)
(* keeps their sum.                                                        *)
LEMMA BudgetStep ==
  ASSUME NEW c \in Nat, NEW c1 \in Nat, NEW w \in Nat, NEW b \in Nat,
         c1 <= c + 1, c + w <= b
  PROVE  c1 + (w - 1) <= b
  BY SMT

(* A first count within the limit and a watchdog within its period.        *)
LEMMA BudgetStart ==
  ASSUME NEW c1 \in Nat, NEW w1 \in Nat, NEW a \in Nat, NEW p \in Nat,
         c1 <= a, w1 <= p
  PROVE  c1 + w1 <= a + p
  BY SMT

LEMMA InitType == Init => TypeOK
  BY SafetyWdAssumption DEF Init, TypeOK, BootSteps

(* Every step of the watchdog, the M4 and the M7 keeps the types.          *)
LEMMA NextType == TypeOK /\ [Next]_vars => TypeOK'
<1> SUFFICES ASSUME TypeOK, [Next]_vars PROVE TypeOK'
    OBVIOUS
<1> USE SafetyWdAssumption DEF TypeOK, BootSteps
<1>1. CASE Boot
  BY <1>1, SMT DEF Boot, Boot_Clock, Boot_Gpio, Boot_I2c, Safety_WWDT_Init,
     Safety_Init, Safety_Failsafe, m4vars, outvars, wdgvars, m7vars
<1>2. CASE Safety_Monitor
  <2>1. Misses \in 0..(CntMod - 1)
    BY SMT DEF Misses, Inc
  <2>2. /\ m7_alive_cnt' \in 0..(CntMod - 1)
        /\ last_hb_cnt' \in 0..(HbMod - 1)
        /\ lag' \in 0..LagCap /\ wdg' \in 0..WdgPolls /\ ewif' \in Bit
    BY <1>2, <2>1, SMT DEF Safety_Monitor, WdgCount, m7vars
  <2>3. /\ fail_safe_state' \in {0, 1, 2, 3} /\ m7_was_dead' \in Bit
        /\ pwmPin' \in Bit /\ bk' \in Bit /\ ewi' \in Bit
        /\ shm_fault' \in {0, 3, 161} /\ shm_fs' = fail_safe_state'
    BY <1>2, SMT DEF Safety_Monitor, KillPwm, RestorePwm
  <2>4. UNCHANGED <<boot, m7_heartbeat_cnt, hsem0, m7, heartbeat>>
    BY <1>2 DEF Safety_Monitor, m7vars
  <2> QED
    BY <2>2, <2>3, <2>4, SMT
<1>3. CASE Wdg
  BY <1>3, SMT DEF Wdg, WWDG_IRQHandler, Wwdg_Reset, Idle_Tick, WdgCount,
     EwiPending, Refreshable, m4vars, outvars, wdgvars, m7vars
<1>4. CASE Hang
  BY <1>4, SMT DEF Hang, m4vars, outvars, wdgvars, m7vars
<1>5. CASE M7
  <2>1. CASE vIpcBridgeTask
    BY <2>1, SMT DEF Inc, vIpcBridgeTask, m4vars, outvars, wdgvars
  <2>2. CASE M7_Die \/ M7_Restart
    BY <2>2, SMT DEF M7_Die, M7_Restart, m4vars, outvars, wdgvars
  <2> QED
    BY <1>5, <2>1, <2>2 DEF M7
<1>6. CASE UNCHANGED vars
  BY <1>6, SMT DEF vars, m4vars, outvars, wdgvars, m7vars
<1> QED
  BY <1>1, <1>2, <1>3, <1>4, <1>5, <1>6 DEF Next

(* Type correctness of the watchdog module.                                *)
THEOREM TypeCorrect == Spec => []TypeOK
  BY InitType, NextType, PTL DEF Spec

(***************************************************************************)
(* The miss counter, the verdict and the watchdog.  The bound on the       *)
(* counter is not inductive: it needs that a dead M7 leaves the watchdog   *)
(* without its early wake, so that the polls left to the reset bound the   *)
(* misses that can still be counted.                                       *)
(***************************************************************************)

BootInv ==
  boot \notin {"run", "hung"} =>
    /\ m7_was_dead = 0 /\ m7_alive_cnt = 0
    /\ boot # "clock" => shm_fault # M7_HB_LOSS
    /\ boot = "init" => ewi = 1

VerdictInv ==
  boot \in {"run", "hung"} =>
    /\ m7_was_dead = 1 =>
         /\ pwmPin = 1 /\ bk = 1 /\ ewi = 0
         /\ fail_safe_state = FS_SPIN_HOME /\ shm_fault = M7_HB_LOSS
    /\ m7_was_dead = 0 =>
         /\ pwmPin = 0 /\ ewi = 1
         /\ fail_safe_state = FS_NORMAL /\ shm_fault # M7_HB_LOSS

CountInv ==
  boot \in {"run", "hung"} =>
    /\ m7_was_dead = 0 => m7_alive_cnt <= MissLimit
    /\ m7_was_dead = 1 => m7_alive_cnt + wdg <= MissLimit + 1 + WdgPolls

WdInv == TypeOK /\ BootInv /\ VerdictInv /\ CountInv

LEMMA InitWdInv == Init => WdInv
  BY InitType, SafetyWdAssumption, SMT
     DEF Init, WdInv, BootInv, VerdictInv, CountInv

(* What one poll does to the verdict, the outputs and the counter.         *)
LEMMA PollStep ==
  ASSUME WdInv, Safety_Monitor
  PROVE  VerdictInv' /\ CountInv'
<1> USE SafetyWdAssumption
<1>0. m7_alive_cnt' = IF HbChanged THEN 0 ELSE Misses
  BY DEF Safety_Monitor
<1>1. /\ boot = "run" /\ boot' = "run" /\ wdg > 0 /\ wdg' = wdg - 1
      /\ wdg \in 0..WdgPolls /\ m7_alive_cnt \in 0..(CntMod - 1)
      /\ m7_alive_cnt' \in Nat /\ m7_alive_cnt \in Nat
      /\ wdg \in Nat /\ wdg' \in Nat /\ wdg' <= WdgPolls
      /\ MissLimit + 1 \in Nat /\ MissLimit + 1 + WdgPolls \in Nat
      /\ m7_was_dead \in {0, 1} /\ hsem0 \in {0, 1}
  <2>1. m7_alive_cnt' \in Nat
    BY <1>0, SMT DEF WdInv, TypeOK, Misses, Inc
  <2>2. /\ boot = "run" /\ boot' = "run" /\ wdg > 0 /\ wdg' = wdg - 1
        /\ wdg \in 0..WdgPolls /\ m7_alive_cnt \in 0..(CntMod - 1)
        /\ m7_was_dead \in {0, 1} /\ hsem0 \in {0, 1}
    BY DEF WdInv, TypeOK, Safety_Monitor, WdgCount, Bit
  <2>3. /\ wdg \in Nat /\ wdg' \in Nat /\ wdg' <= WdgPolls
        /\ m7_alive_cnt \in Nat
    BY <2>2, SMT
  <2>4. MissLimit + 1 \in Nat /\ MissLimit + 1 + WdgPolls \in Nat
    BY SMT
  <2> QED
    BY <2>1, <2>2, <2>3, <2>4
<1>2. CASE M7Dead /\ m7_was_dead = 0
  <2>1. KillPwm
    BY <1>2, SMT DEF Safety_Monitor
  <2>2. m7_alive_cnt' <= MissLimit + 1
    BY <1>0, <1>1, <1>2, SMT DEF WdInv, CountInv, Misses, Inc
  <2>3. m7_alive_cnt' + wdg' <= MissLimit + 1 + WdgPolls
    BY <1>1, <2>2, BudgetStart, Zenon
  <2>4. m7_was_dead' # 0
    BY <2>1, SMT DEF KillPwm
  <2> QED
    BY <1>1, <2>1, <2>3, <2>4, Zenon DEF KillPwm, VerdictInv, CountInv
<1>3. CASE M7Dead /\ m7_was_dead = 1
  <2>1. UNCHANGED <<m7_was_dead, fail_safe_state, pwmPin, bk, shm_fault, ewi>>
    BY <1>3, SMT DEF Safety_Monitor
  <2>2. m7_alive_cnt' <= m7_alive_cnt + 1
    BY <1>0, <1>1, SMT DEF Misses, Inc
  <2>3. m7_alive_cnt + wdg <= MissLimit + 1 + WdgPolls
    BY <1>1, <1>3, SMT DEF WdInv, CountInv
  <2>4. m7_alive_cnt' + wdg' <= MissLimit + 1 + WdgPolls
    <3>1. m7_alive_cnt' + (wdg - 1) <= MissLimit + 1 + WdgPolls
      BY <1>1, <2>2, <2>3, BudgetStep, Zenon
    <3> QED
      BY <1>1, <3>1, Zenon
  <2> QED
    BY <1>1, <1>3, <2>1, <2>4, Zenon DEF WdInv, VerdictInv, CountInv
<1>4. CASE ~M7Dead
  <2>1. m7_alive_cnt' <= MissLimit
    <3>1. CASE HbChanged \/ hsem0 = 1
      BY <1>0, <1>1, <3>1, SMT DEF Misses
    <3>2. CASE ~HbChanged /\ hsem0 # 1
      <4>1. hsem0 = 0
        BY <1>1, <3>2
      <4>2. ~(Misses > MissLimit)
        BY <1>4, <3>2, <4>1 DEF M7Dead, MissedTooMany
      <4> QED
        BY <1>0, <1>1, <3>2, <4>2, SMT DEF Misses, Inc
    <3> QED
      BY <3>1, <3>2
  <2>2. m7_was_dead' = 0
    BY <1>1, <1>4, SMT DEF Safety_Monitor, RestorePwm
  <2>3. VerdictInv'
    BY <1>1, <1>4, SMT DEF WdInv, VerdictInv, Safety_Monitor, RestorePwm
  <2> QED
    BY <1>1, <2>1, <2>2, <2>3, SMT DEF CountInv
<1> QED
  BY <1>1, <1>2, <1>3, <1>4

LEMMA NextWdInv == WdInv /\ [Next]_vars => WdInv'
<1> SUFFICES ASSUME WdInv, [Next]_vars PROVE WdInv'
    OBVIOUS
<1> USE SafetyWdAssumption
<1>0. TypeOK'
  BY NextType DEF WdInv
<1>1. CASE Boot
  <2> USE <1>0 DEF WdInv, BootInv, VerdictInv, CountInv
  <2>1. CASE Boot_Clock
    BY <2>1, SMT DEF Boot_Clock, Safety_Failsafe
  <2>2. CASE Boot_Gpio
    BY <2>2, SMT DEF Boot_Gpio, m4vars
  <2>3. CASE Boot_I2c
    BY <2>3, SMT DEF Boot_I2c, Safety_Failsafe, outvars
  <2>4. CASE Safety_WWDT_Init
    BY <2>4, SMT DEF Safety_WWDT_Init, Safety_Failsafe, outvars
  <2>5. CASE Safety_Init
    BY <2>5, SMT DEF Safety_Init, wdgvars
  <2> QED
    BY <1>1, <2>1, <2>2, <2>3, <2>4, <2>5 DEF Boot
<1>2. CASE Safety_Monitor
  <2>1. BootInv'
    BY <1>2, SMT DEF Safety_Monitor, BootInv
  <2> QED
    BY <1>0, <1>2, <2>1, PollStep DEF WdInv
<1>3. CASE Wdg
  <2> USE <1>0 DEF WdInv, BootInv, VerdictInv, CountInv
  <2>1. CASE WWDG_IRQHandler
    BY <2>1, SMT DEF WWDG_IRQHandler, EwiPending, m4vars, outvars
  <2>2. CASE Wwdg_Reset
    BY <2>2, SMT DEF Wwdg_Reset, outvars
  <2>3. CASE Idle_Tick
    BY <2>3, SMT DEF Idle_Tick, WdgCount, TypeOK, m4vars, outvars
  <2> QED
    BY <1>3, <2>1, <2>2, <2>3 DEF Wdg
<1>4. CASE Hang
  BY <1>0, <1>4, SMT DEF WdInv, BootInv, VerdictInv, CountInv,
     Hang, m4vars, outvars, wdgvars, m7vars
<1>5. CASE M7
  BY <1>0, <1>5, SMT DEF WdInv, BootInv, VerdictInv, CountInv,
     M7, vIpcBridgeTask, M7_Die, M7_Restart, m4vars, outvars, wdgvars
<1>6. CASE UNCHANGED vars
  BY <1>0, <1>6, SMT DEF WdInv, BootInv, VerdictInv, CountInv,
     vars, m4vars, outvars, wdgvars, m7vars
<1> QED
  BY <1>1, <1>2, <1>3, <1>4, <1>5, <1>6 DEF Next

(* The inductive invariant of the watchdog: verdict, outputs, miss counter  *)
(* and the polls left to the reset always agree.                             *)
THEOREM WatchdogInvariant == Spec => []WdInv
  BY InitWdInv, NextWdInv, PTL DEF Spec

(* The 8-bit miss counter never wraps: safety_wd.c never takes a dead M7   *)
(* for a recovered one, for every limit and watchdog period that fit the   *)
(* counter together.                                                       *)
THEOREM NoWrap == Spec => []CounterNeverWraps
<1>1. WdInv => CounterNeverWraps
  <2> SUFFICES ASSUME WdInv PROVE CounterNeverWraps
      OBVIOUS
  <2>1. CASE boot \in {"run", "hung"}
    BY <2>1, SafetyWdAssumption, SMT
       DEF WdInv, TypeOK, CountInv, CounterNeverWraps, Bit
  <2>2. CASE boot \notin {"run", "hung"}
    BY <2>2, SafetyWdAssumption, SMT DEF WdInv, BootInv, CounterNeverWraps
  <2> QED
    BY <2>1, <2>2
<1> QED
  BY <1>1, WatchdogInvariant, PTL

(* The verdict of the poll and the outputs it drives always agree.         *)
THEOREM VerdictHolds == Spec => []VerdictAndOutputs
<1>1. WdInv => VerdictAndOutputs
  BY SMT DEF WdInv, VerdictInv, VerdictAndOutputs, Killed
<1> QED
  BY <1>1, WatchdogInvariant, PTL

(***************************************************************************)
(* Detection and false kills, when the M7 refreshes m7_heartbeat_cnt and   *)
(* never holds HSEM(0).  The miss counter and the true silence of the M7   *)
(* (lag) bound each other; a dead verdict holds until the counter moves.   *)
(***************************************************************************)

LagOk(cnt, l, dead) ==
  /\ l > 0 => cnt <= l \/ l = LagCap
  /\ dead = 0 => l <= cnt + 1
  /\ dead = 1 /\ l > 0 => l > MissLimit
  /\ dead = 1 => cnt > MissLimit

LagInv ==
  /\ hsem0 = 0
  /\ boot = "run" =>
       /\ HbChanged => lag = 0
       /\ ~HbChanged /\ lag = 0 => m7_alive_cnt = 0
       /\ LagOk(m7_alive_cnt, lag, m7_was_dead)

(* A poll that misses: silence and counter advance together.               *)
LEMMA MissLag ==
  ASSUME NEW cnt \in Nat, NEW l \in 0..LagCap, NEW dead \in {0, 1},
         LagOk(cnt, l, dead), l = 0 => cnt = 0
  PROVE  LagOk(cnt + 1, IF l < LagCap THEN l + 1 ELSE l,
               IF cnt + 1 > MissLimit THEN 1 ELSE 0)
  BY SafetyWdAssumption, SMT DEF LagOk

(* A poll that sees a beat: one poll of silence, no miss.                  *)
LEMMA BeatLag == LagOk(0, 1, 0)
  BY SafetyWdAssumption, SMT DEF LagOk

LEMMA PollLag ==
  ASSUME WdInv, LagInv, Safety_Monitor
  PROVE  LagInv'
<1> USE SafetyWdAssumption
<1>1. /\ m7_alive_cnt' = IF HbChanged THEN 0 ELSE Misses
      /\ lag' = IF lag < LagCap THEN lag + 1 ELSE lag
      /\ last_hb_cnt' = m7_heartbeat_cnt /\ m7_heartbeat_cnt' = m7_heartbeat_cnt
      /\ hsem0' = hsem0 /\ boot = "run" /\ hsem0 = 0
  BY DEF Safety_Monitor, m7vars, LagInv
<1>2. m7_was_dead' = IF M7Dead THEN 1 ELSE 0
  BY SMT DEF Safety_Monitor, KillPwm, RestorePwm, WdInv, TypeOK, Bit
<1>3. ~HbChanged'
  BY <1>1 DEF HbChanged
<1>4. /\ m7_alive_cnt \in Nat /\ lag \in 0..LagCap /\ m7_was_dead \in {0, 1}
      /\ lag' # 0
  <2>1. m7_alive_cnt \in Nat /\ lag \in 0..LagCap /\ m7_was_dead \in {0, 1}
    BY SMT DEF WdInv, TypeOK, Bit
  <2>2. lag' # 0
    BY <1>1, <2>1, SMT
  <2> QED
    BY <2>1, <2>2
<1>5. LagOk(m7_alive_cnt', lag', m7_was_dead')
  <2>1. CASE HbChanged
    <3>1. m7_alive_cnt' = 0 /\ m7_was_dead' = 0
      BY <1>1, <1>2, <2>1 DEF M7Dead
    <3>2. lag = 0
      BY <1>1, <2>1 DEF LagInv
    <3>3. lag' = 1
      BY <1>1, <3>2, SMT
    <3> QED
      BY <3>1, <3>3, BeatLag
  <2>2. CASE ~HbChanged
    <3>1. m7_alive_cnt + 1 # CntMod
      <4>1. wdg > 0 /\ wdg \in Nat
        BY SMT DEF Safety_Monitor, WdInv, TypeOK
      <4>2. CASE m7_was_dead = 0
        BY <1>1, <1>4, <4>2, SMT DEF WdInv, CountInv
      <4>3. CASE m7_was_dead = 1
        BY <1>1, <1>4, <4>1, <4>3, SMT DEF WdInv, CountInv
      <4> QED
        BY <1>4, <4>2, <4>3
    <3>2. Misses = m7_alive_cnt + 1
      BY <1>1, <3>1, SMT DEF Misses, Inc
    <3>3. m7_alive_cnt' = m7_alive_cnt + 1
      BY <1>1, <2>2, <3>2
    <3>4. m7_was_dead' = IF m7_alive_cnt + 1 > MissLimit THEN 1 ELSE 0
      BY <1>1, <1>2, <2>2, <3>2 DEF M7Dead, MissedTooMany
    <3>5. LagOk(m7_alive_cnt, lag, m7_was_dead)
          /\ (lag = 0 => m7_alive_cnt = 0)
      BY <1>1, <2>2 DEF LagInv
    <3>6. LagOk(m7_alive_cnt + 1, IF lag < LagCap THEN lag + 1 ELSE lag,
                IF m7_alive_cnt + 1 > MissLimit THEN 1 ELSE 0)
      BY <1>4, <3>5, MissLag, Zenon
    <3> QED
      BY <1>1, <3>3, <3>4, <3>6, Zenon
  <2> QED
    BY <2>1, <2>2
<1> QED
  BY <1>1, <1>3, <1>4, <1>5 DEF LagInv

LEMMA NextLagInv ==
  ASSUME M7Counts, ~M7Takes, WdInv, LagInv, [Next]_vars
  PROVE  LagInv'
<1> USE SafetyWdAssumption
<1>1. CASE Boot
  <2>1. hsem0' = 0
    BY <1>1 DEF LagInv, Boot, Boot_Clock, Boot_Gpio, Boot_I2c,
       Safety_WWDT_Init, Safety_Init, m7vars
  <2>2. CASE Safety_Init
    <3>1. m7_alive_cnt' = 0 /\ lag' = 0 /\ m7_was_dead' = 0
      BY <2>2 DEF Safety_Init
    <3>2. LagOk(0, 0, 0)
      BY SMT DEF LagOk
    <3> QED
      BY <2>1, <3>1, <3>2 DEF LagInv
  <2>3. CASE ~Safety_Init
    BY <1>1, <2>1, <2>3, SMT DEF LagInv, Boot, Boot_Clock, Boot_Gpio,
       Boot_I2c, Safety_WWDT_Init
  <2> QED
    BY <2>2, <2>3
<1>2. CASE Safety_Monitor
  BY <1>2, PollLag
<1>3. CASE Wdg
  <2>1. CASE WWDG_IRQHandler
    BY <2>1 DEF LagInv, WWDG_IRQHandler, HbChanged, m4vars, m7vars
  <2>2. CASE Wwdg_Reset
    BY <2>2, SMT DEF LagInv, Wwdg_Reset, m7vars
  <2>3. CASE Idle_Tick
    BY <2>3, SMT DEF LagInv, Idle_Tick, m7vars
  <2> QED
    BY <1>3, <2>1, <2>2, <2>3 DEF Wdg
<1>4. CASE Hang
  BY <1>4, SMT DEF LagInv, Hang, m7vars
<1>5. CASE M7
  <2>1. CASE vIpcBridgeTask
    <3>1. lag' = 0 /\ hsem0' = 0 /\ boot' = boot
          /\ m7_alive_cnt' = m7_alive_cnt /\ m7_was_dead' = m7_was_dead
      BY <2>1, SMT DEF LagInv, vIpcBridgeTask, m4vars
    <3>2. CASE boot = "run"
      <4>1. lag > 0 /\ lag # 0
        BY <2>1, SMT DEF vIpcBridgeTask, WdInv, TypeOK
      <4>2. ~HbChanged
        BY <3>2, <4>1 DEF LagInv
      <4>3. m7_heartbeat_cnt' # m7_heartbeat_cnt
        BY <2>1, SMT DEF vIpcBridgeTask, WdInv, TypeOK, Inc
      <4>4. HbChanged'
        BY <2>1, <4>2, <4>3 DEF HbChanged, vIpcBridgeTask, m4vars
      <4>5. LagOk(m7_alive_cnt, 0, m7_was_dead)
        BY <3>2, SMT DEF LagInv, LagOk, WdInv, TypeOK
      <4> QED
        BY <3>1, <4>4, <4>5 DEF LagInv
    <3> QED
      BY <3>1, <3>2 DEF LagInv
  <2>2. CASE M7_Die \/ M7_Restart
    BY <2>2 DEF LagInv, M7_Die, M7_Restart, HbChanged, m4vars
  <2> QED
    BY <1>5, <2>1, <2>2 DEF M7
<1>6. CASE UNCHANGED vars
  BY <1>6 DEF LagInv, HbChanged, vars, m4vars, m7vars
<1> QED
  BY <1>1, <1>2, <1>3, <1>4, <1>5, <1>6 DEF Next

LEMMA LagAlways ==
  ASSUME M7Counts, ~M7Takes
  PROVE  Spec => []LagInv
<1>1. Init => LagInv
  BY SMT DEF Init, LagInv
<1>2. WdInv /\ LagInv /\ [Next]_vars => LagInv'
  BY NextLagInv
<1> QED
  BY <1>1, <1>2, WatchdogInvariant, PTL DEF Spec

(* An M7 that has been silent for more than MissLimit+1 polls of a running *)
(* M4 has its PWM killed.                                                  *)
THEOREM Detection ==
  ASSUME M7Counts, ~M7Takes
  PROVE  Spec => []DetectionLatency
<1>1. WdInv /\ LagInv => DetectionLatency
  <2> SUFFICES ASSUME WdInv, LagInv, boot = "run", lag > MissLimit + 1
               PROVE  Killed
      BY DEF DetectionLatency
  <2>1. m7_was_dead = 1
    BY SafetyWdAssumption, SMT
       DEF WdInv, TypeOK, Bit, CountInv, LagInv, LagOk
  <2> QED
    BY <2>1 DEF WdInv, VerdictInv, Killed
<1> QED
  BY <1>1, LagAlways, WatchdogInvariant, PTL

(* The PWM is only held off after more than MissLimit polls in which the   *)
(* M7 has not looped.                                                      *)
THEOREM NoFalseKill ==
  ASSUME M7Counts, ~M7Takes
  PROVE  Spec => []KilledOnlyIfSilent
<1>1. WdInv /\ LagInv => KilledOnlyIfSilent
  BY SMT DEF WdInv, TypeOK, LagInv, LagOk, KilledOnlyIfSilent
<1> QED
  BY <1>1, LagAlways, WatchdogInvariant, PTL

(* The motors get their power back only on a sign of life of the M7.       *)
THEOREM RestoreNeedsLife ==
  ASSUME M7Counts, ~M7Takes
  PROVE  Spec => RestoredOnlyOnLife
<1>1. WdInv /\ LagInv /\ [Next]_vars =>
        [boot = "run" /\ boot' = "run" /\ pwmPin = 1 /\ pwmPin' = 0
           => lag = 0]_vars
  <2> SUFFICES ASSUME WdInv, LagInv, [Next]_vars,
                      boot = "run", boot' = "run", pwmPin = 1, pwmPin' = 0
               PROVE  lag = 0
      OBVIOUS
  <2>1. Safety_Monitor
    BY SMT DEF Next, Boot, Boot_Clock, Boot_Gpio, Boot_I2c, Safety_WWDT_Init,
       Safety_Init, Wdg, WWDG_IRQHandler, Wwdg_Reset, Idle_Tick, Hang, M7,
       vIpcBridgeTask, M7_Die, M7_Restart, vars, outvars
  <2>2. m7_was_dead = 1 /\ ~M7Dead
    BY <2>1, SMT DEF Safety_Monitor, KillPwm, WdInv, VerdictInv, TypeOK, Bit
  <2>3. m7_alive_cnt > MissLimit /\ m7_alive_cnt \in Nat /\ wdg > 0
        /\ wdg \in Nat
    BY <2>1, <2>2, SMT DEF LagInv, LagOk, WdInv, TypeOK, Safety_Monitor
  <2>4. Misses > MissLimit
    BY <2>2, <2>3, SafetyWdAssumption, SMT
       DEF Misses, Inc, LagInv, WdInv, CountInv
  <2> QED
    BY <2>2, <2>4 DEF M7Dead, MissedTooMany, LagInv
<1> QED
  BY <1>1, LagAlways, WatchdogInvariant, PTL DEF Spec, RestoredOnlyOnLife
=============================================================================
