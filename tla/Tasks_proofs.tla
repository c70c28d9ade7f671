---------------------------- MODULE Tasks_proofs ----------------------------
(***************************************************************************)
(* Proofs about the periodic work of the M4, for every value of the        *)
(* constants: the charge of the pack, the dock and the four detectors.     *)
(* Each has an inductive invariant; the bench puts them together.          *)
(***************************************************************************)
EXTENDS MCTasks, TLAPS

-----------------------------------------------------------------------------
(* vBmsTask: the charge of the pack.                                       *)

(* A reading is a battery, a set of failed reads and what was true.        *)
LEMMA ReadingOf ==
  ASSUME NEW r \in Readings
  PROVE  \E p \in Packs, failed \in SUBSET CanFail :
            r.data = BMS_ReadAll(p, failed) /\ r.facts = Facts(p, r.data)
<1>1. PICK p \in Packs, failed \in SUBSET CanFail :
        r = [data |-> BMS_ReadAll(p, failed), facts |-> Facts(p, BMS_ReadAll(p, failed))]
  BY DEF Readings
<1>2. r.data = BMS_ReadAll(p, failed) /\ r.facts = Facts(p, r.data)
  BY <1>1, Zenon
<1> QED
  BY <1>2

(* What is read of a battery are numbers, and 0 what is not read.          *)
LEMMA PackNumbers ==
  ASSUME PackAssumption, NEW p \in Packs
  PROVE  /\ p.min \in Nat /\ p.max \in Nat /\ p.voltage \in Nat
         /\ p.temp \in Nat /\ p.current \in Nat /\ p.rsoc \in Nat
<1>1. PICK t \in Temps, c \in Currents, r \in RSocs, v \in Volts \X Volts \X Volts :
        p = [min |-> v[1], max |-> v[2], voltage |-> v[1] + v[2] + 2 * v[3],
             temp |-> t, current |-> c, rsoc |-> r]
  BY DEF Packs
<1>2. v[1] \in Nat /\ v[2] \in Nat /\ v[3] \in Nat /\ t \in Nat /\ c \in Nat /\ r \in Nat
  BY DEF PackAssumption
<1>3. v[1] + v[2] + 2 * v[3] \in Nat
  BY <1>2, SMT
<1> QED
  BY <1>1, <1>2, <1>3

LEMMA ReadNumbers ==
  ASSUME PackAssumption, NEW p \in Packs, NEW failed
  PROVE  LET b == BMS_ReadAll(p, failed)
         IN  /\ b.min \in Nat /\ b.max \in Nat /\ b.voltage \in Nat
             /\ b.temp \in {0, p.temp} /\ b.temp \in Nat /\ b.current \in Nat
             /\ b.rsoc \in Nat /\ b.valid \in BOOLEAN
  BY PackNumbers DEF BMS_ReadAll

(* Facts that are seen.                                                    *)
LEMMA FactsSeen ==
  ASSUME NEW p, NEW b
  PROVE  /\ "read over" \in Facts(p, b) <=> Over(b)
         /\ 275 < p.temp /\ p.temp < 313 => "in window" \in Facts(p, b)
  BY DEF Facts

(* The state machine at a fault, and at the charge of a full pack.         *)
LEMMA FaultStep ==
  ASSUME NEW b
  PROVE  /\ Successor("FAULT", b) = IF Recovered(b) THEN "TRICKLE" ELSE "FAULT"
         /\ Target("FAULT", b) = 0
<1>1. Successor("FAULT", b) = IF Recovered(b) THEN "TRICKLE" ELSE "FAULT"
  BY Zenon DEF Successor
<1>2. Target("FAULT", b) = 0
  BY DEF Target
<1> QED
  BY <1>1, <1>2

(* Whatever is read, a value over its limit ends in a fault without a      *)
(* target current, whichever other reads fail.                             *)
LEMMA OverStops == ASSUME OverVoltageStops, [Next]_vars PROVE OverVoltageStops'
<1>1. ASSUME NEW r \in Readings, ChargeFSM(r.data), seen' = r.facts PROVE OverVoltageStops'
  <2>1. "read over" \in seen' => Over(r.data)
    BY <1>1, ReadingOf, FactsSeen
  <2>2. ASSUME Over(r.data) PROVE state' = "FAULT" /\ i_target' = 0
    <3>1. Protect(r.data) /\ ~Recovered(r.data)
      BY <2>2 DEF Protect, Recovered
    <3> QED
      BY <1>1, <3>1, FaultStep, Zenon DEF ChargeFSM
  <2> QED
    BY <2>1, <2>2 DEF OverVoltageStops
<1>2. CASE Tick \/ UNCHANGED vars
  BY <1>2 DEF Tick, vars, OverVoltageStops
<1> QED
  BY <1>1, <1>2 DEF Next, vBmsTask

(* A fault is left only at a battery inside the window: a temperature that *)
(* was not read is 0, which is outside.                                    *)
LEMMA FaultLeftDuly ==
  ASSUME PackAssumption, [Next]_vars, state = "FAULT", state' # "FAULT"
  PROVE  "in window" \in seen'
<1>1. PICK r \in Readings : ChargeFSM(r.data) /\ seen' = r.facts
  BY DEF Next, vBmsTask, Tick, vars
<1>2. PICK p \in Packs, failed \in SUBSET CanFail :
        r.data = BMS_ReadAll(p, failed) /\ r.facts = Facts(p, r.data)
  BY ReadingOf
<1>3. Recovered(r.data)
  <2>1. state' = Successor("FAULT", r.data)
    BY <1>1, Zenon DEF ChargeFSM
  <2> QED
    BY <2>1, FaultStep
<1>4. r.data.temp \in {0, p.temp} /\ r.data.temp \in Nat /\ r.data.temp > 275 /\ r.data.temp < 313
  BY <1>2, <1>3, ReadNumbers DEF Recovered
<1>5. 275 < p.temp /\ p.temp < 313
  BY <1>4, SMT
<1> QED
  BY <1>1, <1>2, <1>5, FactsSeen

(* One run of the state machine, state by state.                           *)
LEMMA Succeeds0 ==
  ASSUME NEW b
  PROVE  /\ Successor("TRICKLE", b) \in {"TRICKLE", "CC_0_5C"}
         /\ Successor("DONE", b) \in {"DONE", "CC_0_5C"}
         /\ Successor("FAULT", b) \in {"FAULT", "TRICKLE"}
<1>1. Successor("TRICKLE", b) = IF b.min >= 300 /\ b.voltage >= 1200 THEN "CC_0_5C" ELSE "TRICKLE"
  BY Zenon DEF Successor
<1>2. Successor("DONE", b) = IF b.voltage <= 1640 /\ b.rsoc < 95 THEN "CC_0_5C" ELSE "DONE"
  BY Zenon DEF Successor
<1> QED
  BY <1>1, <1>2, FaultStep

LEMMA Succeeds1 ==
  ASSUME NEW b
  PROVE  /\ Successor("CC_0_5C", b) \in {"TRICKLE", "CC_1C", "CC_0_5C"}
         /\ Successor("CC_0_5C", b) = "CC_0_5C" => ~Exceeds(CC0_TIMEOUT_S)
         /\ Successor("CC_1C", b) \in {"TRICKLE", "CV_16_8V", "CC_1C"}
         /\ Successor("CC_1C", b) = "CC_1C" => ~Exceeds(CC1_TIMEOUT_S)
         /\ Successor("CV_16_8V", b) \in {"DONE", "CV_16_8V"}
         /\ Successor("CV_16_8V", b) = "CV_16_8V" => ~Exceeds(CV_TIMEOUT_S)
<1>1. Successor("CC_0_5C", b) = IF b.min < 290 THEN "TRICKLE"
                                ELSE IF Exceeds(CC0_TIMEOUT_S) \/ b.voltage >= 1400 THEN "CC_1C"
                                ELSE "CC_0_5C"
  BY Zenon DEF Successor
<1>2. Successor("CC_1C", b) = AfterCc1(b)
  BY Zenon DEF Successor
<1>3. Successor("CV_16_8V", b) = IF (0 < b.current /\ b.current <= 500) \/ Exceeds(CV_TIMEOUT_S)
                                 THEN "DONE" ELSE "CV_16_8V"
  BY Zenon DEF Successor
<1> QED
  BY <1>1, <1>2, <1>3 DEF AfterCc1

(* The clock of a stage, the limit on it, what the stages before it may    *)
(* have taken, and the wait that a stage started at 0 is granted once: it  *)
(* is started again by the next run.                                       *)
Age == IF start <= now THEN now - start ELSE now - start + TickMod
Limit(s) == IF s = "CC_0_5C" THEN CC0_TIMEOUT_S
            ELSE IF s = "CC_1C" THEN CC1_TIMEOUT_S ELSE CV_TIMEOUT_S
Before(s) == IF s = "CC_0_5C" THEN 0
             ELSE IF s = "CC_1C" THEN CC0_TIMEOUT_S - 1 + MaxGap
             ELSE CC0_TIMEOUT_S + CC1_TIMEOUT_S - 2 + 2 * MaxGap
Restarted == IF now >= 1 /\ charging >= now THEN MaxGap ELSE 0

ClockTypes ==
  /\ state \in States \ {"CC_2C"} /\ start \in 0..TickMod - 1 /\ now \in 0..TickMod - 1
  /\ gap \in 0..MaxGap /\ charging \in 0..TimeMax

ClockInv ==
  /\ ClockTypes
  /\ state \in Stages /\ start = 0 =>
       now = gap /\ gap <= charging /\ charging <= Before(state) + gap
  /\ state \in Stages /\ start # 0 =>
       Age <= Limit(state) - 1 + gap /\ charging <= Before(state) + Age + Restarted

(* The numbers behind the names.                                           *)
LEMMA Numbers ==
  ASSUME PackAssumption
  PROVE  /\ CC0_TIMEOUT_S \in Nat \ {0} /\ CC1_TIMEOUT_S \in Nat \ {0} /\ CV_TIMEOUT_S \in Nat \ {0}
         /\ MaxGap \in Nat \ {0} /\ TickMod \in Nat
         /\ TickMod > CC0_TIMEOUT_S + CC1_TIMEOUT_S + CV_TIMEOUT_S + 4 * MaxGap
  BY DEF PackAssumption

LEMMA NextTick ==
  ASSUME PackAssumption, now \in 0..TickMod - 1, Tick
  PROVE  now' = IF now = TickMod - 1 THEN 0 ELSE now + 1
<1>1. CASE now = TickMod - 1
  <2>1. now + 1 = TickMod /\ TickMod % TickMod = 0
    BY <1>1, Numbers, SMT
  <2> QED
    BY <1>1, <2>1 DEF Tick
<1>2. CASE now # TickMod - 1
  <2>1. (now + 1) % TickMod = now + 1
    BY <1>2, Numbers, SMT
  <2> QED
    BY <1>2, <2>1 DEF Tick
<1> QED
  BY <1>1, <1>2

(* No charge is longer than its three stages, their waits and one restart. *)
LEMMA ChargeIsShort ==
  ASSUME PackAssumption, ClockInv, state \in Stages
  PROVE  /\ charging <= CC0_TIMEOUT_S + CC1_TIMEOUT_S + CV_TIMEOUT_S - 3 + 4 * MaxGap
         /\ charging < TimeMax /\ charging < TickMod - 1
<1>1. Before(state) + Limit(state) - 1 + MaxGap
        <= CC0_TIMEOUT_S + CC1_TIMEOUT_S + CV_TIMEOUT_S - 3 + 3 * MaxGap
  BY Numbers, SMT DEF Before, Limit, ClockInv, ClockTypes, Stages
<1>2. Limit(state) \in Nat \ {0} /\ Before(state) \in Int
  BY Numbers, SMT DEF Limit, Before
<1>3. charging <= CC0_TIMEOUT_S + CC1_TIMEOUT_S + CV_TIMEOUT_S - 3 + 4 * MaxGap
  BY <1>1, <1>2, Numbers, SMT DEF ClockInv, ClockTypes, Restarted, Age
<1> QED
  BY <1>3, Numbers, SMT DEF TimeMax, ClockInv, ClockTypes

LEMMA TickClock == ASSUME PackAssumption, ClockInv, Tick PROVE ClockInv'
<1>1. now' = IF now = TickMod - 1 THEN 0 ELSE now + 1
  BY NextTick DEF ClockInv, ClockTypes
<1>2. UNCHANGED <<state, start>> /\ gap' = gap + 1 /\ gap' \in 0..MaxGap /\ charging' = Add(charging)
  BY Numbers, SMT DEF Tick, ClockInv, ClockTypes
<1>3. ClockTypes'
  <2>1. now' \in 0..TickMod - 1
    BY <1>1, Numbers, SMT DEF ClockInv, ClockTypes
  <2>2. charging' \in 0..TimeMax
    BY <1>2, Numbers, SMT DEF ClockInv, ClockTypes, Add, TimeMax
  <2> QED
    BY <1>2, <2>1, <2>2 DEF ClockInv, ClockTypes
<1>4. ASSUME state \in Stages PROVE charging' = charging + 1 /\ charging < TickMod - 1
  BY <1>2, <1>4, ChargeIsShort DEF Add
<1>5. Limit(state) \in Nat \ {0} /\ Limit(state) - 1 + MaxGap < TickMod /\ Before(state) \in Int
  BY Numbers, SMT DEF Limit, Before
<1>6. Before(state)' = Before(state) /\ Limit(state)' = Limit(state)
  BY <1>2 DEF Before, Limit
<1>7. ASSUME state \in Stages, start = 0
      PROVE  now' = gap' /\ gap' <= charging' /\ charging' <= Before(state) + gap'
  BY <1>1, <1>2, <1>4, <1>5, <1>7, Numbers, SMT DEF ClockInv, ClockTypes
<1>8. ASSUME state \in Stages, start # 0
      PROVE  Age' <= Limit(state) - 1 + gap' /\ charging' <= Before(state) + Age' + Restarted'
  <2>1. Age' = Age + 1
    BY <1>1, <1>2, <1>5, <1>8, Numbers, SMT DEF ClockInv, ClockTypes, Age
  <2>2. Restarted' >= Restarted
    BY <1>1, <1>2, <1>4, <1>8, Numbers, SMT DEF ClockInv, ClockTypes, Restarted
  <2>3. Age \in Int /\ Restarted \in Int /\ Restarted' \in Int
    BY <1>1, <1>2, <1>3, Numbers, SMT DEF ClockInv, ClockTypes, Age, Restarted
  <2> QED
    BY <1>2, <1>4, <1>5, <1>8, <2>1, <2>2, <2>3, Numbers, SMT DEF ClockInv, ClockTypes
<1> QED
  BY <1>2, <1>3, <1>6, <1>7, <1>8 DEF ClockInv

(* A run of the task in a stage, from the state in which the clock is set. *)
LEMMA StageClock ==
  ASSUME PackAssumption, ClockInv, state \in Stages
  PROVE  /\ Started \in 0..TickMod - 1
         /\ charging <= Before(state) + Limit(state) - 1 + MaxGap + Restarted
         /\ \A t \in Nat : ~Exceeds(t) => Started <= now /\ now - Started < t
         /\ start = 0 /\ now # 0 => Started = now /\ charging <= Before(state) + Restarted
         /\ start = 0 /\ now = 0 => Started = 0 /\ charging <= Before(state)
<1>1. Limit(state) \in Nat \ {0} /\ Before(state) \in Int /\ Restarted \in {0, MaxGap}
  BY Numbers, SMT DEF Limit, Before, Restarted
<1>2. Started \in 0..TickMod - 1 /\ now \in Nat /\ charging \in Int /\ gap \in 0..MaxGap
  BY Numbers, SMT DEF ClockInv, ClockTypes, Started
<1>3. \A t \in Nat : ~Exceeds(t) => Started <= now /\ now - Started < t
  BY <1>2, SMT DEF Exceeds
<1>4. CASE start = 0
  <2>1. now = gap /\ gap <= charging /\ charging <= Before(state) + gap /\ Started = now
    BY <1>4 DEF ClockInv, Started
  <2>2. now # 0 => Restarted = MaxGap
    BY <1>2, <2>1, SMT DEF Restarted
  <2> QED
    BY <1>1, <1>2, <1>3, <1>4, <2>1, <2>2, Numbers, SMT
<1>5. CASE start # 0
  <2>1. Age <= Limit(state) - 1 + gap /\ charging <= Before(state) + Age + Restarted /\ Age \in Int
    BY <1>5, Numbers, SMT DEF ClockInv, ClockTypes, Age
  <2> QED
    BY <1>1, <1>2, <1>3, <1>5, <2>1, Numbers, SMT
<1> QED
  BY <1>4, <1>5

(* A stage that goes on has not reached its limit.                         *)
LEMMA StageGoesOn ==
  ASSUME PackAssumption, ClockInv, state \in Stages, ~Exceeds(Limit(state)),
         UNCHANGED <<state, now, charging>>, gap' = 0, start' = Started
  PROVE  ClockInv'
<1>1. Limit(state) \in Nat \ {0} /\ Before(state) \in Int /\ Restarted \in {0, MaxGap}
  BY Numbers, SMT DEF Limit, Before, Restarted
<1>2. ClockTypes' /\ Limit(state)' = Limit(state) /\ Before(state)' = Before(state)
      /\ Restarted' = Restarted
  BY StageClock, Numbers, SMT DEF ClockInv, ClockTypes, Limit, Before, Restarted, TimeMax
<1>3. Started <= now /\ now - Started < Limit(state)
  BY <1>1, StageClock
<1>4. ASSUME start' = 0 PROVE now' = gap' /\ gap' <= charging' /\ charging' <= Before(state) + gap'
  <2>1. start = 0 /\ now = 0
    BY <1>4, Numbers DEF Started, ClockInv, ClockTypes
  <2> QED
    BY <1>1, <2>1, StageClock, SMT DEF ClockInv, ClockTypes
<1>5. ASSUME start' # 0
      PROVE  Age' <= Limit(state) - 1 + gap' /\ charging' <= Before(state) + Age' + Restarted'
  <2>1. Age' = now - Started /\ Age' \in Nat
    BY <1>3, StageClock, SMT DEF Age, ClockInv, ClockTypes
  <2>2. charging <= Before(state) + Age' + Restarted
    <3>1. CASE start = 0
      BY <1>1, <1>5, <2>1, <3>1, StageClock, SMT DEF Started, ClockInv, ClockTypes
    <3>2. CASE start # 0
      <4>1. Age' = Age /\ charging <= Before(state) + Age + Restarted
        BY <1>3, <2>1, <3>2 DEF Started, Age, ClockInv
      <4> QED
        BY <4>1
    <3> QED
      BY <3>1, <3>2
  <2> QED
    BY <1>1, <1>2, <1>3, <2>1, <2>2, SMT
<1> QED
  BY <1>2, <1>4, <1>5 DEF ClockInv

(* A stage that begins has the time that is left after the stages before.  *)
LEMMA StageBegins ==
  ASSUME PackAssumption, ClockTypes, state' \in {"CC_0_5C", "CC_1C", "CV_16_8V"},
         UNCHANGED now, gap' = 0, start' = now, charging' \in 0..TimeMax,
         charging' <= Before(state') + IF now = 0 THEN 0 ELSE Restarted'
  PROVE  ClockInv'
<1>1. ClockTypes' /\ Age' = 0
  BY Numbers, SMT DEF ClockTypes, Age, States
<1>2. Limit(state') \in Nat \ {0} /\ Before(state') \in Int /\ Restarted' \in {0, MaxGap}
      /\ Limit(state)' = Limit(state') /\ Before(state)' = Before(state')
  BY Numbers, SMT DEF Limit, Before, Restarted
<1> QED
  BY <1>1, <1>2, Numbers, SMT DEF ClockInv, ClockTypes

(* Outside of the stages nothing is asked of the clock.                    *)
LEMMA NoStage ==
  ASSUME PackAssumption, ClockTypes, state' \in {"TRICKLE", "DONE", "FAULT"},
         UNCHANGED now, gap' = 0, start' \in 0..TickMod - 1, charging' \in 0..TimeMax
  PROVE  ClockInv'
<1>1. state' \notin Stages
  BY DEF Stages
<1> QED
  BY <1>1, Numbers DEF ClockInv, ClockTypes, States

LEMMA RunClock == ASSUME PackAssumption, ClockInv, vBmsTask PROVE ClockInv'
<1>1. PICK r \in Readings : ChargeFSM(r.data)
  BY DEF vBmsTask
<1> DEFINE b == r.data
           s == IF Protect(b) THEN "FAULT" ELSE state
<1>2. /\ state' = Successor(s, b) /\ start' = IF state' # s THEN now ELSE Started
      /\ charging' = IF state' \in Stages /\ state \in Stages THEN charging ELSE 0
      /\ gap' = 0 /\ UNCHANGED now
  BY <1>1, Zenon DEF ChargeFSM, vBmsTask
<1>3. /\ start' \in 0..TickMod - 1 /\ charging' \in 0..TimeMax
      /\ ClockTypes /\ 0 <= Before("CC_0_5C")
  BY <1>2, Numbers, SMT DEF ClockInv, ClockTypes, Started, TimeMax, Before
<1> HIDE DEF s, b
<1>4. s \in {"FAULT", state}
  BY DEF s
<1>5. CASE s \in {"TRICKLE", "DONE", "FAULT"}
  <2>1. state' \in {"TRICKLE", "DONE", "FAULT"} \/ (state' = "CC_0_5C" /\ s # "FAULT")
    BY <1>2, <1>5, Succeeds0
  <2>2. ASSUME state' = "CC_0_5C", s # "FAULT" PROVE ClockInv'
    <3>1. state' # s /\ state \notin Stages
      BY <1>4, <1>5, <2>2 DEF Stages
    <3>2. start' = now /\ charging' = 0
      BY <1>2, <3>1
    <3>3. charging' <= Before(state') + IF now = 0 THEN 0 ELSE Restarted'
      BY <1>3, <2>2, <3>2, Numbers, SMT DEF Before, Restarted
    <3> QED
      BY <1>2, <1>3, <2>2, <3>2, <3>3, StageBegins
  <2> QED
    BY <1>2, <1>3, <2>1, <2>2, NoStage
<1>6. CASE s \in {"CC_0_5C", "CC_1C", "CV_16_8V"}
  <2>1. s = state /\ state \in Stages
    BY <1>4, <1>6 DEF Stages
  <2>2. ASSUME state' = state PROVE ClockInv'
    <3>1. ~Exceeds(Limit(state)) /\ start' = Started /\ charging' = charging
      BY <1>2, <1>6, <2>1, <2>2, Succeeds1 DEF Limit
    <3> QED
      BY <1>2, <2>1, <2>2, <3>1, StageGoesOn
  <2>3. ASSUME state' # state, state' \in Stages PROVE ClockInv'
    <3>1. \/ state = "CC_0_5C" /\ state' = "CC_1C"
          \/ state = "CC_1C" /\ state' = "CV_16_8V"
      BY <1>2, <1>6, <2>1, <2>3, Succeeds1 DEF Stages
    <3>2. start' = now /\ charging' = charging /\ Restarted' = Restarted
      BY <1>2, <2>1, <2>3 DEF Restarted
    <3>3. Before(state') = Before(state) + Limit(state) - 1 + MaxGap
      BY <3>1, Numbers, SMT DEF Before, Limit
    <3>4. charging' <= Before(state') + IF now = 0 THEN 0 ELSE Restarted'
      <4>1. charging <= Before(state') + Restarted
        BY <2>1, <3>3, StageClock
      <4>2. now = 0 => Restarted = 0
        BY DEF Restarted
      <4> QED
        BY <3>2, <4>1, <4>2
    <3> QED
      BY <1>2, <1>3, <3>1, <3>2, <3>4, StageBegins
  <2>4. ASSUME state' \notin Stages PROVE ClockInv'
    <3>1. state' \in {"TRICKLE", "DONE", "FAULT"}
      BY <1>2, <1>6, <2>4, Succeeds1 DEF Stages
    <3> QED
      BY <1>2, <1>3, <3>1, NoStage
  <2> QED
    BY <2>2, <2>3, <2>4
<1> QED
  BY <1>3, <1>4, <1>5, <1>6 DEF ClockTypes, States

LEMMA ClockGoesOn == ASSUME PackAssumption, ClockInv, [Next]_vars PROVE ClockInv'
<1>1. CASE UNCHANGED vars
  BY <1>1 DEF vars, ClockInv, ClockTypes, Age, Restarted, Limit, Before
<1> QED
  BY <1>1, TickClock, RunClock DEF Next

(* A target current in mA.                                                 *)
TargetOf(i) == i \in 0..10000

LEMMA TargetRange ==
  ASSUME NEW b, b.voltage \in Nat, NEW s \in States
  PROVE  TargetOf(Target(s, b))
<1>1. Cc2Target(b) \in {5000, 10000}
  BY SMT DEF Cc2Target
<1>2. CvTarget(b) \in 0..5000
  <2> DEFINE v == b.voltage
  <2>1. CvTarget(b) = IF v <= 1680 THEN 5000
                      ELSE IF v - 1680 > 45 THEN 0 ELSE 5000 - (v - 1680) * 100
    BY Zenon DEF CvTarget
  <2>2. v \in Nat
    OBVIOUS
  <2> HIDE DEF v
  <2> QED
    BY <2>1, <2>2, SMT
<1>3. Target(s, b) \in {250, 2500, 5000, Cc2Target(b), CvTarget(b), 0}
  BY DEF Target, States
<1> QED
  BY <1>1, <1>2, <1>3, SMT DEF TargetOf

LEMMA TargetGoesOn ==
  ASSUME PackAssumption, ClockInv, TargetOf(i_target), [Next]_vars PROVE TargetOf(i_target')
<1>1. CASE vBmsTask
  <2>1. PICK r \in Readings : ChargeFSM(r.data)
    BY <1>1 DEF vBmsTask
  <2>2. PICK p \in Packs, failed \in SUBSET CanFail : r.data = BMS_ReadAll(p, failed)
    BY ReadingOf
  <2>3. r.data.voltage \in Nat
    BY <2>2, ReadNumbers
  <2>4. \E s \in States : i_target' = Target(s, r.data)
    <3>1. "FAULT" \in States /\ state \in States
      BY DEF ClockInv, ClockTypes, States
    <3>2. i_target' = Target(IF Protect(r.data) THEN "FAULT" ELSE state, r.data)
      BY <2>1, Zenon DEF ChargeFSM
    <3> QED
      BY <3>1, <3>2, Zenon
  <2> QED
    BY <2>3, <2>4, TargetRange, Zenon
<1>2. CASE Tick \/ UNCHANGED vars
  BY <1>2 DEF Tick, vars
<1> QED
  BY <1>1, <1>2 DEF Next

PackInv == ClockInv /\ OverVoltageStops /\ TargetOf(i_target)

LEMMA PackStarts == ASSUME PackAssumption, Init PROVE PackInv
<1>1. ClockInv
  BY Numbers, SMT DEF Init, ClockInv, ClockTypes, States, Stages, TimeMax
<1>2. OverVoltageStops
  BY DEF Init, OverVoltageStops
<1>3. TargetOf(i_target)
  BY SMT DEF Init, TargetOf
<1> QED
  BY <1>1, <1>2, <1>3 DEF PackInv

LEMMA PackGoesOn == ASSUME PackAssumption, PackInv, [Next]_vars PROVE PackInv'
  BY ClockGoesOn, OverStops, TargetGoesOn DEF PackInv

(* A charge is bounded by the limits of its three stages, one late run for *)
(* each, and one more for the stage that begins when the clock shows 0.    *)
LEMMA PackHolds == ASSUME PackAssumption, PackInv PROVE TypeOK /\ ChargeTimeBounded
<1>1. TypeOK
  BY SMT DEF PackInv, ClockInv, ClockTypes, TypeOK, TargetOf
<1>2. ChargeTimeBounded
  <2> SUFFICES ASSUME state \in Stages
               PROVE  charging <= CC0_TIMEOUT_S + CC1_TIMEOUT_S + CV_TIMEOUT_S + 4 * MaxGap
      BY DEF ChargeTimeBounded
  <2> QED
    BY ChargeIsShort, Numbers, SMT DEF PackInv, ClockInv, ClockTypes
<1> QED
  BY <1>1, <1>2

-----------------------------------------------------------------------------
(* vDockTask: the dock and the standby.                                    *)

(* The bytes of SRAM3 and the record in SRAM2.                             *)
Memory == [bms_rsoc : {0, 50, 98}, byte5 : {0}, current_low : {0, 98}, dock_state : Dock!States,
           cycle_count : {"none", "count"},
           m7_heartbeat_cnt : {"count", "0xDEADBEEF", "0xCAFEBABE"}]
Backups == [dock_state : {"none", "count"}, rsoc : {0, 98}]

DockTyped == Dock!TypeOK /\ shared \in Memory /\ backup \in Backups

(* The rail is low for at most as long as the states have lasted in which  *)
(* the charger is on: LOST_TIMEOUT in the one that finds it out.           *)
LowIsRecent ==
  /\ low <= LOST_TIMEOUT + DOCKED_TIME + 1
  /\ dock_state = "DOCKED" => low <= elapsed /\ elapsed <= DOCKED_TIME
  /\ dock_state = "CHARGING" => low <= DOCKED_TIME + 1 + elapsed
  /\ low # 0 => chrg_en

DockInv == DockTyped /\ Dock!OffWhileAligning /\ LowIsRecent

LEMMA DockNumbers ==
  ASSUME Dock!DockAssumption
  PROVE  /\ ALIGN_TIMEOUT \in Nat /\ DOCKED_TIME \in Nat /\ LOST_TIMEOUT \in Nat
         /\ STANDBY_DELAY \in Nat /\ CHARGE_TIMEOUT \in Nat /\ ADC_SAMPLES \in Nat \ {0}
         /\ Rail \subseteq Nat /\ DOCKED_TIME < LOST_TIMEOUT
         /\ Dock!ElapsedMax \in Nat /\ Dock!LowMax \in Nat /\ Dock!LowMax = LOST_TIMEOUT + DOCKED_TIME + 3
         /\ Dock!ElapsedMax > LOST_TIMEOUT
  BY SMT DEF Dock!DockAssumption, Dock!ElapsedMax, Dock!LowMax

LEMMA DockStarts == ASSUME Dock!DockAssumption, Dock!Init PROVE DockInv
<1>1. shared \in Memory /\ backup \in Backups
  BY DEF Dock!Init, Memory, Backups, Dock!NoBackup, Dock!States
<1>2. Dock!TypeOK
  <2>1. adc_count \in 0..ADC_SAMPLES - 1 /\ elapsed \in 0..Dock!ElapsedMax /\ low \in 0..Dock!LowMax
        /\ rail \in Nat /\ adc_sum \in Nat
    BY DockNumbers, SMT DEF Dock!Init
  <2> QED
    BY <2>1 DEF Dock!Init, Dock!TypeOK, Dock!States, Dock!NoBackup
<1>3. Dock!OffWhileAligning
  BY DEF Dock!Init, Dock!OffWhileAligning
<1>4. LowIsRecent
  BY DockNumbers DEF Dock!Init, LowIsRecent
<1> QED
  BY <1>1, <1>2, <1>3, <1>4 DEF DockInv, DockTyped

(* The memory is written a byte at a time.                                 *)
LEMMA MemoryKept ==
  ASSUME DockInv, Dock!Publish \/ Dock!Signal_M7_DeepSleep \/ Dock!Backup_State \/ Dock!Wake \/ Dock!BmsWrites
  PROVE  DockInv'
<1>1. shared \in Memory /\ backup \in Backups /\ Dock!TypeOK
  BY DEF DockInv, DockTyped
<1>2. dock_state \in Dock!States /\ {ir, ir_changing, chrg_en} \subseteq BOOLEAN
  BY <1>1 DEF Dock!TypeOK
<1>3. shared' \in Memory /\ backup' \in Backups
  <2>1. CASE Dock!Publish
    BY <1>1, <1>2, <2>1 DEF Dock!Publish, Memory, Dock!dock
  <2>2. CASE Dock!Signal_M7_DeepSleep
    BY <1>1, <2>2 DEF Dock!Signal_M7_DeepSleep, Memory
  <2>3. CASE Dock!Backup_State
    BY <1>1, <2>3 DEF Dock!Backup_State, Memory, Backups
  <2>4. CASE Dock!Wake
    BY <1>1, <2>4 DEF Dock!Wake, Memory, Backups
  <2>5. CASE Dock!BmsWrites
    BY <1>1, <2>5 DEF Dock!BmsWrites, Memory
  <2> QED
    BY <2>1, <2>2, <2>3, <2>4, <2>5
<1>4. UNCHANGED Dock!dock /\ pc' \in {"run", "publish", "signal", "backup", "sleep"}
  BY <1>1 DEF Dock!Publish, Dock!Signal_M7_DeepSleep, Dock!Backup_State, Dock!Wake,
              Dock!BmsWrites, Dock!TypeOK
<1>5. shared'.dock_state \in Dock!States /\ backup'.dock_state \in {"none", "count"}
  BY <1>3 DEF Memory, Backups
<1> QED
  BY <1>1, <1>3, <1>4, <1>5
  DEF DockInv, DockTyped, Dock!TypeOK, Dock!dock, LowIsRecent, Dock!OffWhileAligning

(* One call: the readings, the state machine and the clocks.               *)
LEMMA DockReads ==
  ASSUME Dock!DockAssumption, DockInv, Dock!Dock_Run
  PROVE  /\ rail' \in Nat /\ adc_sum' \in Nat /\ adc_count' \in 0..ADC_SAMPLES - 1
         /\ {ir', ir_changing'} \subseteq BOOLEAN
<1>1. PICK v \in Rail, level \in BOOLEAN : Dock!Average(v) /\ Dock!IR_Debounce(level)
  BY DEF Dock!Dock_Run
<1>2. v \in Nat
  BY DockNumbers
<1>3. rail \in Nat /\ adc_sum \in Nat /\ adc_count \in 0..ADC_SAMPLES - 1
  BY DEF DockInv, DockTyped, Dock!TypeOK
<1>4. rail' \in Nat /\ adc_sum' \in Nat /\ adc_count' \in 0..ADC_SAMPLES - 1
  BY <1>1, <1>2, <1>3, DockNumbers, SMT DEF Dock!Average
<1>5. ir \in BOOLEAN /\ ir_changing \in BOOLEAN
  BY DEF DockInv, DockTyped, Dock!TypeOK
<1>6. ir' \in BOOLEAN /\ ir_changing' \in BOOLEAN
  BY <1>1, <1>5, Zenon DEF Dock!IR_Debounce
<1> QED
  BY <1>4, <1>6, Zenon

LEMMA DockMoves ==
  ASSUME DockInv, Dock!Dock_Run
  PROVE  /\ dock_state' \in Dock!States /\ chrg_en' \in BOOLEAN
         /\ dock_state = "SEARCHING" => dock_state' \in {"SEARCHING", "ALIGNING"} /\ chrg_en' = FALSE
         /\ dock_state = "ALIGNING" => dock_state' \in {"ALIGNING", "DOCKED", "SEARCHING"}
                                  /\ UNCHANGED chrg_en
         /\ dock_state \in {"DOCKED", "CHARGING"} /\ Dock!RailGone =>
              dock_state' = "SEARCHING" /\ chrg_en' = FALSE
         /\ dock_state = "DOCKED" /\ ~Dock!RailGone =>
              dock_state' = (IF Dock!After(DOCKED_TIME) THEN "CHARGING" ELSE "DOCKED")
         /\ dock_state = "CHARGING" /\ ~Dock!RailGone => dock_state' \in {"STANDBY", "CHARGING"}
         /\ dock_state = "STANDBY" =>
              \/ dock_state' = "SEARCHING" /\ chrg_en' = FALSE /\ Dock!Lost
              \/ dock_state' \in {"STANDBY", "SEARCHING"} /\ UNCHANGED chrg_en /\ ~Dock!Lost
<1>1. dock_state \in Dock!States /\ chrg_en \in BOOLEAN
  BY DEF DockInv, DockTyped, Dock!TypeOK
<1>2. Dock!Searching \/ Dock!Aligning \/ Dock!Docked \/ Dock!Charging \/ Dock!Standby
  BY DEF Dock!Dock_Run
<1>3. CASE Dock!Searching
  BY <1>1, <1>3 DEF Dock!Searching, Dock!To, Dock!States
<1>4. CASE Dock!Aligning
  <2>1. dock_state' \in {"ALIGNING", "DOCKED", "SEARCHING"}
    BY <1>4, Zenon DEF Dock!Aligning, Dock!To
  <2> QED
    BY <1>1, <1>4, <2>1 DEF Dock!Aligning, Dock!States
<1>5. CASE Dock!Docked
  BY <1>1, <1>5 DEF Dock!Docked, Dock!To, Dock!Undock, Dock!States
<1>6. CASE Dock!Charging
  BY <1>1, <1>6 DEF Dock!Charging, Dock!To, Dock!Undock, Dock!States
<1>7. CASE Dock!Standby
  BY <1>1, <1>7 DEF Dock!Standby, Dock!To, Dock!Undock, Dock!States
<1> QED
  BY <1>2, <1>3, <1>4, <1>5, <1>6, <1>7

LEMMA DockRuns == ASSUME Dock!DockAssumption, DockInv, Dock!Dock_Run PROVE DockInv'
<1>1. /\ elapsed' = IF dock_state' # dock_state THEN 0 ELSE IF elapsed < Dock!ElapsedMax THEN elapsed + 1 ELSE elapsed
      /\ low' = IF Dock!Lost /\ chrg_en' THEN (IF low < Dock!LowMax THEN low + 1 ELSE low) ELSE 0
      /\ pc' \in {"signal", "publish"} /\ UNCHANGED <<shared, backup>>
  BY DEF Dock!Dock_Run
<1>2. /\ elapsed \in 0..Dock!ElapsedMax /\ low \in 0..Dock!LowMax
      /\ LowIsRecent /\ Dock!OffWhileAligning /\ dock_state \in Dock!States /\ chrg_en \in BOOLEAN
  BY DEF DockInv, DockTyped, Dock!TypeOK
<1>3. elapsed' \in 0..Dock!ElapsedMax /\ low' \in 0..Dock!LowMax
  BY <1>1, <1>2, DockNumbers, SMT
<1>4. Dock!TypeOK' /\ DockTyped'
  BY <1>1, <1>3, DockReads, DockMoves DEF DockInv, DockTyped, Dock!TypeOK
<1>5. Dock!OffWhileAligning'
  BY <1>2, DockMoves DEF Dock!OffWhileAligning, Dock!States
<1>6. low' # 0 => chrg_en'
  BY <1>1
<1>7. Dock!Lost \/ low' = 0
  BY <1>1
<1>8. low' <= low + 1
  BY <1>1, <1>2, DockNumbers, SMT
<1>9. CASE dock_state \in {"SEARCHING", "ALIGNING"}
  <2>1. low' = 0
    <3>1. ~chrg_en'
      BY <1>2, <1>9, DockMoves DEF Dock!OffWhileAligning
    <3> QED
      BY <1>1, <3>1, Zenon
  <2>2. dock_state' \in {"SEARCHING", "ALIGNING", "DOCKED"} /\ (dock_state' = "DOCKED" => elapsed' = 0)
    BY <1>1, <1>9, DockMoves
  <2> QED
    BY <1>4, <1>5, <2>1, <2>2, DockNumbers, SMT DEF DockInv, LowIsRecent
<1>10. CASE dock_state = "DOCKED"
  <2>1. CASE Dock!RailGone
    <3>1. dock_state' = "SEARCHING" /\ low' = 0
      BY <1>1, <1>10, <2>1, DockMoves
    <3> QED
      BY <1>4, <1>5, <1>6, <3>1, DockNumbers, SMT DEF DockInv, LowIsRecent
  <2>2. CASE ~Dock!RailGone
    <3>1. dock_state' = IF Dock!After(DOCKED_TIME) THEN "CHARGING" ELSE "DOCKED"
      BY <1>10, <2>2, DockMoves
    <3>2. low <= elapsed /\ elapsed <= DOCKED_TIME
      BY <1>2, <1>10 DEF LowIsRecent
    <3>3. CASE Dock!After(DOCKED_TIME)
      <4>1. elapsed' = 0 /\ low' <= DOCKED_TIME + 1 /\ dock_state' = "CHARGING"
        BY <1>1, <1>2, <1>8, <1>10, <3>1, <3>2, <3>3, <1>3, DockNumbers, SMT
      <4> QED
        BY <1>3, <1>4, <1>5, <1>6, <4>1, DockNumbers, SMT DEF DockInv, LowIsRecent
    <3>4. CASE ~Dock!After(DOCKED_TIME)
      <4>1. elapsed' = elapsed + 1 /\ elapsed' <= DOCKED_TIME /\ dock_state' = "DOCKED"
        BY <1>1, <1>2, <1>10, <3>1, <3>2, <3>4, DockNumbers, SMT DEF Dock!After
      <4>2. low' <= elapsed'
        BY <1>2, <1>3, <1>8, <3>2, <4>1, SMT
      <4> QED
        BY <1>3, <1>4, <1>5, <1>6, <4>1, <4>2, DockNumbers, SMT DEF DockInv, LowIsRecent
    <3> QED
      BY <3>3, <3>4
  <2> QED
    BY <2>1, <2>2
<1>11. CASE dock_state = "CHARGING"
  <2>1. CASE Dock!RailGone
    <3>1. dock_state' = "SEARCHING" /\ low' = 0
      BY <1>1, <1>11, <2>1, DockMoves
    <3> QED
      BY <1>4, <1>5, <1>6, <3>1, DockNumbers, SMT DEF DockInv, LowIsRecent
  <2>2. CASE ~Dock!RailGone
    <3>1. low' = 0 \/ elapsed < LOST_TIMEOUT
      BY <1>2, <1>7, <2>2, DockNumbers, SMT DEF Dock!RailGone, Dock!After
    <3>2. dock_state' \in {"STANDBY", "CHARGING"} /\ low <= DOCKED_TIME + 1 + elapsed
      BY <1>2, <1>11, <2>2, DockMoves DEF LowIsRecent
    <3>3. low' <= LOST_TIMEOUT + DOCKED_TIME + 1
      BY <1>2, <1>3, <1>8, <3>1, <3>2, DockNumbers, SMT
    <3>4. dock_state' = "CHARGING" => low' <= DOCKED_TIME + 1 + elapsed'
      BY <1>1, <1>2, <1>3, <1>8, <1>11, <3>1, <3>2, DockNumbers, SMT
    <3> QED
      BY <1>4, <1>5, <1>6, <3>2, <3>3, <3>4, SMT DEF DockInv, LowIsRecent
  <2> QED
    BY <2>1, <2>2
<1>12. CASE dock_state = "STANDBY"
  <2>1. low' = 0 /\ dock_state' \in {"STANDBY", "SEARCHING"}
    BY <1>1, <1>12, DockMoves
  <2> QED
    BY <1>4, <1>5, <1>6, <2>1, DockNumbers, SMT DEF DockInv, LowIsRecent
<1> QED
  BY <1>2, <1>9, <1>10, <1>11, <1>12 DEF Dock!States

LEMMA DockSteps == ASSUME Dock!DockAssumption, DockInv, Dock!Next PROVE DockInv'
  BY MemoryKept, DockRuns DEF Dock!Next, Dock!vDockTask

LEMMA DockStays == ASSUME DockInv, UNCHANGED Dock!vars PROVE DockInv'
  BY DEF Dock!vars, Dock!dock, DockInv, DockTyped, Dock!TypeOK, LowIsRecent,
         Dock!OffWhileAligning

-----------------------------------------------------------------------------
(* The detectors of Core/safety.                                           *)

LEMMA SensorNumbers ==
  ASSUME Sensors!SensorsAssumption
  PROVE  /\ UpdateGap \in Nat \ {0} /\ COLLISION_JERK_SAMPLES \in Nat \ {0}
         /\ COLLISION_JERK_WINDOW \in Nat \ {0} /\ COLLISION_BUMPER_DEBOUNCE \in Nat \ {0}
         /\ StopTime \in Nat \ {0} /\ RetreatTime \in Nat \ {0} /\ TurnTime \in Nat \ {0}
         /\ COLLISION_RESUME_DELAY \in Nat \ {0} /\ TILT_RECOVERY_REVERSE \in Nat \ {0}
         /\ TILT_RECOVERY_SETTLE \in Nat \ {0} /\ TILT_RECOVERY_DEBOUNCE \in Nat \ {0}
         /\ HARD_STALL_TIME \in Nat \ {0} /\ SOFT_STALL_TIME \in Nat \ {0}
         /\ HardRecovery \in Nat \ {0} /\ SoftRecovery \in Nat \ {0}
         /\ SlipRecovery \in Nat \ {0} /\ CLIFF_IR_TOF_FAULT_SAMPLES \in Nat \ {0}
         /\ Angle \subseteq Nat
  BY DEF Sensors!SensorsAssumption

(* The age of a condition that runs, and of one that begins.               *)
LEMMA Ages ==
  ASSUME NEW from \in Int, from >= Sensors!NotRunning, NEW dt \in Nat, NEW limit \in Nat
  PROVE  /\ Sensors!Since(from, dt, limit) \in 0..limit + 1
         /\ from = Sensors!NotRunning => Sensors!Since(from, dt, limit) = 0
         /\ from # Sensors!NotRunning /\ Sensors!Since(from, dt, limit) <= limit =>
              Sensors!Since(from, dt, limit) = from + dt
         /\ from # Sensors!NotRunning => Sensors!Since(from, dt, limit) <= from + dt
  BY SMT DEF Sensors!Since, Sensors!UpTo, Sensors!NotRunning

LEMMA Lasting ==
  ASSUME NEW from, NEW dt, NEW limit, NEW condition \in BOOLEAN
  PROVE  /\ condition => Sensors!While(condition, from, dt, limit) = Sensors!Since(from, dt, limit)
         /\ ~condition => Sensors!While(condition, from, dt, limit) = Sensors!NotRunning
  BY DEF Sensors!While

-----------------------------------------------------------------------------
(* safety_collision.c.                                                     *)
Colls == [state : Sensors!Phase, age : Nat, n : Nat, window : Nat, pressed : BOOLEAN,
          change : Sensors!NotRunning..COLLISION_BUMPER_DEBOUNCE, triggered : BOOLEAN]

(* What the phases before s may have taken.                                *)
Spent(s) ==
  IF s = "STOPPED" THEN 0
  ELSE IF s = "RETREAT" THEN StopTime + UpdateGap
  ELSE IF s = "TURN" THEN StopTime + RetreatTime + 2 * UpdateGap
  ELSE IF s = "RESUME" THEN StopTime + RetreatTime + TurnTime + 3 * UpdateGap
  ELSE StopTime + RetreatTime + TurnTime + COLLISION_RESUME_DELAY + 4 * UpdateGap

(* A bumper that is held is one the debounce is counting.                  *)
CollInv ==
  /\ coll \in Colls /\ resp \in Nat /\ held \in Sensors!NotRunning..COLLISION_BUMPER_DEBOUNCE
  /\ held # Sensors!NotRunning =>
       /\ coll.state = "OK" /\ coll.pressed => held = 0
       /\ coll.state = "OK"
       /\ ~coll.pressed => coll.change # Sensors!NotRunning /\ held <= coll.change
  /\ coll.state = "OK" => resp <= Spent("OK")
  /\ coll.state # "OK" => coll.age <= Sensors!Lasts[coll.state]
                          /\ resp <= Spent(coll.state) + coll.age

LEMMA CollStarts == ASSUME Sensors!SensorsAssumption, Sensors!CollInit PROVE CollInv
<1>1. coll \in Colls
  BY SensorNumbers, SMT DEF Sensors!CollInit, Colls, Sensors!Phase, Sensors!NotRunning
<1>2. coll.state = "OK" /\ held = Sensors!NotRunning /\ resp = 0
  BY DEF Sensors!CollInit
<1>3. Spent("OK") \in Nat /\ held \in Sensors!NotRunning..COLLISION_BUMPER_DEBOUNCE
  BY <1>2, SensorNumbers, SMT DEF Spent, Sensors!NotRunning
<1> QED
  BY <1>1, <1>2, <1>3, SMT DEF CollInv

LEMMA CollCleared == ASSUME Sensors!SensorsAssumption, CollInv, Sensors!COLL_Clear PROVE CollInv'
<1>1. coll' \in Colls /\ coll'.state = "OK" /\ held' = Sensors!NotRunning /\ resp' = 0
  <2>1. coll \in Colls /\ "OK" \in Sensors!Phase /\ 0 \in Nat
    BY DEF CollInv, Sensors!Phase
  <2>2. coll' = [coll EXCEPT !.state = "OK", !.age = 0, !.triggered = FALSE, !.n = 0]
    BY DEF Sensors!COLL_Clear
  <2>3. coll' \in Colls /\ coll'.state = "OK"
    BY <2>1, <2>2 DEF Colls
  <2> QED
    BY <2>3 DEF Sensors!COLL_Clear
<1>2. Spent("OK") \in Nat /\ held' \in Sensors!NotRunning..COLLISION_BUMPER_DEBOUNCE
  BY <1>1, SensorNumbers, SMT DEF Spent, Sensors!NotRunning
<1> QED
  BY <1>1, <1>2, SMT DEF CollInv

(* What a call sees before the response: the debounced bumper.             *)
LEMMA CollSees ==
  ASSUME Sensors!SensorsAssumption, coll \in Colls, NEW dt \in 1..UpdateGap, NEW hit \in BOOLEAN,
         NEW bumper \in BOOLEAN
  PROVE  LET d == Sensors!Debounced(Sensors!Counted(coll, hit, dt), bumper, dt)
             c == [d EXCEPT !.triggered = d.triggered \/ d.pressed]
             age == Sensors!Since(coll.change, dt, COLLISION_BUMPER_DEBOUNCE)
         IN  /\ c \in Colls /\ c.state = coll.state /\ c.age = coll.age
             /\ c.pressed => c.triggered
             /\ coll.pressed /\ bumper => c.pressed
             /\ bumper /\ ~c.pressed => age <= COLLISION_BUMPER_DEBOUNCE /\ c.change = age
<1> DEFINE k == Sensors!Counted(coll, hit, dt)
           d == Sensors!Debounced(k, bumper, dt)
           c == [d EXCEPT !.triggered = d.triggered \/ d.pressed]
           age == Sensors!Since(coll.change, dt, COLLISION_BUMPER_DEBOUNCE)
<1>1. k \in Colls /\ k.state = coll.state /\ k.age = coll.age /\ k.pressed = coll.pressed
      /\ k.change = coll.change
  <2> DEFINE fresh == coll.window + dt > COLLISION_JERK_WINDOW
             n == (IF fresh THEN 0 ELSE coll.n) + (IF hit THEN 1 ELSE 0)
             t == coll.triggered \/ (hit /\ n >= COLLISION_JERK_SAMPLES)
  <2>1. n \in Nat /\ Sensors!UpTo(COLLISION_JERK_SAMPLES, n) \in Nat
        /\ (IF fresh THEN 0 ELSE coll.window + dt) \in Nat
    BY SensorNumbers, SMT DEF Colls, Sensors!UpTo
  <2>2. t \in BOOLEAN
    BY Zenon
  <2>3. k = [coll EXCEPT !.n = Sensors!UpTo(COLLISION_JERK_SAMPLES, n),
                         !.window = IF fresh THEN 0 ELSE coll.window + dt, !.triggered = t]
    BY Zenon DEF Sensors!Counted
  <2> HIDE DEF fresh, n, t, k
  <2> QED
    BY <2>1, <2>2, <2>3 DEF Colls
<1> HIDE DEF k
<1>2. age \in 0..COLLISION_BUMPER_DEBOUNCE + 1
  <2>1. coll.change \in Int /\ coll.change >= Sensors!NotRunning
        /\ dt \in Nat /\ COLLISION_BUMPER_DEBOUNCE \in Nat
    BY SensorNumbers, SMT DEF Colls, Sensors!NotRunning
  <2> QED
    BY <2>1, Ages, Zenon
<1> HIDE DEF age
<1>3. d = IF bumper = k.pressed THEN [k EXCEPT !.change = Sensors!NotRunning]
          ELSE IF age > COLLISION_BUMPER_DEBOUNCE
               THEN [k EXCEPT !.pressed = bumper, !.change = Sensors!NotRunning]
               ELSE [k EXCEPT !.change = age]
  BY <1>1, Zenon DEF Sensors!Debounced, age
<1>4. Sensors!NotRunning \in Sensors!NotRunning..COLLISION_BUMPER_DEBOUNCE
      /\ (~(age > COLLISION_BUMPER_DEBOUNCE) =>
            age \in Sensors!NotRunning..COLLISION_BUMPER_DEBOUNCE /\ age <= COLLISION_BUMPER_DEBOUNCE)
  BY <1>2, SensorNumbers, SMT DEF Sensors!NotRunning
<1>5. /\ d \in Colls /\ d.state = coll.state /\ d.age = coll.age
      /\ coll.pressed /\ bumper => d.pressed
      /\ bumper /\ ~d.pressed => age <= COLLISION_BUMPER_DEBOUNCE /\ d.change = age
  <2>1. CASE bumper = k.pressed
    BY <1>1, <1>3, <1>4, <2>1 DEF Colls
  <2>2. CASE bumper # k.pressed /\ age > COLLISION_BUMPER_DEBOUNCE
    <3>1. d = [k EXCEPT !.pressed = bumper, !.change = Sensors!NotRunning]
      BY <1>3, <2>2, Zenon
    <3> HIDE DEF d
    <3> QED
      BY <1>1, <1>4, <2>2, <3>1 DEF Colls
  <2>3. CASE bumper # k.pressed /\ ~(age > COLLISION_BUMPER_DEBOUNCE)
    <3>1. d = [k EXCEPT !.change = age]
      BY <1>3, <2>3, Zenon
    <3> HIDE DEF d
    <3> QED
      BY <1>1, <1>4, <2>3, <3>1 DEF Colls
  <2> QED
    BY <2>1, <2>2, <2>3
<1> HIDE DEF d
<1>6. c \in Colls /\ c.state = d.state /\ c.age = d.age /\ c.pressed = d.pressed
      /\ c.change = d.change /\ (c.pressed => c.triggered)
  BY <1>5 DEF Colls
<1> QED
  BY <1>5, <1>6, Zenon DEF c, d, k, age

(* The phases, and the time that each of them takes.                       *)
LEMMA Phases ==
  ASSUME Sensors!SensorsAssumption, NEW s \in Sensors!Phase \ {"OK"}
  PROVE  /\ Sensors!Lasts[s] \in Nat /\ Sensors!After[s] \in Sensors!Phase /\ (Sensors!After[s] = "OK" => s = "RESUME")
         /\ Spent(s) \in Nat /\ Spent(Sensors!After[s]) = Spent(s) + Sensors!Lasts[s] + UpdateGap
         /\ Sensors!After[s] # "OK" => Sensors!Lasts[Sensors!After[s]] \in Nat
<1>1. s \in {"STOPPED", "RETREAT", "TURN", "RESUME"}
  BY DEF Sensors!Phase
<1>2. Sensors!Lasts[s] \in Nat /\ Sensors!After[s] \in Sensors!Phase /\ (Sensors!After[s] = "OK" => s = "RESUME")
      /\ (Sensors!After[s] # "OK" => Sensors!Lasts[Sensors!After[s]] \in Nat)
  BY <1>1, SensorNumbers DEF Sensors!Lasts, Sensors!After, Sensors!Phase
<1>3. Spent(s) \in Nat
  BY <1>1, SensorNumbers, SMT DEF Spent
<1>4. Spent(Sensors!After[s]) = Spent(s) + Sensors!Lasts[s] + UpdateGap
  <2>1. CASE s = "STOPPED"
    BY <2>1, SensorNumbers, SMT DEF Spent, Sensors!After, Sensors!Lasts
  <2>2. CASE s = "RETREAT"
    BY <2>2, SensorNumbers, SMT DEF Spent, Sensors!After, Sensors!Lasts
  <2>3. CASE s = "TURN"
    BY <2>3, SensorNumbers, SMT DEF Spent, Sensors!After, Sensors!Lasts
  <2>4. CASE s = "RESUME"
    BY <2>4, SensorNumbers, SMT DEF Spent, Sensors!After, Sensors!Lasts
  <2> QED
    BY <1>1, <2>1, <2>2, <2>3, <2>4
<1> QED
  BY <1>2, <1>3, <1>4

LEMMA CollUpdated == ASSUME Sensors!SensorsAssumption, CollInv, Sensors!COLL_Update PROVE CollInv'
<1>1. PICK dt \in 1..UpdateGap, hit \in BOOLEAN, bumper \in BOOLEAN :
        LET c == Sensors!Debounced(Sensors!Counted(coll, hit, dt), bumper, dt)
        IN  /\ coll' = Sensors!collision_response_sequence(
                         [c EXCEPT !.triggered = c.triggered \/ c.pressed], dt)
            /\ held' = Sensors!While(bumper /\ coll'.state = "OK", held, dt, COLLISION_BUMPER_DEBOUNCE)
            /\ resp' = IF coll.state = "OK" THEN 0 ELSE resp + dt
  BY Zenon DEF Sensors!COLL_Update
<1>2. /\ coll \in Colls /\ resp \in Nat /\ held \in Sensors!NotRunning..COLLISION_BUMPER_DEBOUNCE
      /\ coll.state \in Sensors!Phase /\ coll.age \in Nat
      /\ coll.change \in Int /\ coll.change >= Sensors!NotRunning /\ held \in Int /\ held >= Sensors!NotRunning
      /\ dt \in Nat /\ dt <= UpdateGap
  BY SensorNumbers, SMT DEF CollInv, Colls, Sensors!NotRunning
<1> DEFINE d == Sensors!Debounced(Sensors!Counted(coll, hit, dt), bumper, dt)
           c == [d EXCEPT !.triggered = d.triggered \/ d.pressed]
           age == Sensors!Since(coll.change, dt, COLLISION_BUMPER_DEBOUNCE)
           stays == bumper /\ coll'.state = "OK"
<1>3. /\ c \in Colls /\ c.state = coll.state /\ c.age = coll.age
      /\ c.pressed => c.triggered
      /\ coll.pressed /\ bumper => c.pressed
      /\ bumper /\ ~c.pressed => age <= COLLISION_BUMPER_DEBOUNCE /\ c.change = age
  BY <1>2, CollSees, Zenon
<1>4. /\ coll' = Sensors!collision_response_sequence(c, dt)
      /\ resp' = IF coll.state = "OK" THEN 0 ELSE resp + dt
      /\ stays => held' = Sensors!Since(held, dt, COLLISION_BUMPER_DEBOUNCE)
      /\ ~stays => held' = Sensors!NotRunning
  BY <1>1, Zenon DEF Sensors!While
<1> HIDE DEF c, d
<1>c. COLLISION_BUMPER_DEBOUNCE \in Nat
  BY SensorNumbers
<1>5. /\ age \in 0..COLLISION_BUMPER_DEBOUNCE + 1
      /\ coll.change # Sensors!NotRunning /\ age <= COLLISION_BUMPER_DEBOUNCE => age = coll.change + dt
      /\ Sensors!Since(held, dt, COLLISION_BUMPER_DEBOUNCE) \in 0..COLLISION_BUMPER_DEBOUNCE + 1
      /\ held = Sensors!NotRunning => Sensors!Since(held, dt, COLLISION_BUMPER_DEBOUNCE) = 0
      /\ held # Sensors!NotRunning => Sensors!Since(held, dt, COLLISION_BUMPER_DEBOUNCE) <= held + dt
  BY <1>2, <1>c, Ages, Zenon
<1> HIDE DEF age
<1>6. Sensors!NotRunning \in Sensors!NotRunning..COLLISION_BUMPER_DEBOUNCE /\ Sensors!NotRunning = -1
  BY SensorNumbers, SMT DEF Sensors!NotRunning
<1>7. CASE coll.state = "OK"
  <2>1. coll' = IF c.triggered THEN [c EXCEPT !.state = "STOPPED", !.age = 0] ELSE c
    BY <1>3, <1>4, <1>7, Zenon DEF Sensors!collision_response_sequence
  <2>2. coll' \in Colls /\ resp' = 0 /\ resp' \in Nat
    <3>1. [c EXCEPT !.state = "STOPPED", !.age = 0] \in Colls
      BY <1>3 DEF Colls, Sensors!Phase
    <3> QED
      BY <1>3, <1>4, <1>7, <2>1, <3>1
  <2>3. CASE c.triggered
    <3>1. coll'.state = "STOPPED" /\ coll'.age = 0 /\ held' = Sensors!NotRunning
      BY <1>3, <1>4, <2>1, <2>3 DEF Colls
    <3>2. Sensors!Lasts["STOPPED"] \in Nat /\ Spent("STOPPED") \in Nat
      BY Phases DEF Sensors!Phase
    <3> QED
      BY <1>6, <2>2, <3>1, <3>2, SMT DEF CollInv
  <2>4. CASE ~c.triggered
    <3>1. coll' = c /\ ~c.pressed /\ coll'.state = "OK"
      BY <1>3, <1>7, <2>1, <2>4
    <3>2. Spent("OK") \in Nat
      BY SensorNumbers, SMT DEF Spent
    <3>3. ASSUME bumper
          PROVE  /\ held' \in 0..COLLISION_BUMPER_DEBOUNCE /\ held' <= coll'.change
                 /\ coll'.change # Sensors!NotRunning
      <4>1. ~coll.pressed /\ age <= COLLISION_BUMPER_DEBOUNCE /\ coll'.change = age
            /\ held' = Sensors!Since(held, dt, COLLISION_BUMPER_DEBOUNCE)
        BY <1>3, <1>4, <3>1, <3>3
      <4>2. held # Sensors!NotRunning => held <= coll.change /\ coll.change # Sensors!NotRunning
        BY <4>1 DEF CollInv
      <4> QED
        BY <1>2, <1>5, <1>6, <4>1, <4>2, SensorNumbers, SMT
    <3>4. ~bumper => held' = Sensors!NotRunning
      BY <1>4
    <3>5. held' \in Sensors!NotRunning..COLLISION_BUMPER_DEBOUNCE
      BY <1>6, <3>3, <3>4, SensorNumbers, SMT
    <3> QED
      BY <2>2, <3>1, <3>2, <3>3, <3>4, <3>5, SMT DEF CollInv
  <2> QED
    BY <2>3, <2>4
<1>8. CASE coll.state # "OK"
  <2>1. coll' = IF c.age + dt > Sensors!Lasts[c.state]
                THEN [c EXCEPT !.state = Sensors!After[c.state], !.age = 0,
                               !.triggered = c.state # "RESUME" /\ c.triggered]
                ELSE [c EXCEPT !.age = c.age + dt]
    BY <1>3, <1>4, <1>8, Zenon DEF Sensors!collision_response_sequence
  <2>2. /\ coll.age <= Sensors!Lasts[coll.state] /\ resp <= Spent(coll.state) + coll.age
        /\ held = Sensors!NotRunning /\ resp' = resp + dt
    BY <1>4, <1>8 DEF CollInv
  <2>3. /\ Sensors!Lasts[coll.state] \in Nat /\ Sensors!After[coll.state] \in Sensors!Phase
        /\ Spent(coll.state) \in Nat
        /\ Spent(Sensors!After[coll.state]) = Spent(coll.state) + Sensors!Lasts[coll.state] + UpdateGap
        /\ Sensors!After[coll.state] # "OK" => Sensors!Lasts[Sensors!After[coll.state]] \in Nat
    BY <1>2, <1>8, Phases
  <2>4. CASE c.age + dt > Sensors!Lasts[c.state]
    <3>1. /\ coll' \in Colls /\ coll'.state = Sensors!After[coll.state] /\ coll'.age = 0
          /\ coll'.pressed = c.pressed /\ coll'.change = c.change
      <4>1. (c.state # "RESUME" /\ c.triggered) \in BOOLEAN
        BY Zenon
      <4> QED
        BY <1>3, <2>1, <2>3, <2>4, <4>1 DEF Colls
    <3>2. resp' <= Spent(coll'.state) /\ resp' \in Nat
      BY <1>2, <2>2, <2>3, <3>1, SensorNumbers, SMT
    <3>3. held' \in {Sensors!NotRunning, 0} /\ (held' # Sensors!NotRunning => stays)
      BY <1>4, <1>5, <2>2
    <3>4. ASSUME stays, ~coll'.pressed PROVE coll'.change # Sensors!NotRunning /\ 0 <= coll'.change
      <4>1. coll'.change = age
        BY <1>3, <3>1, <3>4
      <4> QED
        BY <1>5, <1>6, <4>1, SensorNumbers, SMT
    <3>5. held' \in Sensors!NotRunning..COLLISION_BUMPER_DEBOUNCE
      BY <1>6, <3>3, SensorNumbers, SMT
    <3>6. held' # Sensors!NotRunning =>
            /\ coll'.state = "OK" /\ held' = 0
            /\ ~coll'.pressed => coll'.change # Sensors!NotRunning /\ held' <= coll'.change
      BY <3>3, <3>4
    <3>7. coll'.state # "OK" => coll'.age <= Sensors!Lasts[coll'.state]
                                /\ resp' <= Spent(coll'.state) + coll'.age
      <4>1. Spent(coll'.state) \in Int /\ (coll'.state # "OK" => Sensors!Lasts[coll'.state] \in Nat)
        BY <2>3, <3>1, SensorNumbers, SMT
      <4> QED
        BY <3>1, <3>2, <4>1, SMT
    <3> HIDE DEF stays
    <3>8. coll'.state = "OK" => resp' <= Spent("OK")
      BY <3>2
    <3> QED
      BY <3>1, <3>2, <3>5, <3>6, <3>7, <3>8 DEF CollInv
  <2>5. CASE ~(c.age + dt > Sensors!Lasts[c.state])
    <3>1. /\ coll' \in Colls /\ coll'.state = coll.state /\ coll'.age = coll.age + dt
      BY <1>2, <1>3, <2>1, <2>5 DEF Colls
    <3>2. coll'.age <= Sensors!Lasts[coll'.state] /\ resp' <= Spent(coll'.state) + coll'.age
          /\ resp' \in Nat
      BY <1>2, <1>3, <2>2, <2>3, <2>5, <3>1, SMT
    <3>3. held' = Sensors!NotRunning
      BY <1>4, <1>8, <3>1
    <3> QED
      BY <1>6, <1>8, <3>1, <3>2, <3>3 DEF CollInv
  <2> QED
    BY <2>4, <2>5
<1> QED
  BY <1>7, <1>8

LEMMA CollSteps == ASSUME Sensors!SensorsAssumption, CollInv, Sensors!CollNext PROVE CollInv'
  BY CollUpdated, CollCleared DEF Sensors!CollNext

LEMMA CollSays == ASSUME Sensors!SensorsAssumption, CollInv PROVE Sensors!BumperStops /\ Sensors!ResponseEnds /\ coll.state \in Sensors!Phase
<1>1. Sensors!BumperStops /\ coll.state \in Sensors!Phase
  BY SensorNumbers, SMT DEF CollInv, Sensors!BumperStops, Colls, Sensors!NotRunning
<1>2. Sensors!ResponseEnds
  <2>1. CASE coll.state = "OK"
    BY <2>1, SMT DEF CollInv, Sensors!ResponseEnds, Spent
  <2>2. CASE coll.state # "OK"
    <3>1. coll.age <= Sensors!Lasts[coll.state] /\ resp <= Spent(coll.state) + coll.age
      BY <2>2 DEF CollInv
    <3>2. Spent(coll.state) + Sensors!Lasts[coll.state] <= Spent("OK")
      BY <1>1, <2>2, SensorNumbers, SMT DEF Sensors!Phase, Spent, Sensors!Lasts
    <3>3. Sensors!Lasts[coll.state] \in Nat /\ Spent(coll.state) \in Nat /\ coll.age \in Nat /\ resp \in Nat
      BY <1>1, <2>2, Phases DEF CollInv, Colls
    <3> QED
      BY <3>1, <3>2, <3>3, SensorNumbers, SMT DEF Sensors!ResponseEnds, Spent
  <2> QED
    BY <2>1, <2>2
<1> QED
  BY <1>1, <1>2

-----------------------------------------------------------------------------
(* safety_tilt.c.                                                          *)
TiltStates == {"OK", "WARNING", "CRITICAL", "RECOVERING", "TIPPED"}
Tilts == [state : TiltStates, age : Nat, phase : 0..3, rage : Nat]

(* A critical tilt that is not answered is one the debounce is counting.   *)
TiltInv ==
  /\ tilt \in Tilts /\ over \in Sensors!NotRunning..TILT_RECOVERY_DEBOUNCE
  /\ over # Sensors!NotRunning => tilt.state = "OK" /\ over <= tilt.age

LEMMA TiltStarts == ASSUME Sensors!SensorsAssumption, Sensors!TiltInit PROVE TiltInv
<1>1. tilt \in Tilts
  BY SMT DEF Sensors!TiltInit, Tilts, TiltStates
<1> QED
  BY <1>1, SensorNumbers, SMT DEF Sensors!TiltInit, TiltInv, Sensors!NotRunning

LEMMA TiltReset == ASSUME Sensors!SensorsAssumption, TiltInv, Sensors!TILT_Reset PROVE TiltInv'
<1>1. tilt \in Tilts /\ "OK" \in TiltStates /\ 0 \in 0..3 /\ 0 \in Nat
  BY DEF TiltInv, TiltStates
<1>2. tilt' = [tilt EXCEPT !.state = "OK", !.age = 0, !.phase = 0] /\ over' = Sensors!NotRunning
  BY DEF Sensors!TILT_Reset
<1>3. tilt' \in Tilts
  BY <1>1, <1>2 DEF Tilts
<1> QED
  BY <1>2, <1>3, SensorNumbers, SMT DEF TiltInv, Sensors!NotRunning

(* The recovery begins and ends with another state than the warning.       *)
LEMMA TiltRecovers ==
  ASSUME Sensors!SensorsAssumption, NEW t \in Tilts, t.state = "RECOVERING", NEW m, NEW rage \in Nat
  PROVE  LET r == Sensors!tilt_recovery_sequence(t, m, rage)
         IN  r \in Tilts /\ r.state \in {"RECOVERING", "OK"} /\ r.age = t.age
<1> DEFINE goto(p) == [t EXCEPT !.phase = p, !.rage = 0]
           stay == [t EXCEPT !.rage = Sensors!UpTo(TILT_RECOVERY_REVERSE + TILT_RECOVERY_SETTLE, rage)]
           r == Sensors!tilt_recovery_sequence(t, m, rage)
<1>1. ASSUME NEW p \in 0..3
      PROVE  goto(p) \in Tilts /\ goto(p).state = "RECOVERING" /\ goto(p).age = t.age
  BY <1>1 DEF Tilts, TiltStates
<1>2. stay \in Tilts /\ stay.state = "RECOVERING" /\ stay.age = t.age
  <2>1. Sensors!UpTo(TILT_RECOVERY_REVERSE + TILT_RECOVERY_SETTLE, rage) \in Nat
    BY SensorNumbers, SMT DEF Sensors!UpTo
  <2> QED
    BY <2>1 DEF Tilts, TiltStates
<1>3. LET o == [goto(0) EXCEPT !.state = "OK"]
      IN  o \in Tilts /\ o.state = "OK" /\ o.age = t.age
  <2>1. ASSUME NEW g \in Tilts
        PROVE  LET o == [g EXCEPT !.state = "OK"]
               IN  o \in Tilts /\ o.state = "OK" /\ o.age = g.age
    BY DEF Tilts, TiltStates
  <2>2. goto(0) \in Tilts /\ goto(0).age = t.age
    BY <1>1, SMT
  <2> HIDE DEF goto
  <2> QED
    BY <2>1, <2>2
<1>4. t.phase \in 0..3
  BY DEF Tilts
<1>5. \/ r = stay
      \/ \E p \in 0..3 : r = goto(p)
      \/ r = [goto(0) EXCEPT !.state = "OK"]
  <2>1. 0 \in 0..3 /\ 1 \in 0..3 /\ 2 \in 0..3 /\ 3 \in 0..3
    BY SMT
  <2>2. CASE t.phase = 0
    <3>1. r = IF rage > TILT_RECOVERY_REVERSE THEN goto(2) ELSE goto(1)
      <4>1. t.phase # 3 /\ t.phase \notin {1, 2}
        BY <2>2, SMT
      <4> QED
        BY <2>2, <4>1, Zenon DEF Sensors!tilt_recovery_sequence
    <3> QED
      BY <2>1, <3>1, Zenon
  <2>3. CASE t.phase \in {1, 2}
    <3>1. r = IF rage > TILT_RECOVERY_REVERSE THEN goto(t.phase + 1) ELSE stay
      <4>1. t.phase # 0 /\ t.phase # 3
        BY <2>3, SMT
      <4> QED
        BY <2>3, <4>1, Zenon DEF Sensors!tilt_recovery_sequence
    <3>2. t.phase + 1 \in 0..3
      BY <2>3, SMT
    <3> QED
      BY <3>1, <3>2, Zenon
  <2>4. CASE t.phase = 3
    <3>1. r = IF rage <= TILT_RECOVERY_SETTLE THEN stay
              ELSE IF m < 15 THEN [goto(0) EXCEPT !.state = "OK"] ELSE goto(1)
      <4>1. t.phase # 0 /\ t.phase \notin {1, 2}
        BY <2>4, SMT
      <4> QED
        BY <2>4, <4>1, Zenon DEF Sensors!tilt_recovery_sequence
    <3> QED
      BY <2>1, <3>1, Zenon
  <2> QED
    BY <1>4, <2>2, <2>3, <2>4, SMT
<1> HIDE DEF goto, stay, r
<1>6. ASSUME NEW p \in 0..3, r = goto(p)
      PROVE  r \in Tilts /\ r.state \in {"RECOVERING", "OK"} /\ r.age = t.age
  BY <1>1, <1>6, Zenon
<1>7. r \in Tilts /\ r.state \in {"RECOVERING", "OK"} /\ r.age = t.age
  BY <1>2, <1>3, <1>5, <1>6, Zenon
<1> QED
  BY <1>7 DEF r

(* Any other state: what follows it, and that a tilt which is critical is  *)
(* answered at once, or counted by the debounce of a robot that was calm.  *)
LEMMA TiltMoves ==
  ASSUME Sensors!SensorsAssumption, NEW t \in Tilts, t.state # "RECOVERING", NEW m \in Nat,
         NEW fast \in BOOLEAN
  PROVE  LET r == Sensors!Tilted(t, m, fast, t.age)
         IN  /\ r \in Tilts
             /\ m > Sensors!Crit(fast) /\ r.state \in {"OK", "WARNING"} =>
                  t.state = "OK" /\ r = t /\ t.age <= TILT_RECOVERY_DEBOUNCE
<1> DEFINE r == Sensors!Tilted(t, m, fast, t.age)
<1>1. ASSUME NEW s \in TiltStates PROVE Sensors!Entering(t, s) \in Tilts /\ Sensors!Entering(t, s).state = s
  BY <1>1 DEF Sensors!Entering, Tilts
<1>2. t.state \in TiltStates /\ t.age \in Nat
  BY DEF Tilts
<1>3. m > Sensors!Crit(fast) => m > Sensors!Warn(fast) /\ ~(10 * m < 8 * Sensors!Warn(fast))
  BY SMT DEF Sensors!Crit, Sensors!Warn
<1>4. CASE t.state = "OK"
  <2>1. r = IF m > Sensors!Warn(fast) /\ t.age > TILT_RECOVERY_DEBOUNCE
            THEN Sensors!Entering(t, IF m > Sensors!Crit(fast) THEN "CRITICAL" ELSE "WARNING") ELSE t
    BY <1>4, Zenon DEF Sensors!Tilted
  <2>2. CASE m > Sensors!Warn(fast) /\ t.age > TILT_RECOVERY_DEBOUNCE
    <3>1. CASE m > Sensors!Crit(fast)
      <4>1. r = Sensors!Entering(t, "CRITICAL")
        BY <2>1, <2>2, <3>1
      <4> QED
        BY <1>1, <4>1 DEF TiltStates
    <3>2. CASE ~(m > Sensors!Crit(fast))
      <4>1. r = Sensors!Entering(t, "WARNING")
        BY <2>1, <2>2, <3>2
      <4> QED
        BY <1>1, <3>2, <4>1 DEF TiltStates
    <3> QED
      BY <3>1, <3>2
  <2>3. CASE ~(m > Sensors!Warn(fast) /\ t.age > TILT_RECOVERY_DEBOUNCE)
    <3>1. r = t
      BY <2>1, <2>3
    <3>2. m > Sensors!Crit(fast) => t.age <= TILT_RECOVERY_DEBOUNCE
      BY <1>2, <1>3, <2>3, SensorNumbers, SMT
    <3> QED
      BY <1>4, <3>1, <3>2
  <2> QED
    BY <2>2, <2>3
<1>5. CASE t.state = "WARNING"
  <2>1. r = IF 10 * m < 8 * Sensors!Warn(fast) THEN Sensors!Entering(t, "OK")
            ELSE IF m > Sensors!Crit(fast) THEN Sensors!Entering(t, "CRITICAL") ELSE t
    BY <1>5, Zenon DEF Sensors!Tilted
  <2>2. m > Sensors!Crit(fast) => r = Sensors!Entering(t, "CRITICAL")
    BY <1>3, <2>1, Zenon
  <2>3. r \in {Sensors!Entering(t, "OK"), Sensors!Entering(t, "CRITICAL"), t}
    BY <2>1
  <2> HIDE DEF r
  <2> QED
    BY <1>1, <2>2, <2>3 DEF TiltStates, r
<1>6. CASE t.state = "CRITICAL"
  <2>1. r = IF m < 30 THEN [Sensors!Entering(t, "RECOVERING") EXCEPT !.phase = 0, !.rage = 0]
            ELSE IF m > 40 THEN Sensors!Entering(t, "TIPPED") ELSE t
    BY <1>6, Zenon DEF Sensors!Tilted
  <2>2. LET e == [Sensors!Entering(t, "RECOVERING") EXCEPT !.phase = 0, !.rage = 0]
        IN  e \in Tilts /\ e.state = "RECOVERING"
    <3>1. ASSUME NEW g \in Tilts
          PROVE  LET e == [g EXCEPT !.phase = 0, !.rage = 0]
                 IN  e \in Tilts /\ e.state = g.state
      <4>1. 0 \in 0..3 /\ 0 \in Nat
        BY SMT
      <4> QED
        BY <4>1, Zenon DEF Tilts
    <3>2. Sensors!Entering(t, "RECOVERING") \in Tilts /\ Sensors!Entering(t, "RECOVERING").state = "RECOVERING"
      BY <1>1 DEF TiltStates
    <3> QED
      BY <3>1, <3>2
  <2>3. Sensors!Entering(t, "TIPPED") \in Tilts /\ Sensors!Entering(t, "TIPPED").state = "TIPPED"
    BY <1>1 DEF TiltStates
  <2>4. r \in Tilts /\ r.state \in {"RECOVERING", "TIPPED", "CRITICAL"}
    BY <1>6, <2>1, <2>2, <2>3, Zenon
  <2> HIDE DEF r
  <2> QED
    BY <2>4 DEF r
<1>7. CASE t.state = "TIPPED"
  <2>1. r = t
    BY <1>7, Zenon DEF Sensors!Tilted
  <2> QED
    BY <1>7, <2>1
<1> QED
  BY <1>2, <1>4, <1>5, <1>6, <1>7 DEF TiltStates

LEMMA TiltUpdated == ASSUME Sensors!SensorsAssumption, TiltInv, Sensors!TILT_Update PROVE TiltInv'
<1>1. PICK dt \in 1..UpdateGap, m \in Angle, fast \in BOOLEAN :
        /\ tilt' = IF tilt.state = "RECOVERING"
                   THEN Sensors!tilt_recovery_sequence(Sensors!Aged(tilt, dt), m, tilt.rage + dt)
                   ELSE Sensors!Tilted(Sensors!Aged(tilt, dt), m, fast, Sensors!Aged(tilt, dt).age)
        /\ over' = Sensors!While(m > Sensors!Crit(fast) /\ tilt'.state \in {"OK", "WARNING"}, over, dt,
                         TILT_RECOVERY_DEBOUNCE)
  BY Zenon DEF Sensors!TILT_Update
<1> DEFINE t == Sensors!Aged(tilt, dt)
           open == m > Sensors!Crit(fast) /\ tilt'.state \in {"OK", "WARNING"}
           age == Sensors!Since(over, dt, TILT_RECOVERY_DEBOUNCE)
<1>2. /\ dt \in Nat /\ m \in Nat /\ tilt \in Tilts /\ tilt.age \in Nat /\ tilt.rage + dt \in Nat
      /\ over \in Sensors!NotRunning..TILT_RECOVERY_DEBOUNCE /\ over \in Int /\ over >= Sensors!NotRunning
      /\ TILT_RECOVERY_DEBOUNCE \in Nat
  BY SensorNumbers, SMT DEF TiltInv, Tilts, Sensors!NotRunning
<1>3. t \in Tilts /\ t.state = tilt.state /\ t.age = Sensors!UpTo(TILT_RECOVERY_DEBOUNCE + 1, tilt.age + dt)
  <2>1. Sensors!UpTo(TILT_RECOVERY_DEBOUNCE + 1, tilt.age + dt) \in Nat
    BY <1>2, SensorNumbers, SMT DEF Sensors!UpTo
  <2> QED
    BY <1>2, <2>1 DEF Sensors!Aged, Tilts
<1>4. t.age \in Nat /\ (t.age <= TILT_RECOVERY_DEBOUNCE => t.age = tilt.age + dt)
  BY <1>2, <1>3, SensorNumbers, SMT DEF Sensors!UpTo
<1>5. (open => over' = age) /\ (~open => over' = Sensors!NotRunning)
  BY <1>1, Zenon DEF Sensors!While
<1>6. /\ age \in 0..TILT_RECOVERY_DEBOUNCE + 1
      /\ over = Sensors!NotRunning => age = 0
      /\ over # Sensors!NotRunning => age <= over + dt
  BY <1>2, Ages, Zenon
<1>7. Sensors!NotRunning \in Sensors!NotRunning..TILT_RECOVERY_DEBOUNCE /\ Sensors!NotRunning = -1
      /\ 0 \in Sensors!NotRunning..TILT_RECOVERY_DEBOUNCE
  BY SensorNumbers, SMT DEF Sensors!NotRunning
<1>8. CASE tilt.state = "RECOVERING"
  <2>1. tilt' = Sensors!tilt_recovery_sequence(t, m, tilt.rage + dt)
    BY <1>1, <1>8
  <2>2. tilt' \in Tilts /\ tilt'.state \in {"RECOVERING", "OK"} /\ tilt'.age = t.age
    BY <1>2, <1>3, <1>8, <2>1, TiltRecovers, Zenon
  <2>3. over = Sensors!NotRunning
    BY <1>8 DEF TiltInv
  <2>4. over' \in {0, Sensors!NotRunning} /\ (over' # Sensors!NotRunning => tilt'.state = "OK")
    BY <1>5, <1>6, <2>2, <2>3
  <2> QED
    BY <1>4, <1>7, <2>2, <2>4, SMT DEF TiltInv
<1>9. CASE tilt.state # "RECOVERING"
  <2>1. tilt' = Sensors!Tilted(t, m, fast, t.age)
    BY <1>1, <1>9
  <2>2. /\ tilt' \in Tilts
        /\ open => t.state = "OK" /\ tilt' = t /\ t.age <= TILT_RECOVERY_DEBOUNCE
    BY <1>2, <1>3, <1>9, <2>1, TiltMoves, Zenon
  <2>3. CASE ~open
    BY <1>5, <1>7, <2>2, <2>3 DEF TiltInv
  <2>4. CASE open
    <3>1. over' = age /\ tilt'.state = "OK" /\ tilt'.age = tilt.age + dt
          /\ tilt'.age <= TILT_RECOVERY_DEBOUNCE
      BY <1>4, <1>5, <2>2, <2>4
    <3>2. over # Sensors!NotRunning => over <= tilt.age
      BY DEF TiltInv
    <3>3. over' \in Sensors!NotRunning..TILT_RECOVERY_DEBOUNCE /\ over' <= tilt'.age
      BY <1>2, <1>6, <1>7, <3>1, <3>2, SMT
    <3> QED
      BY <2>2, <3>1, <3>3 DEF TiltInv
  <2> QED
    BY <2>3, <2>4
<1> QED
  BY <1>8, <1>9

LEMMA TiltSteps == ASSUME Sensors!SensorsAssumption, TiltInv, Sensors!TiltNext PROVE TiltInv'
  BY TiltUpdated, TiltReset DEF Sensors!TiltNext

LEMMA TiltSays ==
  ASSUME Sensors!SensorsAssumption, TiltInv
  PROVE  Sensors!TiltStops /\ tilt.phase \in 0..3 /\ tilt.state \in TiltStates
  BY SensorNumbers, SMT DEF TiltInv, Sensors!TiltStops, Tilts, Sensors!NotRunning

-----------------------------------------------------------------------------
(* safety_stall.c.                                                         *)
StallTypes == {"NONE", "HARD", "SOFT", "SLIP"}
Stalls == [hard : Sensors!NotRunning..HARD_STALL_TIME + 1, soft : Sensors!NotRunning..SOFT_STALL_TIME + 1,
           active : BOOLEAN, type : StallTypes, age : Nat]

(* A motor that is blocked without a recovery is one whose stall is at     *)
(* least as old, so that the next jump confirms it.                        *)
StallInv ==
  /\ stall \in [Motor -> Stalls]
  /\ stuck \in [Motor -> Sensors!NotRunning..HARD_STALL_TIME + 1]
  /\ ignored = [m \in Motor |-> FALSE]
  /\ \A m \in Motor : stuck[m] # Sensors!NotRunning =>
       stall[m].hard # Sensors!NotRunning /\ stuck[m] <= stall[m].hard

LEMMA StallStarts == ASSUME Sensors!SensorsAssumption, Sensors!StallInit PROVE StallInv
<1>1. Sensors!Idle \in Stalls /\ Sensors!NotRunning \in Sensors!NotRunning..HARD_STALL_TIME + 1
  <2>1. Sensors!NotRunning \in Sensors!NotRunning..HARD_STALL_TIME + 1
        /\ Sensors!NotRunning \in Sensors!NotRunning..SOFT_STALL_TIME + 1
    BY SensorNumbers, SMT DEF Sensors!NotRunning
  <2> QED
    BY <2>1 DEF Sensors!Idle, Stalls, StallTypes
<1> QED
  BY <1>1 DEF Sensors!StallInit, StallInv

LEMMA StallCleared == ASSUME Sensors!SensorsAssumption, StallInv, Sensors!STALL_Clear PROVE StallInv'
<1>1. PICK ms \in {{m} : m \in Motor} \cup {Motor} :
        /\ stall' = [m \in Motor |-> IF m \in ms THEN [Sensors!Idle EXCEPT !.type = stall[m].type]
                                    ELSE stall[m]]
        /\ stuck' = [m \in Motor |-> IF m \in ms THEN Sensors!NotRunning ELSE stuck[m]]
        /\ ignored' = [m \in Motor |-> FALSE]
  BY DEF Sensors!STALL_Clear
<1>2. Sensors!NotRunning \in Sensors!NotRunning..HARD_STALL_TIME + 1
      /\ Sensors!NotRunning \in Sensors!NotRunning..SOFT_STALL_TIME + 1
  BY SensorNumbers, SMT DEF Sensors!NotRunning
<1>3. ASSUME NEW m \in Motor PROVE [Sensors!Idle EXCEPT !.type = stall[m].type] \in Stalls
  <2>1. stall[m].type \in StallTypes
    BY DEF StallInv, Stalls
  <2> QED
    BY <1>2, <2>1 DEF Sensors!Idle, Stalls
<1>4. stall' \in [Motor -> Stalls] /\ stuck' \in [Motor -> Sensors!NotRunning..HARD_STALL_TIME + 1]
  BY <1>1, <1>2, <1>3 DEF StallInv
<1>5. ASSUME NEW m \in Motor, stuck'[m] # Sensors!NotRunning
      PROVE  stall'[m].hard # Sensors!NotRunning /\ stuck'[m] <= stall'[m].hard
  <2>1. stuck'[m] = stuck[m] /\ stall'[m] = stall[m]
    BY <1>1, <1>5
  <2> QED
    BY <1>5, <2>1 DEF StallInv
<1> QED
  BY <1>1, <1>4, <1>5 DEF StallInv

(* What one motor's update finds: a recovery begins when the stall of a    *)
(* motor that shows it is older than it may be.                            *)
LEMMA StallFinds ==
  ASSUME Sensors!SensorsAssumption, NEW s \in Stalls, NEW m, NEW shows, NEW slipping \in BOOLEAN,
         NEW dt \in Nat
  PROVE  LET d == Sensors!Detected(m, s, shows, slipping, dt)
         IN  /\ d \in Stalls
             /\ shows = "jumps" \/ (shows = "steady" /\ s.hard # Sensors!NotRunning)
                  => d.hard = Sensors!Since(s.hard, dt, HARD_STALL_TIME)
             /\ ~s.active /\ d.active => d.type \in {"HARD", "SOFT", "SLIP"}
             /\ shows = "jumps" /\ ~d.active => d.hard <= HARD_STALL_TIME
<1> DEFINE hard == Sensors!HardSince(s, shows, dt)
           soft == IF m \in SoftMotor THEN Sensors!SoftSince(s, shows, dt) ELSE s.soft
           found == [s EXCEPT !.hard = hard, !.soft = soft, !.active = TRUE]
           late == m \in SoftMotor /\ shows \in {"crawls", "slow"} /\ soft > SOFT_STALL_TIME
           d == Sensors!Detected(m, s, shows, slipping, dt)
<1>1. /\ s.hard \in Int /\ s.hard >= Sensors!NotRunning /\ s.soft \in Int /\ s.soft >= Sensors!NotRunning
      /\ HARD_STALL_TIME \in Nat /\ SOFT_STALL_TIME \in Nat /\ s.active \in BOOLEAN
      /\ s.soft \in Sensors!NotRunning..SOFT_STALL_TIME + 1 /\ s.type \in StallTypes
  BY SensorNumbers, SMT DEF Stalls, Sensors!NotRunning
<1>2. /\ Sensors!Since(s.hard, dt, HARD_STALL_TIME) \in Sensors!NotRunning..HARD_STALL_TIME + 1
      /\ Sensors!Since(s.soft, dt, SOFT_STALL_TIME) \in Sensors!NotRunning..SOFT_STALL_TIME + 1
      /\ Sensors!NotRunning \in Sensors!NotRunning..HARD_STALL_TIME + 1
      /\ Sensors!NotRunning \in Sensors!NotRunning..SOFT_STALL_TIME + 1
  <2>1. Sensors!Since(s.hard, dt, HARD_STALL_TIME) \in 0..HARD_STALL_TIME + 1
        /\ Sensors!Since(s.soft, dt, SOFT_STALL_TIME) \in 0..SOFT_STALL_TIME + 1
    BY <1>1, Ages, Zenon
  <2> QED
    BY <1>1, <2>1, SMT DEF Sensors!NotRunning
<1>3. /\ hard \in {Sensors!Since(s.hard, dt, HARD_STALL_TIME), Sensors!NotRunning}
      /\ shows = "jumps" \/ (shows = "steady" /\ s.hard # Sensors!NotRunning)
           => hard = Sensors!Since(s.hard, dt, HARD_STALL_TIME)
      /\ soft \in {Sensors!Since(s.soft, dt, SOFT_STALL_TIME), Sensors!NotRunning, s.soft}
  BY Zenon DEF Sensors!HardSince, Sensors!SoftSince, Sensors!Running
<1>4. hard \in Sensors!NotRunning..HARD_STALL_TIME + 1 /\ soft \in Sensors!NotRunning..SOFT_STALL_TIME + 1
  BY <1>1, <1>2, <1>3
<1>5. d = CASE slipping -> [found EXCEPT !.type = "SLIP"]
            [] ~slipping /\ m \in SoftMotor /\ shows \in {"crawls", "slow"} /\ soft > SOFT_STALL_TIME ->
                 [found EXCEPT !.type = "SOFT"]
            [] ~slipping /\ shows = "jumps" /\ hard > HARD_STALL_TIME ->
                 [found EXCEPT !.type = "HARD"]
            [] OTHER -> [found EXCEPT !.active = s.active]
  BY Zenon DEF Sensors!Detected
<1> HIDE DEF hard, soft, d
<1>6. ASSUME NEW t \in StallTypes
      PROVE  LET f == [found EXCEPT !.type = t]
             IN  f \in Stalls /\ f.hard = hard /\ f.active = TRUE /\ f.type = t
  BY <1>1, <1>4 DEF Stalls
<1>7. LET f == [found EXCEPT !.active = s.active]
      IN  f \in Stalls /\ f.hard = hard /\ f.active = s.active /\ f.type = s.type
  BY <1>1, <1>4 DEF Stalls
<1>8. "SLIP" \in StallTypes /\ "SOFT" \in StallTypes /\ "HARD" \in StallTypes
  BY DEF StallTypes
<1>9. \/ d = [found EXCEPT !.type = "SLIP"]
      \/ d = [found EXCEPT !.type = "SOFT"]
      \/ d = [found EXCEPT !.type = "HARD"]
      \/ d = [found EXCEPT !.active = s.active] /\ (shows = "jumps" => ~(hard > HARD_STALL_TIME))
  <2>1. CASE slipping
    BY <1>5, <2>1, Zenon
  <2>2. CASE ~slipping /\ late
    BY <1>5, <2>2, Zenon
  <2>3. CASE ~slipping /\ shows = "jumps" /\ hard > HARD_STALL_TIME
    <3>1. shows \notin {"crawls", "slow"}
      BY <2>3
    <3> QED
      BY <1>5, <2>3, <3>1, Zenon
  <2>4. CASE ~slipping /\ ~late /\ ~(shows = "jumps" /\ hard > HARD_STALL_TIME)
    BY <1>5, <2>4, Zenon
  <2> QED
    BY <2>1, <2>2, <2>3, <2>4, Zenon
<1> HIDE DEF found
<1>10. \/ d \in Stalls /\ d.hard = hard /\ d.active = TRUE /\ d.type \in {"HARD", "SOFT", "SLIP"}
       \/ /\ d \in Stalls /\ d.hard = hard /\ d.active = s.active
          /\ shows = "jumps" => ~(hard > HARD_STALL_TIME)
  BY <1>6, <1>7, <1>8, <1>9
<1>11. ~(hard > HARD_STALL_TIME) => hard <= HARD_STALL_TIME
  BY <1>1, <1>4, SMT DEF Sensors!NotRunning
<1> QED
  BY <1>3, <1>10, <1>11 DEF d

(* A recovery does not end in the call in which it begins.                 *)
LEMMA StallRecovers ==
  ASSUME Sensors!SensorsAssumption, NEW b \in Stalls, NEW s \in Stalls, NEW dt \in Nat
  PROVE  LET e == Sensors!execute_recovery(b, s, dt)
         IN  /\ e \in Stalls /\ e.hard = s.hard
             /\ ~b.active /\ s.active /\ s.type \in {"HARD", "SOFT", "SLIP"} => e.active
             /\ ~s.active => e = s
<1> DEFINE age == IF b.active THEN s.age + dt ELSE 0
           e == Sensors!execute_recovery(b, s, dt)
<1>1. s.age \in Nat /\ s.active \in BOOLEAN /\ b.active \in BOOLEAN /\ age \in Nat
  BY SMT DEF Stalls
<1>2. e = IF ~s.active THEN s
          ELSE IF age >= Sensors!Duration[s.type] THEN [s EXCEPT !.active = FALSE, !.age = 0]
          ELSE [s EXCEPT !.age = age]
  BY Zenon DEF Sensors!execute_recovery
<1>3. /\ [s EXCEPT !.active = FALSE, !.age = 0] \in Stalls
      /\ [s EXCEPT !.active = FALSE, !.age = 0].hard = s.hard
      /\ [s EXCEPT !.age = age] \in Stalls
      /\ [s EXCEPT !.age = age].hard = s.hard /\ [s EXCEPT !.age = age].active = s.active
  <2> HIDE DEF age
  <2>1. [s EXCEPT !.active = FALSE, !.age = 0] \in Stalls
        /\ [s EXCEPT !.active = FALSE, !.age = 0].hard = s.hard
    BY Zenon DEF Stalls
  <2>2. [s EXCEPT !.age = age] \in Stalls
        /\ [s EXCEPT !.age = age].hard = s.hard /\ [s EXCEPT !.age = age].active = s.active
    BY <1>1 DEF Stalls
  <2> QED
    BY <2>1, <2>2
<1>4. e \in Stalls /\ e.hard = s.hard
  <2> HIDE DEF age, e
  <2> QED
    BY <1>2, <1>3, Zenon
<1>5. ASSUME ~b.active, s.active, s.type \in {"HARD", "SOFT", "SLIP"} PROVE e.active
  <2>1. age = 0 /\ Sensors!Duration[s.type] \in Nat \ {0}
    BY <1>5, SensorNumbers DEF Sensors!Duration
  <2>2. ~(age >= Sensors!Duration[s.type])
    BY <2>1, SMT
  <2>3. e = [s EXCEPT !.age = age]
    BY <1>2, <1>5, <2>2, Zenon
  <2> QED
    BY <1>3, <1>5, <2>3
<1>6. ~s.active => e = s
  BY <1>2
<1> QED
  BY <1>4, <1>5, <1>6

LEMMA StallUpdated == ASSUME Sensors!SensorsAssumption, StallInv, Sensors!STALL_Update PROVE StallInv'
<1>1. PICK dt \in 1..UpdateGap, shows \in [Motor -> Sensors!Shows], slipping \in BOOLEAN :
        LET slips == slipping /\ Sensors!SlipSince(slipping, dt) > SLIP_TIME
        IN  /\ slip' = Sensors!SlipSince(slipping, dt)
            /\ stall' = [m \in Motor |-> Sensors!execute_recovery(stall[m],
                           Sensors!Detected(m, stall[m], shows[m], slips, dt), dt)]
            /\ stuck' = [m \in Motor |->
                 Sensors!BlockedSince(stuck[m], shows[m], stall[m].active \/ stall'[m].active, dt)]
            /\ ignored' = [m \in Motor |-> shows[m] = "jumps" /\ stuck'[m] > HARD_STALL_TIME]
  BY Zenon DEF Sensors!STALL_Update
<1> DEFINE slips == slipping /\ Sensors!SlipSince(slipping, dt) > SLIP_TIME
<1>2. dt \in Nat /\ HARD_STALL_TIME \in Nat /\ slips \in BOOLEAN
  <2>1. slips \in BOOLEAN
    BY Zenon
  <2> QED
    BY <2>1, SensorNumbers, SMT
<1>3. /\ stall' = [m \in Motor |-> Sensors!execute_recovery(stall[m],
                     Sensors!Detected(m, stall[m], shows[m], slips, dt), dt)]
      /\ stuck' = [m \in Motor |->
           Sensors!BlockedSince(stuck[m], shows[m], stall[m].active \/ stall'[m].active, dt)]
      /\ ignored' = [m \in Motor |-> shows[m] = "jumps" /\ stuck'[m] > HARD_STALL_TIME]
  BY <1>1, Zenon
<1> HIDE DEF slips
<1>4. /\ Sensors!NotRunning \in Sensors!NotRunning..HARD_STALL_TIME + 1 /\ Sensors!NotRunning = -1
      /\ 0 \in Sensors!NotRunning..HARD_STALL_TIME + 1
  BY <1>2, SMT DEF Sensors!NotRunning
<1>5. ASSUME NEW m \in Motor
      PROVE  /\ stall'[m] \in Stalls /\ stuck'[m] \in Sensors!NotRunning..HARD_STALL_TIME + 1
             /\ stuck'[m] # Sensors!NotRunning =>
                  stall'[m].hard # Sensors!NotRunning /\ stuck'[m] <= stall'[m].hard
             /\ ~(shows[m] = "jumps" /\ stuck'[m] > HARD_STALL_TIME)
  <2> DEFINE s == stall[m]
             d == Sensors!Detected(m, s, shows[m], slips, dt)
             blocked == shows[m] = "jumps" \/ (stuck[m] # Sensors!NotRunning /\ shows[m] = "steady")
             answered == s.active \/ stall'[m].active
             age == Sensors!Since(stuck[m], dt, HARD_STALL_TIME)
             h == Sensors!Since(s.hard, dt, HARD_STALL_TIME)
  <2>1. s \in Stalls /\ stuck[m] \in Sensors!NotRunning..HARD_STALL_TIME + 1
    BY DEF StallInv
  <2>2. /\ d \in Stalls
        /\ shows[m] = "jumps" \/ (shows[m] = "steady" /\ s.hard # Sensors!NotRunning) => d.hard = h
        /\ ~s.active /\ d.active => d.type \in {"HARD", "SOFT", "SLIP"}
        /\ shows[m] = "jumps" /\ ~d.active => d.hard <= HARD_STALL_TIME
    BY <1>2, <2>1, StallFinds
  <2> HIDE DEF d
  <2>3. stall'[m] = Sensors!execute_recovery(s, d, dt)
    BY <1>3, Zenon DEF d
  <2>4. /\ stall'[m] \in Stalls /\ stall'[m].hard = d.hard
        /\ ~s.active /\ d.active /\ d.type \in {"HARD", "SOFT", "SLIP"} => stall'[m].active
    <3> DEFINE e == Sensors!execute_recovery(s, d, dt)
    <3>1. /\ e \in Stalls /\ e.hard = d.hard
          /\ ~s.active /\ d.active /\ d.type \in {"HARD", "SOFT", "SLIP"} => e.active
      BY <1>2, <2>1, <2>2, StallRecovers
    <3> HIDE DEF e
    <3> QED
      BY <2>3, <3>1 DEF e
  <2>5. /\ blocked /\ answered => stuck'[m] = 0
        /\ blocked /\ ~answered => stuck'[m] = age
        /\ ~blocked => stuck'[m] = Sensors!NotRunning
    BY <1>3, Zenon DEF Sensors!BlockedSince
  <2>6. stuck[m] # Sensors!NotRunning => s.hard # Sensors!NotRunning /\ stuck[m] <= s.hard
    BY DEF StallInv
  <2>7. blocked => d.hard = h /\ stall'[m].hard = h
    BY <2>2, <2>4, <2>6
  <2>8. /\ s.hard \in Int /\ s.hard >= Sensors!NotRunning
        /\ stuck[m] \in Int /\ stuck[m] >= Sensors!NotRunning /\ s.hard <= HARD_STALL_TIME + 1
    BY <1>2, <2>1, SMT DEF Stalls, Sensors!NotRunning
  <2> HIDE DEF s
  <2>9. /\ h \in 0..HARD_STALL_TIME + 1 /\ age \in 0..HARD_STALL_TIME + 1 /\ age <= h
    BY <1>2, <2>6, <2>8, SMT DEF Sensors!Since, Sensors!UpTo, Sensors!NotRunning
  <2> HIDE DEF age, h, blocked
  <2>10. CASE ~blocked
    <3>1. stuck'[m] = Sensors!NotRunning /\ ~(Sensors!NotRunning > HARD_STALL_TIME)
      BY <1>2, <1>4, <2>5, <2>10, SMT
    <3> QED
      BY <1>4, <2>4, <3>1
  <2>11. CASE blocked /\ answered
    <3>1. stuck'[m] = 0 /\ stall'[m].hard = h
      BY <2>5, <2>7, <2>11
    <3>2. 0 <= h /\ h # Sensors!NotRunning /\ ~(0 > HARD_STALL_TIME)
      BY <1>2, <1>4, <2>9, SMT
    <3> QED
      BY <1>4, <2>4, <3>1, <3>2
  <2>12. CASE blocked /\ ~answered
    <3>1. stuck'[m] = age /\ stall'[m].hard = h /\ ~d.active
      BY <2>2, <2>4, <2>5, <2>7, <2>12
    <3>2. shows[m] = "jumps" => h <= HARD_STALL_TIME
      BY <2>2, <2>7, <2>12, <3>1
    <3>3. /\ age \in Sensors!NotRunning..HARD_STALL_TIME + 1 /\ h # Sensors!NotRunning
          /\ shows[m] = "jumps" => ~(age > HARD_STALL_TIME)
      BY <1>2, <1>4, <2>9, <3>2, SMT
    <3> QED
      BY <2>4, <2>9, <3>1, <3>3
  <2> QED
    BY <2>10, <2>11, <2>12
<1>6. stall' \in [Motor -> Stalls] /\ stuck' \in [Motor -> Sensors!NotRunning..HARD_STALL_TIME + 1]
  <2>1. stall' = [m \in Motor |-> stall'[m]] /\ stuck' = [m \in Motor |-> stuck'[m]]
    BY <1>3, Zenon
  <2> QED
    BY <1>5, <2>1, Zenon
<1>7. ignored' = [m \in Motor |-> FALSE]
  BY <1>3, <1>5, Zenon
<1> QED
  BY <1>5, <1>6, <1>7 DEF StallInv

LEMMA StallSteps == ASSUME Sensors!SensorsAssumption, StallInv, Sensors!StallNext PROVE StallInv'
  BY StallUpdated, StallCleared DEF Sensors!StallNext

LEMMA StallSays ==
  ASSUME Sensors!SensorsAssumption, StallInv
  PROVE  Sensors!StallIsAnswered /\ \A m \in Motor : stall[m].type \in StallTypes
<1>1. \A m \in Motor : stall[m].type \in StallTypes
  BY DEF StallInv, Stalls
<1>2. \A m \in Motor : ~ignored[m]
  BY DEF StallInv
<1> QED
  BY <1>1, <1>2 DEF Sensors!StallIsAnswered

-----------------------------------------------------------------------------
(* safety_drop.c.                                                          *)
Drops == [detected : BOOLEAN, disagree : 0..CLIFF_IR_TOF_FAULT_SAMPLES + 1, fault : BOOLEAN]
DropInv == drop \in [Sensor -> Drops]

LEMMA DropStarts == ASSUME Sensors!SensorsAssumption, Sensors!DropInit PROVE DropInv
<1>1. 0 \in 0..CLIFF_IR_TOF_FAULT_SAMPLES + 1
  BY SensorNumbers, SMT
<1> QED
  BY <1>1 DEF Sensors!DropInit, DropInv, Drops

LEMMA DropSteps == ASSUME Sensors!SensorsAssumption, DropInv, Sensors!DropNext PROVE DropInv'
<1>1. ASSUME NEW d \in Drops, NEW reads, NEW agree \in BOOLEAN
      PROVE  Sensors!cliff_update_sensor(d, reads, agree) \in Drops
  <2> DEFINE detected == IF reads = "cliff" THEN TRUE
                         ELSE IF reads = "floor" THEN FALSE ELSE d.detected
             kept == IF detected # d.detected /\ 0 < CLIFF_DEBOUNCE
                     THEN d.detected ELSE detected
             n == IF agree THEN 0 ELSE Sensors!UpTo(CLIFF_IR_TOF_FAULT_SAMPLES + 1, d.disagree + 1)
             f == d.fault \/ n > CLIFF_IR_TOF_FAULT_SAMPLES
  <2>1. d.detected \in BOOLEAN /\ d.disagree \in 0..CLIFF_IR_TOF_FAULT_SAMPLES + 1
    BY DEF Drops
  <2>2. kept \in BOOLEAN /\ f \in BOOLEAN
    BY <2>1, Zenon
  <2>3. n \in 0..CLIFF_IR_TOF_FAULT_SAMPLES + 1
    BY <2>1, SensorNumbers, SMT DEF Sensors!UpTo
  <2>4. Sensors!cliff_update_sensor(d, reads, agree) = [detected |-> kept, disagree |-> n, fault |-> f]
    BY Zenon DEF Sensors!cliff_update_sensor
  <2> HIDE DEF kept, f, n
  <2> QED
    BY <2>2, <2>3, <2>4 DEF Drops
<1>2. CASE Sensors!DROP_Update
  <2>1. PICK reads \in [Sensor -> {"cliff", "between", "floor"}], agree \in [Sensor -> BOOLEAN] :
          drop' = [s \in Sensor |-> Sensors!cliff_update_sensor(drop[s], reads[s], agree[s])]
    BY <1>2, Zenon DEF Sensors!DROP_Update
  <2>2. ASSUME NEW s \in Sensor PROVE Sensors!cliff_update_sensor(drop[s], reads[s], agree[s]) \in Drops
    <3>1. drop[s] \in Drops /\ agree[s] \in BOOLEAN
      BY DEF DropInv
    <3> QED
      BY <1>1, <3>1
  <2> QED
    BY <2>1, <2>2, Zenon DEF DropInv
<1>3. CASE Sensors!DROP_ClearFault
  <2>1. PICK s \in Sensor : drop' = [drop EXCEPT ![s].fault = FALSE, ![s].disagree = 0]
    BY <1>3 DEF Sensors!DROP_ClearFault
  <2>2. 0 \in 0..CLIFF_IR_TOF_FAULT_SAMPLES + 1
    BY SensorNumbers, SMT
  <2> QED
    BY <2>1, <2>2 DEF DropInv, Drops
<1> QED
  BY <1>2, <1>3 DEF Sensors!DropNext

-----------------------------------------------------------------------------
SensorsInv == CollInv /\ TiltInv /\ StallInv /\ DropInv

LEMMA SensorsStart == ASSUME Sensors!SensorsAssumption, Sensors!Init PROVE SensorsInv
  BY CollStarts, TiltStarts, StallStarts, DropStarts DEF Sensors!Init, SensorsInv

LEMMA SensorsStay == ASSUME SensorsInv, UNCHANGED Sensors!vars PROVE SensorsInv'
  BY DEF Sensors!vars, Sensors!collvars, Sensors!tiltvars, Sensors!stallvars,
         Sensors!dropvars, SensorsInv, CollInv, TiltInv,
         StallInv, DropInv, Spent

LEMMA SensorsSay ==
  ASSUME Sensors!SensorsAssumption, SensorsInv
  PROVE  Sensors!TypeOK /\ Sensors!BumperStops /\ Sensors!ResponseEnds /\ Sensors!TiltStops /\ Sensors!StallIsAnswered
  BY CollSays, TiltSays, StallSays
     DEF SensorsInv, Sensors!TypeOK, TiltStates, StallTypes, DropInv, Drops

-----------------------------------------------------------------------------
(* The bench.                                                              *)

Inv == PackInv /\ DockInv /\ SensorsInv

LEMMA Setup == PackAssumption /\ Dock!DockAssumption /\ Sensors!SensorsAssumption
  BY SetupAssumption

LEMMA Starts == ASSUME BenchInit PROVE Inv
  BY Setup, PackStarts, DockStarts, SensorsStart DEF BenchInit, Inv

(* A step of the bench is a step of one of its parts and a stutter of the  *)
(* others.                                                                 *)
LEMMA Interleaved ==
  ASSUME [BenchNext]_benchvars
  PROVE  /\ [Next]_vars /\ [Dock!Next]_(Dock!vars)
         /\ (Sensors!CollNext \/ UNCHANGED collvars) /\ (Sensors!TiltNext \/ UNCHANGED tiltvars)
         /\ (Sensors!StallNext \/ UNCHANGED stallvars) /\ (Sensors!DropNext \/ UNCHANGED dropvars)
<1>1. (Next \/ UNCHANGED vars) /\ (Dock!Next \/ UNCHANGED dockvars)
  BY DEF BenchNext, Detectors, benchvars
<1>2. Detectors \/ UNCHANGED sensorvars
  BY DEF BenchNext, benchvars
<1>3. /\ (Sensors!CollNext \/ UNCHANGED collvars) /\ (Sensors!TiltNext \/ UNCHANGED tiltvars)
      /\ (Sensors!StallNext \/ UNCHANGED stallvars) /\ (Sensors!DropNext \/ UNCHANGED dropvars)
  BY <1>2 DEF Detectors, sensorvars
<1> QED
  BY <1>1, <1>3
     DEF dockvars, collvars, tiltvars, stallvars, dropvars, Dock!vars, Dock!dock

LEMMA GoesOn == ASSUME Inv, [BenchNext]_benchvars PROVE Inv'
<1>1. PackInv' /\ DockInv'
  BY Setup, Interleaved, PackGoesOn, DockSteps, DockStays DEF Inv
<1>2. CollInv' /\ TiltInv'
  <2>1. UNCHANGED collvars => CollInv'
    BY DEF Inv, SensorsInv, CollInv, collvars, Spent
  <2>2. UNCHANGED tiltvars => TiltInv'
    BY DEF Inv, SensorsInv, TiltInv, tiltvars
  <2> QED
    BY <2>1, <2>2, Setup, Interleaved, CollSteps, TiltSteps DEF Inv, SensorsInv
<1>3. StallInv' /\ DropInv'
  <2>1. UNCHANGED stallvars => StallInv'
    BY DEF Inv, SensorsInv, StallInv, stallvars
  <2>2. UNCHANGED dropvars => DropInv'
    BY DEF Inv, SensorsInv, DropInv, dropvars
  <2> QED
    BY <2>1, <2>2, Setup, Interleaved, StallSteps, DropSteps DEF Inv, SensorsInv
<1> QED
  BY <1>1, <1>2, <1>3 DEF Inv, SensorsInv

LEMMA Holds == ASSUME Inv PROVE TasksTypeOK /\ ChargeIsSafe /\ SensorsAnswer
<1>1. PackInv /\ DockInv /\ SensorsInv
  BY DEF Inv
<1>2. TypeOK /\ ChargeTimeBounded /\ OverVoltageStops
  BY <1>1, Setup, PackHolds DEF PackInv
<1>3. Dock!TypeOK /\ Dock!OffWhileAligning /\ Dock!RailLossStopsCharger
  BY <1>1 DEF DockInv, DockTyped, LowIsRecent, Dock!RailLossStopsCharger
<1>4. /\ Sensors!TypeOK /\ Sensors!BumperStops /\ Sensors!ResponseEnds /\ Sensors!TiltStops
      /\ Sensors!StallIsAnswered
  BY <1>1, Setup, SensorsSay
<1> QED
  BY <1>2, <1>3, <1>4 DEF TasksTypeOK, ChargeIsSafe, SensorsAnswer

LEMMA Always == BenchSpec => []Inv
  BY Starts, GoesOn, PTL DEF BenchSpec

(* Every variable of the tasks and of the detectors stays in its type; the *)
(* target current is at most 10 A.                                         *)
THEOREM TasksTyped == BenchSpec => []TasksTypeOK
<1>1. Inv => TasksTypeOK
  BY Holds
<1> QED
  BY Always, <1>1, PTL

(* An over-voltage that any read shows stops the charge, whichever other   *)
(* reads fail; a charge is no longer than its three stages, one late run   *)
(* for each and one start at clock 0; and on the dock the charger is off   *)
(* while the robot aligns itself and disabled in time when the rail goes,  *)
(* also when it goes during a sleep.                                       *)
THEOREM ChargeStaysSafe == BenchSpec => []ChargeIsSafe
<1>1. Inv => ChargeIsSafe
  BY Holds
<1> QED
  BY Always, <1>1, PTL

(* A pressed bumper and a critical tilt are answered within their          *)
(* debounce, whatever was going on before, and a response to a collision   *)
(* ends, for every time limit and however late the calls come.  A motor    *)
(* blocked for longer than a hard stall takes is answered when its current *)
(* jumps again; no bound holds for one whose current stays high.           *)
THEOREM SensorsAlwaysAnswer == BenchSpec => []SensorsAnswer
<1>1. Inv => SensorsAnswer
  BY Holds
<1> QED
  BY Always, <1>1, PTL

(* A fault is left only at a battery within the temperature window of the  *)
(* recovery: a temperature that was not read counts as 0, which is outside.*)
THEOREM FaultLeftOnlyInWindow == BenchSpec => FaultLeftInWindow
<1>1. Inv /\ [BenchNext]_benchvars
      => [(state = "FAULT" /\ state' # "FAULT") => "in window" \in seen']_vars
  BY Setup, Interleaved, FaultLeftDuly
<1> QED
  BY Always, <1>1, PTL DEF BenchSpec, FaultLeftInWindow
=============================================================================
