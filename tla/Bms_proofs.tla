----------------------------- MODULE Bms_proofs -----------------------------
(***************************************************************************)
(* Proofs about the modules of l1_m4/Core/bms that act on the FETs, for    *)
(* every value of the constants.  Each has an inductive invariant, whose   *)
(* parts hold at the start (Init..., ...Starts), are kept by every step    *)
(* (Next..., ...GoesOn) and imply the properties.                          *)
(***************************************************************************)
EXTENDS MCBms, FiniteSets, FiniteSetTheorems, WellFoundedInduction, TLAPS

-----------------------------------------------------------------------------
(* The pack protection, for every set of readings, every trip and cool-off *)
(* time and every width of the tick.                                       *)

(* Times are taken modulo TickMod.                                         *)
LEMMA ModuloFits ==
  ASSUME Protect!ProtAssumption, NEW n \in Int
  PROVE  n % TickMod \in 0..TickMod - 1
  BY SMT DEF Protect!ProtAssumption

LEMMA InitType == ASSUME Protect!ProtAssumption, Protect!Init PROVE Protect!TypeOK
<1>1. sample \in Protect!Sample /\ fet \subseteq Protect!Fet
  BY DEF Protect!Init
<1> HIDE DEF Protect!Sample
<1> QED
  BY <1>1, SMT DEF Protect!Init, Protect!TypeOK, Protect!ProtAssumption, Protect!Steps,
     Protect!PersistMax, Protect!Protection

LEMMA SampleStays == ASSUME Protect!Pass \/ Protect!Tick \/ Protect!PROT_ShortCircuitHandler
                     PROVE  Protect!Sample' = Protect!Sample
<1>1. (setup = "overcurrent")' = (setup = "overcurrent")
  BY DEF Protect!Pass, Protect!Tick, Protect!PROT_ShortCircuitHandler
<1> QED
  BY <1>1 DEF Protect!Sample, Protect!Reading

LEMMA PassType ==
  ASSUME Protect!ProtAssumption, Protect!TypeOK, Protect!Pass
  PROVE  Protect!TypeOK'
<1> USE SampleStays DEF Protect!TypeOK
<1>1. CASE Protect!PROT_Task
  <2>1. gap' \in 0..ProtGap
    BY <1>1, SMT DEF Protect!PROT_Task, Protect!ProtAssumption
  <2>2. persist' \in -1..Protect!PersistMax
    <3>1. Protect!PersistMax \in Nat
      BY SMT DEF Protect!PersistMax, Protect!ProtAssumption
    <3>2. persist' \in {-1, 0, persist}
      BY <1>1 DEF Protect!PROT_Task
    <3> QED
      BY <3>1, <3>2, SMT
  <2> QED
    BY <1>1, <2>1, <2>2 DEF Protect!PROT_Task, Protect!Steps
<1>2. CASE Protect!ScCheck
  BY <1>2 DEF Protect!ScCheck, Protect!Steps, Protect!Trip, Protect!AssertSc,
       Protect!Protection
<1>3. CASE Protect!ScClear
  BY <1>3 DEF Protect!ScClear, Protect!Steps, Protect!Recover, Protect!Closes
<1>4. CASE Protect!OcCheck
  <2>1. oc_start' \in {0, now, oc_start}
    BY <1>4 DEF Protect!OcCheck, Protect!StartOcTimer, Protect!StopOcTimer
  <2>2. 0 \in 0..TickMod - 1
    BY SMT DEF Protect!ProtAssumption
  <2>3. fet' \subseteq Protect!Fet /\ tripped' \subseteq Protect!Protection
    BY <1>4 DEF Protect!OcCheck, Protect!Recover, Protect!Trip, Protect!Closes,
         Protect!Opens, Protect!Fet, Protect!Protection
  <2> QED
    BY <1>4, <2>1, <2>2, <2>3 DEF Protect!OcCheck, Protect!After, Protect!Steps
<1>5. ASSUME NEW p \in {"OV", "UV", "OT", "UT"}, Protect!LevelCheck(p) PROVE Protect!TypeOK'
  <2>1. fet' \subseteq Protect!Fet /\ tripped' \subseteq Protect!Protection
    BY <1>5 DEF Protect!LevelCheck, Protect!Recover, Protect!Trip, Protect!Closes,
         Protect!Opens, Protect!Fet, Protect!Protection
  <2> QED
    BY <1>5, <2>1 DEF Protect!LevelCheck, Protect!After, Protect!Steps
<1> QED
  BY <1>1, <1>2, <1>3, <1>4, <1>5 DEF Protect!Pass

LEMMA TickType ==
  ASSUME Protect!ProtAssumption, Protect!TypeOK, Protect!Tick
  PROVE  Protect!TypeOK'
<1>1. now' \in 0..TickMod - 1
  BY ModuloFits DEF Protect!Tick, Protect!Elapse, Protect!TypeOK
<1>2. gap' \in 0..ProtGap /\ persist' \in -1..Protect!PersistMax
  BY SMT DEF Protect!Tick, Protect!TypeOK, Protect!ProtAssumption, Protect!PersistMax
<1> QED
  BY <1>1, <1>2, SampleStays DEF Protect!Tick, Protect!TypeOK

LEMMA NextType ==
  ASSUME Protect!ProtAssumption, Protect!TypeOK, [Protect!Next]_(Protect!vars)
  PROVE  Protect!TypeOK'
<1>1. CASE Protect!PROT_ShortCircuitHandler
  BY <1>1, SampleStays DEF Protect!PROT_ShortCircuitHandler, Protect!Trip,
       Protect!AssertSc, Protect!TypeOK, Protect!Protection
<1>2. CASE UNCHANGED Protect!vars
  BY <1>2 DEF Protect!vars, Protect!TypeOK, Protect!Sample, Protect!Reading
<1> QED
  BY <1>1, <1>2, PassType, TickType DEF Protect!Next

(***************************************************************************)
(* The FETs.  With one fault at a time, the recovery of a protection can   *)
(* still meet a short circuit that the comparator asserted in the same     *)
(* pass: then the other one tripped in this pass, and does not recover.    *)
(***************************************************************************)
OneFault ==
  /\ Protect!OpenWhileTripped
  /\ \A p \in tripped \ {"SC"} : "SC" \in tripped => Protect!Trips(p, sample)
  /\ pc # "idle" => \E p \in Protect!Protection : /\ tripped \subseteq {p, "SC"}
                                         /\ \A q \in Protect!Protection : Protect!Trips(q, sample) => q = p

(* The thresholds, one protection at a time.                               *)
LEMMA Thresholds ==
  ASSUME NEW s
  PROVE  /\ Protect!Trips("SC", s) <=> s.i > 20
         /\ Protect!Trips("OC", s) <=> s.i > 10
         /\ Protect!Trips("OV", s) <=> s.v_max >= 425
         /\ Protect!Trips("UV", s) <=> s.v_min <= 280
         /\ Protect!Trips("OT", s) <=> s.t >= 65
         /\ Protect!Trips("UT", s) <=> s.t <= 0
         /\ Protect!Recovers("SC", s) <=> s.i < 10
         /\ Protect!Recovers("OC", s) <=> s.i < 8
         /\ Protect!Recovers("OV", s) <=> s.v_max <= 415
         /\ Protect!Recovers("UV", s) <=> s.v_min >= 290
         /\ Protect!Recovers("OT", s) <=> s.t <= 60
         /\ Protect!Recovers("UT", s) <=> s.t >= 5
<1>1. (Protect!Trips("SC", s) <=> s.i > 20) /\ (Protect!Recovers("SC", s) <=> s.i < 10)
  BY Zenon DEF Protect!Trips, Protect!Recovers
<1>2. (Protect!Trips("OC", s) <=> s.i > 10) /\ (Protect!Recovers("OC", s) <=> s.i < 8)
  BY Zenon DEF Protect!Trips, Protect!Recovers
<1>3. (Protect!Trips("OV", s) <=> s.v_max >= 425) /\ (Protect!Recovers("OV",
s) <=> s.v_max <= 415)
  BY Zenon DEF Protect!Trips, Protect!Recovers
<1>4. (Protect!Trips("UV", s) <=> s.v_min <= 280) /\ (Protect!Recovers("UV",
s) <=> s.v_min >= 290)
  BY Zenon DEF Protect!Trips, Protect!Recovers
<1>5. (Protect!Trips("OT", s) <=> s.t >= 65) /\ (Protect!Recovers("OT", s) <=> s.t <= 60)
  BY Zenon DEF Protect!Trips, Protect!Recovers
<1>6. (Protect!Trips("UT", s) <=> s.t <= 0) /\ (Protect!Recovers("UT", s) <=> s.t >= 5)
  BY Zenon DEF Protect!Trips, Protect!Recovers
<1> QED
  BY <1>1, <1>2, <1>3, <1>4, <1>5, <1>6

(* Out of range and recovered exclude each other.                          *)
LEMMA Hysteresis ==
  ASSUME Protect!ProtAssumption, NEW s \in Protect!Sample, NEW p \in Protect!Protection
  PROVE  ~(Protect!Trips(p, s) /\ Protect!Recovers(p, s))
<1>1. s.i \in Int /\ s.v_min \in Int /\ s.v_max \in Int /\ s.t \in Int
  BY DEF Protect!Sample, Protect!Reading, Protect!ProtAssumption
<1>2. p \in {"SC", "OC", "OV", "UV", "OT", "UT"}
  BY DEF Protect!Protection
<1> QED
  BY <1>1, <1>2, Thresholds

(* The FETs, one protection at a time.                                     *)
LEMMA Openings ==
  /\ Protect!Opens("SC") = Protect!Fet /\ Protect!Opens("OT") = Protect!Fet
  /\ Protect!Opens("OC") = {"discharge"} /\ Protect!Opens("UV") = {"discharge"}
  /\ Protect!Opens("OV") = {"charge"} /\ Protect!Opens("UT") = {"charge"}
  /\ Protect!Closes("SC") = {}
  /\ \A p \in Protect!Protection \ {"SC"} : Protect!Closes(p) = Protect!Opens(p)
  BY Zenon DEF Protect!Opens, Protect!Closes

(* A trip opens its own FETs and closes none.                              *)
LEMMA TripOpens ==
  ASSUME Protect!OpenWhileTripped, NEW p \in Protect!Protection, Protect!Trip(p)
  PROVE  Protect!OpenWhileTripped'
  BY DEF Protect!OpenWhileTripped, Protect!Trip

(* A recovery of another protection than the short circuit meets no        *)
(* protection that is still tripped.                                       *)
LEMMA RecoversAlone ==
  ASSUME Protect!ProtAssumption, Protect!TypeOK, OneFault, pc # "idle",
         NEW p \in tripped \ {"SC"}, Protect!Recovers(p, sample), Protect!Recover(p)
  PROVE  tripped = {p} /\ Protect!OpenWhileTripped'
<1>1. "SC" \notin tripped
  BY Hysteresis DEF OneFault, Protect!TypeOK
<1>2. tripped = {p}
  BY <1>1 DEF OneFault
<1> QED
  BY <1>2 DEF Protect!Recover, Protect!OpenWhileTripped

(* A protection that is not the short circuit recovers, trips or stays as  *)
(* it is.                                                                  *)
LEMMA StepKeepsOneFault ==
  ASSUME Protect!ProtAssumption, Protect!TypeOK, OneFault, pc # "idle", sample' = sample,
         NEW p \in Protect!Protection \ {"SC"},
         \/ p \in tripped /\ Protect!Recovers(p, sample) /\ Protect!Recover(p)
         \/ Protect!Trips(p, sample) /\ Protect!Trip(p)
         \/ UNCHANGED <<fet, tripped>>
  PROVE  OneFault'
<1>1. CASE p \in tripped /\ Protect!Recovers(p, sample) /\ Protect!Recover(p)
  <2>1. tripped = {p} /\ Protect!OpenWhileTripped'
    BY <1>1, RecoversAlone
  <2>2. tripped' = {}
    BY <1>1, <2>1 DEF Protect!Recover
  <2> QED
    BY <2>1, <2>2 DEF OneFault
<1>2. CASE Protect!Trips(p, sample) /\ Protect!Trip(p)
  <2>1. tripped' = tripped \union {p}
    BY <1>2 DEF Protect!Trip
  <2>2. tripped \subseteq {p, "SC"} /\ \A q \in Protect!Protection : Protect!Trips(q,
  sample) => q = p
    BY <1>2 DEF OneFault
  <2>3. Protect!OpenWhileTripped'
    BY <1>2, TripOpens DEF OneFault
  <2> QED
    BY <1>2, <2>1, <2>2, <2>3 DEF OneFault
<1>3. CASE UNCHANGED <<fet, tripped>>
  BY <1>3 DEF OneFault, Protect!OpenWhileTripped
<1> QED
  BY <1>1, <1>2, <1>3

LEMMA ScKeepsOneFault ==
  ASSUME Protect!TypeOK, OneFault, Protect!ScCheck \/ Protect!ScClear PROVE OneFault'
<1>1. pc # "idle" /\ sample' = sample
  BY DEF Protect!ScCheck, Protect!ScClear
<1>2. CASE UNCHANGED <<fet, tripped>>
  BY <1>1, <1>2 DEF OneFault, Protect!OpenWhileTripped
<1>3. CASE Protect!Trips("SC", sample) /\ Protect!Trip("SC")
  <2>1. Protect!OpenWhileTripped'
    BY <1>3, TripOpens DEF OneFault, Protect!Protection
  <2>2. /\ \A q \in Protect!Protection : Protect!Trips(q, sample) => q = "SC"
        /\ tripped \subseteq {"SC"} /\ tripped' \subseteq {"SC"}
    BY <1>1, <1>3 DEF OneFault, Protect!Trip, Protect!Protection
  <2> QED
    BY <1>1, <2>1, <2>2 DEF OneFault, Protect!Protection
<1>4. CASE Protect!Recover("SC")
  BY <1>1, <1>4, Openings DEF Protect!Recover, OneFault, Protect!OpenWhileTripped
<1> QED
  BY <1>2, <1>3, <1>4 DEF Protect!ScCheck, Protect!ScClear

LEMMA PassKeepsOneFault ==
  ASSUME Protect!ProtAssumption, setup # "overcurrent", Protect!TypeOK, OneFault, Protect!Pass
  PROVE  OneFault'
<1>1. CASE Protect!PROT_Task
  <2>1. /\ Protect!OpenWhileTripped' /\ tripped' = tripped
    BY <1>1 DEF Protect!PROT_Task, OneFault, Protect!OpenWhileTripped
  <2>2. PICK p \in Protect!Protection :
               tripped \union {q \in Protect!Protection : Protect!Trips(q, sample')} \subseteq {p}
    BY <1>1 DEF Protect!PROT_Task, Protect!Allowed
  <2> QED
    BY <2>1, <2>2 DEF OneFault
<1>2. CASE Protect!ScCheck \/ Protect!ScClear
  BY <1>2, ScKeepsOneFault
<1>3. CASE Protect!OcCheck
  <2>1. /\ pc # "idle" /\ sample' = sample /\ "OC" \in Protect!Protection \ {"SC"}
        /\ \/ "OC" \in tripped /\ Protect!Recovers("OC", sample) /\ Protect!Recover("OC")
           \/ Protect!Trips("OC", sample) /\ Protect!Trip("OC")
           \/ UNCHANGED <<fet, tripped>>
    BY <1>3 DEF Protect!OcCheck, Protect!Protection
  <2> QED
    BY <2>1, StepKeepsOneFault
<1>4. ASSUME NEW p \in {"OV", "UV", "OT", "UT"}, Protect!LevelCheck(p) PROVE OneFault'
  <2>1. /\ pc # "idle" /\ sample' = sample /\ p \in Protect!Protection \ {"SC"}
        /\ \/ p \in tripped /\ Protect!Recovers(p, sample) /\ Protect!Recover(p)
           \/ Protect!Trips(p, sample) /\ Protect!Trip(p)
           \/ UNCHANGED <<fet, tripped>>
    BY <1>4 DEF Protect!LevelCheck, Protect!Protection
  <2> QED
    BY <2>1, StepKeepsOneFault
<1> QED
  BY <1>1, <1>2, <1>3, <1>4 DEF Protect!Pass

LEMMA InitOneFault == ASSUME Protect!Init PROVE OneFault
  BY DEF Protect!Init, OneFault, Protect!OpenWhileTripped

LEMMA NextOneFault ==
  ASSUME Protect!ProtAssumption, setup # "overcurrent", Protect!TypeOK, OneFault,
         [Protect!Next]_(Protect!vars)
  PROVE  OneFault'
<1>1. CASE Protect!PROT_ShortCircuitHandler
  <2>1. /\ tripped \subseteq {"SC"} /\ tripped' \subseteq {"SC"} /\ "SC" \in Protect!Protection
        /\ sample' = sample /\ pc' = pc /\ Protect!Trip("SC")
    BY <1>1 DEF Protect!PROT_ShortCircuitHandler, Protect!Trip, Protect!Protection
  <2>2. Protect!OpenWhileTripped'
    BY <2>1, TripOpens DEF OneFault
  <2> QED
    BY <2>1, <2>2 DEF OneFault
<1>2. CASE Protect!Tick \/ UNCHANGED Protect!vars
  BY <1>2 DEF Protect!Tick, Protect!vars, OneFault, Protect!OpenWhileTripped
<1> QED
  BY <1>1, <1>2, PassKeepsOneFault DEF Protect!Next

(***************************************************************************)
(* The timer of the overcurrent.  It shows no more than the current has    *)
(* lasted: it only runs while every sample is over 10 A, except between a  *)
(* first good sample and the check that stops it, and a wrap of the tick   *)
(* makes it shorter.                                                       *)
(***************************************************************************)
OcTimerInv ==
  /\ "OC" \in tripped => oc_start = 0
  /\ Protect!Trips("OC", sample) <=> persist # -1
  /\ oc_start # 0 /\ pc \notin {"SC", "SC_clear", "OC"} => Protect!Trips("OC", sample)
  /\ oc_start # 0 /\ Protect!Trips("OC", sample) =>
       persist >= OC_TRIP_TIME \/ Protect!Elapsed(oc_start) <= persist

(* The difference of two ticks.                                            *)
LEMMA Difference ==
  ASSUME NEW m \in Nat \ {0}, NEW n \in 0..m - 1, NEW s \in 0..m - 1
  PROVE  (n - s) % m = IF s <= n THEN n - s ELSE n - s + m
<1>1. CASE s <= n
  BY <1>1, SMT
<1>2. CASE n < s
  BY <1>2, SMT
<1> QED
  BY <1>1, <1>2

(* The tick counts up, and wraps.                                          *)
LEMMA NextTick ==
  ASSUME Protect!ProtAssumption, Protect!TypeOK, Protect!Elapse
  PROVE  now' = (IF now = TickMod - 1 THEN 0 ELSE now + 1) /\ now' \in 0..TickMod - 1
<1>1. TickMod \in Nat \ {0, 1} /\ now \in 0..TickMod - 1
  BY SMT DEF Protect!ProtAssumption, Protect!TypeOK
<1>2. CASE now = TickMod - 1
  <2>1. now + 1 = TickMod /\ TickMod % TickMod = 0
    BY <1>1, <1>2, SMT
  <2> QED
    BY <1>1, <1>2, <2>1 DEF Protect!Elapse
<1>3. CASE now # TickMod - 1
  <2>1. (now + 1) % TickMod = now + 1
    BY <1>1, <1>3, SMT
  <2> QED
    BY <1>1, <1>3, <2>1 DEF Protect!Elapse
<1> QED
  BY <1>2, <1>3

(* A tick adds one to the time of a timer, until the timer itself wraps.   *)
LEMMA TimeAdvances ==
  ASSUME Protect!ProtAssumption, Protect!TypeOK, Protect!Elapse, NEW s \in 0..TickMod - 1
  PROVE  /\ (now' - s) % TickMod <= ((now - s) % TickMod) + 1
         /\ (now - s) % TickMod < TickMod - 1 => (now' - s) % TickMod = ((now - s) % TickMod) + 1
<1>1. TickMod \in Nat \ {0, 1} /\ now \in 0..TickMod - 1
  BY SMT DEF Protect!ProtAssumption, Protect!TypeOK
<1>2. now' = (IF now = TickMod - 1 THEN 0 ELSE now + 1) /\ now' \in 0..TickMod - 1
  BY NextTick
<1>3. (now - s) % TickMod = IF s <= now THEN now - s ELSE now - s + TickMod
  BY <1>1, Difference
<1>4. (now' - s) % TickMod = IF s <= now' THEN now' - s ELSE now' - s + TickMod
  BY <1>1, <1>2, Difference
<1> QED
  BY <1>1, <1>2, <1>3, <1>4, SMT

LEMMA OcCheckTimer ==
  ASSUME Protect!ProtAssumption, Protect!TypeOK, OcTimerInv, Protect!OcCheck
  PROVE  OcTimerInv'
<1>1. pc' = "OV" /\ UNCHANGED <<sample, persist, now>>
  BY DEF Protect!OcCheck, Protect!After
<1>2. Protect!Trips("OC", sample') <=> persist' # -1
  BY <1>1 DEF OcTimerInv
<1>3. Protect!Elapsed(now) = 0 /\ now \in Nat /\ persist \in -1..Protect!PersistMax
  <2>1. (now - now) % TickMod = 0
    BY Difference, SMT DEF Protect!TypeOK, Protect!ProtAssumption
  <2> QED
    BY <2>1 DEF Protect!Elapsed, Protect!TypeOK
<1>4. CASE oc_start' = 0
  BY <1>1, <1>2, <1>4 DEF OcTimerInv
<1>5. CASE "OC" \in tripped
  <2>1. oc_start' = 0
    BY <1>5 DEF Protect!OcCheck, OcTimerInv
  <2> QED
    BY <1>4, <2>1
<1>6. CASE "OC" \notin tripped /\ Protect!Trips("OC",
sample) /\ Protect!StartOcTimer /\ UNCHANGED tripped
  <2>1. oc_start' \in {oc_start, now} /\ "OC" \notin tripped'
    BY <1>6 DEF Protect!StartOcTimer
  <2>2. persist # -1
    BY <1>6 DEF OcTimerInv
  <2>3. Protect!Elapsed(oc_start)' = Protect!Elapsed(oc_start')
    BY <1>1 DEF Protect!Elapsed
  <2>4. oc_start' # 0 => persist >= OC_TRIP_TIME \/ Protect!Elapsed(oc_start') <= persist
    BY <1>3, <1>6, <2>2, SMT DEF OcTimerInv, Protect!StartOcTimer
  <2> QED
    BY <1>1, <1>2, <1>6, <2>1, <2>3, <2>4 DEF OcTimerInv
<1> QED
  BY <1>4, <1>5, <1>6 DEF Protect!OcCheck, Protect!StopOcTimer

LEMMA TickTimer ==
  ASSUME Protect!ProtAssumption, Protect!TypeOK, OcTimerInv, Protect!Tick
  PROVE  OcTimerInv'
<1>1. UNCHANGED <<tripped, sample, pc, oc_start>>
  BY DEF Protect!Tick
<1>2. Protect!PersistMax \in Nat /\ Protect!PersistMax >= OC_TRIP_TIME /\ OC_TRIP_TIME \in Nat
  BY SMT DEF Protect!PersistMax, Protect!ProtAssumption
<1>3. persist \in -1..Protect!PersistMax /\ oc_start \in 0..TickMod - 1
  BY DEF Protect!TypeOK
<1>4. persist' # -1 <=> persist # -1
  BY <1>2, <1>3, SMT DEF Protect!Tick
<1>5. Protect!Trips("OC", sample') <=> persist' # -1
  BY <1>1, <1>4 DEF OcTimerInv
<1>6. ASSUME persist # -1, persist >= OC_TRIP_TIME \/ Protect!Elapsed(oc_start) <= persist
      PROVE  persist' >= OC_TRIP_TIME \/ Protect!Elapsed(oc_start)' <= persist'
  <2>1. Protect!Elapsed(oc_start)' <= Protect!Elapsed(oc_start) + 1
    BY <1>1, <1>3, TimeAdvances DEF Protect!Elapsed, Protect!Tick
  <2>2. Protect!Elapsed(oc_start) \in Int /\ Protect!Elapsed(oc_start)' \in Int
    BY <1>1, <1>3, ModuloFits, TickType DEF Protect!Elapsed, Protect!TypeOK
  <2> QED
    BY <1>2, <1>3, <1>6, <2>1, <2>2, SMT DEF Protect!Tick
<1> QED
  BY <1>1, <1>4, <1>5, <1>6 DEF OcTimerInv

LEMMA InitTimer ==
  ASSUME Protect!ProtAssumption, Protect!Init
  PROVE  OcTimerInv /\ persist = -1
<1>1. sample \in Protect!Sample /\ "OC" \in Protect!Protection /\ Protect!Recovers("OC",
sample)
  BY DEF Protect!Init, Protect!Healthy, Protect!Protection
<1>2. ~Protect!Trips("OC", sample)
  BY <1>1, Hysteresis
<1> QED
  BY <1>2 DEF Protect!Init, OcTimerInv

LEMMA NextTimer ==
  ASSUME Protect!ProtAssumption, Protect!TypeOK, OcTimerInv, [Protect!Next]_(Protect!vars)
  PROVE  OcTimerInv'
<1>1. CASE Protect!PROT_Task
  <2>1. /\ pc = "idle" /\ pc' = "SC" /\ UNCHANGED <<tripped, oc_start, now>>
        /\ persist' = IF ~Protect!Trips("OC", sample') THEN -1 ELSE IF persist = -1 THEN 0 ELSE persist
    BY <1>1 DEF Protect!PROT_Task
  <2>2. Protect!Trips("OC", sample') <=> persist' # -1
    BY <2>1
  <2>3. oc_start # 0 => persist # -1 /\ (persist >= OC_TRIP_TIME \/ Protect!Elapsed(oc_start) <= persist)
    BY <2>1 DEF OcTimerInv
  <2>4. Protect!Elapsed(oc_start)' = Protect!Elapsed(oc_start)
    BY <2>1 DEF Protect!Elapsed
  <2> QED
    BY <2>1, <2>2, <2>3, <2>4 DEF OcTimerInv
<1>2. CASE Protect!ScCheck
  BY <1>2 DEF Protect!ScCheck, OcTimerInv, Protect!Trip, Protect!Elapsed
<1>3. CASE Protect!ScClear
  BY <1>3 DEF Protect!ScClear, OcTimerInv, Protect!Recover, Protect!Elapsed
<1>4. CASE Protect!OcCheck
  BY <1>4, OcCheckTimer
<1>5. ASSUME NEW p \in {"OV", "UV", "OT", "UT"}, Protect!LevelCheck(p) PROVE OcTimerInv'
  <2>1. /\ pc = p /\ UNCHANGED <<sample, persist, now, oc_start>>
        /\ "OC" \in tripped' => "OC" \in tripped
    BY <1>5 DEF Protect!LevelCheck, Protect!Recover, Protect!Trip
  <2> QED
    BY <1>5, <2>1 DEF OcTimerInv, Protect!Elapsed
<1>6. CASE Protect!PROT_ShortCircuitHandler
  BY <1>6 DEF Protect!PROT_ShortCircuitHandler, OcTimerInv, Protect!Trip, Protect!Elapsed
<1>7. CASE Protect!Tick
  BY <1>7, TickTimer
<1>8. CASE UNCHANGED Protect!vars
  BY <1>8 DEF Protect!vars, OcTimerInv, Protect!Elapsed
<1> QED
  BY <1>1, <1>2, <1>3, <1>4, <1>5, <1>6, <1>7, <1>8 DEF Protect!Next, Protect!Pass

LEMMA TripsAfterTime ==
  ASSUME Protect!ProtAssumption, Protect!TypeOK, OcTimerInv, [Protect!Next]_(Protect!vars)
  PROVE  ("OC" \notin tripped /\ "OC" \in tripped') => persist >= OC_TRIP_TIME
<1> SUFFICES ASSUME "OC" \notin tripped, "OC" \in tripped' PROVE persist >= OC_TRIP_TIME
    OBVIOUS
<1>1. Protect!OcCheck /\ Protect!Trips("OC", sample) /\ Protect!OcTimeUp
  BY DEF Protect!Next, Protect!Pass, Protect!vars, Protect!PROT_Task, Protect!ScCheck,
       Protect!ScClear, Protect!OcCheck, Protect!LevelCheck,
         Protect!PROT_ShortCircuitHandler, Protect!Tick, Protect!Trip, Protect!Recover
<1>2. Protect!Elapsed(oc_start) \in Int /\ persist \in Int /\ OC_TRIP_TIME \in Int
  BY ModuloFits, SMT DEF Protect!TypeOK, Protect!Elapsed, Protect!ProtAssumption
<1> QED
  BY <1>1, <1>2, SMT DEF OcTimerInv, Protect!OcTimeUp

(***************************************************************************)
(* The other way round: how far the timer lags behind the current.  Early  *)
(* in a pass the overcurrent is still to be checked.  A timer that would   *)
(* start at tick 0 does not run; it is then no later than one wait after   *)
(* tick 0, and the current has lasted no longer than from the wait before. *)
(***************************************************************************)
Early == pc \in {"SC", "SC_clear", "OC"}
Lasting == "OC" \notin tripped /\ persist # -1
StopsInTime == "OC" \notin tripped /\ persist = -1 /\ ~Early => oc_start = 0
NotStarted == Lasting /\ oc_start = 0 =>
  IF Early THEN persist <= gap \/ (now <= ProtGap + gap /\ persist <= ProtGap + now)
  ELSE now <= gap /\ persist <= ProtGap + now
Running == Lasting /\ oc_start # 0 =>
  /\ persist <= Protect!Elapsed(oc_start) + 3 * ProtGap
  /\ Protect!Elapsed(oc_start) <= OC_TRIP_TIME - 1 + gap + ProtGap
  /\ ~Early => Protect!Elapsed(oc_start) <= OC_TRIP_TIME - 1 + gap
TripInv == StopsInTime /\ NotStarted /\ Running

(* The numbers of a state.                                                 *)
LEMMA Numbers ==
  ASSUME Protect!ProtAssumption, Protect!TypeOK
  PROVE  /\ OC_TRIP_TIME \in Nat \ {0} /\ ProtGap \in Nat \ {0} /\ TickMod \in Nat
         /\ TickMod > OC_TRIP_TIME + 2 * ProtGap
         /\ persist \in Int /\ persist >= -1 /\ gap \in 0..ProtGap
         /\ now \in 0..TickMod - 1 /\ oc_start \in 0..TickMod - 1
         /\ Protect!Elapsed(oc_start) \in 0..TickMod - 1
<1>1. Protect!Elapsed(oc_start) \in 0..TickMod - 1
  BY ModuloFits, SMT DEF Protect!TypeOK, Protect!Elapsed
<1> QED
  BY <1>1, SMT DEF Protect!ProtAssumption, Protect!TypeOK

LEMMA BeginTrip ==
  ASSUME Protect!ProtAssumption, Protect!TypeOK, TripInv, Protect!PROT_Task
  PROVE  TripInv'
<1>1. /\ ~Early /\ Early' /\ UNCHANGED <<tripped, oc_start, now>> /\ gap' = 0
      /\ persist' \in {-1, persist} \/ (persist = -1 /\ persist' = 0)
  BY DEF Protect!PROT_Task, Early
<1>2. Protect!Elapsed(oc_start)' = Protect!Elapsed(oc_start)
  BY <1>1 DEF Protect!Elapsed
<1>3. StopsInTime'
  BY <1>1 DEF StopsInTime
<1>4. NotStarted'
  BY <1>1, Numbers, SMT DEF TripInv, NotStarted, Lasting
<1>5. Running'
  BY <1>1, <1>2, Numbers, SMT DEF TripInv, StopsInTime, Running, Lasting
<1> QED
  BY <1>3, <1>4, <1>5 DEF TripInv

(* The check itself: the timer starts, goes on, or stops.                  *)
LEMMA CheckTrip ==
  ASSUME Protect!ProtAssumption, Protect!TypeOK, OcTimerInv, TripInv, Protect!OcCheck
  PROVE  TripInv'
<1>1. Early /\ ~Early' /\ UNCHANGED <<sample, now, gap, persist>>
  BY DEF Protect!OcCheck, Early, Protect!After
<1>2. CASE "OC" \in tripped'
  BY <1>2 DEF TripInv, StopsInTime, NotStarted, Running, Lasting
<1>3. CASE persist = -1 /\ oc_start' = 0
  BY <1>1, <1>3 DEF TripInv, StopsInTime, NotStarted, Running, Lasting
<1>4. CASE "OC" \notin tripped /\ persist # -1 /\ ~Protect!OcTimeUp /\ Protect!StartOcTimer
  <2>1. Lasting
    BY <1>4 DEF Lasting
  <2>2. CASE oc_start # 0
    <3>1. oc_start' = oc_start /\ Protect!Elapsed(oc_start)' = Protect!Elapsed(oc_start)
      BY <1>1, <1>4, <2>2 DEF Protect!StartOcTimer, Protect!Elapsed
    <3>2. Protect!Elapsed(oc_start) <= OC_TRIP_TIME - 1
      BY <1>4, <2>2, Numbers, SMT DEF Protect!OcTimeUp
    <3>3. Running'
      BY <1>1, <2>1, <2>2, <3>1, <3>2, Numbers, SMT DEF TripInv, Running
    <3> QED
      BY <1>1, <1>4, <2>2, <3>1, <3>3 DEF TripInv, StopsInTime, NotStarted
  <2>3. CASE oc_start = 0
    <3>1. oc_start' = now
      BY <1>4, <2>3 DEF Protect!StartOcTimer
    <3>2. Protect!Elapsed(oc_start)' = 0
      BY <1>1, <3>1, Difference, Numbers, SMT DEF Protect!Elapsed
    <3>3. persist <= gap \/ (now <= ProtGap + gap /\ persist <= ProtGap + now)
      BY <1>1, <2>1, <2>3 DEF TripInv, NotStarted
    <3>4. NotStarted'
      BY <1>1, <3>1, <3>3, Numbers, SMT DEF NotStarted
    <3>5. Running'
      BY <1>1, <3>2, <3>3, Numbers, SMT DEF Running
    <3> QED
      BY <1>1, <1>4, <3>4, <3>5 DEF TripInv, StopsInTime
  <2> QED
    BY <2>2, <2>3
<1>5. "OC" \in tripped /\ Protect!Recovers("OC", sample) => persist = -1 /\ oc_start = 0
  BY Hysteresis DEF OcTimerInv, Protect!TypeOK, Protect!Protection
<1> QED
  BY <1>2, <1>3, <1>4, <1>5
       DEF Protect!OcCheck, Protect!Trip, Protect!Recover, Protect!StopOcTimer, OcTimerInv

(* While the timer runs, each tick adds one to it and to persist alike.    *)
LEMMA TickTrip ==
  ASSUME Protect!ProtAssumption, Protect!TypeOK, TripInv, Protect!Tick
  PROVE  TripInv'
<1>1. /\ UNCHANGED <<tripped, sample, pc, oc_start>> /\ (Early' <=> Early)
      /\ gap < ProtGap /\ gap' = gap + 1
  BY DEF Protect!Tick, Early
<1>2. persist' # -1 <=> persist # -1
  BY Numbers, SMT DEF Protect!Tick
<1>3. persist' <= persist + 1 /\ persist' \in Int
  BY Numbers, SMT DEF Protect!Tick
<1>4. (Lasting' <=> Lasting) /\ StopsInTime'
  BY <1>1, <1>2 DEF Lasting, TripInv, StopsInTime
<1>5. now' = IF now = TickMod - 1 THEN 0 ELSE now + 1
  BY NextTick DEF Protect!Tick
<1>6. NotStarted'
  <2> SUFFICES ASSUME Lasting, oc_start = 0
               PROVE  IF Early THEN persist' <= gap' \/ (now' <= ProtGap + gap' /\ persist' <= ProtGap + now')
                      ELSE now' <= gap' /\ persist' <= ProtGap + now'
    BY <1>1, <1>4 DEF NotStarted
  <2>1. IF Early THEN persist <= gap \/ (now <= ProtGap + gap /\ persist <= ProtGap + now)
        ELSE now <= gap /\ persist <= ProtGap + now
    BY DEF TripInv, NotStarted
  <2> QED
    BY <1>1, <1>3, <1>5, <2>1, Numbers, SMT
<1>7. Running'
  <2> SUFFICES ASSUME Lasting, oc_start # 0
               PROVE  /\ persist' <= Protect!Elapsed(oc_start)' + 3 * ProtGap
                      /\ Protect!Elapsed(oc_start)' <= OC_TRIP_TIME - 1 + gap' + ProtGap
                      /\ ~Early => Protect!Elapsed(oc_start)' <= OC_TRIP_TIME - 1 + gap'
    BY <1>1, <1>4 DEF Running
  <2>1. /\ persist <= Protect!Elapsed(oc_start) + 3 * ProtGap
        /\ Protect!Elapsed(oc_start) <= OC_TRIP_TIME - 1 + gap + ProtGap
        /\ ~Early => Protect!Elapsed(oc_start) <= OC_TRIP_TIME - 1 + gap
    BY DEF TripInv, Running
  <2>2. Protect!Elapsed(oc_start) < TickMod - 1
    BY <1>1, <2>1, Numbers, SMT
  <2>3. Protect!Elapsed(oc_start)' = Protect!Elapsed(oc_start) + 1
    BY <1>1, <2>2, Numbers, TimeAdvances DEF Protect!Elapsed, Protect!Tick
  <2> QED
    BY <1>1, <1>3, <2>1, <2>3, Numbers, SMT
<1> QED
  BY <1>4, <1>6, <1>7 DEF TripInv

LEMMA NextTrip ==
  ASSUME Protect!ProtAssumption, Protect!TypeOK, OcTimerInv, TripInv, [Protect!Next]_(Protect!vars)
  PROVE  TripInv'
<1>1. ASSUME UNCHANGED <<now, oc_start, gap, persist>>, Early' <=> Early,
             "OC" \notin tripped' => "OC" \notin tripped
      PROVE  TripInv'
  BY <1>1 DEF TripInv, StopsInTime, NotStarted, Running, Lasting, Protect!Elapsed
<1>2. CASE Protect!ScCheck
  BY <1>1, <1>2 DEF Protect!ScCheck, Early, Protect!Trip
<1>3. CASE Protect!ScClear
  BY <1>1, <1>3 DEF Protect!ScClear, Early, Protect!Recover
<1>4. ASSUME NEW p \in {"OV", "UV", "OT", "UT"}, Protect!LevelCheck(p) PROVE TripInv'
  BY <1>1, <1>4 DEF Protect!LevelCheck, Protect!After, Early, Protect!Trip, Protect!Recover
<1>5. CASE Protect!PROT_ShortCircuitHandler
  BY <1>1, <1>5 DEF Protect!PROT_ShortCircuitHandler, Early, Protect!Trip
<1>6. CASE UNCHANGED Protect!vars
  BY <1>1, <1>6 DEF Protect!vars, Early
<1> QED
  BY <1>2, <1>3, <1>4, <1>5, <1>6, BeginTrip, CheckTrip, TickTrip
       DEF Protect!Next, Protect!Pass

LEMMA InitTrip == ASSUME Protect!ProtAssumption, Protect!Init PROVE TripInv
  BY InitTimer DEF Protect!Init, TripInv, StopsInTime, NotStarted, Running, Lasting

LEMMA TripsByThen ==
  ASSUME Protect!ProtAssumption, Protect!TypeOK, TripInv
  PROVE  Protect!OcTripsInTime
<1> SUFFICES ASSUME pc = "idle", persist >= OC_TRIP_TIME + 4 * ProtGap, "OC" \notin tripped
             PROVE  FALSE
  BY DEF Protect!OcTripsInTime
<1>1. ~Early /\ Lasting
  BY Numbers, SMT DEF Early, Lasting
<1> QED
  BY <1>1, Numbers, SMT DEF TripInv, NotStarted, Running

-----------------------------------------------------------------------------
(* The charge state machine: its stages and clocks.                        *)

LEMMA AgeMaxIsNat == ASSUME Charge!ChargeAssumption PROVE Charge!AgeMax \in Nat
  BY SMT DEF Charge!ChargeAssumption, Charge!AgeMax

(* A clock stops at its cap.                                               *)
LEMMA CapType ==
  ASSUME Charge!ChargeAssumption, NEW n \in 0..Charge!AgeMax PROVE Charge!Cap(n) \in 0..Charge!AgeMax
<1> HIDE DEF Charge!AgeMax
<1> QED
  BY AgeMaxIsNat, SMT DEF Charge!Cap

(* The compensated voltage lies between its two limits.                    *)
LEMMA CvType ==
  ASSUME NEW t \in Int PROVE Charge!charge_cv_compensated(t) \in 4000..4200
  BY SMT DEF Charge!charge_cv_compensated

(* The ways a call of CHG_Task ends: charging stops, a stage that has time *)
(* left goes on, or the next one begins; never an earlier one.             *)
ChargeOutcome ==
  \/ Charge!StopIn("FAULT") \/ Charge!StopIn("TERMINATED")
  \/ ~Charge!TimeUp /\ Charge!GoOn
  \/ phase = "PRECHARGE" /\ Charge!Enter("CC")
  \/ phase = "CC" /\ Charge!Enter("CV")

LEMMA TaskOutcome ==
  ASSUME Charge!CHG_Task
  PROVE  /\ ChargeOutcome /\ phase \in Charge!Charging /\ chg_gap' = 0 /\ charged' = charged
         /\ \E m \in Charge!Measured : seen' = m /\ (Charge!Measure(m) \/ cv' = cv)
<1> PICK m \in Charge!Measured :
      /\ phase \in Charge!Charging /\ chg_gap' = 0 /\ charged' = charged
      /\ \/ ~Charge!charge_temp_ok(m.t) /\ Charge!StopIn("FAULT") /\ seen' = m /\ cv' = cv
         \/ /\ Charge!charge_temp_ok(m.t) /\ Charge!Measure(m)
            /\ \/ phase = "PRECHARGE" /\ Charge!PrechargeStep(m)
               \/ phase = "CC" /\ Charge!CcStep(m)
               \/ phase = "CV" /\ Charge!CvStep
  BY DEF Charge!CHG_Task
<1>1. ASSUME ~Charge!charge_temp_ok(m.t) PROVE ChargeOutcome
  BY <1>1, Zenon DEF ChargeOutcome
<1>2. ASSUME phase = "PRECHARGE", Charge!PrechargeStep(m) PROVE ChargeOutcome
  <2>1. Charge!Enter("CC") \/ Charge!StopIn("FAULT") \/ (~Charge!TimeUp /\ Charge!GoOn)
    BY <1>2, SMT DEF Charge!PrechargeStep
  <2> QED
    BY <1>2, <2>1, Zenon DEF ChargeOutcome
<1>3. ASSUME phase = "CC", Charge!CcStep(m) PROVE ChargeOutcome
  BY <1>3, Zenon DEF ChargeOutcome, Charge!CcStep
<1>4. ASSUME Charge!CvStep PROVE ChargeOutcome
  BY <1>4, Zenon DEF ChargeOutcome, Charge!CvStep
<1>5. seen' = m /\ (Charge!Measure(m) \/ cv' = cv)
  BY DEF Charge!Measure
<1> QED
  BY <1>1, <1>2, <1>3, <1>4, <1>5, Zenon

LEMMA ChargeInitType == ASSUME Charge!ChargeAssumption PROVE Charge!Init => Charge!TypeOK
<1> SUFFICES ASSUME Charge!Init PROVE Charge!TypeOK
    OBVIOUS
<1>1. 0 \in 0..Charge!AgeMax /\ 0 \in 0..MaxGap
  BY AgeMaxIsNat, SMT DEF Charge!ChargeAssumption
<1> QED
  BY <1>1 DEF Charge!Init, Charge!TypeOK, Charge!Phases

LEMMA ChargeNextType == ASSUME Charge!ChargeAssumption PROVE Charge!TypeOK /\ [Charge!Next]_(Charge!vars) => Charge!TypeOK'
<1> SUFFICES ASSUME Charge!TypeOK, [Charge!Next]_(Charge!vars) PROVE Charge!TypeOK'
    OBVIOUS
<1>0. 0 \in 0..Charge!AgeMax /\ 0 \in 0..MaxGap
  BY AgeMaxIsNat, SMT DEF Charge!ChargeAssumption
<1>p. /\ "IDLE" \in Charge!Phases /\ "FAULT" \in Charge!Phases /\ "TERMINATED" \in Charge!Phases
      /\ "CC" \in Charge!Phases /\ "CV" \in Charge!Phases
  BY DEF Charge!Phases, Charge!Charging
<1>m. ASSUME NEW m \in Charge!Measured, Charge!Measure(m)
      PROVE  seen' \in Charge!Measured /\ cv' \in {0} \union 4000..4200
  <2>1. m.t \in Int
    BY DEF Charge!Measured, Charge!ChargeAssumption
  <2> QED
    BY <1>m, <2>1, CvType DEF Charge!Measure
<1>1. CASE Charge!CHG_Start
  BY <1>0, <1>1, <1>m DEF Charge!CHG_Start, Charge!TypeOK, Charge!Phases, Charge!Charging
<1>2. CASE Charge!CHG_Task
  <2>1. ChargeOutcome /\ phase \in Charge!Charging /\ chg_gap' = 0 /\ charged' = charged
    BY <1>2, TaskOutcome
  <2>2. phase' \in Charge!Phases /\ charge_fet' \in BOOLEAN /\ age' \in 0..Charge!AgeMax
    <3> CASE Charge!StopIn("FAULT") \/ Charge!StopIn("TERMINATED")
      <4>1. charge_fet' \in BOOLEAN
        BY Zenon DEF Charge!StopIn
      <4>2. phase' \in Charge!Phases /\ age' = age
        BY <1>p, Zenon DEF Charge!StopIn
      <4> QED
        BY <4>1, <4>2 DEF Charge!TypeOK
    <3> CASE ~Charge!TimeUp /\ Charge!GoOn
      BY DEF Charge!GoOn, Charge!TypeOK, Charge!Phases, Charge!Charging
    <3> CASE Charge!Enter("CC") \/ Charge!Enter("CV")
      BY <1>p, <1>0 DEF Charge!Enter, Charge!TypeOK, Charge!Phases, Charge!Charging
    <3> QED
      BY <2>1, Zenon DEF ChargeOutcome
  <2>3. PICK m \in Charge!Measured : seen' = m /\ (Charge!Measure(m) \/ cv' = cv)
    BY <1>2, TaskOutcome
  <2>4. seen' \in Charge!Measured /\ cv' \in {0} \union 4000..4200
    BY <1>m, <2>3 DEF Charge!TypeOK, Charge!Phases, Charge!Charging
  <2> QED
    BY <1>0, <2>1, <2>2, <2>4 DEF Charge!TypeOK, Charge!Phases, Charge!Charging
<1>3. CASE Charge!CHG_Idle_Task \/ Charge!CHG_Stop
  <2>1. CASE Charge!CHG_Idle_Task
    BY <1>0, <2>1 DEF Charge!CHG_Idle_Task, Charge!TypeOK, Charge!Phases, Charge!Charging
  <2>2. CASE Charge!CHG_Stop
    <3>1. charge_fet' \in BOOLEAN
      BY <2>2, Zenon DEF Charge!CHG_Stop
    <3> QED
      BY <2>2, <3>1 DEF Charge!CHG_Stop, Charge!TypeOK, Charge!Phases, Charge!Charging
  <2> QED
    BY <1>3, <2>1, <2>2
<1>4. CASE Charge!Tick
  <2>1. chg_gap' \in 0..MaxGap
    BY <1>4, SMT DEF Charge!Tick, Charge!TypeOK, Charge!ChargeAssumption
  <2>2. age' \in 0..Charge!AgeMax /\ charged' \in 0..Charge!AgeMax
    BY <1>4, CapType DEF Charge!Tick, Charge!TypeOK, Charge!Phases, Charge!Charging
  <2> QED
    BY <1>4, <2>1, <2>2 DEF Charge!Tick, Charge!TypeOK, Charge!Phases, Charge!Charging
<1>5. CASE UNCHANGED Charge!vars
  BY <1>5 DEF Charge!vars, Charge!TypeOK, Charge!Phases, Charge!Charging
<1> QED
  BY <1>1, <1>2, <1>3, <1>4, <1>5 DEF Charge!Next, Charge!Task

(***************************************************************************)
(* The length of a charge.  The clock of a stage is at most the wait for   *)
(* the next call past its limit, and the charge is as old as that clock    *)
(* plus all that the stages before it may have taken.                      *)
(***************************************************************************)

ChargeClock ==
  /\ charge_fet => phase \in Charge!Charging
  /\ phase = "PRECHARGE" => /\ age <= CHG_PRECHARGE_TIMEOUT + chg_gap /\ charged <= age
  /\ phase = "CC" => /\ age <= CC_TIMEOUT + chg_gap
                     /\ charged <= CHG_PRECHARGE_TIMEOUT + MaxGap + age
  /\ phase = "CV" => /\ age <= CV_TIMEOUT + chg_gap
                     /\ charged <= CHG_PRECHARGE_TIMEOUT + CC_TIMEOUT + 2 * MaxGap + age

ChargeNumbers ==
           /\ CHG_PRECHARGE_TIMEOUT \in Nat /\ CC_TIMEOUT \in Nat /\ CV_TIMEOUT \in Nat
           /\ MaxGap \in Nat \ {0}
           /\ age \in Nat /\ charged \in Nat /\ chg_gap \in 0..MaxGap

LEMMA AreChargeNumbers == ASSUME Charge!ChargeAssumption, Charge!TypeOK PROVE ChargeNumbers
  BY AgeMaxIsNat DEF Charge!ChargeAssumption, Charge!TypeOK, ChargeNumbers

LEMMA TaskClock == ASSUME ChargeNumbers, ChargeClock, Charge!CHG_Task PROVE ChargeClock'
<1>1. ChargeOutcome /\ phase \in Charge!Charging /\ chg_gap' = 0 /\ charged' = charged
  BY TaskOutcome
<1>2. CASE Charge!StopIn("FAULT") \/ Charge!StopIn("TERMINATED")
  BY <1>2 DEF Charge!StopIn, ChargeClock
<1>3. CASE ~Charge!TimeUp /\ Charge!GoOn
  <2>1. /\ phase = "PRECHARGE" => age < CHG_PRECHARGE_TIMEOUT
        /\ phase = "CC" => age < CC_TIMEOUT
        /\ phase = "CV" => age < CV_TIMEOUT
    BY <1>3 DEF Charge!TimeUp, Charge!Limit, ChargeNumbers
  <2> QED
    BY <1>1, <1>3, <2>1 DEF Charge!GoOn, ChargeClock, ChargeNumbers
<1>4. CASE phase = "PRECHARGE" /\ Charge!Enter("CC")
  BY <1>1, <1>4 DEF Charge!Enter, ChargeClock, ChargeNumbers, Charge!Charging
<1>5. CASE phase = "CC" /\ Charge!Enter("CV")
  BY <1>1, <1>5 DEF Charge!Enter, ChargeClock, ChargeNumbers, Charge!Charging
<1> QED
  BY <1>1, <1>2, <1>3, <1>4, <1>5 DEF ChargeOutcome

(* A clock that has not reached its cap counts; the other may not.         *)
LEMMA TickClock == ASSUME ChargeNumbers, ChargeClock, Charge!Tick PROVE ChargeClock'
<1>1. /\ chg_gap < MaxGap /\ chg_gap' = chg_gap + 1 /\ phase' = phase /\ charge_fet' = charge_fet
      /\ age' = Charge!Cap(age)
      /\ phase \in Charge!Charging => charged' = Charge!Cap(charged)
  BY DEF Charge!Tick
<1>2. phase \in Charge!Charging => charged' <= charged + 1 /\ charged' \in Nat
  <2>1. charged \in Nat
    BY DEF ChargeNumbers
  <2>2. Charge!Cap(charged) = charged + 1 \/ Charge!Cap(charged) = charged
    BY DEF Charge!Cap
  <2>3. Charge!Cap(charged) <= charged + 1 /\ Charge!Cap(charged) \in Nat
    BY <2>1, <2>2, SMT
  <2> QED
    BY <1>1, <2>3
<1>3. phase \in Charge!Charging => age < Charge!AgeMax
  BY <1>1 DEF Charge!Charging, ChargeClock, ChargeNumbers, Charge!AgeMax
<1>4. phase \in Charge!Charging => age' = age + 1
  BY <1>1, <1>3 DEF Charge!Cap
<1>5. CASE phase = "PRECHARGE"
  BY <1>1, <1>2, <1>4, <1>5 DEF Charge!Charging, ChargeClock, ChargeNumbers
<1>6. CASE phase = "CC"
  BY <1>1, <1>2, <1>4, <1>6 DEF Charge!Charging, ChargeClock, ChargeNumbers
<1>7. CASE phase = "CV"
  BY <1>1, <1>2, <1>4, <1>7 DEF Charge!Charging, ChargeClock, ChargeNumbers
<1>8. CASE phase \notin Charge!Charging
  BY <1>1, <1>8 DEF Charge!Charging, ChargeClock
<1> QED
  BY <1>5, <1>6, <1>7, <1>8 DEF Charge!Charging

ChargeInv == Charge!TypeOK /\ ChargeClock

LEMMA ChargeStarts == ASSUME Charge!ChargeAssumption, Charge!Init PROVE ChargeInv
  BY ChargeInitType DEF ChargeInv, Charge!Init, ChargeClock

LEMMA ChargeGoesOn == ASSUME Charge!ChargeAssumption, ChargeInv, [Charge!Next]_(Charge!vars) PROVE ChargeInv'
<1> USE DEF ChargeInv
<1>1. Charge!TypeOK'
  BY ChargeNextType
<1> ChargeNumbers
  BY AreChargeNumbers
<1>2. CASE Charge!CHG_Start
  BY <1>1, <1>2 DEF Charge!CHG_Start, ChargeClock, Charge!Charging, ChargeNumbers
<1>3. CASE Charge!CHG_Task
  BY <1>1, <1>3, TaskClock
<1>4. CASE Charge!CHG_Idle_Task \/ Charge!CHG_Stop
  BY <1>1, <1>4 DEF Charge!CHG_Idle_Task, Charge!CHG_Stop, ChargeClock, Charge!Charging
<1>5. CASE Charge!Tick
  BY <1>1, <1>5, TickClock
<1>6. CASE UNCHANGED Charge!vars
  BY <1>1, <1>6 DEF Charge!vars, ChargeClock
<1> QED
  BY <1>2, <1>3, <1>4, <1>5, <1>6 DEF Charge!Next, Charge!Task

LEMMA ChargeHolds == ASSUME Charge!ChargeAssumption, ChargeInv PROVE Charge!ChargeTimeBounded
  BY AreChargeNumbers
     DEF ChargeInv, ChargeClock, Charge!ChargeTimeBounded, Charge!Charging, ChargeNumbers

-----------------------------------------------------------------------------
(* The precharge.                                                          *)

(* The main FET closes in the pass that found the load charged, with the   *)
(* resistor path; the load cannot discharge from then on.  Only an active  *)
(* attempt is between the two FETs.                                        *)
PrechargeInv ==
  /\ Precharge!TypeOK /\ Precharge!ClosedOntoChargedLoad /\ Precharge!ResistorOnlyWhileActive
  /\ closing => pre_phase = "ACTIVE" /\ main_fet
  /\ pre_phase = "ACTIVE" => retry_count < PRECHARGE_MAX_RETRIES

LEMMA PrechargeStarts == ASSUME Precharge!PrechargeAssumption, Precharge!Init PROVE PrechargeInv
<1>1. /\ 0 \in 0..Precharge!ElapsedMax /\ 0 \in 0..PRECHARGE_MAX_RETRIES
  BY SMT DEF Precharge!PrechargeAssumption, Precharge!ElapsedMax
<1> QED
  BY <1>1 DEF Precharge!Init, PrechargeInv, Precharge!TypeOK,
              Precharge!ClosedOntoChargedLoad, Precharge!ResistorOnlyWhileActive

(* The FETs of one step.                                                   *)
LEMMA PrechargeFets ==
  ASSUME PrechargeInv, [Precharge!Next]_(Precharge!vars)
  PROVE  /\ {precharge_fet, main_fet, load, closing}' \subseteq BOOLEAN
         /\ Precharge!ClosedOntoChargedLoad' /\ Precharge!ResistorOnlyWhileActive'
         /\ closing' => pre_phase' = "ACTIVE" /\ main_fet'
         /\ pre_phase' \in {"IDLE", "ACTIVE", "COMPLETE", "FAILED"}
<1> USE Zenon DEF PrechargeInv, Precharge!TypeOK, Precharge!ClosedOntoChargedLoad, Precharge!ResistorOnlyWhileActive
<1>1. CASE Precharge!PRECHARGE_Start
  BY <1>1 DEF Precharge!PRECHARGE_Start
<1>2. CASE Precharge!Timeout
  BY <1>2 DEF Precharge!Timeout
<1>3. CASE Precharge!Check
  BY <1>3 DEF Precharge!Check
<1>4. CASE Precharge!Complete
  BY <1>4 DEF Precharge!Complete
<1>5. CASE Precharge!PRECHARGE_Reset
  BY <1>5 DEF Precharge!PRECHARGE_Reset
<1>6. CASE Precharge!LoadChanges
  BY <1>6 DEF Precharge!LoadChanges
<1>7. CASE Precharge!Tick
  BY <1>7 DEF Precharge!Tick
<1>8. CASE UNCHANGED Precharge!vars
  BY <1>8, SMT DEF Precharge!vars
<1> QED
  BY <1>1, <1>2, <1>3, <1>4, <1>5, <1>6, <1>7, <1>8 DEF Precharge!Next, Precharge!Task

(* Its counts.                                                             *)
LEMMA PrechargeCounts ==
  ASSUME Precharge!PrechargeAssumption, PrechargeInv, [Precharge!Next]_(Precharge!vars)
  PROVE  /\ retry_count' \in 0..PRECHARGE_MAX_RETRIES /\ elapsed' \in 0..Precharge!ElapsedMax
         /\ pre_phase' = "ACTIVE" => retry_count' < PRECHARGE_MAX_RETRIES
<1>1. /\ PRECHARGE_MAX_RETRIES \in Nat \ {0} /\ PRECHARGE_RETRY_COOLDOWN \in 0..Precharge!ElapsedMax
      /\ Precharge!ElapsedMax \in Nat
  BY SMT DEF Precharge!PrechargeAssumption, Precharge!ElapsedMax
<1>2. /\ retry_count \in 0..PRECHARGE_MAX_RETRIES /\ elapsed \in 0..Precharge!ElapsedMax
      /\ pre_phase = "ACTIVE" => retry_count < PRECHARGE_MAX_RETRIES
  BY DEF PrechargeInv, Precharge!TypeOK
<1>3. CASE Precharge!PRECHARGE_Start \/ Precharge!PRECHARGE_Reset
  BY <1>1, <1>2, <1>3, SMT DEF Precharge!PRECHARGE_Start, Precharge!PRECHARGE_Reset
<1>4. CASE Precharge!Timeout
  BY <1>1, <1>2, <1>4, SMT DEF Precharge!Timeout, Precharge!OutOfRetries
<1>5. CASE Precharge!Check
  BY <1>1, <1>2, <1>5, SMT DEF Precharge!Check
<1>6. CASE Precharge!Complete \/ Precharge!LoadChanges \/ UNCHANGED Precharge!vars
  BY <1>1, <1>2, <1>6 DEF Precharge!Complete, Precharge!LoadChanges, Precharge!vars
<1>7. CASE Precharge!Tick
  BY <1>1, <1>2, <1>7, SMT DEF Precharge!Tick
<1> QED
  BY <1>3, <1>4, <1>5, <1>6, <1>7 DEF Precharge!Next, Precharge!Task

LEMMA PrechargeGoesOn ==
  ASSUME Precharge!PrechargeAssumption, PrechargeInv, [Precharge!Next]_(Precharge!vars) PROVE PrechargeInv'
  BY PrechargeFets, PrechargeCounts DEF PrechargeInv, Precharge!TypeOK

-----------------------------------------------------------------------------
(* The discharge monitor.                                                  *)

(* A capacity is a number.                                                 *)
LEMMA CapacityIsNat == ASSUME Discharge!DischargeAssumption PROVE Capacities \subseteq Nat
  BY DEF Discharge!DischargeAssumption

(* What DISCH_Task may add to the charge drawn keeps it a number, and only *)
(* lets it grow.                                                           *)
LEMMA DrawnGrows ==
  ASSUME Discharge!DischargeAssumption, NEW p \in Nat, NEW q \in p..p + MaxStep
  PROVE  q \in Nat /\ p <= q
  BY SMT DEF Discharge!DischargeAssumption

(* A threshold of the state of charge is reached or not.                   *)
LEMMA ThresholdIsBoolean ==
  ASSUME NEW n \in Nat, NEW p \in Nat, NEW f \in Nat
  PROVE  Discharge!AtMost(n, p, f) \in BOOLEAN
  BY SMT DEF Discharge!AtMost, Discharge!Remaining

LEMMA DischargeInitType == ASSUME Discharge!DischargeAssumption PROVE Discharge!Init => Discharge!TypeOK
<1> SUFFICES ASSUME Discharge!Init PROVE Discharge!TypeOK
    OBVIOUS
<1>1. 0 \in 0..MaxRestarts
  BY SMT DEF Discharge!DischargeAssumption
<1> QED
  BY <1>1 DEF Discharge!Init, Discharge!TypeOK

LEMMA DischargeNextType == ASSUME Discharge!DischargeAssumption PROVE Discharge!TypeOK /\ [Discharge!Next]_(Discharge!vars) => Discharge!TypeOK'
<1> SUFFICES ASSUME Discharge!TypeOK, [Discharge!Next]_(Discharge!vars) PROVE Discharge!TypeOK'
    OBVIOUS
<1>1. CASE Discharge!DISCH_Task
  <2>1. /\ fcc' \in Capacities /\ sampled' = TRUE /\ restarts' = restarts
        /\ passed' \in passed..passed + MaxStep
    BY <1>1 DEF Discharge!DISCH_Task
  <2>2. passed' \in Nat
    BY <2>1, DrawnGrows DEF Discharge!TypeOK
  <2>3. /\ discharge_fet' \in BOOLEAN /\ critical_stop' \in BOOLEAN
        /\ flash' = flash \/ flash' = Discharge!Record(passed', fcc')
    BY <1>1 DEF Discharge!DISCH_Task, Discharge!Critical, Discharge!DISCH_SaveState,
                Discharge!TypeOK
  <2>4. low_warning' \in BOOLEAN
    <3>1. fcc' \in Nat
      BY <2>1, CapacityIsNat
    <3>2. Discharge!AtMost(23, passed', fcc') \in BOOLEAN /\ Discharge!AtMost(20, passed', fcc') \in BOOLEAN
      BY <2>2, <3>1, ThresholdIsBoolean
    <3> QED
      BY <1>1, <3>2, Zenon DEF Discharge!DISCH_Task, Discharge!Low
  <2>5. flash' = Discharge!NoRecord \/ (flash'.passed \in Nat /\ flash'.fcc \in Capacities)
    BY <2>1, <2>2, <2>3 DEF Discharge!TypeOK, Discharge!Record
  <2> QED
    BY <2>1, <2>2, <2>3, <2>4, <2>5 DEF Discharge!TypeOK
<1>2. CASE Discharge!DISCH_ResetState
  BY <1>2 DEF Discharge!DISCH_ResetState, Discharge!TypeOK
<1>3. CASE Discharge!PowerLoss
  <2>1. restarts' \in 0..MaxRestarts
    BY <1>3, SMT DEF Discharge!PowerLoss, Discharge!TypeOK, Discharge!DischargeAssumption
  <2> QED
    BY <1>3, <2>1 DEF Discharge!PowerLoss, Discharge!TypeOK
<1>4. CASE Discharge!DISCH_RestoreState
  BY <1>4 DEF Discharge!DISCH_RestoreState, Discharge!TypeOK
<1>5. CASE Discharge!PRECHARGE_Task
  BY <1>5 DEF Discharge!PRECHARGE_Task, Discharge!TypeOK
<1>6. CASE UNCHANGED Discharge!vars
  BY <1>6 DEF Discharge!vars, Discharge!TypeOK
<1> QED
  BY <1>1, <1>2, <1>3, <1>4, <1>5, <1>6 DEF Discharge!Next

(* The two thresholds of the warning are 3 % apart.                        *)
LEMMA Wider ==
  ASSUME NEW p \in Nat, NEW f \in Nat
  PROVE  Discharge!AtMost(20, p, f) => Discharge!AtMost(23, p, f)
  BY SMT DEF Discharge!AtMost, Discharge!Remaining

(***************************************************************************)
(* The critical stop.  What the record says stays true because DISCH_Task  *)
(* only adds to the charge drawn; that nothing closes the FET meanwhile    *)
(* needs that a stop only exists after a sample, when neither a restored   *)
(* record nor the precharge of a starting robot can come any more.         *)
(***************************************************************************)
StopInv == Discharge!CriticalIsOnFlash /\ (critical_stop => sampled)

LEMMA TaskStop ==
  ASSUME Discharge!DischargeAssumption, Discharge!TypeOK, Discharge!TypeOK', StopInv, Discharge!DISCH_Task
  PROVE  StopInv'
<1>1. passed <= passed' /\ passed' \in Nat /\ passed \in Nat /\ sampled'
  BY DrawnGrows DEF Discharge!DISCH_Task, Discharge!TypeOK
<1>2. CASE critical_stop' /\ ~critical_stop
  <2>1. /\ ~discharge_fet' /\ flash' = Discharge!Record(passed', fcc')
        /\ Discharge!AtMost(5, passed', fcc')
    BY <1>2 DEF Discharge!DISCH_Task, Discharge!Critical, Discharge!DISCH_SaveState
  <2>2. flash' # Discharge!NoRecord
    BY <2>1 DEF Discharge!Record, Discharge!NoRecord, Discharge!TypeOK,
                Discharge!DischargeAssumption
  <2>3. flash'.passed = passed' /\ flash'.fcc = fcc'
    BY <2>1 DEF Discharge!Record
  <2>4. flash'.passed <= passed'
    BY <1>1, <2>3, SMT
  <2> QED
    BY <1>1, <2>1, <2>2, <2>3, <2>4 DEF StopInv, Discharge!CriticalIsOnFlash
<1>3. CASE critical_stop' /\ critical_stop
  <2>1. discharge_fet' = discharge_fet /\ flash' = flash
    BY <1>3 DEF Discharge!DISCH_Task, Discharge!Critical
  <2>2. /\ ~discharge_fet /\ flash # Discharge!NoRecord /\ Discharge!AtMost(5, flash.passed, flash.fcc)
        /\ flash.passed <= passed
    BY <1>3 DEF StopInv, Discharge!CriticalIsOnFlash
  <2>3. flash.passed \in Nat
    BY <2>2 DEF Discharge!TypeOK
  <2>4. flash.passed <= passed'
    BY <1>1, <2>2, <2>3, SMT
  <2> QED
    BY <1>1, <2>1, <2>2, <2>4 DEF StopInv, Discharge!CriticalIsOnFlash
<1>4. CASE ~critical_stop'
  BY <1>4 DEF StopInv, Discharge!CriticalIsOnFlash
<1> QED
  BY <1>2, <1>3, <1>4

DischargeInv == Discharge!TypeOK /\ Discharge!FlatIsNoticed /\ StopInv

LEMMA DischargeStarts == ASSUME Discharge!DischargeAssumption, Discharge!Init PROVE DischargeInv
  BY DischargeInitType
     DEF DischargeInv, Discharge!Init, Discharge!FlatIsNoticed, StopInv,
         Discharge!CriticalIsOnFlash

LEMMA DischargeGoesOn ==
  ASSUME Discharge!DischargeAssumption, DischargeInv, [Discharge!Next]_(Discharge!vars) PROVE DischargeInv'
<1> USE DEF DischargeInv
<1>1. Discharge!TypeOK'
  BY DischargeNextType
<1>2. CASE Discharge!DISCH_Task
  <2>1. passed' \in Nat /\ fcc' \in Nat
    BY <1>1, CapacityIsNat DEF Discharge!TypeOK
  <2>2. Discharge!AtMost(20, passed', fcc') => Discharge!AtMost(23, passed', fcc')
    BY <2>1, Wider
  <2>3. Discharge!FlatIsNoticed'
    BY <1>2, <2>2 DEF Discharge!DISCH_Task, Discharge!Low, Discharge!FlatIsNoticed
  <2> QED
    BY <1>1, <1>2, <2>3, TaskStop
<1>3. CASE Discharge!DISCH_ResetState \/ Discharge!PowerLoss
  BY <1>1, <1>3 DEF Discharge!DISCH_ResetState, Discharge!PowerLoss,
                    Discharge!FlatIsNoticed, StopInv, Discharge!CriticalIsOnFlash
<1>4. CASE Discharge!DISCH_RestoreState \/ Discharge!PRECHARGE_Task
  BY <1>1, <1>4 DEF Discharge!DISCH_RestoreState, Discharge!PRECHARGE_Task,
                    Discharge!FlatIsNoticed, StopInv,
                    Discharge!CriticalIsOnFlash
<1>5. CASE UNCHANGED Discharge!vars
  BY <1>1, <1>5 DEF Discharge!vars, Discharge!FlatIsNoticed, StopInv,
                    Discharge!CriticalIsOnFlash
<1> QED
  BY <1>2, <1>3, <1>4, <1>5 DEF Discharge!Next

-----------------------------------------------------------------------------
(* Balancing.                                                              *)

(* The differences are those of the last measurement; until the first one  *)
(* no cell is bled.                                                        *)
BalanceInv == Balance!TypeOK /\ Balance!BleedsHighCells /\ Balance!HighCellsAreBled

LEMMA BalanceStarts == ASSUME Balance!BalanceAssumption, Balance!Init PROVE BalanceInv
<1>1. 0 \in 0..DutyMod - 1
  BY SMT DEF Balance!BalanceAssumption
<1> QED
  BY <1>1 DEF Balance!Init, BalanceInv, Balance!TypeOK, Balance!BleedsHighCells,
              Balance!HighCellsAreBled

(* A set of numbers has a least one.                                       *)
LEMMA LeastNumber ==
  ASSUME NEW S \in SUBSET Nat, S # {} PROVE \E m \in S : \A n \in S : m <= n
<1> DEFINE R == {p \in Nat \X Nat : p[1] < p[2]}
<1>1. IsWellFoundedOn(R, Nat)
  BY NatLessThanWellFounded DEF OpToRel
<1>2. \E m \in S : \A n \in S : ~(<<n, m>> \in R)
  <2> HIDE DEF R
  <2> QED
    BY <1>1, WFMin
<1>3. \A m, n \in Nat : n < m => <<n, m>> \in R
  OBVIOUS
<1>4. PICK m \in S : \A n \in S : ~(<<n, m>> \in R)
  BY <1>2
<1>5. \A n \in S : ~(n < m)
  BY <1>3, <1>4
<1> QED
  BY <1>4, <1>5

(* The lowest cell is one of the cells.                                    *)
LEMMA LowestCell ==
  ASSUME Balance!BalanceAssumption, NEW v \in [Cell -> Milli], NEW c \in Cell
  PROVE  Balance!Low(v) \in Nat /\ v[c] \in Nat /\ Balance!Delta(v, c) \in Int
<1>1. Milli \subseteq Nat
  BY DEF Balance!BalanceAssumption
<1>2. {v[d] : d \in Cell} \in SUBSET Nat /\ v[c] \in {v[d] : d \in Cell}
  BY <1>1
<1>3. PICK m \in {v[d] : d \in Cell} : \A n \in {v[d] : d \in Cell} : m <= n
  BY <1>2, LeastNumber
<1>4. m \in Milli /\ (\E d \in Cell : v[d] = m) /\ \A d \in Cell : m <= v[d]
  BY <1>3
<1>5. Balance!Low(v) \in Milli
  BY <1>4 DEF Balance!Low
<1>6. Balance!Low(v) \in Nat /\ v[c] \in Nat
  BY <1>1, <1>5
<1> QED
  BY <1>6, SMT DEF Balance!Delta

(* Finite sets are the same inside and outside of the instance.            *)
LEMMA SameSets ==
  \A S : Balance!Cardinality(S) = Cardinality(S) /\ (Balance!IsFiniteSet(S) <=> IsFiniteSet(S))
  BY DEF Balance!Cardinality, Cardinality, Balance!IsFiniteSet, IsFiniteSet

(* What a mask holds is high enough.                                       *)
LEMMA MasksAreHigh ==
  ASSUME NEW v, NEW mask \in Balance!Masks(v)
  PROVE  mask \subseteq Cell /\ \A c \in mask : Balance!Delta(v, c) >= BALANCE_THRESHOLD_mV
<1>1. CASE Balance!Cardinality(Balance!Wanting(v)) <= max_balance_cells
  BY <1>1 DEF Balance!Masks, Balance!Wanting
<1>2. CASE ~(Balance!Cardinality(Balance!Wanting(v)) <= max_balance_cells)
  BY <1>2 DEF Balance!Masks
<1> QED
  BY <1>1, <1>2

(* And it holds all that are, or as many as the resistors carry.           *)
LEMMA MasksAreFull ==
  ASSUME Balance!BalanceAssumption, Balance!TypeOK, NEW v \in [Cell -> Milli], NEW mask \in Balance!Masks(v)
  PROVE  \/ \A c \in Cell : Balance!Delta(v, c) >= BALANCE_THRESHOLD_mV => c \in mask
         \/ Balance!Cardinality(mask) = max_balance_cells
<1>1. CASE Balance!Cardinality(Balance!Wanting(v)) <= max_balance_cells
  <2>1. ASSUME NEW c \in Cell PROVE duty_counter[c] < BALANCE_MAX_DUTY_CYCLES
    <3>1. duty_counter[c] \in 0..DutyMod - 1
      BY DEF Balance!TypeOK
    <3> QED
      BY <3>1, SMT DEF Balance!BalanceAssumption
  <2> QED
    BY <1>1, <2>1 DEF Balance!Masks, Balance!Wanting
<1>2. CASE ~(Balance!Cardinality(Balance!Wanting(v)) <= max_balance_cells)
  <2>1. PICK top \in SUBSET Cell :
          /\ Balance!Cardinality(top) = max_balance_cells
          /\ \A c \in top, d \in Cell \ top : v[c] >= v[d]
          /\ mask = {c \in top : Balance!Delta(v, c) >= BALANCE_THRESHOLD_mV}
    BY <1>2 DEF Balance!Masks
  <2>2. CASE \A c \in top : Balance!Delta(v, c) >= BALANCE_THRESHOLD_mV
    <3>1. mask = top
      BY <2>1, <2>2
    <3> QED
      BY <2>1, <3>1
  <2>3. ASSUME NEW c \in top, ~(Balance!Delta(v, c) >= BALANCE_THRESHOLD_mV),
               NEW d \in Cell, Balance!Delta(v, d) >= BALANCE_THRESHOLD_mV
        PROVE  d \in mask
    <3>1. CASE d \in top
      BY <2>1, <2>3, <3>1
    <3>2. CASE d \notin top
      <4>1. v[c] >= v[d]
        BY <2>1, <3>2
      <4>2. Balance!Low(v) \in Nat /\ v[c] \in Nat /\ v[d] \in Nat
        BY LowestCell
      <4>3. BALANCE_THRESHOLD_mV \in Nat
        BY DEF Balance!BalanceAssumption
      <4> QED
        BY <2>3, <4>1, <4>2, <4>3, SMT DEF Balance!Delta
    <3> QED
      BY <3>1, <3>2
  <2> QED
    BY <2>2, <2>3
<1> QED
  BY <1>1, <1>2

LEMMA SelectBalances ==
  ASSUME Balance!BalanceAssumption, Balance!TypeOK, cell_mV' \in [Cell -> Milli], Balance!Select PROVE BalanceInv'
<1> DEFINE v == cell_mV'
           T == BALANCE_THRESHOLD_mV
           off(mask) == {c \in balancing_active \ mask : Balance!Stops(v, c)}
           on(mask) == (balancing_active \cup mask) \ off(mask)
<1>1. PICK mask \in Balance!Masks(v) :
        /\ paused_thermal' = FALSE /\ ran' = TRUE /\ balancing_active' = on(mask)
        /\ duty_counter' = [c \in Cell |->
             IF c \in on(mask) \ balancing_active THEN 1
             ELSE IF c \in on(mask) THEN (duty_counter[c] + 1) % DutyMod
             ELSE IF c \in off(mask) THEN 0 ELSE duty_counter[c]]
  BY Zenon DEF Balance!Select
<1>2. mask \subseteq Cell /\ \A c \in mask : Balance!Delta(v, c) >= T
  BY MasksAreHigh
<1>3. mask \subseteq balancing_active' /\ balancing_active' \subseteq Cell
  BY <1>1, <1>2 DEF Balance!TypeOK
<1>4. duty_counter' \in [Cell -> 0..DutyMod - 1]
  <2>1. 0 \in 0..DutyMod - 1 /\ 1 \in 0..DutyMod - 1
    BY SMT DEF Balance!BalanceAssumption
  <2>2. ASSUME NEW c \in Cell
        PROVE  duty_counter[c] \in 0..DutyMod - 1 /\ (duty_counter[c] + 1) % DutyMod \in 0..DutyMod - 1
    <3>1. duty_counter[c] \in 0..DutyMod - 1
      BY DEF Balance!TypeOK
    <3> QED
      BY <3>1, SMT DEF Balance!BalanceAssumption
  <2> HIDE DEF on, off
  <2> QED
    BY <1>1, <2>1, <2>2
<1>5. Balance!TypeOK'
  BY <1>1, <1>3, <1>4 DEF Balance!TypeOK
<1>6. Balance!BleedsHighCells'
  <2>1. ASSUME NEW c \in balancing_active' PROVE Balance!Delta(v, c) >= T - BALANCE_HYSTERESIS_mV
    <3>1. Balance!Delta(v, c) \in Int /\ T \in Int /\ BALANCE_HYSTERESIS_mV \in Nat
      BY <1>3, LowestCell DEF Balance!BalanceAssumption
    <3>2. Balance!Delta(v, c) >= T \/ ~Balance!Stops(v, c)
      BY <1>1, <1>2
    <3> QED
      BY <3>1, <3>2, SMT DEF Balance!Stops
  <2> QED
    BY <1>1, <2>1 DEF Balance!BleedsHighCells, Balance!Delta, Balance!Low
<1>7. \/ \A c \in Cell : Balance!Delta(v, c) >= T => c \in balancing_active'
      \/ Balance!Cardinality(balancing_active') >= max_balance_cells
  <2>1. CASE \A c \in Cell : Balance!Delta(v, c) >= T => c \in mask
    BY <1>3, <2>1
  <2>2. CASE Balance!Cardinality(mask) = max_balance_cells
    <3>1. IsFiniteSet(Cell)
      BY SameSets DEF Balance!BalanceAssumption
    <3>2. IsFiniteSet(balancing_active')
      BY <1>3, <3>1, FS_Subset
    <3>3. /\ Balance!Cardinality(mask) <= Balance!Cardinality(balancing_active')
          /\ Balance!Cardinality(balancing_active') \in Nat
      BY <1>3, <3>2, SameSets, FS_Subset, FS_CardinalityType
    <3> QED
      BY <2>2, <3>3, SMT DEF Balance!BalanceAssumption
  <2> QED
    BY <2>1, <2>2, MasksAreFull
<1>8. Balance!HighCellsAreBled'
  BY <1>7 DEF Balance!HighCellsAreBled, Balance!Delta, Balance!Low
<1> QED
  BY <1>5, <1>6, <1>8 DEF BalanceInv

(* No cell is bled during a pause, and none is looked at before a call has *)
(* selected some.                                                          *)
LEMMA BalanceGoesOn ==
  ASSUME Balance!BalanceAssumption, BalanceInv, [Balance!Next]_(Balance!vars) PROVE BalanceInv'
<1> USE DEF BalanceInv
<1>0. 0 \in 0..DutyMod - 1
  BY SMT DEF Balance!BalanceAssumption
<1>1. ASSUME cell_mV' \in [Cell -> Milli], Balance!Pause \/ Balance!NotCharging PROVE BalanceInv'
  <2>1. cell_mV' \in [Cell -> Milli \cup {0}]
    BY <1>1
  <2>2. CASE Balance!AllOff /\ paused_thermal' \in BOOLEAN
    BY <1>0, <2>1, <2>2
       DEF Balance!AllOff, Balance!TypeOK, Balance!BleedsHighCells, Balance!HighCellsAreBled
  <2>3. CASE paused_thermal /\ paused_thermal' /\ UNCHANGED <<balancing_active, duty_counter, ran>>
    BY <2>1, <2>3 DEF Balance!TypeOK, Balance!BleedsHighCells, Balance!HighCellsAreBled
  <2> QED
    BY <1>1, <2>2, <2>3 DEF Balance!Pause, Balance!NotCharging
<1>2. ASSUME cell_mV' \in [Cell -> Milli], Balance!Select PROVE BalanceInv'
  BY <1>2, SelectBalances
<1>3. CASE UNCHANGED Balance!vars
  BY <1>3 DEF Balance!vars, Balance!TypeOK, Balance!BleedsHighCells,
              Balance!HighCellsAreBled, Balance!Delta, Balance!Low
<1> QED
  BY <1>1, <1>2, <1>3 DEF Balance!Next, Balance!BAL_Task

-----------------------------------------------------------------------------
(* The bench.                                                              *)

ProtectInv == /\ Protect!TypeOK /\ OcTimerInv /\ TripInv
              /\ setup # "overcurrent" => OneFault

Inv == ProtectInv /\ ChargeInv /\ PrechargeInv /\ DischargeInv /\ BalanceInv

LEMMA Setup ==
  /\ Protect!ProtAssumption /\ Charge!ChargeAssumption /\ Precharge!PrechargeAssumption
  /\ Discharge!DischargeAssumption /\ Balance!BalanceAssumption
  BY SetupAssumption

LEMMA Starts == ASSUME Init PROVE Inv
<1>1. ProtectInv
  BY Setup, InitType, InitOneFault, InitTimer, InitTrip DEF Init, ProtectInv
<1>2. ChargeInv /\ PrechargeInv /\ DischargeInv /\ BalanceInv
  BY Setup, ChargeStarts, PrechargeStarts, DischargeStarts, BalanceStarts DEF Init
<1> QED
  BY <1>1, <1>2 DEF Inv

(* A step of the bench is a step of one module and a stutter of the others.*)
LEMMA Interleaved ==
  ASSUME [Next]_vars
  PROVE  /\ UNCHANGED setup
         /\ [Protect!Next]_(Protect!vars)
         /\ [Charge!Next]_(Charge!vars) /\ [Precharge!Next]_(Precharge!vars)
         /\ [Discharge!Next]_(Discharge!vars) /\ [Balance!Next]_(Balance!vars)
<1>1. UNCHANGED setup
  BY DEF Next, Run, vars
<1>2. /\ Protect!Next \/ UNCHANGED protect
      /\ Charge!Next \/ UNCHANGED charge
      /\ Precharge!Next \/ UNCHANGED precharge
      /\ Discharge!Next \/ UNCHANGED discharge
      /\ Balance!Next \/ UNCHANGED balance
  BY DEF Next, Run, vars
<1> QED
  BY <1>1, <1>2 DEF protect, charge, precharge, discharge, balance, Protect!vars,
     Charge!vars, Precharge!vars, Discharge!vars, Balance!vars

LEMMA GoesOn == ASSUME Inv, [Next]_vars PROVE Inv'
<1> USE DEF Inv
<1>1. ProtectInv'
  <2>1. Protect!TypeOK' /\ OcTimerInv' /\ TripInv'
    BY Setup, Interleaved, NextType, NextTimer, NextTrip DEF ProtectInv
  <2>2. setup' # "overcurrent" => OneFault'
    BY Setup, Interleaved, NextOneFault DEF ProtectInv
  <2> QED
    BY <2>1, <2>2 DEF ProtectInv
<1>2. ChargeInv' /\ PrechargeInv'
  BY Setup, Interleaved, ChargeGoesOn, PrechargeGoesOn
<1>3. DischargeInv' /\ BalanceInv'
  BY Setup, Interleaved, DischargeGoesOn, BalanceGoesOn
<1> QED
  BY <1>1, <1>2, <1>3

LEMMA Holds ==
  ASSUME Inv
  PROVE  TypeOK /\ FetsSafe /\ LimitsInTime /\ FlatIsNoticed /\ Balances
<1> USE DEF Inv
<1>1. TypeOK
  BY DEF TypeOK, ProtectInv, ChargeInv, PrechargeInv, DischargeInv, BalanceInv
<1>2. FetsSafe
  <2>1. setup # "overcurrent" => Protect!OpenWhileTripped
    BY DEF ProtectInv, OneFault
  <2> QED
    BY <2>1 DEF FetsSafe, PrechargeInv
<1>3. LimitsInTime
  <2>1. Protect!OcTripsInTime
    BY Setup, TripsByThen DEF ProtectInv
  <2> QED
    BY <2>1, Setup, ChargeHolds DEF LimitsInTime
<1>4. FlatIsNoticed /\ Balances
  BY DEF FlatIsNoticed, Balances, DischargeInv, StopInv, BalanceInv
<1> QED
  BY <1>1, <1>2, <1>3, <1>4

LEMMA Always == Spec => []Inv
  BY Starts, GoesOn, PTL DEF Spec

(* Every variable of the pack modules stays in its type; among them the    *)
(* voltage that the constant voltage stage regulates to stays between 4.0  *)
(* and 4.2 V at every temperature, and the timers within the tick.         *)
THEOREM PackTyped == Spec => []TypeOK
<1>1. Inv => TypeOK
  BY Holds
<1> QED
  BY Always, <1>1, PTL

(* With one fault at a time, a FET that a protection opened stays open     *)
(* until it has recovered; the main FET closes onto a charged load only,   *)
(* and the resistor path is open when no attempt is under way, for every   *)
(* time limit, however late a call comes and whatever the load does.       *)
THEOREM FetsStaySafe == Spec => []FetsSafe
<1>1. Inv => FetsSafe
  BY Holds
<1> QED
  BY Always, <1>1, PTL

(* An overcurrent trips within the trip time and four waits for a pass;    *)
(* and while the charge FET is closed a charge is under way, no longer     *)
(* than its three limits and the wait for the three calls that end its     *)
(* stages.                                                                 *)
THEOREM LimitsHold == Spec => []LimitsInTime
<1>1. Inv => LimitsInTime
  BY Holds
<1> QED
  BY Always, <1>1, PTL

(* A flat pack never goes unnoticed, and while the critical stop lasts the *)
(* FET is open and the record on flash stops the robot again after a       *)
(* restart, however the capacity moves and wherever the power is lost.     *)
THEOREM FlatAlwaysNoticed == Spec => []FlatIsNoticed
<1>1. Inv => FlatIsNoticed
  BY Holds
<1> QED
  BY Always, <1>1, PTL

(* Only high cells are bled, and of those all or as many as the resistors  *)
(* may carry, for every number of cells, every voltage and every width of  *)
(* the counter up to the limit it is compared with.                        *)
THEOREM AlwaysBalances == Spec => []Balances
<1>1. Inv => Balances
  BY Holds
<1> QED
  BY Always, <1>1, PTL

(* An overcurrent trips only after every sample of the last trip time was  *)
(* over the limit, whenever the tick wraps and whatever tripped before.    *)
THEOREM TripsOnlyWhenDue == Spec => OcOnlyAfterPersisting
<1>1. Inv /\ [Next]_vars
      => [("OC" \notin tripped /\ "OC" \in tripped') => persist >= OC_TRIP_TIME]_(Protect!vars)
  BY Setup, Interleaved, TripsAfterTime DEF Inv, ProtectInv
<1> QED
  BY Always, <1>1, PTL DEF Spec, OcOnlyAfterPersisting, Protect!OcOnlyAfterPersisting
=============================================================================
