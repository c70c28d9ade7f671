----------------------------- MODULE BmsProtect -----------------------------
(***************************************************************************)
(* The pack protection of l1_m4/Core/bms/bms_protect.c.  PROT_Task samples *)
(* current, temperature and cell voltages once and then passes through the *)
(* six protections in turn; the comparator interrupt may run               *)
(* PROT_ShortCircuitHandler between any two of these steps.                *)
(* The fault log and the copies of the FET states kept for it are left     *)
(* out: nothing that decides reads them.                                   *)
(***************************************************************************)
EXTENDS Integers

CONSTANTS
  Currents, MixedCurrents,  \* pack currents the ADC may return, in ampere
  Volts, MixedVolts,        \* cell voltages, in units of 10 mV
  Temps, MixedTemps,        \* pack temperatures, in degrees Celsius
  OC_TRIP_TIME, \* PROT_OC_TRIP_TIME_MS, in clock ticks of the model
  SC_COOL_OFF,  \* the 1 s of the short circuit recovery, in clock ticks
  TickMod,      \* width of the timers: they count modulo TickMod
  MaxGap        \* bound: clock ticks from one pass of PROT_Task to the next

ProtAssumption ==
  /\ Currents \cup Volts \cup Temps \subseteq Int
  /\ MixedCurrents \cup MixedVolts \cup MixedTemps \subseteq Int
  /\ OC_TRIP_TIME \in Nat \ {0} /\ SC_COOL_OFF \in Nat /\ MaxGap \in Nat \ {0}
  /\ TickMod \in Nat /\ TickMod > OC_TRIP_TIME + 2 * MaxGap
  /\ TickMod > SC_COOL_OFF + 2 * MaxGap

Protection == {"SC", "OC", "OV", "UV", "OT", "UT"}
Fet == {"charge", "discharge"}

(* The FETs a protection opens, and those its recovery closes again.       *)
Opens(p) == CASE p \in {"SC", "OT"} -> Fet
              [] p \in {"OC", "UV"} -> {"discharge"}
              [] p \in {"OV", "UT"} -> {"charge"}
(* Mutant: the recovery from overtemperature closes one FET only.          *)
Closes_m(p) == IF p = "OT" THEN {"charge"} ELSE IF p = "SC" THEN {} ELSE Opens(p)

Closes(p) == IF p = "SC" THEN {} ELSE Opens(p)

(* Out of range, and back within the recovery limit, on the sample s.      *)
Trips(p, s) == CASE p = "SC" -> s.i > 20
                 [] p = "OC" -> s.i > 10
                 [] p = "OV" -> s.v_max >= 425
                 [] p = "UV" -> s.v_min <= 280
                 [] p = "OT" -> s.t >= 65
                 [] p = "UT" -> s.t <= 0
Recovers(p, s) == CASE p = "SC" -> s.i < 10
                    [] p = "OC" -> s.i < 8
                    [] p = "OV" -> s.v_max <= 415
                    [] p = "UV" -> s.v_min >= 290
                    [] p = "OT" -> s.t <= 60
                    [] p = "UT" -> s.t >= 5

VARIABLES
  fet,       \* FETs that the GPIO drives closed
  tripped,   \* protections whose trip flag is set
  sample,    \* what this pass of PROT_Task measured
  pc,        \* next step of PROT_Task
  now,       \* TIMER_GetTick, TIMER_GetMicros
  oc_start,  \* oc_start_ms: 0 stands for "not running"
  sc_assert, \* sc_assert_time_us
  gap,       \* ticks since the last pass began
  persist,   \* history: ticks since the current went over 10 A, or -1
  mixed      \* environment, chosen at the start: may a second protection go out
             \* of range while one is tripped?  The readings then are the mixed ones

vars == <<fet, tripped, sample, pc, now, oc_start, sc_assert, gap, persist, mixed>>

Reading == IF mixed
           THEN [i : MixedCurrents, v_min : MixedVolts, v_max : MixedVolts, t : MixedTemps]
           ELSE [i : Currents, v_min : Volts, v_max : Volts, t : Temps]
Sample == {s \in Reading : s.v_min <= s.v_max}
Healthy(s) == \A p \in Protection : Recovers(p, s)

Steps == {"idle", "SC", "SC_clear", "OC", "OV", "UV", "OT", "UT"}
After == [SC |-> "OC", OC |-> "OV", OV |-> "UV", UV |-> "OT", OT |-> "UT", UT |-> "idle"]
PersistMax == OC_TRIP_TIME + 4 * MaxGap + 1
Elapsed(start) == (now - start) % TickMod

(* PROT_Init opened the FETs; the first pass may come before or after      *)
(* PRECHARGE_Task and CHG_Start closed them.                               *)
Init == /\ mixed \in BOOLEAN /\ fet \in SUBSET Fet
        /\ tripped = {} /\ pc = "idle" /\ sample \in {s \in Sample : Healthy(s)}
        /\ now = 0 /\ oc_start = 0 /\ sc_assert = 0
        /\ gap = 0 /\ persist = -1

(* With one fault at a time, or with several.                              *)
Allowed(s) == LET out == tripped \union {p \in Protection : Trips(p, s)}
              IN mixed \/ \E p \in Protection : out \subseteq {p}

PROT_Task == /\ pc = "idle" /\ pc' = "SC"
             /\ sample' \in {s \in Sample : Allowed(s)}
             /\ gap' = 0
             /\ persist' = IF ~Trips("OC", sample') THEN -1
                           ELSE IF persist = -1 THEN 0 ELSE persist
             /\ UNCHANGED <<fet, tripped, now, oc_start, sc_assert>>

(* Mutants: the overtemperature opens one FET only; the flag is not reset. *)
Trip_m(p) == fet' = fet \ (Opens(p) \ (IF p = "OT" THEN {"discharge"} ELSE {}))
             /\ tripped' = tripped \union {p}
Recover_m(p) == fet' = fet \union Closes(p) /\ tripped' = tripped

Trip(p) == fet' = fet \ Opens(p) /\ tripped' = tripped \union {p}
Recover(p) == fet' = fet \union Closes(p) /\ tripped' = tripped \ {p}
AssertSc == sc_assert' = now

(* The test of the cool-off time and the write that clears the flag are    *)
(* two steps; the interrupt may come between them.                         *)
ScCheck ==
  /\ pc = "SC"
  /\ \/ /\ "SC" \in tripped /\ Recovers("SC", sample) /\ Elapsed(sc_assert) > SC_COOL_OFF
        /\ pc' = "SC_clear" /\ UNCHANGED <<fet, tripped, sc_assert>>
     \/ /\ "SC" \in tripped
        /\ ~(Recovers("SC", sample) /\ Elapsed(sc_assert) > SC_COOL_OFF)
        /\ pc' = "OC" /\ UNCHANGED <<fet, tripped, sc_assert>>
     \/ /\ "SC" \notin tripped /\ Trips("SC", sample)
        /\ pc' = "OC" /\ Trip("SC") /\ AssertSc
     \/ /\ "SC" \notin tripped /\ ~Trips("SC", sample)
        /\ pc' = "OC" /\ UNCHANGED <<fet, tripped, sc_assert>>
  /\ UNCHANGED <<sample, now, oc_start, gap, persist>>

ScClear == /\ pc = "SC_clear" /\ pc' = "OC"
           /\ Recover("SC")
           /\ UNCHANGED <<sample, now, oc_start, sc_assert, gap, persist>>

(* Mutants: every sample restarts the timer; a dip does not stop it.       *)
StartOcTimer_m == oc_start' = now
StopOcTimer_m == oc_start' = oc_start

StartOcTimer == oc_start' = IF oc_start = 0 THEN now ELSE oc_start
StopOcTimer == oc_start' = 0

OcTimeUp == oc_start # 0 /\ Elapsed(oc_start) >= OC_TRIP_TIME

OcCheck ==
  /\ pc = "OC" /\ pc' = After[pc]
  /\ \/ /\ "OC" \in tripped /\ Recovers("OC", sample)
        /\ Recover("OC") /\ UNCHANGED oc_start
     \/ /\ "OC" \in tripped /\ ~Recovers("OC", sample)
        /\ UNCHANGED <<fet, tripped, oc_start>>
     \/ /\ "OC" \notin tripped /\ Trips("OC", sample) /\ OcTimeUp
        /\ Trip("OC") /\ oc_start' = 0
     \/ /\ "OC" \notin tripped /\ Trips("OC", sample) /\ ~OcTimeUp
        /\ StartOcTimer /\ UNCHANGED <<fet, tripped>>
     \/ /\ "OC" \notin tripped /\ ~Trips("OC", sample)
        /\ StopOcTimer /\ UNCHANGED <<fet, tripped>>
  /\ UNCHANGED <<sample, now, sc_assert, gap, persist>>

(* OV, UV, OT and UT trip at once and recover with hysteresis.             *)
LevelCheck(p) ==
  /\ pc = p /\ pc' = After[p]
  /\ \/ p \in tripped /\ Recovers(p, sample) /\ Recover(p)
     \/ p \notin tripped /\ Trips(p, sample) /\ Trip(p)
     \/ /\ IF p \in tripped THEN ~Recovers(p, sample) ELSE ~Trips(p, sample)
        /\ UNCHANGED <<fet, tripped>>
  /\ UNCHANGED <<sample, now, oc_start, sc_assert, gap, persist>>

(* The comparator interrupt; the handler measures the current again.       *)
PROT_ShortCircuitHandler ==
  /\ \E s \in Sample : s.i > 20
  /\ mixed \/ tripped \subseteq {"SC"}
  /\ Trip("SC") /\ AssertSc
  /\ UNCHANGED <<sample, pc, now, oc_start, gap, persist, mixed>>

Elapse == now' = (now + 1) % TickMod

Tick == /\ gap < MaxGap /\ gap' = gap + 1
        /\ Elapse
        /\ persist' = IF persist = -1 \/ persist = PersistMax THEN persist ELSE persist + 1
        /\ UNCHANGED <<fet, tripped, sample, pc, oc_start, sc_assert, mixed>>

Pass == /\ UNCHANGED mixed
        /\ \/ PROT_Task \/ ScCheck \/ ScClear \/ OcCheck
           \/ \E p \in {"OV", "UV", "OT", "UT"} : LevelCheck(p)

Next == Pass \/ PROT_ShortCircuitHandler \/ Tick

(* The main loop keeps calling PROT_Task and time passes.                  *)
Spec == Init /\ [][Next]_vars /\ WF_vars(Pass) /\ WF_vars(Tick)
-----------------------------------------------------------------------------
TypeOK ==
  /\ fet \subseteq Fet /\ tripped \subseteq Protection
  /\ sample \in Sample /\ pc \in Steps
  /\ now \in 0..TickMod - 1 /\ oc_start \in 0..TickMod - 1 /\ sc_assert \in 0..TickMod - 1
  /\ gap \in 0..MaxGap /\ persist \in -1..PersistMax

(* An overcurrent trips only after every sample of the last OC_TRIP_TIME   *)
(* was over 10 A: the timer is not carried over a dip of the current, a    *)
(* previous trip, or a wrap of the tick.                                   *)
OcOnlyAfterPersisting == [][("OC" \notin tripped /\ "OC" \in tripped') => persist >= OC_TRIP_TIME]_vars

(* And it trips in time: at the end of a pass, the current has not been    *)
(* over 10 A for longer than the trip time, the wait for a pass at either  *)
(* end, and those for the passes lost when the timer starts at tick 0.     *)
OcTripsInTime == (pc = "idle" /\ persist >= OC_TRIP_TIME + 4 * MaxGap) => "OC" \in tripped

(* With one fault at a time, a FET that a tripped protection opened stays  *)
(* open until that protection has recovered.                               *)
OpenWhileTripped == \A p \in tripped : fet \intersect Opens(p) = {}

(* bms_protect.c:5, "with auto-recovery hysteresis": once all samples stay *)
(* healthy, the trip flags of the five protections other than the short    *)
(* circuit clear for good, and every FET one of them opened closes again.  *)
AutoRecovery == <>[]Healthy(sample) => <>[](tripped \subseteq {"SC"})
Opened(f) == \E p \in tripped \ {"SC"} : f \in Opens(p)
FetsComeBack == <>[]Healthy(sample) => \A f \in Fet : Opened(f) ~> f \in fet

(* bms_protect.c:8, "cell > 4.25 V -> charge FET off": between two passes, *)
(* the charge FET is open while the overvoltage is tripped.  NOT kept by   *)
(* the code: the recovery of OT or UT closes it whatever else is tripped.  *)
OvOpensCharge == (pc = "idle" /\ "OV" \in tripped) => "charge" \notin fet
=============================================================================
