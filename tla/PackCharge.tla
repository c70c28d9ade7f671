----------------------------- MODULE PackCharge -----------------------------
(***************************************************************************)
(* vBmsTask of l1_m4/Core/main_m4.c: each 100 ms it reads the battery over *)
(* the SMBus (bms_smbus.c), where any of the five reads may fail and       *)
(* leaves a zero, and runs ChargeFSM of l1_m4/Core/bms_charge.c on what it *)
(* got.  Voltages are in units of 10 mV, temperatures in kelvin.           *)
(***************************************************************************)
EXTENDS Integers

CONSTANTS
  Volts,       \* cell voltages
  Temps, Currents, RSocs,   \* what the battery may report
  CC0_TIMEOUT_S, CC1_TIMEOUT_S, CC2_TIMEOUT_S, CV_TIMEOUT_S,  \* in clock ticks
  TickMod,     \* seconds until HAL_GetTick starts again from 0
  MaxGap,      \* bound: clock ticks between two runs of the task
  CanFail      \* reads that may fail

Reads == {"temp", "voltage", "current", "rsoc", "cells"}

PackAssumption ==
  /\ Volts \subseteq Nat /\ Temps \subseteq Nat /\ Currents \subseteq Nat /\ RSocs \subseteq Nat
  /\ {CC0_TIMEOUT_S, CC1_TIMEOUT_S, CC2_TIMEOUT_S, CV_TIMEOUT_S} \subseteq Nat \ {0}
  /\ TickMod \in Nat /\ MaxGap \in Nat \ {0} /\ CanFail \subseteq Reads
  \* The clock turns in 49 days, a charge takes hours.
  /\ TickMod > CC0_TIMEOUT_S + CC1_TIMEOUT_S + CV_TIMEOUT_S + 4 * MaxGap

VARIABLES
  state, i_target,
  start,     \* s_stage_start_tick; 0 stands for "not set"
  now,       \* seconds of HAL_GetTick
  gap,       \* ticks since the last run of the task
  seen,      \* history: what was true of the battery at the last run
  charging   \* history: time since the charge left TRICKLE or DONE

vars == <<state, i_target, start, now, gap, seen, charging>>

States == {"TRICKLE", "CC_0_5C", "CC_1C", "CC_2C", "CV_16_8V", "DONE", "FAULT"}
Stages == {"CC_0_5C", "CC_1C", "CC_2C", "CV_16_8V"}
TimeMax == CC0_TIMEOUT_S + CC1_TIMEOUT_S + CV_TIMEOUT_S + 8 * MaxGap

(* Any battery: two cells at the ends, the other two at one of them.       *)
Packs == {[min |-> v[1], max |-> v[2], voltage |-> v[1] + v[2] + 2 * v[3], temp |-> t, current |-> c, rsoc |-> r] :
            t \in Temps, c \in Currents, r \in RSocs,
            v \in {w \in Volts \X Volts \X Volts : w[1] <= w[2] /\ w[3] \in {w[1], w[2]}}}

(* BMS_ReadAll: the fields of the failed reads stay 0.                     *)
BMS_ReadAll(p, failed) ==
  LET or0(r, v) == IF r \in failed THEN 0 ELSE v
  IN [min |-> or0("cells", p.min), max |-> or0("cells", p.max), voltage |-> or0("voltage", p.voltage),
      temp |-> or0("temp", p.temp), current |-> or0("current", p.current),
      rsoc |-> or0("rsoc", p.rsoc), valid |-> failed = {}]

Init == /\ state = "TRICKLE" /\ i_target = 0 /\ start = 0 /\ now = 0 /\ gap = 0
        /\ seen = {} /\ charging = 0
-----------------------------------------------------------------------------
Over(b) == b.max >= 425 \/ b.voltage >= 1700

(* Mutant: the voltage of the pack is not looked at.                       *)
Protect_m(b) == b.max >= 425 \/ (b.valid /\ (b.temp >= 318 \/ b.temp <= 273))

(* The protection checks: temperatures count only if all reads succeeded.  *)
Protect(b) == Over(b) \/ (b.valid /\ (b.temp >= 318 \/ b.temp <= 273))

(* Mutant: a temperature that was not read counts as one that is in range. *)
Recovered_m(b) == ~Over(b) /\ b.temp < 313 /\ (b.temp > 275 \/ b.temp = 0)

Recovered(b) == ~Over(b) /\ b.temp < 313 /\ b.temp > 275

(* The stage starts again if it was started at 0; unsigned difference.     *)
Started == IF start = 0 THEN now ELSE start
Exceeds(t) == now < Started \/ now - Started >= t

(* Mutant: a constant current stage goes back when it takes too long.      *)
AfterCc1_m(b) == IF b.min < 290 THEN "TRICKLE"
                 ELSE IF b.max >= 415 THEN "CV_16_8V"
                 ELSE IF Exceeds(CC1_TIMEOUT_S) THEN "CC_0_5C" ELSE "CC_1C"

AfterCc1(b) == IF b.min < 290 THEN "TRICKLE"
               ELSE IF b.max >= 415 \/ Exceeds(CC1_TIMEOUT_S) THEN "CV_16_8V" ELSE "CC_1C"

(* The state after one run, from the state s that protection left.         *)
Successor(s, b) ==
  CASE s = "TRICKLE" -> IF b.min >= 300 /\ b.voltage >= 1200 THEN "CC_0_5C" ELSE s
    [] s = "CC_0_5C" -> IF b.min < 290 THEN "TRICKLE"
                        ELSE IF Exceeds(CC0_TIMEOUT_S) \/ b.voltage >= 1400 THEN "CC_1C" ELSE s
    [] s = "CC_1C" -> AfterCc1(b)
    [] s = "CC_2C" -> IF b.max >= 415 \/ Exceeds(CC2_TIMEOUT_S) THEN "CV_16_8V" ELSE s
    [] s = "CV_16_8V" -> IF (0 < b.current /\ b.current <= 500) \/ Exceeds(CV_TIMEOUT_S)
                         THEN "DONE" ELSE s
    [] s = "DONE" -> IF b.voltage <= 1640 /\ b.rsoc < 95 THEN "CC_0_5C" ELSE s
    [] s = "FAULT" -> IF Recovered(b) THEN "TRICKLE" ELSE s

(* The target set in the state s, in mA.  Above 16.8 V the current of the  *)
(* last stage falls to 0 at 0.5 V more, and is cut below 500 mA.           *)
Cc2Target(b) == IF b.max - b.min > 30 THEN 5000 ELSE 10000
CvTarget(b) == IF b.voltage <= 1680 THEN 5000
               ELSE IF b.voltage - 1680 > 45 THEN 0 ELSE 5000 - (b.voltage - 1680) * 100
Target(s, b) == [TRICKLE |-> 250, CC_0_5C |-> 2500, CC_1C |-> 5000, CC_2C |-> Cc2Target(b),
                 CV_16_8V |-> CvTarget(b), DONE |-> 0, FAULT |-> 0][s]

ChargeFSM(b) ==
  LET s == IF Protect(b) THEN "FAULT" ELSE state
  IN /\ state' = Successor(s, b) /\ i_target' = Target(s, b)
     /\ start' = IF state' # s THEN now ELSE Started

(* What was true of the battery p, or of what was read of it.              *)
Facts(p, b) == {f \in {"read over", "in window"} :
                  IF f = "read over" THEN Over(b) ELSE 275 < p.temp /\ p.temp < 313}

Readings == {[data |-> BMS_ReadAll(p, failed), facts |-> Facts(p, BMS_ReadAll(p, failed))] :
               p \in Packs, failed \in SUBSET CanFail}

vBmsTask ==
  /\ \E r \in Readings : ChargeFSM(r.data) /\ seen' = r.facts
  /\ charging' = IF state' \in Stages /\ state \in Stages THEN charging ELSE 0
  /\ gap' = 0 /\ UNCHANGED now

Add(n) == IF n < TimeMax THEN n + 1 ELSE n
Tick == /\ gap < MaxGap /\ gap' = gap + 1 /\ now' = (now + 1) % TickMod
        /\ charging' = Add(charging)
        /\ UNCHANGED <<state, i_target, start, seen>>

Next == vBmsTask \/ Tick

Spec == Init /\ [][Next]_vars
-----------------------------------------------------------------------------
TypeOK ==
  /\ state \in States /\ i_target \in 0..10000 /\ start \in 0..TickMod - 1
  /\ now \in 0..TickMod - 1 /\ gap \in 0..MaxGap
  /\ charging \in 0..TimeMax

(* bms_charge.c:129, "Protection checks (run in all states)": as soon as   *)
(* any read shows a cell or the pack over its limit, nothing is charged,   *)
(* whichever other reads fail.                                             *)
OverVoltageStops == "read over" \in seen => state = "FAULT" /\ i_target = 0

(* A fault is left only at a battery that is within the temperature window *)
(* of the recovery, whichever reads fail: a missing value is not taken for *)
(* a good one.                                                             *)
FaultLeftInWindow == [][(state = "FAULT" /\ state' # "FAULT") => "in window" \in seen']_vars

(* The limits of the stages bound every charge, whichever reads fail and   *)
(* wherever the clock starts again from 0 (line 126 may start a stage a    *)
(* second time): TRICKLE and DONE apart, no sequence of stages repeats.    *)
ChargeTimeBounded ==
  state \in Stages => charging <= CC0_TIMEOUT_S + CC1_TIMEOUT_S + CV_TIMEOUT_S + 4 * MaxGap
=============================================================================
