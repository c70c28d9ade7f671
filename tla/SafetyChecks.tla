---------------------------- MODULE SafetyChecks ----------------------------
(***************************************************************************)
(* Two modules of the M4's Core/safety that check other checks:            *)
(* safety_redundant.c, which compares pairs of sensors a thousand times a  *)
(* second, and safety_fault.c, which injects faults on a test rig and      *)
(* keeps the verdict on what the watchdog did about each.                  *)
(*                                                                         *)
(* A pair of sensors agrees or not; a time is an age, up to its last limit.*)
(***************************************************************************)
EXTENDS Integers, FiniteSets

CONSTANTS Pair,          \* the pairs of sensors
          DISAGREE_DEBOUNCE, DEGRADED_DEBOUNCE, SAFESTOP_DEBOUNCE, RED_RECOVERY,
          RedGap,        \* at most this long between two updates
          Injector, Delay,  \* Delay[i] = -1: on a condition; 0: at once
          MaxTriggers    \* bounds the model

VARIABLES
  red,        \* hred, with recovery_start of evaluate_decision_matrix
  disagreed,  \* since when all pairs have disagreed
  fault,      \* injectors[i]
  totals      \* total_triggers, total_verified, total_failed
redvars == <<red, disagreed>>
faultvars == <<fault, totals>>
vars == <<redvars, faultvars>>

ChecksAssumption ==
  /\ \A n \in {DISAGREE_DEBOUNCE, DEGRADED_DEBOUNCE, SAFESTOP_DEBOUNCE, RED_RECOVERY, RedGap} :
       n \in Nat \ {0}
  /\ Pair # {} /\ IsFiniteSet(Injector) /\ Delay \in [Injector -> Nat \cup {-1}]

-----------------------------------------------------------------------------
\* safety_redundant.c

Horizon == DISAGREE_DEBOUNCE + DEGRADED_DEBOUNCE + SAFESTOP_DEBOUNCE + RED_RECOVERY + RedGap
Older(age, gap) == IF age + gap > Horizon THEN Horizon ELSE age + gap
Unset == -1

(* degraded_start_ms is 0 from the start: its age is that of the M4.       *)
RED_Init == /\ red = [flagged |-> {}, age |-> [p \in Pair |-> 0], degraded_mode |-> FALSE,
                      safe_stop |-> FALSE, degraded_age |-> 0, recovery |-> Unset]
            /\ disagreed = Unset

(* check_*_pair: the start is set again whenever the flag is down, and the *)
(* flag is taken down until the debounce time since that start is over.    *)
CheckedAge(r, p, gap, differ) ==
  IF p \in differ /\ p \notin r.flagged THEN 0 ELSE Older(r.age[p], gap)
CheckedFlags(r, gap, differ) ==
  {p \in differ : CheckedAge(r, p, gap, differ) >= DISAGREE_DEBOUNCE}

(* evaluate_decision_matrix with the pairs that are flagged.               *)
Later(r, gap) ==
  [r EXCEPT !.degraded_age = Older(@, gap),
            !.recovery = IF @ = Unset THEN Unset ELSE Older(@, gap)]
Recovered(r) ==
  IF ~r.degraded_mode THEN r
  ELSE IF r.recovery > RED_RECOVERY
       THEN [r EXCEPT !.degraded_mode = FALSE, !.recovery = Unset]
       ELSE [r EXCEPT !.recovery = IF @ = Unset THEN 0 ELSE @]
Degraded(r) ==
  LET age == IF r.degraded_mode THEN r.degraded_age ELSE 0
  IN  [r EXCEPT !.degraded_age = age, !.degraded_mode = @ \/ age > DEGRADED_DEBOUNCE]
Stopped(r) ==
  IF r.degraded_age > SAFESTOP_DEBOUNCE
  THEN [r EXCEPT !.safe_stop = TRUE, !.degraded_mode = TRUE]
  ELSE r
Decided(r, flagged) ==
  CASE flagged = {} -> [Recovered(r) EXCEPT !.safe_stop = FALSE]
    [] Cardinality(flagged) = 1 -> r
    [] Cardinality(flagged) = 2 -> Degraded(r)
    [] OTHER -> Stopped(r)

RED_Update ==
  \E gap \in 1..RedGap, differ \in SUBSET Pair :
    LET flags == CheckedFlags(red, gap, differ)
    IN  /\ red' = [Decided(Later(red, gap), flags) EXCEPT
                     !.flagged = flags, !.age = [p \in Pair |-> CheckedAge(red, p, gap, differ)]]
        /\ disagreed' = IF differ # Pair THEN Unset
                        ELSE IF disagreed = Unset THEN 0
                        ELSE Older(disagreed, gap)

RED_ClearSafeStop ==
  /\ red' = [red EXCEPT !.safe_stop = FALSE, !.degraded_mode = FALSE, !.flagged = {}]
  /\ disagreed' = Unset

RedNext == (RED_Update \/ RED_ClearSafeStop) /\ UNCHANGED faultvars

-----------------------------------------------------------------------------
\* safety_fault.c

Disabled == [state |-> "disabled", armed |-> 0, verified |-> FALSE]
NoTotals == [triggers |-> 0, verified |-> 0, failed |-> 0]

FAULT_InitAll == fault = [i \in Injector |-> Disabled] /\ totals = NoTotals

FAULT_Arm(i) ==
  /\ fault[i].state # "triggered"
  /\ fault' = [fault EXCEPT ![i].state = "armed", ![i].armed = 0]
  /\ UNCHANGED totals

FAULT_Disarm(i) ==
  /\ fault[i].state # "disabled"
  /\ fault' = [fault EXCEPT ![i].state = "disabled"]
  /\ UNCHANGED totals

Triggered(which) ==
  /\ totals.triggers + Cardinality(which) <= MaxTriggers
  /\ fault' = [i \in Injector |-> IF i \in which THEN [fault[i] EXCEPT !.state = "triggered"]
                                  ELSE fault[i]]
  /\ totals' = [totals EXCEPT !.triggers = @ + Cardinality(which)]

FAULT_Trigger(i) == fault[i].state = "armed" /\ Triggered({i})

(* The armed ones whose time has come, and of those with a condition any.  *)
Armed == {i \in Injector : fault[i].state = "armed"}
FAULT_EvaluateTriggers ==
  \E holds \in SUBSET {i \in Armed : Delay[i] = -1} :
    LET which == holds \cup {i \in Armed : Delay[i] >= 0 /\ fault[i].armed >= Delay[i]}
    IN  which # {} /\ Triggered(which)

TimePasses ==
  /\ \E i \in Armed : fault[i].armed < Delay[i]
  /\ fault' = [i \in Injector |->
                 IF i \in Armed /\ fault[i].armed < Delay[i]
                 THEN [fault[i] EXCEPT !.armed = @ + 1] ELSE fault[i]]
  /\ UNCHANGED totals

(* The hook of each tells whether the watchdog answered; without one, it   *)
(* did.  What was verified once is not judged again.                       *)
Judged_m == {i \in Injector : fault[i].state # "disabled" /\ ~fault[i].verified}  \* also armed
Judged == {i \in Injector : fault[i].state = "triggered" /\ ~fault[i].verified}
FAULT_VerifyAll ==
  \E caught \in SUBSET Judged :
    /\ Judged # {}
    /\ fault' = [i \in Injector |->
                   IF i \in caught
                   THEN [fault[i] EXCEPT !.state = "verified", !.verified = TRUE]
                   ELSE IF i \in Judged THEN [fault[i] EXCEPT !.state = "failed"]
                   ELSE fault[i]]
    /\ totals' = [totals EXCEPT !.verified = @ + Cardinality(caught),
                                !.failed = @ + Cardinality(Judged \ caught)]

FAULT_ResetAll == fault' = [i \in Injector |-> Disabled] /\ totals' = NoTotals

FaultNext ==
  /\ \/ \E i \in Injector : FAULT_Arm(i) \/ FAULT_Disarm(i) \/ FAULT_Trigger(i)
     \/ FAULT_EvaluateTriggers \/ TimePasses \/ FAULT_VerifyAll \/ FAULT_ResetAll
  /\ UNCHANGED redvars

Init == RED_Init /\ FAULT_InitAll
Next == RedNext \/ FaultNext
Spec == Init /\ [][Next]_vars

-----------------------------------------------------------------------------
TypeOK ==
  /\ red \in [flagged : SUBSET Pair, age : [Pair -> 0..Horizon], degraded_mode : BOOLEAN,
              safe_stop : BOOLEAN, degraded_age : 0..Horizon, recovery : Unset..Horizon]
  /\ disagreed \in Unset..Horizon
  /\ fault \in [Injector -> [state : {"disabled", "armed", "triggered", "verified", "failed"},
                             armed : Nat, verified : BOOLEAN]]
  /\ totals \in [triggers : Nat, verified : Nat, failed : Nat]

(* safety_fault.c:19: a verdict is only given on a fault that was injected, *)
(* and each injection is judged at most once, however often the injectors  *)
(* are armed, disarmed and triggered by hand in between.                   *)
VerdictsNeedTriggers ==
  totals.verified + totals.failed + Cardinality(Judged) <= totals.triggers

(* safety_redundant.c:16, "If all 3 disagree, enter SAFE STOP mode."       *)
DisagreementStops ==
  disagreed >= DISAGREE_DEBOUNCE + SAFESTOP_DEBOUNCE + RedGap => red.safe_stop
=============================================================================
