--------------------------- MODULE FramePriority ----------------------------
(***************************************************************************)
(* The three frame queues of l2_rk3566/src/comm/frame_priority.c, HIGH     *)
(* before MEDIUM before LOW, with a slot for LOW when its time has come.   *)
(* A queue is its length; what the frames hold does not matter here.  The  *)
(* clock is the 32-bit count of milliseconds of fp_get_ms, in ticks.       *)
(***************************************************************************)
EXTENDS Integers

CONSTANTS
  FP_MAX_QUEUE_LENGTH,
  FP_STARVATION_TIMEOUT,  \* FP_STARVATION_TIMEOUT_MS, in clock ticks
  ClockMod,               \* the clock wraps to 0 there; 2^32 ms in the code
  MaxGap                  \* bound: clock ticks between two calls of fp_transmit

PriorityAssumption ==
  /\ {FP_MAX_QUEUE_LENGTH, FP_STARVATION_TIMEOUT, MaxGap} \subseteq Nat \ {0}
  /\ MaxGap < FP_STARVATION_TIMEOUT
  /\ ClockMod \in Nat /\ FP_STARVATION_TIMEOUT < ClockMod

Priority == {"LOW", "MEDIUM", "HIGH"}

VARIABLES
  count,         \* g_fp.queues[p].count
  now,           \* what fp_get_ms returns
  starve_check,  \* g_fp.starve_check_ms
  overtaken,     \* history: frames taken since the oldest HIGH one is the next of its queue
  low_wait,      \* history: time that the LOW queue has been waiting for a slot
  turned,        \* history: the clock came close to its wrap, and since it wrapped no call
                 \* has found the queues empty
  tx_gap         \* ticks since the last call of fp_transmit

vars == <<count, now, starve_check, overtaken, low_wait, turned, tx_gap>>

WaitMax == FP_STARVATION_TIMEOUT + 2 * MaxGap

(* fp_init; fp_shutdown leads back to it with fp_flush.                    *)
Init == /\ count = [q \in Priority |-> 0] /\ now = 0 /\ starve_check = FP_STARVATION_TIMEOUT
        /\ overtaken = 0 /\ low_wait = 0 /\ tx_gap = 0 /\ turned = FALSE

(* Mutant: the queue may take one frame more.                              *)
Full_m(q) == count[q] > FP_MAX_QUEUE_LENGTH
Full(q)   == count[q] >= FP_MAX_QUEUE_LENGTH

(* fp_send: a full queue loses its oldest frame, and a failing malloc the  *)
(* new one, also when another was dropped for it.                          *)
fp_send(q) ==
  /\ \/ ~Full(q) /\ count' = [count EXCEPT ![q] = @ + 1]
     \/ Full(q) /\ count' = [count EXCEPT ![q] = @ - 1]
  /\ UNCHANGED <<now, starve_check, overtaken, low_wait, turned, tx_gap>>

(* Mutant: LOW has to wait for the others.                                 *)
ForceLow_m == FALSE

(* The two times are compared as numbers, whatever the wrap did to them.   *)
ForceLow == now >= starve_check /\ count["LOW"] > 0

(* Mutant: MEDIUM and HIGH change places.                                  *)
Order_m == IF ForceLow THEN <<"LOW", "MEDIUM", "HIGH">> ELSE <<"MEDIUM", "HIGH", "LOW">>

Order == IF ForceLow THEN <<"LOW", "HIGH", "MEDIUM">> ELSE <<"HIGH", "MEDIUM", "LOW">>

Next3 == {i \in DOMAIN Order : count[Order[i]] > 0 /\ \A j \in 1..i - 1 : count[Order[j]] = 0}

NextCheck == (now + FP_STARVATION_TIMEOUT) % ClockMod
NearWrap(t) == t + FP_STARVATION_TIMEOUT >= ClockMod

(* fp_dequeue, in fp_transmit: whether tx_fn succeeds does not matter, the *)
(* frame is gone.  A slot for LOW out of turn does not start a new wait,   *)
(* only a forced one or a call that found nothing does.                    *)
fp_transmit ==
  /\ tx_gap' = 0 /\ UNCHANGED now
  /\ IF Next3 = {}
     THEN starve_check' = NextCheck /\ overtaken' = 0 /\ low_wait' = 0
          /\ turned' = NearWrap(now) /\ UNCHANGED count
     ELSE \E i \in Next3 :
            /\ count' = [count EXCEPT ![Order[i]] = @ - 1]
            /\ starve_check' = IF ForceLow THEN NextCheck ELSE starve_check
            /\ overtaken' = IF Order[i] = "HIGH" \/ count["HIGH"] = 0 THEN 0
                            ELSE IF overtaken < 2 THEN overtaken + 1 ELSE 2
            /\ low_wait' = IF Order[i] = "LOW" \/ count["LOW"] = 0 THEN 0 ELSE low_wait
            /\ UNCHANGED turned

fp_flush == /\ count' = [q \in Priority |-> 0] /\ overtaken' = 0 /\ low_wait' = 0
            /\ UNCHANGED <<now, starve_check, turned, tx_gap>>

Tick == /\ tx_gap < MaxGap /\ tx_gap' = tx_gap + 1
        /\ now' = (now + 1) % ClockMod /\ turned' = (turned \/ NearWrap(now'))
        /\ low_wait' = IF count["LOW"] = 0 THEN 0
                       ELSE IF low_wait < WaitMax THEN low_wait + 1 ELSE low_wait
        /\ UNCHANGED <<count, starve_check, overtaken>>

Next == (\E q \in Priority : fp_send(q)) \/ fp_transmit \/ fp_flush \/ Tick

Spec == Init /\ [][Next]_vars
-----------------------------------------------------------------------------
TypeOK == /\ count \in [Priority -> 0..FP_MAX_QUEUE_LENGTH]
          /\ now \in 0..ClockMod - 1 /\ starve_check \in 0..ClockMod - 1
          /\ overtaken \in 0..2 /\ turned \in BOOLEAN
          /\ low_wait \in 0..WaitMax /\ tx_gap \in 0..MaxGap

(* What frame_priority.c:9-11 promises: waiting LOW frames get a slot      *)
(* within the time of the starvation guard and the wait for the next call, *)
(* whatever else is queued, at any time.                                   *)
LowGetsSlots == low_wait <= FP_STARVATION_TIMEOUT + MaxGap

(* What fp_dequeue keeps of it: the same while the clock did not come      *)
(* close to its wrap since a call that found the queues empty, and then no *)
(* more than one frame, the LOW one whose time has come, goes before a     *)
(* waiting HIGH one.                                                       *)
SlotsInTime == ~turned => LowGetsSlots /\ overtaken <= 1
=============================================================================
