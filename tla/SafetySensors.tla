--------------------------- MODULE SafetySensors ---------------------------
(***************************************************************************)
(* The four detectors of l1_m4/Core/safety: safety_collision.c,            *)
(* safety_tilt.c, safety_stall.c and safety_drop.c.  They share no state,  *)
(* and a step is one call of the update function of one of them, dt after  *)
(* the last one.  Readings are arbitrary members of small classes.         *)
(***************************************************************************)
EXTENDS Integers

CONSTANTS
  MaxGap,                          \* bound: time between two updates
  COLLISION_JERK_SAMPLES, COLLISION_JERK_WINDOW,
  COLLISION_BUMPER_DEBOUNCE,
  StopTime, RetreatTime, TurnTime, COLLISION_RESUME_DELAY,
  Angle,                           \* filtered tilt, degrees
  TILT_RECOVERY_REVERSE, TILT_RECOVERY_SETTLE, TILT_RECOVERY_DEBOUNCE,
  Motor, SoftMotor,                \* the motors; those checked for soft stalls
  HARD_STALL_TIME, SOFT_STALL_TIME, SLIP_TIME, SlipRelease,
  HardRecovery, SoftRecovery, SlipRecovery,
  Sensor, Left, Front,             \* the cliff sensors
  CLIFF_DEBOUNCE, CLIFF_IR_TOF_FAULT_SAMPLES

SensorsAssumption ==
  /\ {MaxGap, COLLISION_JERK_SAMPLES, COLLISION_JERK_WINDOW, COLLISION_BUMPER_DEBOUNCE,
      StopTime, RetreatTime, TurnTime, COLLISION_RESUME_DELAY, TILT_RECOVERY_REVERSE,
      TILT_RECOVERY_SETTLE, TILT_RECOVERY_DEBOUNCE, HARD_STALL_TIME, SOFT_STALL_TIME,
      SLIP_TIME, SlipRelease, HardRecovery, SoftRecovery, SlipRecovery, CLIFF_DEBOUNCE,
      CLIFF_IR_TOF_FAULT_SAMPLES} \subseteq Nat \ {0}
  /\ Angle \subseteq Nat /\ SoftMotor \subseteq Motor
  /\ Left \subseteq Sensor /\ Front \subseteq Sensor /\ SLIP_TIME <= SlipRelease

VARIABLES
  coll, tilt, stall, slip,                  \* hcoll, htilt and hstall
  drop, cliff_active, edge_follow_active,   \* hdrop
  resp,                   \* history: how long the response has taken
  held, over, stuck, below,
    \* history: since when a bumper is pressed, the tilt is critical, a motor
    \* is blocked or a sensor sees a cliff, without an answer to it
  ignored                 \* history: a jump of a motor blocked for too long found no answer

collvars  == <<coll, held, resp>>
tiltvars  == <<tilt, over>>
stallvars == <<stall, slip, stuck, ignored>>
dropvars  == <<drop, cliff_active, edge_follow_active, below>>
vars == <<collvars, tiltvars, stallvars, dropvars>>

NotRunning == -1          \* a start time of 0 in the code
UpTo(n, x) == IF x < n THEN x ELSE n

(* The age of a condition, which a start time of 0 says is not running.    *)
Since(start, dt, limit) ==
  IF start = NotRunning THEN 0 ELSE UpTo(limit + 1, start + dt)
While(condition, start, dt, limit) ==
  IF condition THEN Since(start, dt, limit) ELSE NotRunning

-----------------------------------------------------------------------------
(* safety_collision.c.  Current spikes are counted like jerks and are not  *)
(* told apart from them here.                                              *)
CollInit ==
  /\ coll = [state |-> "OK", age |-> 0, n |-> 0, window |-> COLLISION_JERK_WINDOW,
             pressed |-> FALSE, change |-> NotRunning, triggered |-> FALSE]
  /\ held = NotRunning /\ resp = 0

Counted(c, hit, dt) ==
  LET fresh == c.window + dt > COLLISION_JERK_WINDOW
      n == (IF fresh THEN 0 ELSE c.n) + (IF hit THEN 1 ELSE 0)
  IN  [c EXCEPT !.n = UpTo(COLLISION_JERK_SAMPLES, n),
                !.window = IF fresh THEN 0 ELSE c.window + dt,
                !.triggered = c.triggered \/ (hit /\ n >= COLLISION_JERK_SAMPLES)]

(* Mutant: the debounce starts anew with every call.                       *)
Debounced_m(c, bumper, dt) ==
  IF bumper = c.pressed THEN [c EXCEPT !.change = NotRunning]
  ELSE [c EXCEPT !.change = 0]

Debounced(c, bumper, dt) ==
  LET age == Since(c.change, dt, COLLISION_BUMPER_DEBOUNCE)
  IN  IF bumper = c.pressed THEN [c EXCEPT !.change = NotRunning]
      ELSE IF age > COLLISION_BUMPER_DEBOUNCE
           THEN [c EXCEPT !.pressed = bumper, !.change = NotRunning]
           ELSE [c EXCEPT !.change = age]

Phase == {"OK", "STOPPED", "RETREAT", "TURN", "RESUME"}
Lasts == [STOPPED |-> StopTime, RETREAT |-> RetreatTime, TURN |-> TurnTime,
          RESUME |-> COLLISION_RESUME_DELAY]
After == [STOPPED |-> "RETREAT", RETREAT |-> "TURN", TURN |-> "RESUME", RESUME |-> "OK"]

(* A trigger starts the response, and DETECTED ends in the same call; only *)
(* its end clears the triggers, those that came in the meantime included.  *)
collision_response_sequence(c, dt) ==
  LET elapsed == c.age + dt
  IN  IF c.state = "OK"
      THEN IF c.triggered THEN [c EXCEPT !.state = "STOPPED", !.age = 0] ELSE c
      ELSE IF elapsed > Lasts[c.state]
           THEN [c EXCEPT !.state = After[c.state], !.age = 0,
                          !.triggered = c.state # "RESUME" /\ c.triggered]
           ELSE [c EXCEPT !.age = elapsed]

COLL_Update ==
  \E dt \in 1..MaxGap, hit, bumper \in BOOLEAN :
    LET c == Debounced(Counted(coll, hit, dt), bumper, dt)
    IN  /\ coll' = collision_response_sequence(
                     [c EXCEPT !.triggered = c.triggered \/ c.pressed], dt)
        /\ held' = While(bumper /\ coll'.state = "OK", held, dt, COLLISION_BUMPER_DEBOUNCE)
        /\ resp' = IF coll.state = "OK" THEN 0 ELSE resp + dt

COLL_Clear == /\ coll' = [coll EXCEPT !.state = "OK", !.age = 0, !.triggered = FALSE, !.n = 0]
              /\ resp' = 0 /\ held' = NotRunning

-----------------------------------------------------------------------------
(* safety_tilt.c.  The confidence it keeps decides nothing.                *)
TiltInit == /\ tilt = [state |-> "OK", age |-> 0, phase |-> 0, rage |-> 0]
            /\ over = NotRunning

(* At high speed both thresholds are halved.                               *)
Warn(fast) == IF fast THEN 7 ELSE 15
Crit(fast) == IF fast THEN 12 ELSE 25

Entering(t, s) == [t EXCEPT !.state = s, !.age = 0]
Tilted(t, m, fast, age) ==
  CASE t.state = "OK" ->
         IF m > Warn(fast) /\ age > TILT_RECOVERY_DEBOUNCE
         THEN Entering(t, IF m > Crit(fast) THEN "CRITICAL" ELSE "WARNING") ELSE t
    [] t.state = "WARNING" ->
         IF 10 * m < 8 * Warn(fast) THEN Entering(t, "OK")
         ELSE IF m > Crit(fast) THEN Entering(t, "CRITICAL") ELSE t
    [] t.state = "CRITICAL" ->
         IF m < 30 THEN [Entering(t, "RECOVERING") EXCEPT !.phase = 0, !.rage = 0]
         ELSE IF m > 40 THEN Entering(t, "TIPPED") ELSE t
    [] OTHER -> t

(* Reverse, reorient, settle; from settling on again while it is tilted.   *)
(* The change to OK is the only one that leaves state_change_ms alone.     *)
tilt_recovery_sequence(t, m, rage) ==
  LET goto(p) == [t EXCEPT !.phase = p, !.rage = 0]
      stay == [t EXCEPT !.rage = UpTo(TILT_RECOVERY_REVERSE + TILT_RECOVERY_SETTLE, rage)]
  IN  CASE t.phase = 0 -> IF rage > TILT_RECOVERY_REVERSE THEN goto(2) ELSE goto(1)
        [] t.phase \in {1, 2} ->
             IF rage > TILT_RECOVERY_REVERSE THEN goto(t.phase + 1) ELSE stay
        [] t.phase = 3 ->
             IF rage <= TILT_RECOVERY_SETTLE THEN stay
             ELSE IF m < 15 THEN [goto(0) EXCEPT !.state = "OK"] ELSE goto(1)

(* Mutant: the debounce of a calm robot never gets older than one call.    *)
Aged_m(t, dt) == [t EXCEPT !.age = dt]

Aged(t, dt) == [t EXCEPT !.age = UpTo(TILT_RECOVERY_DEBOUNCE + 1, t.age + dt)]

TILT_Update ==
  \E dt \in 1..MaxGap, m \in Angle, fast \in BOOLEAN :
    /\ tilt' = IF tilt.state = "RECOVERING"
               THEN tilt_recovery_sequence(Aged(tilt, dt), m, tilt.rage + dt)
               ELSE Tilted(Aged(tilt, dt), m, fast, Aged(tilt, dt).age)
    /\ over' = While(m > Crit(fast) /\ tilt'.state \in {"OK", "WARNING"}, over, dt,
                     TILT_RECOVERY_DEBOUNCE)

TILT_Reset == /\ tilt' = [tilt EXCEPT !.state = "OK", !.age = 0, !.phase = 0]
              /\ over' = NotRunning

-----------------------------------------------------------------------------
(* safety_stall.c.  What a motor shows in one sample: its current "jumps"  *)
(* to a high one while it stands, stays high while it stands ("steady") or *)
(* is high at up to 100 rpm ("crawls"), up to 200 ("slow") or more         *)
(* ("drives"), or is low ("free").                                         *)
Shows == {"jumps", "steady", "crawls", "slow", "drives", "free"}
Duration == [HARD |-> HardRecovery, SOFT |-> SoftRecovery, SLIP |-> SlipRecovery]

Idle == [hard |-> NotRunning, soft |-> NotRunning, active |-> FALSE,
         type |-> "NONE", age |-> 0]
StallInit == /\ stall = [m \in Motor |-> Idle] /\ slip = NotRunning
             /\ stuck = [m \in Motor |-> NotRunning] /\ ignored = [m \in Motor |-> FALSE]

(* A condition starts with a sample that shows it and ends with one of     *)
(* those that end it; others leave its start where it was.                 *)
Running(start, begins, ends, dt, limit) ==
  IF begins \/ (start # NotRunning /\ ~ends) THEN Since(start, dt, limit) ELSE NotRunning

(* Mutant: every sample that shows the condition dates it anew.            *)
HardSince_m(s, shows, dt) ==
  IF shows = "jumps" THEN 0
  ELSE Running(s.hard, FALSE, shows # "steady", dt, HARD_STALL_TIME)
HardSince(s, shows, dt) ==
  Running(s.hard, shows = "jumps", shows \in {"slow", "drives", "free"}, dt, HARD_STALL_TIME)
SoftSince(s, shows, dt) ==
  Running(s.soft, shows \in {"crawls", "slow"}, shows = "free", dt, SOFT_STALL_TIME)

(* The type of the last detection counts, and the slip's is tested last.   *)
Detected(m, s, shows, slipping, dt) ==
  LET hard == HardSince(s, shows, dt)
      soft == IF m \in SoftMotor THEN SoftSince(s, shows, dt) ELSE s.soft
      found == [s EXCEPT !.hard = hard, !.soft = soft, !.active = TRUE]
  IN  CASE slipping -> [found EXCEPT !.type = "SLIP"]
        [] ~slipping /\ m \in SoftMotor /\ shows \in {"crawls", "slow"} /\ soft > SOFT_STALL_TIME ->
             [found EXCEPT !.type = "SOFT"]
        [] ~slipping /\ shows = "jumps" /\ hard > HARD_STALL_TIME ->
             [found EXCEPT !.type = "HARD"]
        [] OTHER -> [found EXCEPT !.active = s.active]

(* A recovery begins in the call that finds the stall and ends after the   *)
(* time its present type takes.  The retries it counts limit nothing: the  *)
(* third one only returns "failed" when the stall is over already.         *)
execute_recovery(before, s, dt) ==
  LET age == IF before.active THEN s.age + dt ELSE 0
  IN  IF ~s.active THEN s
      ELSE IF age >= Duration[s.type] THEN [s EXCEPT !.active = FALSE, !.age = 0]
      ELSE [s EXCEPT !.age = age]

(* A start that is 0 is the time of start-up for the release test.         *)
SlipSince(slipping, dt) ==
  IF slipping THEN Since(slip, dt, SlipRelease)
  ELSE IF slip = NotRunning THEN NotRunning
  ELSE IF slip + dt > SlipRelease THEN NotRunning ELSE slip + dt

(* History: a block starts with a jump and lasts while the motor stands at *)
(* a high current; while a recovery is on, it is being answered.           *)
BlockedSince(start, shows, answered, dt) ==
  IF shows = "jumps" \/ (start # NotRunning /\ shows = "steady")
  THEN IF answered THEN 0 ELSE Since(start, dt, HARD_STALL_TIME)
  ELSE NotRunning

STALL_Update ==
  \E dt \in 1..MaxGap, shows \in [Motor -> Shows], slipping \in BOOLEAN :
    LET slips == slipping /\ SlipSince(slipping, dt) > SLIP_TIME
    IN  /\ slip' = SlipSince(slipping, dt)
        /\ stall' = [m \in Motor |-> execute_recovery(stall[m],
                       Detected(m, stall[m], shows[m], slips, dt), dt)]
        /\ stuck' = [m \in Motor |->
             BlockedSince(stuck[m], shows[m], stall[m].active \/ stall'[m].active, dt)]
        /\ ignored' = [m \in Motor |-> shows[m] = "jumps" /\ stuck'[m] > HARD_STALL_TIME]

(* STALL_Clear of one motor, or STALL_ClearAll.                            *)
STALL_Clear ==
  \E ms \in {{m} : m \in Motor} \cup {Motor} :
    /\ stall' = [m \in Motor |-> IF m \in ms THEN [Idle EXCEPT !.type = stall[m].type]
                                ELSE stall[m]]
    /\ slip' = IF ms = Motor THEN NotRunning ELSE slip
    /\ stuck' = [m \in Motor |-> IF m \in ms THEN NotRunning ELSE stuck[m]]
    /\ ignored' = [m \in Motor |-> FALSE]

-----------------------------------------------------------------------------
(* safety_drop.c.  One sensor reads "cliff" (below the threshold less its  *)
(* hysteresis), "between" or "floor", and its two parts agree or do not.   *)
DropInit ==
  /\ drop = [s \in Sensor |-> [detected |-> FALSE, disagree |-> 0, fault |-> FALSE]]
  /\ cliff_active = FALSE /\ edge_follow_active = FALSE
  /\ below = [s \in Sensor |-> NotRunning]

(* The change is dated with the time of this very call, and reverted       *)
(* because that is less than the debounce ago.                             *)
cliff_update_sensor(d, reads, agree) ==
  LET detected == IF reads = "cliff" THEN TRUE
                  ELSE IF reads = "floor" THEN FALSE ELSE d.detected
      change_age == 0
      n == IF agree THEN 0 ELSE UpTo(CLIFF_IR_TOF_FAULT_SAMPLES + 1, d.disagree + 1)
  IN  [detected |-> IF detected # d.detected /\ change_age < CLIFF_DEBOUNCE
                    THEN d.detected ELSE detected,
       disagree |-> n,
       fault |-> d.fault \/ n > CLIFF_IR_TOF_FAULT_SAMPLES]

cliff_check_edge_follow(d) ==
  LET some(S) == \E s \in S : d[s].detected
  IN  edge_follow_active' =
        IF some(Sensor) /\ ~\A s \in Front : d[s].detected THEN TRUE
        ELSE some(Sensor) /\ edge_follow_active

DROP_Update ==
  \E dt \in 1..MaxGap, reads \in [Sensor -> {"cliff", "between", "floor"}],
     agree \in [Sensor -> BOOLEAN] :
    /\ drop' = [s \in Sensor |-> cliff_update_sensor(drop[s], reads[s], agree[s])]
    /\ cliff_active' = \E s \in Sensor : drop'[s].detected
    /\ cliff_check_edge_follow(drop')
    /\ below' = [s \in Sensor |->
         While(reads[s] = "cliff" /\ ~drop'[s].detected, below[s], dt, CLIFF_DEBOUNCE)]

DROP_ClearFault ==
  /\ \E s \in Sensor : drop' = [drop EXCEPT ![s].fault = FALSE, ![s].disagree = 0]
  /\ UNCHANGED <<cliff_active, edge_follow_active, below>>

-----------------------------------------------------------------------------
Init == CollInit /\ TiltInit /\ StallInit /\ DropInit

CollNext  == (COLL_Update \/ COLL_Clear) /\ UNCHANGED <<tiltvars, stallvars, dropvars>>
TiltNext  == (TILT_Update \/ TILT_Reset) /\ UNCHANGED <<collvars, stallvars, dropvars>>
StallNext == (STALL_Update \/ STALL_Clear) /\ UNCHANGED <<collvars, tiltvars, dropvars>>
DropNext  == (DROP_Update \/ DROP_ClearFault) /\ UNCHANGED <<collvars, tiltvars, stallvars>>

Next == CollNext \/ TiltNext \/ StallNext \/ DropNext
Spec == Init /\ [][Next]_vars
-----------------------------------------------------------------------------
TypeOK ==
  /\ coll.state \in Phase /\ tilt.phase \in 0..3
  /\ tilt.state \in {"OK", "WARNING", "CRITICAL", "RECOVERING", "TIPPED"}
  /\ \A m \in Motor : stall[m].type \in {"NONE", "HARD", "SOFT", "SLIP"}
  /\ drop \in [Sensor -> [detected : BOOLEAN, disagree : 0..CLIFF_IR_TOF_FAULT_SAMPLES + 1,
                          fault : BOOLEAN]]

(* safety_collision.c: with the bumper pressed for its debounce the robot  *)
(* does not drive on, in whatever phase of an earlier response it was hit. *)
BumperStops == held <= COLLISION_BUMPER_DEBOUNCE

(* safety_collision.c: a response ends, also when hits go on.              *)
ResponseEnds == resp <= StopTime + RetreatTime + TurnTime + COLLISION_RESUME_DELAY + 4 * MaxGap

(* safety_tilt.c: a robot tilted beyond the angle that is critical at its  *)
(* speed for the debounce is stopped or recovering, whatever the speed,    *)
(* the warnings and an earlier recovery were.                              *)
TiltStops == over <= TILT_RECOVERY_DEBOUNCE

(* safety_stall.c: when the current of a motor jumps again that has been   *)
(* blocked for longer than a hard stall takes, in jumps or steadily, it is *)
(* in a recovery, whatever other stall it has just recovered from.         *)
StallIsAnswered == \A m \in Motor : ~ignored[m]

(* safety_stall.c:10: "HARD STALL (blocked) - high current, zero speed,    *)
(* abrupt onset.  Recovery: immediate stop": a motor is not blocked for    *)
(* longer than a hard stall takes without a recovery.                      *)
BlockedIsAnswered == \A m \in Motor : stuck[m] <= HARD_STALL_TIME

(* safety_drop.c:13: a cliff below a sensor for the debounce is detected.  *)
CliffIsDetected == \A s \in Sensor : below[s] <= CLIFF_DEBOUNCE
=============================================================================
