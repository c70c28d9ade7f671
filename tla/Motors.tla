------------------------------- MODULE Motors -------------------------------
(***************************************************************************)
(* The cleaning motors of the M7, l1_m7/Core/motor: side_brush.c,          *)
(* roller_brush.c, vacuum_fan.c, and the coordinator multi_motor.c.  They  *)
(* share no state.  A step is one call; a measurement is a member of a     *)
(* small class, a speed a multiple of some unit, and an instant an age,    *)
(* which also grows while a motor is off.                                  *)
(***************************************************************************)
EXTENDS Integers

CONSTANTS
  MaxGap,                                    \* bound: time between two updates
  SIDE_STALL_TIME, SideRelease, SIDE_RAMP, SideCap,
  SIDE_SPEED_MIN, SIDE_SPEED_MAX, SideSpeed, \* side_get_target_speed: a function
  ROLLER_STALL_TIME, RollerRelease, ROLLER_CARPET_DEBOUNCE,
  FanLevels,                                 \* FAN_SPEED_MAX_RPM, in steps of the ramp
  FanMin, FanDefault, BaselineTime, DUST_FULL_DEBOUNCE,
  NUM_MOTORS, IqMax, Budget, Iq              \* multi_motor.c; references that are set

Context == {"NORMAL", "WALL", "OPEN", "CORNER"}

MotorsAssumption ==
  /\ {MaxGap, SIDE_STALL_TIME, SideRelease, SIDE_RAMP, SideCap, SIDE_SPEED_MIN,
      SIDE_SPEED_MAX, ROLLER_STALL_TIME, RollerRelease, ROLLER_CARPET_DEBOUNCE, FanLevels,
      FanMin, FanDefault, BaselineTime, DUST_FULL_DEBOUNCE, NUM_MOTORS}
       \subseteq Nat \ {0}
  /\ SideSpeed \in [Context -> SIDE_SPEED_MIN..SIDE_SPEED_MAX]
  /\ 10 * FanMin <= 9 * FanDefault /\ FanDefault <= FanLevels
  /\ IqMax \in [1..NUM_MOTORS -> Nat] /\ Budget \in Nat /\ Iq \subseteq Int

VARIABLES
  side, side_stuck,       \* hside; history: how long the brush, while it was on,
                          \* has been blocked, or -1
  roller, roller_stuck,   \* hroller; the same
  fan, risen,             \* hfan; history: time since the current rose, or -1 when it
                          \* has not, in this run of the fan
  mot, active, agreed     \* motors, g_coordinator_active; history: nothing was set
                          \* since the last allocation

sidevars   == <<side, side_stuck>>
rollervars == <<roller, roller_stuck>>
fanvars    == <<fan, risen>>
coordvars  == <<mot, active, agreed>>
vars       == <<sidevars, rollervars, fanvars, coordvars>>

NotRunning == -1            \* a start time of 0 in the code
Low(a, b) == IF a < b THEN a ELSE b
High(a, b) == IF a < b THEN b ELSE a
Older(age, dt, limit) == IF age = NotRunning THEN age ELSE Low(age + dt, limit + 1)
Running(age, dt, limit) == IF age = NotRunning THEN 0 ELSE Older(age, dt, limit)

(* A start at tick 0 reads as none; the next tick 0 is 2^32 ms later, so   *)
(* that only the first sample of a block may meet it.                      *)
Starting(start, zero, dt, limit) ==
  IF zero /\ start = NotRunning THEN NotRunning ELSE Running(start, dt, limit)

(* When a blocked brush is stopped at the latest: a start at tick 0 costs  *)
(* the time to the next blocked sample.                                    *)
SideLimit == SIDE_STALL_TIME + MaxGap
RollerLimit == ROLLER_STALL_TIME + RollerRelease + MaxGap

Load == {"free", "blocked", "reversed"}   \* the last: blocked at a negative current

-----------------------------------------------------------------------------
(* side_brush.c.                                                           *)
SideInit ==
  /\ side = [enabled |-> FALSE, fault |-> FALSE, driven |-> FALSE, context |-> "NORMAL",
             speed_ref |-> SideSpeed["NORMAL"], start |-> NotRunning]
  /\ side_stuck = NotRunning

SIDE_SetEnabled(on) ==
  /\ side' = IF on THEN [side EXCEPT !.enabled = TRUE]
             ELSE [side EXCEPT !.enabled = FALSE, !.driven = FALSE, !.speed_ref = 0]
  /\ UNCHANGED side_stuck

(* SIDE_SetIqRef, for a reference other than 0; also when it is disabled.  *)
SIDE_SetIqRef == ~side.fault /\ side' = [side EXCEPT !.driven = TRUE]
                 /\ UNCHANGED side_stuck

(* It switches a brush on that was not on before the stall.                *)
SIDE_ClearStall ==
  /\ side' = [side EXCEPT !.start = NotRunning, !.fault = FALSE, !.enabled = TRUE]
  /\ side_stuck' = NotRunning

Ramped(from, to, step) ==
  IF to > from THEN Low(from + step, to) ELSE High(from - step, to)

(* Mutant: the time starts again with every blocked sample.                *)
SideStart_m(load, zero, dt) ==
  IF load # "free" THEN 0
  ELSE LET age == Older(side.start, dt, SIDE_STALL_TIME)
       IN  IF age > SideRelease THEN NotRunning ELSE age

(* side_detect_stall: a free sample only ends a time that is old enough.   *)
SideStart(load, zero, dt) ==
  IF load # "free" THEN Starting(side.start, zero, dt, SIDE_STALL_TIME)
  ELSE LET age == Older(side.start, dt, SIDE_STALL_TIME)
       IN  IF age > SideRelease THEN NotRunning ELSE age

(* SIDE_Update.  The context is that of the distance, whatever it was.     *)
SIDE_Update(load, context, ramp, zero, dt) ==
  LET start == SideStart(load, zero, dt)
      stalled == load # "free" /\ start > SIDE_STALL_TIME
      ref == Ramped(side.speed_ref, SideSpeed[context], SIDE_RAMP * ramp)
  IN  IF ~side.enabled \/ side.fault
      THEN /\ side' = [side EXCEPT !.start = Older(@, dt, SIDE_STALL_TIME)]
           /\ UNCHANGED side_stuck
      ELSE /\ side' = [enabled |-> ~stalled, fault |-> stalled, context |-> context,
                       driven |-> side.driven /\ ~stalled, start |-> start,
                       speed_ref |-> High(SIDE_SPEED_MIN, Low(SIDE_SPEED_MAX, ref))]
           /\ side_stuck' = IF load = "free" \/ stalled THEN NotRunning
                            ELSE Running(side_stuck, dt, SideLimit)

SideNext ==
  /\ UNCHANGED <<rollervars, fanvars, coordvars>>
  /\ \/ \E on \in BOOLEAN : SIDE_SetEnabled(on)
     \/ SIDE_SetIqRef \/ SIDE_ClearStall
     \/ \E load \in Load, context \in Context, ramp \in 1..SideCap, zero \in BOOLEAN,
           dt \in 1..MaxGap :
          (zero => side_stuck = NotRunning) /\ SIDE_Update(load, context, ramp, zero, dt)

-----------------------------------------------------------------------------
(* roller_brush.c.                                                         *)
RollerInit ==
  /\ roller = [enabled |-> FALSE, fault |-> FALSE, driven |-> FALSE, boost |-> FALSE,
               carpet |-> FALSE, prev |-> FALSE, change |-> ROLLER_CARPET_DEBOUNCE + 1,
               start |-> NotRunning, last |-> RollerRelease + 1]
  /\ roller_stuck = NotRunning

ROLLER_SetEnabled(on) ==
  /\ roller' = IF on THEN [roller EXCEPT !.enabled = TRUE]
               ELSE [roller EXCEPT !.enabled = FALSE, !.driven = FALSE]
  /\ UNCHANGED roller_stuck

ROLLER_SetIqRef == ~roller.fault /\ roller' = [roller EXCEPT !.driven = TRUE]
                   /\ UNCHANGED roller_stuck

ROLLER_ClearStall ==
  /\ roller' = [roller EXCEPT !.start = NotRunning, !.fault = FALSE, !.enabled = TRUE]
  /\ roller_stuck' = NotRunning

ROLLER_ForceCarpetState(on) ==
  roller' = [roller EXCEPT !.carpet = on, !.boost = on] /\ UNCHANGED roller_stuck

(* roller_detect_carpet, for an RMS current above, in or below the band.   *)
Carpet(r, rms, dt) ==
  LET now == IF rms = "mid" THEN r.carpet ELSE rms = "high"
      age == IF now # r.prev THEN 0 ELSE Older(r.change, dt, ROLLER_CARPET_DEBOUNCE)
      settled == age > ROLLER_CARPET_DEBOUNCE /\ now # r.carpet
  IN  [r EXCEPT !.prev = now, !.change = age,
                !.carpet = IF settled THEN now ELSE @,
                !.boost = IF settled THEN now ELSE @]

(* roller_detect_stall: only a positive current counts, and a free sample  *)
(* may still be the one that ends the time.                                *)
Stall(r, load, zero, dt) ==
  LET last == IF load = "blocked" THEN 0 ELSE Older(r.last, dt, RollerRelease)
      start == IF load = "blocked" THEN Starting(r.start, zero, dt, ROLLER_STALL_TIME)
               ELSE IF last > RollerRelease THEN NotRunning
               ELSE Older(r.start, dt, ROLLER_STALL_TIME)
      stalled == start > ROLLER_STALL_TIME
  IN  [r EXCEPT !.last = last, !.start = start, !.fault = stalled, !.enabled = ~stalled,
                !.driven = @ /\ ~stalled]

ROLLER_Update(load, rms, zero, dt) ==
  IF ~roller.enabled \/ roller.fault
  THEN /\ roller' = [roller EXCEPT !.change = Older(@, dt, ROLLER_CARPET_DEBOUNCE),
                       !.start = Older(@, dt, ROLLER_STALL_TIME),
                       !.last = Older(@, dt, RollerRelease)]
       /\ UNCHANGED roller_stuck
  ELSE /\ roller' = Stall(Carpet(roller, rms, dt), load, zero, dt)
       /\ roller_stuck' =
            CASE roller'.fault -> NotRunning
              [] load = "blocked" /\ ~roller'.fault -> Running(roller_stuck, dt, RollerLimit)
              [] load # "blocked" /\ ~roller'.fault ->
                   IF roller'.last > RollerRelease THEN NotRunning
                   ELSE Older(roller_stuck, dt, RollerLimit)

RollerNext ==
  /\ UNCHANGED <<sidevars, fanvars, coordvars>>
  /\ \/ \E on \in BOOLEAN : ROLLER_SetEnabled(on) \/ ROLLER_ForceCarpetState(on)
     \/ ROLLER_SetIqRef \/ ROLLER_ClearStall
     \/ \E load \in Load, rms \in {"low", "mid", "high"}, zero \in BOOLEAN, dt \in 1..MaxGap :
          (zero => roller_stuck = NotRunning) /\ ROLLER_Update(load, rms, zero, dt)

-----------------------------------------------------------------------------
(* vacuum_fan.c.  No function enters FAN_STATE_FAULT or sets the fault.    *)
FanInit ==
  /\ fan = [enabled |-> FALSE, state |-> "IDLE", speed_ref |-> 0, target |-> 0,
            driven |-> FALSE, baseline |-> "none", started |-> 0,
            full |-> FALSE, full_start |-> NotRunning]
  /\ risen = NotRunning

FAN_SetEnabled(on) ==
  /\ fan' = IF on /\ ~fan.enabled
            THEN [fan EXCEPT !.enabled = TRUE, !.state = "SOFTSTART", !.started = 0,
                             !.target = FanDefault]
            ELSE IF ~on /\ fan.enabled
            THEN [fan EXCEPT !.enabled = FALSE, !.state = "IDLE", !.driven = FALSE,
                             !.speed_ref = 0]
            ELSE fan
  /\ risen' = IF on THEN risen ELSE NotRunning

FAN_SetIqRef == fan' = [fan EXCEPT !.driven = TRUE] /\ UNCHANGED risen

(* The baseline becomes 0, but its static flag stays: from now on every    *)
(* current is too high.                                                    *)
FAN_ClearDustBinFull ==
  /\ fan' = [fan EXCEPT !.full = FALSE, !.full_start = NotRunning,
               !.baseline = IF @ = "none" THEN @ ELSE "zero"]
  /\ UNCHANGED risen

(* FAN_STATE_IDLE without clearing enabled: FAN_SetEnabled(1) then does    *)
(* nothing, until it has been disabled.                                    *)
FAN_ClearFault == fan' = [fan EXCEPT !.state = "IDLE"] /\ risen' = NotRunning

(* Mutant: the state is left as soon as the ramp begins.                   *)
Started_m(speed) == speed > 0

(* 90 % of the target.                                                     *)
Started(speed) == 10 * speed > 9 * fan.target

(* The soft start: too much current takes 1 % back, in whole steps at most *)
(* one, so that the target may never be reached.                           *)
SoftStart(inrush) ==
  \E back \in IF inrush THEN 0..1 ELSE {0} :
    LET speed == High(0, Low(fan.speed_ref + 1, fan.target) - back)
    IN  /\ fan' = [fan EXCEPT !.speed_ref = speed,
                     !.state = IF Started(speed) THEN "RUN" ELSE @]
        /\ UNCHANGED risen

(* fan_detect_dust_bin, whose baseline is taken once, some time after a    *)
(* start; the average current is above it by 20 %, or is not.              *)
Dust(f, rise, dt) ==
  LET baseline == IF f.baseline = "none" /\ f.started > BaselineTime THEN "set"
                  ELSE f.baseline
      high == baseline = "zero" \/ (rise /\ baseline = f.baseline)
      age == Running(f.full_start, dt, DUST_FULL_DEBOUNCE)
  IN  IF baseline = "none" THEN f
      ELSE [f EXCEPT !.baseline = baseline,
                     !.full_start = IF high THEN age ELSE NotRunning,
                     !.full = high /\ (@ \/ age > DUST_FULL_DEBOUNCE)]

(* The constant power: its target is anywhere in the range.                *)
Run(rise, dt) ==
  \E target \in FanMin..FanLevels :
    LET speed == High(FanMin, Ramped(fan.speed_ref, target, 1))
    IN  /\ fan' = Dust([fan EXCEPT !.target = target, !.speed_ref = speed], rise, dt)
        /\ risen' = IF rise THEN Running(risen, dt, DUST_FULL_DEBOUNCE) ELSE NotRunning

FAN_Update(inrush, rise) ==
  CASE fan.state = "IDLE" -> /\ fan' = [fan EXCEPT !.driven = FALSE, !.speed_ref = 0]
                             /\ UNCHANGED risen
    [] fan.state = "SOFTSTART" -> SoftStart(inrush)
    [] OTHER -> Run(rise, 0)

(* The fan has a tick of its own: its ages do not stop with its updates.   *)
FanTick ==
  /\ fan' = [fan EXCEPT !.started = Low(@ + 1, BaselineTime + 1),
               !.full_start = Older(@, 1, DUST_FULL_DEBOUNCE)]
  /\ risen' = Older(risen, 1, DUST_FULL_DEBOUNCE)

FanNext ==
  /\ UNCHANGED <<sidevars, rollervars, coordvars>>
  /\ \/ \E on \in BOOLEAN : FAN_SetEnabled(on)
     \/ FAN_SetIqRef \/ FAN_ClearDustBinFull \/ FAN_ClearFault \/ FanTick
     \/ \E inrush, rise \in BOOLEAN : FAN_Update(inrush, rise)

-----------------------------------------------------------------------------
(* multi_motor.c.  The motors are numbered in the order of priority.       *)
Index == 1..NUM_MOTORS
Abs(n) == IF n < 0 THEN -n ELSE n
Clamp(n, limit) == High(-limit, Low(limit, n))

CoordInit ==
  /\ mot = [m \in Index |-> [enabled |-> FALSE, fault |-> FALSE, speed_mode |-> FALSE,
                             iq_ref |-> 0, allocated |-> 0]]
  /\ active = FALSE /\ agreed = FALSE

MULTI_EnableMotor(m)  == mot' = [mot EXCEPT ![m].enabled = TRUE]
MULTI_DisableMotor(m) == mot' = [mot EXCEPT ![m].enabled = FALSE, ![m].iq_ref = 0]
MULTI_SetSpeedRef(m)  == mot' = [mot EXCEPT ![m].speed_mode = TRUE]
MULTI_SetTorqueRef(m) ==
  \E iq \in Iq : mot' = [mot EXCEPT ![m].speed_mode = FALSE, ![m].iq_ref = iq]
MULTI_SetFault(m) ==
  \E f \in BOOLEAN : mot' = [mot EXCEPT ![m].fault = f, ![m].iq_ref = IF f THEN 0 ELSE @]

(* The references and the integrals; a motor in speed mode is then braked  *)
(* by its controller.                                                      *)
MULTI_EmergencyStop == mot' = [m \in Index |-> [mot[m] EXCEPT !.iq_ref = 0]]
MULTI_EmergencyResume == mot' = [m \in Index |-> [mot[m] EXCEPT !.fault = FALSE]]

(* MULTI_SpeedControlLoop: also for a motor with a fault.                  *)
MULTI_SpeedControlLoop ==
  \E out \in [Index -> {-1, 0, 1}] :
    mot' = [m \in Index |->
              IF mot[m].speed_mode /\ mot[m].enabled
              THEN [mot[m] EXCEPT !.iq_ref = out[m] * IqMax[m]] ELSE mot[m]]

(* Mutant: a motor with a fault is served as well.                         *)
Served_m(m) == mot[m].enabled
Served(m) == mot[m].enabled /\ ~mot[m].fault
Required(m) == IF Served(m) THEN Low(Abs(mot[m].iq_ref), IqMax[m]) ELSE 0

(* What is left of the budget after the first m motors.                    *)
Left[m \in 0..NUM_MOTORS] ==
  IF m = 0 THEN Budget ELSE Left[m - 1] - Low(Required(m), Left[m - 1])

(* MULTI_AllocateTorque.  (The limits of the five motors add up to 56 A,   *)
(* the budget is 70 A: as the constants are, it cannot run out.)           *)
MULTI_AllocateTorque ==
  /\ agreed' = active /\ UNCHANGED active
  /\ IF ~active THEN UNCHANGED mot
     ELSE mot' = [m \in Index |->
            LET granted == Left[m - 1] - Left[m]
            IN  [mot[m] EXCEPT !.allocated = granted,
                   !.iq_ref = IF mot[m].enabled THEN Clamp(@, granted) ELSE @]]

CoordNext ==
  /\ UNCHANGED <<sidevars, rollervars, fanvars>>
  /\ \/ MULTI_AllocateTorque
     \/ /\ agreed' = FALSE
        /\ \/ UNCHANGED mot /\ active' \in BOOLEAN
           \/ /\ UNCHANGED active
              /\ \/ \E m \in Index :
                      \/ MULTI_EnableMotor(m) \/ MULTI_DisableMotor(m)
                      \/ MULTI_SetSpeedRef(m) \/ MULTI_SetTorqueRef(m)
                      \/ MULTI_SetFault(m)
                 \/ MULTI_EmergencyStop \/ MULTI_EmergencyResume
                 \/ MULTI_SpeedControlLoop

-----------------------------------------------------------------------------
Init == SideInit /\ RollerInit /\ FanInit /\ CoordInit
Next == SideNext \/ RollerNext \/ FanNext \/ CoordNext
Spec == Init /\ [][Next]_vars

TypeOK ==
  /\ side.context \in Context /\ side.speed_ref \in {0} \cup SIDE_SPEED_MIN..SIDE_SPEED_MAX
  /\ side.start \in -1..SIDE_STALL_TIME + 1 /\ side_stuck \in -1..SideLimit + 1
  /\ roller.start \in -1..ROLLER_STALL_TIME + 1 /\ roller_stuck \in -1..RollerLimit + 1
  /\ {side.enabled, side.fault, roller.enabled, roller.fault, active, agreed} \subseteq BOOLEAN
  /\ fan.state \in {"IDLE", "SOFTSTART", "RUN"} /\ fan.speed_ref \in 0..FanLevels
  /\ {fan.full_start, risen} \subseteq -1..DUST_FULL_DEBOUNCE + 1
  /\ \A m \in Index : mot[m].iq_ref \in Int /\ mot[m].allocated \in 0..IqMax[m]

(* side_brush.c:172, roller_brush.c:181: a brush that is blocked in every  *)
(* sample is stopped once it has been on for the stall time, however often *)
(* it is switched off and on in the meantime, and also when the tick was 0 *)
(* at the start; free samples shorter than the release do not save the     *)
(* roller either, while each of them ends a block of the side brush.  Then *)
(* it is not driven, whatever is asked of it, until the stall is cleared.  *)
StallStopsBrush ==
  /\ side_stuck <= SideLimit /\ roller_stuck <= RollerLimit
  /\ side.fault => ~side.driven
  /\ roller.fault => ~roller.driven

(* roller_brush.c:177: "Condition: high current + low speed for > 500 ms": *)
(* a stall is only found when the roller, while it was on, was blocked for *)
(* that long, but for samples shorter than the release.                    *)
StallNeedsTime ==
  [][~roller.fault /\ roller'.fault => roller_stuck + MaxGap > ROLLER_STALL_TIME]_rollervars

(* vacuum_fan.c:11, 15: the fan gets its constant power only once the soft *)
(* start has brought it to its range, whatever current held it back.       *)
FanInRange == fan.state = "RUN" => fan.enabled /\ fan.speed_ref >= FanMin

(* vacuum_fan.c:202-204: "if the average Iq deviates from baseline by [the *)
(* rise] for > debounce period, declare bin full": not before the current  *)
(* has been high for that long in this run of the fan.  (A report cleared  *)
(* once makes the baseline 0, and every current a high one.)               *)
FullIsDebounced ==
  [][~fan.full /\ fan'.full /\ fan'.baseline = "set" => risen' > DUST_FULL_DEBOUNCE]_fanvars

(* What the enabled motors ask for together.                               *)
Drawn(motors) ==
  LET Sum[m \in 0..NUM_MOTORS] ==
        IF m = 0 THEN 0
        ELSE Sum[m - 1] + (IF motors[m].enabled THEN Abs(motors[m].iq_ref) ELSE 0)
  IN  Sum[NUM_MOTORS]

(* multi_motor.c:22-24: after an allocation the references of the enabled  *)
(* motors add up to no more than the budget, whichever of them had a fault *)
(* or asked for more than its limit, and one with a fault has none,        *)
(* although the speed loop goes on for it.                                 *)
AllocationHolds ==
  agreed =>
    /\ Drawn(mot) <= Budget
    /\ \A m \in Index : mot[m].enabled /\ mot[m].fault => mot[m].iq_ref = 0
=============================================================================
