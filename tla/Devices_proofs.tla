--------------------------- MODULE Devices_proofs ---------------------------
(***************************************************************************)
(* The proofs of MCDevices: each of its fifteen set-ups has an inductive   *)
(* invariant of its own, a step of the bench is a step of one of them and  *)
(* a stutter of the others, and together they give the invariants that     *)
(* the run Devices checks, for every value of the constants.               *)
(*                                                                         *)
(* Left (the shares of the current), the sum of the run times and the      *)
(* frames that a read of the UART makes whole are defined by recursion.    *)
(* That such a function exists, and what it is, is proved by induction     *)
(* over a set of numbers that is given as a definition (SetInduction): the *)
(* library's theorem takes an operator, which these provers cannot do.     *)
(***************************************************************************)
EXTENDS MCDevices, FiniteSets, FiniteSetTheorems, SequenceTheorems, WellFoundedInduction, TLAPS

-----------------------------------------------------------------------------
(* Numbers.                                                                *)

(* Facts about the constants and the ages of the motors, for reuse.        *)
LEMMA MotorNumbers ==
  ASSUME Motor!MotorsAssumption
  PROVE  /\ MotorGap \in Nat \ {0} /\ SIDE_STALL_TIME \in Nat \ {0} /\ SideRelease \in Nat \ {0}
         /\ SIDE_RAMP \in Nat \ {0} /\ SideCap \in Nat \ {0} /\ SIDE_SPEED_MIN \in Nat \ {0}
         /\ SIDE_SPEED_MAX \in Nat \ {0} /\ ROLLER_STALL_TIME \in Nat \ {0}
         /\ RollerRelease \in Nat \ {0} /\ ROLLER_CARPET_DEBOUNCE \in Nat \ {0}
         /\ FanLevels \in Nat \ {0} /\ FanMin \in Nat \ {0} /\ FanDefault \in Nat \ {0}
         /\ BaselineTime \in Nat \ {0} /\ DUST_FULL_DEBOUNCE \in Nat \ {0}
         /\ NUM_MOTORS \in Nat \ {0}
         /\ \A c \in Motor!Context : SideSpeed[c] \in SIDE_SPEED_MIN..SIDE_SPEED_MAX
         /\ 10 * FanMin <= 9 * FanDefault /\ FanDefault <= FanLevels /\ FanMin <= FanLevels
<1>1. 10 * FanMin <= 9 * FanDefault /\ FanDefault <= FanLevels
  BY DEF Motor!MotorsAssumption
<1>2. FanLevels \in Nat /\ FanMin \in Nat /\ FanDefault \in Nat
  BY DEF Motor!MotorsAssumption
<1>3. FanMin <= FanLevels
  BY <1>1, <1>2
<1> QED
  BY <1>1, <1>3 DEF Motor!MotorsAssumption

LEMMA Ages ==
  ASSUME NEW limit \in Nat, NEW dt \in Nat, NEW a \in -1..limit + 1, NEW b \in -1..limit + 1
  PROVE  /\ Motor!Older(a, dt, limit) \in -1..limit + 1
         /\ Motor!Running(a, dt, limit) \in 0..limit + 1
         /\ a # -1 => Motor!Older(a, dt, limit) >= a /\ Motor!Older(a, dt, limit) # -1
         /\ a # -1 => Motor!Running(a, dt, limit) = Motor!Older(a, dt, limit)
         /\ a = -1 => Motor!Older(a, dt, limit) = -1 /\ Motor!Running(a, dt, limit) = 0
         /\ a <= b => Motor!Older(a, dt, limit) <= Motor!Older(b, dt, limit)
         /\ a <= b => Motor!Running(a, dt, limit) <= Motor!Running(b, dt, limit)
  BY DEF Motor!Older, Motor!Running, Motor!Low, Motor!NotRunning

(* The age of a start that may be at tick 0, and a history with a later    *)
(* limit.                                                                  *)
LEMMA StartAges ==
  ASSUME NEW limit \in Nat, NEW dt \in Nat, NEW a \in -1..limit + 1, NEW zero \in BOOLEAN
  PROVE  /\ Motor!Starting(a, zero, dt, limit) \in -1..limit + 1
         /\ a # -1 => Motor!Starting(a, zero, dt, limit) = Motor!Older(a, dt, limit)
         /\ a = -1 /\ zero => Motor!Starting(a, zero, dt, limit) = -1
         /\ a = -1 /\ ~zero => Motor!Starting(a, zero, dt, limit) = 0
  BY DEF Motor!Starting, Motor!Running, Motor!Older, Motor!Low, Motor!NotRunning

LEMMA LongAges ==
  ASSUME NEW limit \in Nat, NEW dt \in Nat, NEW a \in -1..limit + 1
  PROVE  /\ Motor!Older(a, dt, limit) \in -1..limit + 1
         /\ a # -1 => /\ Motor!Older(a, dt, limit) # -1 /\ Motor!Older(a, dt, limit) <= a + dt
                      /\ Motor!Older(a, dt, limit) >= a
                      /\ Motor!Older(a, dt, limit) <= limit =>
                           Motor!Older(a, dt, limit) = a + dt
                      /\ Motor!Running(a, dt, limit) = Motor!Older(a, dt, limit)
         /\ a = -1 => Motor!Older(a, dt, limit) = -1 /\ Motor!Running(a, dt, limit) = 0
         /\ Motor!Running(a, dt, limit) \in 0..limit + 1
  BY DEF Motor!Running, Motor!Older, Motor!Low, Motor!NotRunning

-----------------------------------------------------------------------------
(* Induction over the numbers, for a set: what holds for 0, and for n + 1  *)
(* when it holds for n.                                                    *)
LEMMA SetInduction ==
  ASSUME NEW S, 0 \in S, \A n \in Nat : n \in S => n + 1 \in S
  PROVE  Nat \subseteq S
<1> DEFINE T == Nat \ S
           R == OpToRel(<, Nat)
<1> SUFFICES ASSUME T # {} PROVE FALSE
  OBVIOUS
<1>1. PICK x \in T : \A y \in T : ~(<<y, x>> \in R)
  <2>1. IsWellFoundedOn(R, Nat)
    BY NatLessThanWellFounded
  <2> HIDE DEF R
  <2> QED
    BY <2>1, WFMin
<1>2. x # 0 /\ x - 1 \in Nat /\ x - 1 < x
  OBVIOUS
<1>3. <<x - 1, x>> \in R
  BY <1>2 DEF OpToRel
<1>4. x - 1 \in S
  BY <1>1, <1>2, <1>3
<1>5. (x - 1) + 1 \in S
  BY <1>2, <1>4
<1>6. x \in Nat /\ x \notin S
  OBVIOUS
<1>7. (x - 1) + 1 = x
  BY <1>6
<1> QED
  BY <1>5, <1>6, <1>7

-----------------------------------------------------------------------------
(* Remainders.                                                             *)
LEMMA DivMod ==
  ASSUME NEW M \in Nat \ {0}, NEW x \in Int
  PROVE  /\ x % M \in 0..M-1
         /\ x \div M \in Int
         /\ x = M * (x \div M) + (x % M)
  BY SMT

LEMMA Unique ==
  ASSUME NEW M \in Nat \ {0}, NEW q \in Int, NEW r \in 0..M-1, NEW x \in Int, x = M * q + r
  PROVE  x % M = r
<1> DEFINE p == x \div M
<1> DEFINE t == x % M
<1>1. p \in Int /\ t \in 0..M-1 /\ x = M * p + t
  BY DivMod
<1> HIDE DEF p, t
<1>2. M * (p - q) = r - t
  BY <1>1
<1>3. p = q
  <2>1. ASSUME p > q PROVE FALSE
    <3>1. p - q >= 1 BY <2>1, <1>1
    <3>2. M * (p - q) >= M BY <3>1, <1>1
    <3> QED BY <3>2, <1>2, <1>1
  <2>2. ASSUME p < q PROVE FALSE
    <3>1. q - p >= 1 BY <2>2, <1>1
    <3>2. M * (q - p) >= M BY <3>1, <1>1
    <3>3. M * (q - p) = t - r BY <1>2, <1>1
    <3> QED BY <3>2, <3>3, <1>1
  <2> QED BY <2>1, <2>2, <1>1
<1> QED BY <1>1, <1>2, <1>3 DEF t

(* A remainder of a number less than one turn away.                        *)
LEMMA Small ==
  ASSUME NEW M \in Nat \ {0}, NEW x \in Int
  PROVE  /\ 0 <= x /\ x < M => x % M = x
         /\ -M <= x /\ x < 0 => x % M = x + M
         /\ M <= x /\ x < 2 * M => x % M = x - M
<1>1. ASSUME 0 <= x, x < M PROVE x % M = x
  <2>1. x \in 0..M-1 /\ x = M * 0 + x BY <1>1
  <2> QED BY <2>1, Unique
<1>2. ASSUME -M <= x, x < 0 PROVE x % M = x + M
  <2>1. x + M \in 0..M-1 /\ x = M * (-1) + (x + M) BY <1>2
  <2> QED BY <2>1, Unique
<1>3. ASSUME M <= x, x < 2 * M PROVE x % M = x - M
  <2>1. x - M \in 0..M-1 /\ x = M * 1 + (x - M) BY <1>3
  <2> QED BY <2>1, Unique
<1> QED BY <1>1, <1>2, <1>3

-----------------------------------------------------------------------------
(* What an Append, a Tail and a SubSeq leave.                              *)
LEMMA AppendOf ==
  ASSUME NEW S, NEW s \in Seq(S), NEW e \in S
  PROVE  /\ Append(s, e) \in Seq(S) /\ Len(s) \in Nat /\ DOMAIN s = 1..Len(s)
         /\ DOMAIN Append(s, e) = 1..(Len(s) + 1)
         /\ Append(s, e)[Len(s) + 1] = e
         /\ \A i \in DOMAIN s : Append(s, e)[i] = s[i]
  OBVIOUS

LEMMA TailOf ==
  ASSUME NEW S, NEW s \in Seq(S), s # <<>>
  PROVE  /\ Head(s) = s[1] /\ 1 \in DOMAIN s /\ s[1] \in S /\ Tail(s) \in Seq(S)
         /\ \A i \in DOMAIN Tail(s) : /\ i \in Nat /\ 1 < i + 1 /\ i + 1 \in DOMAIN s
                                      /\ Tail(s)[i] = s[i + 1]
  OBVIOUS

LEMMA CutOf ==
  ASSUME NEW S, NEW s \in Seq(S), NEW n \in 1..Len(s)
  PROVE  /\ SubSeq(s, 1, n) \in Seq(S) /\ Len(SubSeq(s, 1, n)) = n
         /\ DOMAIN SubSeq(s, 1, n) = 1..n
         /\ \A i \in 1..n : SubSeq(s, 1, n)[i] = s[i]
         /\ SubSeq(s, n + 1, Len(s)) \in Seq(S)
         /\ DOMAIN SubSeq(s, n + 1, Len(s)) = 1..(Len(s) - n)
         /\ \A i \in 1..(Len(s) - n) : SubSeq(s, n + 1, Len(s))[i] = s[n + i]
<1>1. Len(s) \in Nat /\ n \in Nat /\ 1 <= n /\ n <= Len(s)
  OBVIOUS
<1>2. /\ SubSeq(s, 1, n) \in Seq(S) /\ Len(SubSeq(s, 1, n)) = n
      /\ \A i \in 1..n : SubSeq(s, 1, n)[i] = s[i]
  BY <1>1
<1>3. DOMAIN SubSeq(s, 1, n) = 1..n
  BY <1>2
<1>4. /\ SubSeq(s, n + 1, Len(s)) \in Seq(S)
      /\ Len(SubSeq(s, n + 1, Len(s))) = Len(s) - n
      /\ \A i \in 1..(Len(s) - n) : SubSeq(s, n + 1, Len(s))[i] = s[n + i]
  BY <1>1
<1>5. DOMAIN SubSeq(s, n + 1, Len(s)) = 1..(Len(s) - n)
  BY <1>4
<1> QED
  BY <1>2, <1>3, <1>4, <1>5

-----------------------------------------------------------------------------
(* side_brush.c.                                                           *)
SideType ==
  /\ side \in [enabled : BOOLEAN, fault : BOOLEAN, driven : BOOLEAN, context : Motor!Context,
               speed_ref : {0} \cup SIDE_SPEED_MIN..SIDE_SPEED_MAX,
               start : -1..SIDE_STALL_TIME + 1]
  /\ side_stuck \in -1..Motor!SideLimit + 1

(* What stops the brush is the age of the code, and that lags behind the   *)
(* time the brush is really blocked by one gap at most: when the block     *)
(* began at tick 0, before the sample after it.                            *)
SideInv ==
  /\ SideType
  /\ side_stuck # -1 => IF side.start = -1 THEN side_stuck = 0
                        ELSE side_stuck <= side.start + MotorGap
  /\ side_stuck <= Motor!SideLimit
  /\ side.fault => ~side.driven

LEMMA SideStarts == ASSUME Motor!MotorsAssumption, Motor!SideInit PROVE SideInv
  BY MotorNumbers DEF Motor!SideInit, SideInv, SideType, Motor!Context, Motor!NotRunning, Motor!SideLimit

LEMMA SideGoesOn ==
  ASSUME Motor!MotorsAssumption, SideInv, [Motor!SideNext]_<<side, side_stuck>> PROVE SideInv'
<1> USE MotorNumbers DEF SideInv, SideType, Motor!NotRunning
<1>1. ASSUME NEW on \in BOOLEAN, Motor!SIDE_SetEnabled(on) PROVE SideInv'
  <2>1. CASE on
    <3>1. side' = [enabled |-> TRUE, fault |-> side.fault, driven |-> side.driven,
                   context |-> side.context, speed_ref |-> side.speed_ref,
                   start |-> side.start]
          /\ side_stuck' = side_stuck
      BY <1>1, <2>1 DEF Motor!SIDE_SetEnabled
    <3> QED
      BY <3>1
  <2>2. CASE ~on
    <3>1. side' = [enabled |-> FALSE, fault |-> side.fault, driven |-> FALSE,
                   context |-> side.context, speed_ref |-> 0, start |-> side.start]
          /\ side_stuck' = side_stuck
      BY <1>1, <2>2 DEF Motor!SIDE_SetEnabled
    <3> QED
      BY <3>1
  <2> QED
    BY <2>1, <2>2
<1>2. CASE Motor!SIDE_SetIqRef
  BY <1>2 DEF Motor!SIDE_SetIqRef
<1>3. CASE Motor!SIDE_ClearStall
  <2>1. side' = [enabled |-> TRUE, fault |-> FALSE, driven |-> side.driven,
                 context |-> side.context, speed_ref |-> side.speed_ref, start |-> -1]
        /\ side_stuck' = -1
    BY <1>3 DEF Motor!SIDE_ClearStall
  <2> QED
    BY <2>1 DEF Motor!SideLimit
<1>4. ASSUME NEW load \in Motor!Load, NEW context \in Motor!Context, NEW ramp \in 1..SideCap,
             NEW zero \in BOOLEAN, NEW dt \in 1..MotorGap, zero => side_stuck = -1,
             Motor!SIDE_Update(load, context, ramp, zero, dt)
      PROVE  SideInv'
  <2> DEFINE old == side.start
             age == Motor!Older(old, dt, SIDE_STALL_TIME)
             on == Motor!Starting(old, zero, dt, SIDE_STALL_TIME)
             start == Motor!SideStart(load, zero, dt)
             stuck == Motor!Running(side_stuck, dt, Motor!SideLimit)
  <2>0. /\ dt \in Nat /\ dt <= MotorGap /\ old \in -1..SIDE_STALL_TIME + 1
        /\ Motor!SideLimit \in Nat /\ Motor!SideLimit = SIDE_STALL_TIME + MotorGap
        /\ side_stuck \in -1..Motor!SideLimit + 1 /\ SIDE_STALL_TIME \in Nat
    BY DEF Motor!SideLimit
  <2>1. /\ age \in -1..SIDE_STALL_TIME + 1 /\ on \in -1..SIDE_STALL_TIME + 1
        /\ stuck \in 0..Motor!SideLimit + 1
        /\ old # -1 => age >= old /\ age # -1 /\ on = age /\ (age <= SIDE_STALL_TIME => age = old + dt)
        /\ old = -1 => age = -1
        /\ old = -1 /\ zero => on = -1
        /\ old = -1 /\ ~zero => on = 0
        /\ side_stuck = -1 => stuck = 0
        /\ side_stuck # -1 => stuck <= side_stuck + dt
    <3>1. /\ age \in -1..SIDE_STALL_TIME + 1
          /\ old # -1 => age >= old /\ age # -1
          /\ old = -1 => age = -1
      BY <2>0, Ages
    <3>2. /\ old # -1 => (age <= SIDE_STALL_TIME => age = old + dt)
      BY <2>0, LongAges
    <3>3. /\ on \in -1..SIDE_STALL_TIME + 1
          /\ old # -1 => on = age
          /\ old = -1 /\ zero => on = -1
          /\ old = -1 /\ ~zero => on = 0
      <4>1. old \in -1..SIDE_STALL_TIME + 1 /\ zero \in BOOLEAN /\ dt \in Nat
            /\ SIDE_STALL_TIME \in Nat
        BY <2>0
      <4>2. on \in -1..SIDE_STALL_TIME + 1
        BY <4>1, StartAges
      <4>3. old # -1 => on = age
        BY <4>1, StartAges
      <4>4. old = -1 /\ zero => on = -1
        BY <4>1, StartAges
      <4>5. old = -1 /\ ~zero => on = 0
        BY <4>1, StartAges
      <4> HIDE DEF on, old, age
      <4> QED
        BY <4>2, <4>3, <4>4, <4>5
    <3>4. /\ stuck \in 0..Motor!SideLimit + 1
          /\ side_stuck = -1 => stuck = 0
          /\ side_stuck # -1 => stuck <= side_stuck + dt
      <4>1. side_stuck # -1 => stuck = Motor!Older(side_stuck, dt, Motor!SideLimit)
                              /\ Motor!Older(side_stuck, dt, Motor!SideLimit) <= side_stuck + dt
        BY <2>0, LongAges
      <4>2. stuck \in 0..Motor!SideLimit + 1 /\ (side_stuck = -1 => stuck = 0)
        BY <2>0, LongAges
      <4> HIDE DEF stuck
      <4> QED
        BY <4>1, <4>2
    <3> QED
      BY <3>1, <3>2, <3>3, <3>4
  <2>2. CASE ~side.enabled \/ side.fault
    <3>1. side' = [side EXCEPT !.start = age] /\ side_stuck' = side_stuck
      BY <1>4, <2>2 DEF Motor!SIDE_Update
    <3> HIDE DEF age, on, stuck, start
    <3> QED
      BY <2>1, <3>1
  <2>3. CASE ~(~side.enabled \/ side.fault)
    <3>1. PICK ref : Motor!Ramped(side.speed_ref, SideSpeed[context], SIDE_RAMP * ramp) = ref
      OBVIOUS
    <3>2. ref \in Int
      <4>1. side.speed_ref \in Int /\ SideSpeed[context] \in Int /\ SIDE_RAMP * ramp \in Int
        OBVIOUS
      <4> QED
        BY <3>1, <4>1 DEF Motor!Ramped, Motor!Low, Motor!High
    <3>3. Motor!High(SIDE_SPEED_MIN, Motor!Low(SIDE_SPEED_MAX, ref)) \in SIDE_SPEED_MIN..SIDE_SPEED_MAX
      <4>1. SideSpeed["NORMAL"] \in SIDE_SPEED_MIN..SIDE_SPEED_MAX
        BY DEF Motor!Context
      <4> QED
        BY <3>2, <4>1 DEF Motor!Low, Motor!High
    <3>4. start \in -1..SIDE_STALL_TIME + 1 /\ (load # "free" => start = on)
      BY <2>1 DEF Motor!SideStart
    <3>40. (load # "free" /\ ~(start > SIDE_STALL_TIME)) =>
              /\ IF start = -1 THEN stuck = 0 ELSE stuck <= start + MotorGap
              /\ stuck <= Motor!SideLimit
      <4>1. /\ side_stuck # -1 => IF old = -1 THEN side_stuck = 0 ELSE side_stuck <= old + MotorGap
            /\ MotorGap \in Nat
        OBVIOUS
      <4> HIDE DEF age, on, stuck, start, old
      <4> QED
        BY <1>4, <2>0, <2>1, <3>4, <4>1
    <3> DEFINE stalled == load # "free" /\ start > SIDE_STALL_TIME
               speed == Motor!High(SIDE_SPEED_MIN, Motor!Low(SIDE_SPEED_MAX, ref))
    <3>5. /\ side' = [enabled |-> ~stalled, fault |-> stalled, context |-> context,
                      driven |-> side.driven /\ ~stalled, start |-> start, speed_ref |-> speed]
          /\ side_stuck' = IF load = "free" \/ stalled THEN -1 ELSE stuck
      BY <1>4, <2>3, <3>1 DEF Motor!SIDE_Update
    <3>6. stalled \in BOOLEAN /\ (stalled <=> load # "free" /\ start > SIDE_STALL_TIME)
      OBVIOUS
    <3> HIDE DEF age, on, stuck, start, speed, stalled
    <3> QED
      BY <2>0, <2>1, <3>3, <3>4, <3>40, <3>5, <3>6 DEF speed
  <2> QED
    BY <2>2, <2>3
<1>5. CASE UNCHANGED <<side, side_stuck>>
  BY <1>5
<1> QED
  BY <1>1, <1>2, <1>3, <1>4, <1>5 DEF Motor!SideNext

-----------------------------------------------------------------------------
(* roller_brush.c.                                                         *)
RollerRecord == [enabled : BOOLEAN, fault : BOOLEAN, driven : BOOLEAN, boost : BOOLEAN,
                 carpet : BOOLEAN, prev : BOOLEAN, change : -1..ROLLER_CARPET_DEBOUNCE + 1,
                 start : -1..ROLLER_STALL_TIME + 1, last : 0..RollerRelease + 1]

(* The same for the roller, whose free samples do not count at once: after *)
(* a block that began at tick 0 there may be as many of them as the        *)
(* release allows before the sample that starts the code's age.            *)
RollerInv ==
  /\ roller \in RollerRecord /\ roller_stuck \in -1..Motor!RollerLimit + 1
  /\ roller_stuck # -1 => IF roller.start = -1
                          THEN roller_stuck <= roller.last /\ roller_stuck <= RollerRelease
                          ELSE roller_stuck <= roller.start + RollerRelease + MotorGap
  /\ roller_stuck <= Motor!RollerLimit
  /\ roller.fault => ~roller.driven

LEMMA RollerStarts == ASSUME Motor!MotorsAssumption, Motor!RollerInit PROVE RollerInv
  BY MotorNumbers
     DEF Motor!RollerInit, RollerInv, RollerRecord, Motor!NotRunning, Motor!RollerLimit

LEMMA RollerGoesOn ==
  ASSUME Motor!MotorsAssumption, RollerInv, [Motor!RollerNext]_<<roller, roller_stuck>>
  PROVE  RollerInv'
<1> USE MotorNumbers DEF RollerInv, RollerRecord, Motor!NotRunning
<1>1. ASSUME NEW on \in BOOLEAN, Motor!ROLLER_SetEnabled(on) PROVE RollerInv'
  <2>1. CASE on
    <3>1. roller' = [enabled |-> TRUE, fault |-> roller.fault, driven |-> roller.driven,
                    boost |-> roller.boost, carpet |-> roller.carpet, prev |-> roller.prev,
                    change |-> roller.change, start |-> roller.start, last |-> roller.last]
          /\ roller_stuck' = roller_stuck
      BY <1>1, <2>1 DEF Motor!ROLLER_SetEnabled
    <3> QED
      BY <3>1
  <2>2. CASE ~on
    <3>1. roller' = [enabled |-> FALSE, fault |-> roller.fault, driven |-> FALSE,
                    boost |-> roller.boost, carpet |-> roller.carpet, prev |-> roller.prev,
                    change |-> roller.change, start |-> roller.start, last |-> roller.last]
          /\ roller_stuck' = roller_stuck
      BY <1>1, <2>2 DEF Motor!ROLLER_SetEnabled
    <3> QED
      BY <3>1
  <2> QED
    BY <2>1, <2>2
<1>2. CASE Motor!ROLLER_SetIqRef
  BY <1>2 DEF Motor!ROLLER_SetIqRef
<1>3. CASE Motor!ROLLER_ClearStall
  <2>1. roller' = [enabled |-> TRUE, fault |-> FALSE, driven |-> roller.driven,
                    boost |-> roller.boost, carpet |-> roller.carpet, prev |-> roller.prev,
                    change |-> roller.change, start |-> -1, last |-> roller.last]
        /\ roller_stuck' = -1
    BY <1>3 DEF Motor!ROLLER_ClearStall
  <2> QED
    BY <2>1 DEF Motor!RollerLimit
<1>4. ASSUME NEW on \in BOOLEAN, Motor!ROLLER_ForceCarpetState(on) PROVE RollerInv'
  <2>1. roller' = [enabled |-> roller.enabled, fault |-> roller.fault, driven |-> roller.driven,
                    boost |-> on, carpet |-> on, prev |-> roller.prev,
                    change |-> roller.change, start |-> roller.start, last |-> roller.last]
        /\ roller_stuck' = roller_stuck
    BY <1>4 DEF Motor!ROLLER_ForceCarpetState
  <2> QED
    BY <2>1
<1>5. ASSUME NEW load \in Motor!Load, NEW rms \in {"low", "mid", "high"}, NEW zero \in BOOLEAN,
             NEW dt \in 1..MotorGap, zero => roller_stuck = -1,
             Motor!ROLLER_Update(load, rms, zero, dt)
      PROVE  RollerInv'
  <2> DEFINE old == roller.start
             change == Motor!Older(roller.change, dt, ROLLER_CARPET_DEBOUNCE)
             age == Motor!Older(old, dt, ROLLER_STALL_TIME)
             on == Motor!Starting(old, zero, dt, ROLLER_STALL_TIME)
             idle == Motor!Older(roller.last, dt, RollerRelease)
             stuck == Motor!Running(roller_stuck, dt, Motor!RollerLimit)
             longer == Motor!Older(roller_stuck, dt, Motor!RollerLimit)
  <2>0. /\ dt \in Nat /\ dt <= MotorGap /\ old \in -1..ROLLER_STALL_TIME + 1 /\ zero \in BOOLEAN
        /\ Motor!RollerLimit \in Nat
        /\ Motor!RollerLimit = ROLLER_STALL_TIME + RollerRelease + MotorGap
        /\ roller_stuck \in -1..Motor!RollerLimit + 1 /\ ROLLER_STALL_TIME \in Nat
        /\ roller.change \in -1..ROLLER_CARPET_DEBOUNCE + 1 /\ ROLLER_CARPET_DEBOUNCE \in Nat
        /\ roller.last \in -1..RollerRelease + 1 /\ roller.last # -1 /\ RollerRelease \in Nat
    BY DEF Motor!RollerLimit
  <2>1. /\ age \in -1..ROLLER_STALL_TIME + 1 /\ on \in -1..ROLLER_STALL_TIME + 1
        /\ stuck \in 0..Motor!RollerLimit + 1 /\ longer \in -1..Motor!RollerLimit + 1
        /\ old # -1 => /\ age >= old /\ age # -1 /\ on = age
                       /\ (age <= ROLLER_STALL_TIME => age = old + dt)
        /\ old = -1 => age = -1
        /\ old = -1 /\ zero => on = -1
        /\ old = -1 /\ ~zero => on = 0
        /\ roller_stuck = -1 => stuck = 0 /\ longer = -1
        /\ roller_stuck # -1 => /\ stuck <= roller_stuck + dt
                                /\ longer <= roller_stuck + dt /\ longer # -1
        /\ change \in -1..ROLLER_CARPET_DEBOUNCE + 1
        /\ idle \in 0..RollerRelease + 1 /\ idle >= roller.last
        /\ (idle <= RollerRelease => idle = roller.last + dt)
    <3>1. /\ age \in -1..ROLLER_STALL_TIME + 1
          /\ old # -1 => age >= old /\ age # -1
          /\ old = -1 => age = -1
      <4>1. age \in -1..ROLLER_STALL_TIME + 1
        BY <2>0, LongAges
      <4>2. old # -1 => age >= old
        BY <2>0, LongAges
      <4>3. old # -1 => age # -1
        BY <2>0, LongAges
      <4>4. old = -1 => age = -1
        BY <2>0, LongAges
      <4> HIDE DEF age, old
      <4> QED
        BY <4>1, <4>2, <4>3, <4>4
    <3>2. old # -1 => (age <= ROLLER_STALL_TIME => age = old + dt)
      BY <2>0, LongAges
    <3>0. old \in -1..ROLLER_STALL_TIME + 1 /\ zero \in BOOLEAN /\ dt \in Nat
          /\ ROLLER_STALL_TIME \in Nat
      BY <2>0
    <3>3. on \in -1..ROLLER_STALL_TIME + 1
      BY <3>0, StartAges
    <3>4. old # -1 => on = age
      BY <3>0, StartAges
    <3>5. old = -1 /\ zero => on = -1
      BY <3>0, StartAges
    <3>6. old = -1 /\ ~zero => on = 0
      BY <3>0, StartAges
    <3>7. /\ stuck \in 0..Motor!RollerLimit + 1 /\ longer \in -1..Motor!RollerLimit + 1
          /\ roller_stuck = -1 => stuck = 0 /\ longer = -1
          /\ roller_stuck # -1 => stuck = longer /\ longer <= roller_stuck + dt /\ longer # -1
      <4>1. roller_stuck # -1 => stuck = longer /\ longer <= roller_stuck + dt /\ longer # -1
        BY <2>0, LongAges
      <4>2. roller_stuck = -1 => stuck = 0 /\ longer = -1
        BY <2>0, LongAges
      <4>3. stuck \in 0..Motor!RollerLimit + 1
        BY <2>0, LongAges
      <4>4. longer \in -1..Motor!RollerLimit + 1
        BY <2>0, LongAges
      <4> HIDE DEF stuck, longer
      <4> QED
        BY <4>1, <4>2, <4>3, <4>4
    <3>8. change \in -1..ROLLER_CARPET_DEBOUNCE + 1
      BY <2>0, Ages
    <3>9. idle \in -1..RollerRelease + 1
      BY <2>0, LongAges
    <3>90. idle # -1
      BY <2>0, LongAges
    <3>91. idle <= RollerRelease => idle = roller.last + dt
      BY <2>0, LongAges
    <3>10. idle >= roller.last
      BY <2>0, LongAges
    <3> HIDE DEF age, on, stuck, longer, change, idle, old
    <3>11. idle \in 0..RollerRelease + 1
      BY <2>0, <3>9, <3>90
    <3>12. roller_stuck # -1 => stuck <= roller_stuck + dt
      BY <2>0, <3>7
    <3> QED
      BY <3>1, <3>2, <3>3, <3>4, <3>5, <3>6, <3>7, <3>8, <3>9, <3>91, <3>10, <3>11, <3>12
  <2>2. CASE ~roller.enabled \/ roller.fault
    <3>1. /\ roller' = [enabled |-> roller.enabled, fault |-> roller.fault, driven |-> roller.driven,
                    boost |-> roller.boost, carpet |-> roller.carpet, prev |-> roller.prev,
                    change |-> change, start |-> age, last |-> idle]
          /\ roller_stuck' = roller_stuck
      BY <1>5, <2>2 DEF Motor!ROLLER_Update
    <3> HIDE DEF change, age, on, idle, stuck, longer
    <3>2. roller' \in RollerRecord /\ roller'.start = age /\ roller'.last = idle
          /\ (roller'.fault => ~roller'.driven)
      BY <2>1, <3>1
    <3>3. /\ roller_stuck # -1 => IF old = -1
                                  THEN roller_stuck <= roller.last /\ roller_stuck <= RollerRelease
                                  ELSE roller_stuck <= old + RollerRelease + MotorGap
          /\ roller_stuck <= Motor!RollerLimit
      OBVIOUS
    <3> HIDE DEF old
    <3> QED
      BY <2>0, <2>1, <3>1, <3>2, <3>3
  <2>3. CASE ~(~roller.enabled \/ roller.fault)
    <3> DEFINE r == Motor!Carpet(roller, rms, dt)
               last == IF load = "blocked" THEN 0 ELSE idle
               start == IF load = "blocked" THEN on ELSE IF last > RollerRelease THEN -1 ELSE age
               stalled == start > ROLLER_STALL_TIME
    <3>1. r \in RollerRecord /\ r.start = roller.start /\ r.last = roller.last
      <4> DEFINE now == IF rms = "mid" THEN roller.carpet ELSE rms = "high"
                 since == IF now # roller.prev THEN 0 ELSE change
                 settled == since > ROLLER_CARPET_DEBOUNCE /\ now # roller.carpet
                 carpet == IF settled THEN now ELSE roller.carpet
                 boost == IF settled THEN now ELSE roller.boost
      <4>1. r = [[[[roller EXCEPT !.prev = now] EXCEPT !.change = since]
                   EXCEPT !.carpet = carpet] EXCEPT !.boost = boost]
        BY DEF Motor!Carpet
      <4>2. now \in BOOLEAN /\ since \in -1..ROLLER_CARPET_DEBOUNCE + 1
        <5>1. roller.carpet \in BOOLEAN /\ (rms = "high") \in BOOLEAN
          OBVIOUS
        <5>2. now \in BOOLEAN
          BY <5>1, Zenon
        <5>3. 0 \in -1..ROLLER_CARPET_DEBOUNCE + 1
          OBVIOUS
        <5> HIDE DEF change, now
        <5> QED
          BY <2>1, <5>2, <5>3, Zenon
      <4>3. carpet \in BOOLEAN /\ boost \in BOOLEAN
        <5> HIDE DEF now, since
        <5> QED
          BY <4>2
      <4> HIDE DEF r, now, since, carpet, boost
      <4> QED
        BY <4>1, <4>2, <4>3
    <3>2. roller' = [r EXCEPT !.last = last, !.start = start, !.fault = stalled,
                              !.enabled = ~stalled, !.driven = @ /\ ~stalled]
      BY <1>5, <2>3, <3>1 DEF Motor!ROLLER_Update, Motor!Stall
    <3>3. /\ last \in 0..RollerRelease + 1 /\ start \in -1..ROLLER_STALL_TIME + 1
          /\ stalled \in BOOLEAN /\ (stalled <=> start > ROLLER_STALL_TIME)
      <4> HIDE DEF idle, on, age
      <4> QED
        BY <2>1
    <3>5. /\ roller' \in RollerRecord
          /\ roller'.start = start /\ roller'.fault = stalled /\ roller'.last = last
          /\ (stalled => ~roller'.driven)
      <4> PICK l \in 0..RollerRelease + 1, s \in -1..ROLLER_STALL_TIME + 1, f \in BOOLEAN :
               l = last /\ s = start /\ f = stalled
        BY <3>3
      <4>0. r.driven \in BOOLEAN
        BY <3>1
      <4>1. PICK e \in BOOLEAN, d \in BOOLEAN : e = ~f /\ d = (r.driven /\ ~f)
        BY <4>0
      <4>2. roller' = [[[[[r EXCEPT !.last = l] EXCEPT !.start = s] EXCEPT !.fault = f]
                     EXCEPT !.enabled = e] EXCEPT !.driven = d]
        BY <3>2, <4>1
      <4>3. f => ~d
        BY <4>1
      <4> HIDE DEF r, last, start, stalled
      <4>5. r \in RollerRecord
        BY <3>1
      <4>4. /\ roller' \in RollerRecord /\ roller'.start = s /\ roller'.fault = f
            /\ roller'.last = l /\ roller'.driven = d
        <5>1. roller' = [enabled |-> e, fault |-> f, driven |-> d, boost |-> r.boost,
                         carpet |-> r.carpet, prev |-> r.prev, change |-> r.change,
                         start |-> s, last |-> l]
          BY <4>2, <4>5
        <5>2. /\ r.boost \in BOOLEAN /\ r.carpet \in BOOLEAN /\ r.prev \in BOOLEAN
              /\ r.change \in -1..ROLLER_CARPET_DEBOUNCE + 1
          BY <4>5
        <5> QED
          BY <5>1, <5>2
      <4> QED
        BY <4>3, <4>4
    <3>4. /\ stalled => roller_stuck' = -1
          /\ load = "blocked" /\ ~stalled => roller_stuck' = stuck
          /\ load # "blocked" /\ ~stalled =>
                roller_stuck' = IF last > RollerRelease THEN -1 ELSE longer
      <4>1. roller_stuck' =
              CASE roller'.fault -> -1
                [] load = "blocked" /\ ~roller'.fault -> stuck
                [] load # "blocked" /\ ~roller'.fault ->
                     IF roller'.last > RollerRelease THEN -1 ELSE longer
        BY <1>5, <2>3 DEF Motor!ROLLER_Update
      <4> HIDE DEF stuck, longer, stalled, last
      <4> QED
        BY <3>5, <4>1, <3>3
    <3>6. /\ roller_stuck # -1 => IF old = -1
                                  THEN roller_stuck <= roller.last /\ roller_stuck <= RollerRelease
                                  ELSE roller_stuck <= old + RollerRelease + MotorGap
          /\ MotorGap \in Nat
      OBVIOUS
    <3>7. /\ load = "blocked" => start = on /\ last = 0
          /\ load # "blocked" => last = idle
          /\ load # "blocked" /\ idle > RollerRelease => start = -1
          /\ load # "blocked" /\ ~(idle > RollerRelease) => start = age
      <4> HIDE DEF idle, on, age
      <4> QED
        OBVIOUS
    <3> HIDE DEF r, last, start, stalled, on, age, change, idle, stuck, longer, old
    <3>8. CASE stalled
      BY <2>0, <3>3, <3>4, <3>5, <3>8
    <3>9. CASE load = "blocked" /\ ~stalled
      <4>1. /\ stuck <= Motor!RollerLimit
            /\ IF start = -1 THEN stuck = 0 ELSE stuck <= start + RollerRelease + MotorGap
        BY <1>5, <2>0, <2>1, <3>3, <3>6, <3>7, <3>9
      <4> QED
        BY <2>0, <2>1, <3>3, <3>4, <3>5, <3>7, <3>9, <4>1
    <3>10. CASE load # "blocked" /\ ~stalled /\ last > RollerRelease
      BY <2>0, <3>3, <3>4, <3>5, <3>10
    <3>11. CASE load # "blocked" /\ ~stalled /\ ~(last > RollerRelease)
      <4>1. /\ longer <= Motor!RollerLimit
            /\ longer # -1 => IF start = -1 THEN longer <= last /\ longer <= RollerRelease
                              ELSE longer <= start + RollerRelease + MotorGap
        BY <2>0, <2>1, <3>3, <3>6, <3>7, <3>11
      <4> QED
        BY <2>0, <2>1, <3>3, <3>4, <3>5, <3>7, <3>11, <4>1
    <3> QED
      BY <3>8, <3>9, <3>10, <3>11
  <2> QED
    BY <2>2, <2>3
<1>6. CASE UNCHANGED <<roller, roller_stuck>>
  BY <1>6
<1> QED
  BY <1>1, <1>2, <1>3, <1>4, <1>5, <1>6 DEF Motor!RollerNext

-----------------------------------------------------------------------------
(* vacuum_fan.c.                                                           *)
FanRecord == [enabled : BOOLEAN, state : {"IDLE", "SOFTSTART", "RUN"}, speed_ref : 0..FanLevels,
              target : 0..FanLevels, driven : BOOLEAN, baseline : {"none", "set", "zero"},
              started : 0..BaselineTime + 1, full : BOOLEAN,
              full_start : -1..DUST_FULL_DEBOUNCE + 1]

(* The soft start aims at the default speed, and ends with 90 % of it.     *)
FanInv ==
  /\ fan \in FanRecord /\ risen \in -1..DUST_FULL_DEBOUNCE + 1
  /\ fan.state # "IDLE" => fan.enabled
  /\ fan.state = "SOFTSTART" => fan.target = FanDefault
  /\ fan.state = "RUN" => fan.speed_ref >= FanMin

LEMMA FanStarts == ASSUME Motor!MotorsAssumption, Motor!FanInit PROVE FanInv
  BY MotorNumbers DEF Motor!FanInit, FanInv, FanRecord, Motor!NotRunning

LEMMA FanSwitches ==
  ASSUME Motor!MotorsAssumption, FanInv, NEW on \in BOOLEAN, Motor!FAN_SetEnabled(on) PROVE FanInv'
<1> USE MotorNumbers DEF FanInv, FanRecord
<1>1. CASE on /\ ~fan.enabled
  <2>1. fan' = [enabled |-> TRUE, state |-> "SOFTSTART", speed_ref |-> fan.speed_ref,
                target |-> FanDefault, driven |-> fan.driven, baseline |-> fan.baseline,
                started |-> 0, full |-> fan.full, full_start |-> fan.full_start]
        /\ risen' = risen
    BY <1>1 DEF Motor!FAN_SetEnabled
  <2>2. FanDefault \in 0..FanLevels
    BY DEF Motor!MotorsAssumption
  <2> QED
    BY <2>1, <2>2
<1>2. CASE ~on /\ fan.enabled
  <2>1. fan' = [enabled |-> FALSE, state |-> "IDLE", speed_ref |-> 0,
                target |-> fan.target, driven |-> FALSE, baseline |-> fan.baseline,
                started |-> fan.started, full |-> fan.full, full_start |-> fan.full_start]
        /\ risen' = -1
    BY <1>2 DEF Motor!FAN_SetEnabled, Motor!NotRunning
  <2> QED
    BY <2>1
<1>3. CASE ~(on /\ ~fan.enabled) /\ ~(~on /\ fan.enabled)
  <2>1. fan' = fan /\ (risen' = risen \/ risen' = -1)
    BY <1>3 DEF Motor!FAN_SetEnabled, Motor!NotRunning
  <2> QED
    BY <2>1
<1> QED
  BY <1>1, <1>2, <1>3

LEMMA FanTicks ==
  ASSUME Motor!MotorsAssumption, FanInv, Motor!FanTick PROVE FanInv'
<1> USE MotorNumbers DEF FanInv, FanRecord
<1> DEFINE started == Motor!Low(fan.started + 1, BaselineTime + 1)
           since == Motor!Older(fan.full_start, 1, DUST_FULL_DEBOUNCE)
           rose == Motor!Older(risen, 1, DUST_FULL_DEBOUNCE)
<1>1. started \in 0..BaselineTime + 1
  BY DEF Motor!Low
<1>2. since \in -1..DUST_FULL_DEBOUNCE + 1 /\ rose \in -1..DUST_FULL_DEBOUNCE + 1
  <2>1. fan.full_start \in -1..DUST_FULL_DEBOUNCE + 1 /\ risen \in -1..DUST_FULL_DEBOUNCE + 1
        /\ 1 \in Nat /\ DUST_FULL_DEBOUNCE \in Nat
    OBVIOUS
  <2> QED
    BY <2>1, Ages
<1>3. fan' = [enabled |-> fan.enabled, state |-> fan.state, speed_ref |-> fan.speed_ref,
              target |-> fan.target, driven |-> fan.driven, baseline |-> fan.baseline,
              started |-> started, full |-> fan.full, full_start |-> since]
      /\ risen' = rose
  BY DEF Motor!FanTick
<1> HIDE DEF started, since, rose
<1> QED
  BY <1>1, <1>2, <1>3

LEMMA FanRuns ==
  ASSUME Motor!MotorsAssumption, FanInv, fan.state = "RUN", NEW rise \in BOOLEAN,
         Motor!Run(rise, 0)
  PROVE  FanInv'
<1> USE MotorNumbers DEF FanInv, FanRecord
<1> DEFINE age == Motor!Running(fan.full_start, 0, DUST_FULL_DEBOUNCE)
           rose == Motor!Running(risen, 0, DUST_FULL_DEBOUNCE)
<1>1. PICK target \in FanMin..FanLevels :
        LET speed == Motor!High(FanMin, Motor!Ramped(fan.speed_ref, target, 1))
        IN  /\ fan' = Motor!Dust([fan EXCEPT !.target = target, !.speed_ref = speed], rise, 0)
            /\ risen' = IF rise THEN rose ELSE -1
  BY DEF Motor!Run, Motor!NotRunning
<1> DEFINE speed == Motor!High(FanMin, Motor!Ramped(fan.speed_ref, target, 1))
<1>2. speed \in FanMin..FanLevels
  BY DEF Motor!High, Motor!Low, Motor!Ramped
<1>3. age \in 0..DUST_FULL_DEBOUNCE + 1 /\ rose \in 0..DUST_FULL_DEBOUNCE + 1
  <2>1. fan.full_start \in -1..DUST_FULL_DEBOUNCE + 1 /\ risen \in -1..DUST_FULL_DEBOUNCE + 1
        /\ 0 \in Nat /\ DUST_FULL_DEBOUNCE \in Nat
    OBVIOUS
  <2> QED
    BY <2>1, Ages
<1> DEFINE f == [fan EXCEPT !.target = target, !.speed_ref = speed]
<1>4. /\ f \in FanRecord /\ f.enabled = fan.enabled /\ f.state = "RUN" /\ f.speed_ref = speed
      /\ f.baseline = fan.baseline /\ f.full = fan.full /\ f.full_start = fan.full_start
  <2>1. PICK s \in 0..FanLevels, t \in 0..FanLevels : s = speed /\ t = target
    <3> HIDE DEF speed
    <3> QED
      BY <1>2
  <2>2. f = [[fan EXCEPT !.target = t] EXCEPT !.speed_ref = s]
    BY <2>1
  <2> HIDE DEF speed, f
  <2> QED
    BY <2>1, <2>2
<1>5. fan' = Motor!Dust(f, rise, 0) /\ risen' = IF rise THEN rose ELSE -1
  BY <1>1
<1> DEFINE baseline == IF f.baseline = "none" /\ f.started > BaselineTime THEN "set"
                       ELSE f.baseline
           high == baseline = "zero" \/ (rise /\ baseline = f.baseline)
<1>6. Motor!Dust(f, rise, 0) =
        IF baseline = "none" THEN f
        ELSE [f EXCEPT !.baseline = baseline,
                       !.full_start = IF high THEN age ELSE -1,
                       !.full = high /\ (@ \/ age > DUST_FULL_DEBOUNCE)]
  <2>1. f.full_start = fan.full_start
    <3> HIDE DEF f, age
    <3> QED
      BY <1>4
  <2> QED
    BY <2>1 DEF Motor!Dust, Motor!NotRunning
<1>7. CASE baseline = "none"
  <2>1. fan' = f
    BY <1>5, <1>6, <1>7
  <2>2. risen' \in -1..DUST_FULL_DEBOUNCE + 1
    <3> HIDE DEF rose
    <3> QED
      BY <1>3, <1>5
  <2> HIDE DEF f, age, rose, speed
  <2>3. FanMin..FanLevels \subseteq 0..FanLevels
    OBVIOUS
  <2> QED
    BY <1>2, <1>4, <2>1, <2>2, <2>3
<1>8. CASE baseline # "none"
  <2> DEFINE since == IF high THEN age ELSE -1
             full == high /\ (fan.full \/ age > DUST_FULL_DEBOUNCE)
  <2>1. fan' = [enabled |-> f.enabled, state |-> f.state, speed_ref |-> f.speed_ref,
                target |-> f.target, driven |-> f.driven, baseline |-> baseline,
                started |-> f.started, full |-> full, full_start |-> since]
    <3>1. f.full = fan.full
      BY <1>4
    <3>2. fan' = [f EXCEPT !.baseline = baseline, !.full_start = since, !.full = full]
      BY <1>5, <1>6, <1>8, <3>1
    <3> HIDE DEF speed, baseline, since, full, f
    <3> QED
      BY <1>4, <3>2
  <2>2. baseline \in {"set", "zero"}
    BY <1>4, <1>8
  <2>3. high \in BOOLEAN
    <3>1. rise \in BOOLEAN
      OBVIOUS
    <3> HIDE DEF f, baseline
    <3> QED
      BY <3>1
  <2> HIDE DEF f, age, rose, speed, baseline, high
  <2>4. since \in -1..DUST_FULL_DEBOUNCE + 1 /\ full \in BOOLEAN
    BY <1>3, <2>3
  <2>5. risen' \in -1..DUST_FULL_DEBOUNCE + 1
    BY <1>3, <1>5
  <2>6. FanMin..FanLevels \subseteq 0..FanLevels
    OBVIOUS
  <2> HIDE DEF since, full
  <2> QED
    BY <1>2, <1>4, <2>1, <2>2, <2>4, <2>5, <2>6
<1> QED
  BY <1>7, <1>8

LEMMA FanSoftStarts ==
  ASSUME Motor!MotorsAssumption, FanInv, fan.state = "SOFTSTART", NEW inrush \in BOOLEAN,
         Motor!SoftStart(inrush)
  PROVE  FanInv'
<1> USE MotorNumbers DEF FanInv, FanRecord
<1>1. PICK back \in 0..1 :
        LET speed == Motor!High(0, Motor!Low(fan.speed_ref + 1, fan.target) - back)
        IN  /\ fan' = [fan EXCEPT !.speed_ref = speed,
                         !.state = IF Motor!Started(speed) THEN "RUN" ELSE @]
            /\ risen' = risen
  <2>1. PICK back \in IF inrush THEN 0..1 ELSE {0} :
          LET speed == Motor!High(0, Motor!Low(fan.speed_ref + 1, fan.target) - back)
          IN  /\ fan' = [fan EXCEPT !.speed_ref = speed,
                           !.state = IF Motor!Started(speed) THEN "RUN" ELSE @]
              /\ risen' = risen
    BY Zenon DEF Motor!SoftStart
  <2>2. back \in 0..1
    OBVIOUS
  <2> QED
    BY <2>1, <2>2, Zenon
<1> DEFINE speed == Motor!High(0, Motor!Low(fan.speed_ref + 1, fan.target) - back)
           state == IF Motor!Started(speed) THEN "RUN" ELSE "SOFTSTART"
<1>2. speed \in 0..FanLevels
  BY DEF Motor!High, Motor!Low
<1>3. Motor!Started(speed) => speed >= FanMin
  <2>1. 10 * FanMin <= 9 * FanDefault /\ fan.target = FanDefault
    BY DEF Motor!MotorsAssumption
  <2> HIDE DEF speed
  <2> QED
    BY <1>2, <2>1 DEF Motor!Started
<1>4. fan' = [enabled |-> fan.enabled, state |-> state, speed_ref |-> speed,
              target |-> fan.target, driven |-> fan.driven, baseline |-> fan.baseline,
              started |-> fan.started, full |-> fan.full, full_start |-> fan.full_start]
      /\ risen' = risen
  <2>1. fan' = [fan EXCEPT !.speed_ref = speed, !.state = state] /\ risen' = risen
    BY <1>1
  <2> HIDE DEF speed, state
  <2> QED
    BY <2>1
<1>5. state \in {"SOFTSTART", "RUN"} /\ (state = "RUN" => speed >= FanMin)
  BY <1>3
<1> HIDE DEF speed, state
<1> QED
  BY <1>2, <1>4, <1>5

LEMMA FanGoesOn ==
  ASSUME Motor!MotorsAssumption, FanInv, [Motor!FanNext]_<<fan, risen>> PROVE FanInv'
<1>1. ASSUME NEW on \in BOOLEAN, Motor!FAN_SetEnabled(on) PROVE FanInv'
  BY <1>1, FanSwitches
<1>2. CASE Motor!FAN_SetIqRef
  BY <1>2 DEF Motor!FAN_SetIqRef, FanInv, FanRecord
<1>3. CASE Motor!FAN_ClearDustBinFull
  <2> DEFINE baseline == IF fan.baseline = "none" THEN "none" ELSE "zero"
  <2>1. fan' = [enabled |-> fan.enabled, state |-> fan.state, speed_ref |-> fan.speed_ref,
                target |-> fan.target, driven |-> fan.driven, baseline |-> baseline,
                started |-> fan.started, full |-> FALSE, full_start |-> -1]
        /\ risen' = risen
    BY <1>3 DEF Motor!FAN_ClearDustBinFull, FanInv, FanRecord, Motor!NotRunning
  <2> QED
    BY <2>1, MotorNumbers DEF FanInv, FanRecord
<1>4. CASE Motor!FAN_ClearFault
  <2>1. fan' = [enabled |-> fan.enabled, state |-> "IDLE", speed_ref |-> fan.speed_ref,
                target |-> fan.target, driven |-> fan.driven, baseline |-> fan.baseline,
                started |-> fan.started, full |-> fan.full, full_start |-> fan.full_start]
        /\ risen' = -1
    BY <1>4 DEF Motor!FAN_ClearFault, FanInv, FanRecord, Motor!NotRunning
  <2> QED
    BY <2>1, MotorNumbers DEF FanInv, FanRecord
<1>5. CASE Motor!FanTick
  BY <1>5, FanTicks
<1>6. ASSUME NEW inrush \in BOOLEAN, NEW rise \in BOOLEAN, Motor!FAN_Update(inrush, rise)
      PROVE  FanInv'
  <2>1. fan.state \in {"IDLE", "SOFTSTART", "RUN"}
    BY DEF FanInv, FanRecord
  <2>2. CASE fan.state = "IDLE"
    <3>1. fan' = [enabled |-> fan.enabled, state |-> fan.state, speed_ref |-> 0,
                  target |-> fan.target, driven |-> FALSE, baseline |-> fan.baseline,
                  started |-> fan.started, full |-> fan.full, full_start |-> fan.full_start]
          /\ risen' = risen
      BY <1>6, <2>2 DEF Motor!FAN_Update, FanInv, FanRecord
    <3> QED
      BY <2>2, <3>1, MotorNumbers DEF FanInv, FanRecord
  <2>3. CASE fan.state = "SOFTSTART"
    BY <1>6, <2>3, FanSoftStarts DEF Motor!FAN_Update
  <2>4. CASE fan.state = "RUN"
    BY <1>6, <2>4, FanRuns DEF Motor!FAN_Update
  <2> QED
    BY <2>1, <2>2, <2>3, <2>4
<1>7. CASE UNCHANGED <<fan, risen>>
  BY <1>7 DEF FanInv
<1> QED
  BY <1>1, <1>2, <1>3, <1>4, <1>5, <1>6, <1>7 DEF Motor!FanNext

-----------------------------------------------------------------------------
(* multi_motor.c.                                                          *)
MotorRecord == [enabled : BOOLEAN, fault : BOOLEAN, speed_mode : BOOLEAN, iq_ref : Int,
                allocated : Nat]

(* AllocationHolds is kept by every call, because any other call than an   *)
(* allocation ends the agreement; an allocation bounds the reference of    *)
(* each enabled motor by its share of Left, and the shares add up to what  *)
(* Left has lost, which began with the budget.                             *)
CoordInv ==
  /\ mot \in [Motor!Index -> MotorRecord] /\ active \in BOOLEAN /\ agreed \in BOOLEAN
  /\ \A m \in Motor!Index : mot[m].allocated <= IqMax[m]
  /\ agreed => \A m \in Motor!Index :
       mot[m].enabled /\ mot[m].fault => mot[m].iq_ref = 0
  /\ agreed => Motor!Drawn(mot) <= Budget

LEMMA Limits ==
  ASSUME Motor!MotorsAssumption
  PROVE  /\ \A m \in Motor!Index : IqMax[m] \in Nat
         /\ Budget \in Nat /\ Iq \subseteq Int /\ NUM_MOTORS \in Nat
  BY DEF Motor!MotorsAssumption, Motor!Index

LEMMA RequiredType ==
  ASSUME Motor!MotorsAssumption, CoordInv, NEW m \in Motor!Index
  PROVE  Motor!Required(m) \in 0..IqMax[m] /\ (mot[m].enabled /\ mot[m].fault => Motor!Required(m) = 0)
<1>1. mot[m].iq_ref \in Int /\ IqMax[m] \in Nat
  BY Limits DEF CoordInv, MotorRecord
<1> QED
  BY <1>1 DEF Motor!Required, Motor!Served, Motor!Low, Motor!Abs

(* The definition of Left, which is recursive, has a meaning: a share for  *)
(* the first n motors exists for every n.                                  *)
LEMMA LeftDefined ==
  ASSUME Motor!MotorsAssumption
  PROVE  Motor!Left = [m \in 0..NUM_MOTORS |->
           IF m = 0 THEN Budget
           ELSE Motor!Left[m - 1] - Motor!Low(Motor!Required(m), Motor!Left[m - 1])]
<1> DEFINE Step(f, m) == IF m = 0 THEN Budget
                         ELSE f[m - 1] - Motor!Low(Motor!Required(m), f[m - 1])
           S == {n \in Nat : \E f : f = [m \in 0..n |-> Step(f, m)]}
<1>1. 0 \in S
  <2> DEFINE g == [m \in 0..0 |-> Budget]
  <2>1. \A m \in 0..0 : m = 0
    OBVIOUS
  <2>2. g = [m \in 0..0 |-> Step(g, m)]
    BY <2>1
  <2> HIDE DEF g, Step
  <2> QED
    BY <2>2
<1>2. ASSUME NEW n \in Nat, n \in S PROVE n + 1 \in S
  <2> HIDE DEF Step
  <2>1. PICK f : f = [m \in 0..n |-> Step(f, m)]
    BY <1>2
  <2> DEFINE g == [m \in 0..(n + 1) |-> IF m \in 0..n THEN f[m] ELSE Step(f, m)]
  <2>2. ASSUME NEW m \in 0..(n + 1) PROVE g[m] = Step(g, m)
    <3>1. Step(g, m) = Step(f, m)
      <4>1. m # 0 => m - 1 \in 0..n
        OBVIOUS
      <4>2. m # 0 => g[m - 1] = f[m - 1]
        BY <4>1
      <4> HIDE DEF g
      <4> QED
        BY <4>2 DEF Step
    <3>2. m \in 0..n => f[m] = Step(f, m)
      BY <2>1
    <3> QED
      BY <3>1, <3>2
  <2>3. g = [m \in 0..(n + 1) |-> Step(g, m)]
    <3>1. g = [m \in 0..(n + 1) |-> g[m]]
      OBVIOUS
    <3> HIDE DEF g
    <3> QED
      BY <2>2, <3>1, Zenon
  <2> HIDE DEF g
  <2> QED
    BY <2>3
<1>3. NUM_MOTORS \in S
  <2> HIDE DEF S
  <2> QED
    BY <1>1, <1>2, SetInduction, Limits
<1>4. PICK f : f = [m \in 0..NUM_MOTORS |-> Step(f, m)]
  BY <1>3
<1> QED
  BY <1>4, Zenon DEF Motor!Left

LEMMA LeftType ==
  ASSUME Motor!MotorsAssumption, CoordInv
  PROVE  /\ \A m \in 0..NUM_MOTORS : Motor!Left[m] \in Nat
         /\ Motor!Left[0] = Budget
         /\ \A m \in Motor!Index :
              Motor!Left[m - 1] - Motor!Left[m] = Motor!Low(Motor!Required(m), Motor!Left[m - 1])
<1> DEFINE S == {n \in Nat : n <= NUM_MOTORS => Motor!Left[n] \in Nat}
<1>0. /\ Motor!Left[0] = Budget
      /\ \A m \in Motor!Index : /\ m - 1 \in 0..NUM_MOTORS
           /\ Motor!Left[m] = Motor!Left[m - 1] - Motor!Low(Motor!Required(m), Motor!Left[m - 1])
  BY LeftDefined, Limits DEF Motor!Index
<1>1. 0 \in S
  BY <1>0, Limits
<1>2. ASSUME NEW n \in Nat, n \in S PROVE n + 1 \in S
  <2> SUFFICES ASSUME n + 1 <= NUM_MOTORS PROVE Motor!Left[n + 1] \in Nat
    OBVIOUS
  <2>1. n + 1 \in Motor!Index /\ Motor!Left[n] \in Nat /\ (n + 1) - 1 = n
    BY <1>2, Limits DEF Motor!Index
  <2>2. Motor!Required(n + 1) \in Nat
    BY <2>1, RequiredType, Limits
  <2>3. Motor!Left[n + 1] = Motor!Left[n] - Motor!Low(Motor!Required(n + 1), Motor!Left[n])
    BY <1>0, <2>1
  <2> QED
    BY <2>1, <2>2, <2>3 DEF Motor!Low
<1>3. Nat \subseteq S
  <2> HIDE DEF S
  <2> QED
    BY <1>1, <1>2, SetInduction
<1>4. \A m \in 0..NUM_MOTORS : Motor!Left[m] \in Nat
  BY <1>3, Limits
<1>5. ASSUME NEW m \in Motor!Index
      PROVE Motor!Left[m - 1] - Motor!Left[m] = Motor!Low(Motor!Required(m), Motor!Left[m - 1])
  <2>1. Motor!Left[m - 1] \in Nat /\ Motor!Required(m) \in Nat
    BY <1>0, <1>4, RequiredType, Limits
  <2> QED
    BY <1>0, <2>1 DEF Motor!Low
<1> QED
  BY <1>0, <1>4, <1>5

MotorRecords == [Motor!Index -> MotorRecord]

(* The sum of Drawn has a meaning too, and each motor adds its own.        *)
LEMMA DrawnDefined ==
  ASSUME Motor!MotorsAssumption, NEW q
  PROVE  \E f : /\ Motor!Drawn(q) = f[NUM_MOTORS] /\ f[0] = 0
               /\ \A m \in Motor!Index :
                    f[m] = f[m - 1] + (IF q[m].enabled THEN Motor!Abs(q[m].iq_ref) ELSE 0)
<1> DEFINE Step(f, m) == IF m = 0 THEN 0
                         ELSE f[m - 1] + (IF q[m].enabled THEN Motor!Abs(q[m].iq_ref) ELSE 0)
           Sum[m \in 0..NUM_MOTORS] ==
             IF m = 0 THEN 0
             ELSE Sum[m - 1] + (IF q[m].enabled THEN Motor!Abs(q[m].iq_ref) ELSE 0)
           S == {n \in Nat : \E f : f = [m \in 0..n |-> Step(f, m)]}
<1>1. 0 \in S
  <2> DEFINE g == [m \in 0..0 |-> 0]
  <2>1. \A m \in 0..0 : m = 0
    OBVIOUS
  <2>2. g = [m \in 0..0 |-> Step(g, m)]
    BY <2>1
  <2> HIDE DEF g, Step
  <2> QED
    BY <2>2
<1>2. ASSUME NEW n \in Nat, n \in S PROVE n + 1 \in S
  <2> HIDE DEF Step
  <2>1. PICK f : f = [m \in 0..n |-> Step(f, m)]
    BY <1>2
  <2> DEFINE g == [m \in 0..(n + 1) |-> IF m \in 0..n THEN f[m] ELSE Step(f, m)]
  <2>2. ASSUME NEW m \in 0..(n + 1) PROVE g[m] = Step(g, m)
    <3>1. Step(g, m) = Step(f, m)
      <4>1. m # 0 => m - 1 \in 0..n
        OBVIOUS
      <4>2. m # 0 => g[m - 1] = f[m - 1]
        BY <4>1
      <4> HIDE DEF g
      <4> QED
        BY <4>2 DEF Step
    <3>2. m \in 0..n => f[m] = Step(f, m)
      BY <2>1
    <3> QED
      BY <3>1, <3>2
  <2>3. g = [m \in 0..(n + 1) |-> Step(g, m)]
    <3>1. g = [m \in 0..(n + 1) |-> g[m]]
      OBVIOUS
    <3> HIDE DEF g
    <3> QED
      BY <2>2, <3>1, Zenon
  <2> HIDE DEF g
  <2> QED
    BY <2>3
<1>3. NUM_MOTORS \in S
  <2> HIDE DEF S
  <2> QED
    BY <1>1, <1>2, SetInduction, Limits
<1>4. PICK f : f = [m \in 0..NUM_MOTORS |-> Step(f, m)]
  BY <1>3
<1>5. Sum = [m \in 0..NUM_MOTORS |-> Step(Sum, m)]
  BY <1>4, Zenon
<1>6. Motor!Drawn(q) = Sum[NUM_MOTORS]
  BY Zenon DEF Motor!Drawn
<1> HIDE DEF Sum
<1>7. Sum[0] = 0
  BY <1>5, Limits
<1>8. ASSUME NEW m \in Motor!Index
      PROVE  Sum[m] = Sum[m - 1] + (IF q[m].enabled THEN Motor!Abs(q[m].iq_ref) ELSE 0)
  <2>1. m \in 0..NUM_MOTORS /\ m # 0
    BY Limits DEF Motor!Index
  <2> QED
    BY <1>5, <2>1
<1> QED
  BY <1>6, <1>7, <1>8

LEMMA DrawnFits ==
  ASSUME Motor!MotorsAssumption, NEW q \in MotorRecords, NEW L, L[0] = Budget,
         \A m \in 0..NUM_MOTORS : L[m] \in Nat,
         \A m \in Motor!Index :
           L[m] <= L[m - 1] /\ (q[m].enabled => Motor!Abs(q[m].iq_ref) <= L[m - 1] - L[m])
  PROVE  Motor!Drawn(q) <= Budget
<1>1. PICK f : /\ Motor!Drawn(q) = f[NUM_MOTORS] /\ f[0] = 0
               /\ \A m \in Motor!Index :
                    f[m] = f[m - 1] + (IF q[m].enabled THEN Motor!Abs(q[m].iq_ref) ELSE 0)
  BY DrawnDefined
<1> DEFINE S == {n \in Nat : n <= NUM_MOTORS => f[n] \in Int /\ f[n] + L[n] <= Budget}
<1>2. 0 \in S
  BY <1>1, Limits
<1>3. ASSUME NEW n \in Nat, n \in S PROVE n + 1 \in S
  <2> SUFFICES ASSUME n + 1 <= NUM_MOTORS
               PROVE  f[n + 1] \in Int /\ f[n + 1] + L[n + 1] <= Budget
    OBVIOUS
  <2>1. n + 1 \in Motor!Index /\ (n + 1) - 1 = n /\ n <= NUM_MOTORS /\ n \in 0..NUM_MOTORS
        /\ n + 1 \in 0..NUM_MOTORS
    BY Limits DEF Motor!Index
  <2>2. f[n] \in Int /\ f[n] + L[n] <= Budget
    BY <1>3, <2>1
  <2>3. f[n + 1] = f[n] + (IF q[n + 1].enabled THEN Motor!Abs(q[n + 1].iq_ref) ELSE 0)
    BY <1>1, <2>1
  <2>4. L[n] \in Nat /\ L[n + 1] \in Nat /\ L[n + 1] <= L[n]
        /\ (q[n + 1].enabled => Motor!Abs(q[n + 1].iq_ref) <= L[n] - L[n + 1])
    BY <2>1
  <2>5. Motor!Abs(q[n + 1].iq_ref) \in Int
    <3>1. q[n + 1].iq_ref \in Int
      BY <2>1 DEF MotorRecords, MotorRecord
    <3> QED
      BY ONLY <3>1 DEF Motor!Abs
  <2>6. Budget \in Nat
    BY Limits
  <2> QED
    BY ONLY <2>2, <2>3, <2>4, <2>5, <2>6
<1>4. Nat \subseteq S
  <2> HIDE DEF S
  <2> QED
    BY <1>2, <1>3, SetInduction
<1>5. NUM_MOTORS \in Nat /\ NUM_MOTORS \in 0..NUM_MOTORS /\ Budget \in Nat
  BY Limits
<1>6. f[NUM_MOTORS] \in Int /\ f[NUM_MOTORS] + L[NUM_MOTORS] <= Budget /\ L[NUM_MOTORS] \in Nat
  BY <1>4, <1>5
<1> QED
  BY ONLY <1>1, <1>5, <1>6

LEMMA CoordStarts == ASSUME Motor!MotorsAssumption, Motor!CoordInit PROVE CoordInv
<1> DEFINE zero == [enabled |-> FALSE, fault |-> FALSE, speed_mode |-> FALSE, iq_ref |-> 0,
                    allocated |-> 0]
<1>1. zero \in MotorRecord /\ zero.allocated = 0
  BY DEF MotorRecord
<1>2. mot = [m \in Motor!Index |-> zero]
  BY DEF Motor!CoordInit
<1>3. active = FALSE /\ agreed = FALSE
  BY DEF Motor!CoordInit
<1> HIDE DEF zero
<1>4. \A m \in Motor!Index : mot[m].allocated <= IqMax[m]
  BY <1>1, <1>2, Limits
<1> QED
  BY <1>1, <1>2, <1>3, <1>4 DEF CoordInv

(* A call that is no allocation only has to keep the types and the shares. *)
Referred ==
  /\ mot' \in [Motor!Index -> MotorRecord]
  /\ \A m \in Motor!Index : mot'[m].allocated = mot[m].allocated

SameShares(q, r) == \A m \in Motor!Index : r[m].allocated = q[m].allocated

LEMMA OneField ==
  ASSUME NEW q \in MotorRecords, NEW m \in Motor!Index, NEW b \in BOOLEAN, NEW i \in Int
  PROVE  /\ [q EXCEPT ![m].enabled = b] \in MotorRecords
         /\ SameShares(q, [q EXCEPT ![m].enabled = b])
         /\ [q EXCEPT ![m].fault = b] \in MotorRecords
         /\ SameShares(q, [q EXCEPT ![m].fault = b])
         /\ [q EXCEPT ![m].speed_mode = b] \in MotorRecords
         /\ SameShares(q, [q EXCEPT ![m].speed_mode = b])
         /\ [q EXCEPT ![m].iq_ref = i] \in MotorRecords
         /\ SameShares(q, [q EXCEPT ![m].iq_ref = i])
<1>1. q[m] \in MotorRecord
  BY DEF MotorRecords
<1>2. /\ [q[m] EXCEPT !.enabled = b] \in MotorRecord
      /\ [q[m] EXCEPT !.enabled = b].allocated = q[m].allocated
  BY <1>1 DEF MotorRecord
<1>3. /\ [q[m] EXCEPT !.fault = b] \in MotorRecord
      /\ [q[m] EXCEPT !.fault = b].allocated = q[m].allocated
  BY <1>1 DEF MotorRecord
<1>4. /\ [q[m] EXCEPT !.speed_mode = b] \in MotorRecord
      /\ [q[m] EXCEPT !.speed_mode = b].allocated = q[m].allocated
  BY <1>1 DEF MotorRecord
<1>5. /\ [q[m] EXCEPT !.iq_ref = i] \in MotorRecord
      /\ [q[m] EXCEPT !.iq_ref = i].allocated = q[m].allocated
  BY <1>1 DEF MotorRecord
<1>6. ASSUME NEW r \in MotorRecord, r.allocated = q[m].allocated
      PROVE  [q EXCEPT ![m] = r] \in MotorRecords /\ SameShares(q, [q EXCEPT ![m] = r])
  BY <1>6 DEF MotorRecords, SameShares
<1> QED
  BY <1>2, <1>3, <1>4, <1>5, <1>6

LEMMA CallsRefer ==
  ASSUME Motor!MotorsAssumption, CoordInv,
         \/ \E m \in Motor!Index :
              \/ Motor!MULTI_EnableMotor(m) \/ Motor!MULTI_DisableMotor(m)
              \/ Motor!MULTI_SetSpeedRef(m) \/ Motor!MULTI_SetTorqueRef(m)
              \/ Motor!MULTI_SetFault(m)
         \/ Motor!MULTI_EmergencyStop \/ Motor!MULTI_EmergencyResume
         \/ Motor!MULTI_SpeedControlLoop
  PROVE  Referred
<1>0. mot \in MotorRecords /\ TRUE \in BOOLEAN /\ FALSE \in BOOLEAN /\ 0 \in Int
  BY DEF CoordInv, MotorRecords
<1>1. ASSUME NEW m \in Motor!Index,
             \/ Motor!MULTI_EnableMotor(m) \/ Motor!MULTI_DisableMotor(m)
             \/ Motor!MULTI_SetSpeedRef(m) \/ Motor!MULTI_SetTorqueRef(m)
             \/ Motor!MULTI_SetFault(m)
      PROVE  Referred
  <2>1. ASSUME NEW b \in BOOLEAN, NEW i \in Int, NEW q \in MotorRecords, SameShares(mot, q),
               mot' = [q EXCEPT ![m].iq_ref = i]
        PROVE  Referred
    <3>1. mot' \in MotorRecords /\ SameShares(q, mot')
      BY <2>1, OneField
    <3> QED
      BY <2>1, <3>1 DEF Referred, MotorRecords, SameShares
  <2>2. CASE Motor!MULTI_EnableMotor(m)
    <3>1. mot' = [mot EXCEPT ![m].enabled = TRUE]
      BY <2>2 DEF Motor!MULTI_EnableMotor
    <3>2. mot' \in MotorRecords /\ SameShares(mot, mot')
      BY ONLY <1>0, <3>1, OneField, m \in Motor!Index
    <3> QED
      BY <3>2 DEF Referred, MotorRecords, SameShares
  <2>3. CASE Motor!MULTI_SetSpeedRef(m)
    <3>1. mot' = [mot EXCEPT ![m].speed_mode = TRUE]
      BY <2>3 DEF Motor!MULTI_SetSpeedRef
    <3>2. mot' \in MotorRecords /\ SameShares(mot, mot')
      BY ONLY <1>0, <3>1, OneField, m \in Motor!Index
    <3> QED
      BY <3>2 DEF Referred, MotorRecords, SameShares
  <2>4. CASE Motor!MULTI_DisableMotor(m)
    <3>1. PICK q : q = [mot EXCEPT ![m].enabled = FALSE]
      OBVIOUS
    <3>2. q \in MotorRecords /\ SameShares(mot, q)
      BY ONLY <1>0, <3>1, OneField, m \in Motor!Index
    <3>3. mot' = [q EXCEPT ![m].iq_ref = 0]
      BY <2>4, <3>1, Zenon DEF Motor!MULTI_DisableMotor
    <3>4. 0 \in Int /\ TRUE \in BOOLEAN
      OBVIOUS
    <3> QED
      BY ONLY <2>1, <3>2, <3>3, <3>4
  <2>5. CASE Motor!MULTI_SetTorqueRef(m)
    <3>1. PICK iq \in Iq : mot' = [mot EXCEPT ![m].speed_mode = FALSE, ![m].iq_ref = iq]
      BY <2>5 DEF Motor!MULTI_SetTorqueRef
    <3>2. PICK q : q = [mot EXCEPT ![m].speed_mode = FALSE]
      OBVIOUS
    <3>3. q \in MotorRecords /\ SameShares(mot, q) /\ iq \in Int
      BY ONLY <1>0, <3>2, OneField, Limits, m \in Motor!Index, iq \in Iq, Motor!MotorsAssumption
    <3>4. mot' = [q EXCEPT ![m].iq_ref = iq]
      BY <3>1, <3>2, Zenon
    <3> QED
      BY <2>1, <3>3, <3>4
  <2>6. CASE Motor!MULTI_SetFault(m)
    <3>1. PICK f \in BOOLEAN :
            mot' = [mot EXCEPT ![m].fault = f, ![m].iq_ref = IF f THEN 0 ELSE @]
      BY <2>6 DEF Motor!MULTI_SetFault
    <3>2. PICK q : q = [mot EXCEPT ![m].fault = f]
      OBVIOUS
    <3>3. q \in MotorRecords /\ SameShares(mot, q)
      BY ONLY <1>0, <3>2, OneField, m \in Motor!Index, f \in BOOLEAN
    <3>4. PICK iq \in Int : iq = IF f THEN 0 ELSE q[m].iq_ref
      BY <3>3 DEF MotorRecords, MotorRecord
    <3>5. mot' = [q EXCEPT ![m].iq_ref = iq]
      BY <3>1, <3>2, <3>4, Zenon
    <3> QED
      BY <2>1, <3>3, <3>5
  <2> QED
    BY <1>1, <2>2, <2>3, <2>4, <2>5, <2>6
<1>2. CASE Motor!MULTI_EmergencyStop
  BY <1>2 DEF Motor!MULTI_EmergencyStop, CoordInv, MotorRecord, Referred
<1>3. CASE Motor!MULTI_EmergencyResume
  BY <1>3 DEF Motor!MULTI_EmergencyResume, CoordInv, MotorRecord, Referred
<1>4. CASE Motor!MULTI_SpeedControlLoop
  <2>1. PICK pid \in [Motor!Index -> {-1, 0, 1}] :
          mot' = [m \in Motor!Index |->
                    IF mot[m].speed_mode /\ mot[m].enabled
                    THEN [mot[m] EXCEPT !.iq_ref = pid[m] * IqMax[m]] ELSE mot[m]]
    BY <1>4 DEF Motor!MULTI_SpeedControlLoop
  <2>2. ASSUME NEW m \in Motor!Index PROVE pid[m] * IqMax[m] \in Int
    BY Limits
  <2>3. ASSUME NEW m \in Motor!Index
        PROVE  mot'[m] \in MotorRecord /\ mot'[m].allocated = mot[m].allocated
    <3>1. PICK iq \in Int : iq = pid[m] * IqMax[m]
      BY <2>2
    <3>2. mot'[m] = IF mot[m].speed_mode /\ mot[m].enabled THEN [mot[m] EXCEPT !.iq_ref = iq]
                    ELSE mot[m]
      BY <2>1, <3>1
    <3>3. mot[m] \in MotorRecord
      BY DEF CoordInv
    <3> QED
      BY ONLY <3>2, <3>3, iq \in Int DEF MotorRecord
  <2>4. mot' = [m \in Motor!Index |-> mot'[m]]
    BY <2>1
  <2> QED
    BY <2>3, <2>4 DEF Referred
<1> QED
  BY <1>1, <1>2, <1>3, <1>4

LEMMA Allocates ==
  ASSUME Motor!MotorsAssumption, CoordInv, active,
         mot' = [m \in Motor!Index |->
                  [mot[m] EXCEPT !.allocated = Motor!Left[m - 1] - Motor!Left[m],
                     !.iq_ref = IF mot[m].enabled
                                THEN Motor!Clamp(@, Motor!Left[m - 1] - Motor!Left[m]) ELSE @]],
         agreed' \in BOOLEAN, active' = active
  PROVE  CoordInv'
<1>1. ASSUME NEW m \in Motor!Index
      PROVE  /\ mot'[m] \in MotorRecord /\ mot'[m].allocated <= IqMax[m]
             /\ mot'[m].enabled =>
                  /\ Motor!Abs(mot'[m].iq_ref) <= Motor!Left[m - 1] - Motor!Left[m]
                  /\ mot'[m].fault => mot'[m].iq_ref = 0
             /\ Motor!Left[m] <= Motor!Left[m - 1]
  <2> DEFINE granted == Motor!Left[m - 1] - Motor!Left[m]
  <2>1. granted \in 0..IqMax[m] /\ (mot[m].enabled /\ mot[m].fault => granted = 0)
    <3>1. granted = Motor!Low(Motor!Required(m), Motor!Left[m - 1])
      BY LeftType
    <3>2. Motor!Left[m - 1] \in Nat
      <4>1. m - 1 \in 0..NUM_MOTORS
        BY ONLY Limits, Motor!MotorsAssumption, m \in Motor!Index DEF Motor!Index
      <4> QED
        BY <4>1, LeftType
    <3>3. IqMax[m] \in Nat
      BY Limits
    <3>4. Motor!Required(m) \in 0..IqMax[m]
          /\ (mot[m].enabled /\ mot[m].fault => Motor!Required(m) = 0)
      BY RequiredType
    <3> HIDE DEF granted
    <3> QED
      BY ONLY <3>1, <3>2, <3>3, <3>4 DEF Motor!Low
  <2>2. mot[m] \in MotorRecord
    BY DEF CoordInv
  <2>3. PICK g \in Nat : g = granted /\ g <= IqMax[m]
    <3>1. IqMax[m] \in Nat
      BY Limits
    <3> HIDE DEF granted
    <3> QED
      BY ONLY <2>1, <3>1
  <2>4. PICK iq \in Int : iq = IF mot[m].enabled THEN Motor!Clamp(mot[m].iq_ref, g) ELSE mot[m].iq_ref
    <3>1. mot[m].iq_ref \in Int
      BY <2>2 DEF MotorRecord
    <3> QED
      BY ONLY <3>1, g \in Nat DEF Motor!Clamp, Motor!High, Motor!Low
  <2>5. mot[m].enabled => Motor!Abs(iq) <= g
    <3>1. mot[m].iq_ref \in Int
      BY <2>2 DEF MotorRecord
    <3> QED
      BY ONLY <2>4, <3>1, g \in Nat DEF Motor!Clamp, Motor!High, Motor!Low, Motor!Abs
  <2>6. mot'[m] = [[mot[m] EXCEPT !.allocated = g] EXCEPT !.iq_ref = iq]
    BY <2>3, <2>4
  <2>7. mot'[m] \in MotorRecord /\ mot'[m].allocated = g /\ mot'[m].iq_ref = iq
        /\ mot'[m].enabled = mot[m].enabled /\ mot'[m].fault = mot[m].fault
    BY ONLY <2>2, <2>6, g \in Nat, iq \in Int DEF MotorRecord
  <2>8. mot[m].enabled /\ mot[m].fault => iq = 0
    <3>1. mot[m].enabled /\ mot[m].fault => g = 0
      <4> HIDE DEF granted
      <4> QED
        BY ONLY <2>1, <2>3
    <3> QED
      BY ONLY <2>5, <3>1, iq \in Int DEF Motor!Abs
  <2>9. Motor!Left[m] <= Motor!Left[m - 1]
    <3>1. m \in 0..NUM_MOTORS /\ m - 1 \in 0..NUM_MOTORS
      BY ONLY Limits, Motor!MotorsAssumption, m \in Motor!Index DEF Motor!Index
    <3>2. Motor!Left[m] \in Nat /\ Motor!Left[m - 1] \in Nat
      BY <3>1, LeftType
    <3> QED
      BY ONLY <2>1, <3>2
  <2> QED
    BY <2>3, <2>5, <2>7, <2>8, <2>9
<1>2. mot' \in [Motor!Index -> MotorRecord]
  <2>1. mot' = [m \in Motor!Index |-> mot'[m]]
    OBVIOUS
  <2> QED
    BY <1>1, <2>1
<1>3. Motor!Drawn(mot') <= Budget
  <2>1. PICK L : L = Motor!Left
    OBVIOUS
  <2>2. mot' \in MotorRecords
    BY <1>2 DEF MotorRecords
  <2>3. /\ L[0] = Budget /\ \A m \in 0..NUM_MOTORS : L[m] \in Nat
    BY <2>1, LeftType
  <2>4. \A m \in Motor!Index :
          L[m] <= L[m - 1] /\ (mot'[m].enabled => Motor!Abs(mot'[m].iq_ref) <= L[m - 1] - L[m])
    BY <1>1, <2>1
  <2> QED
    BY ONLY <2>2, <2>3, <2>4, DrawnFits, Motor!MotorsAssumption
<1>4. Motor!Drawn(mot)' <= Budget
  BY <1>3, Zenon DEF Motor!Drawn, Motor!Abs
<1> QED
  BY <1>1, <1>2, <1>4 DEF CoordInv

LEMMA CoordGoesOn ==
  ASSUME Motor!MotorsAssumption, CoordInv, [Motor!CoordNext]_<<mot, active, agreed>>
  PROVE  CoordInv'
<1>1. CASE Motor!MULTI_AllocateTorque
  <2>1. active' = active /\ agreed' = active /\ active \in BOOLEAN
    BY <1>1 DEF Motor!MULTI_AllocateTorque, CoordInv
  <2>2. CASE ~active
    BY <1>1, <2>1, <2>2 DEF Motor!MULTI_AllocateTorque, CoordInv
  <2>3. CASE active
    BY <1>1, <2>1, <2>3, Allocates DEF Motor!MULTI_AllocateTorque
  <2> QED
    BY <2>2, <2>3
<1>2. CASE agreed' = FALSE /\ mot' = mot /\ active' \in BOOLEAN
  BY <1>2 DEF CoordInv
<1>3. CASE agreed' = FALSE /\ active' = active /\ Referred
  BY <1>3 DEF CoordInv, Referred
<1>4. CASE UNCHANGED <<mot, active, agreed>>
  BY <1>4 DEF CoordInv
<1> QED
  BY <1>1, <1>2, <1>3, <1>4, CallsRefer DEF Motor!CoordNext

LEMMA CoordHolds == ASSUME Motor!MotorsAssumption, CoordInv PROVE Motor!AllocationHolds
  BY DEF CoordInv, Motor!AllocationHolds

-----------------------------------------------------------------------------
(* safety_redundant.c and safety_fault.c.                                  *)
RedRecord == [flagged : SUBSET Pair, age : [Pair -> 0..Check!Horizon], degraded_mode : BOOLEAN,
              safe_stop : BOOLEAN, degraded_age : 0..Check!Horizon, recovery : -1..Check!Horizon]
RedInv == red \in RedRecord /\ disagreed \in -1..Check!Horizon

LEMMA HorizonFar ==
  ASSUME Check!ChecksAssumption
  PROVE  /\ Check!Horizon \in Nat /\ RedGap \in Nat
         /\ \A age \in 0..Check!Horizon, gap \in Nat : Check!Older(age, gap) \in 0..Check!Horizon
<1>1. /\ DISAGREE_DEBOUNCE \in Nat /\ DEGRADED_DEBOUNCE \in Nat /\ SAFESTOP_DEBOUNCE \in Nat
      /\ RED_RECOVERY \in Nat /\ RedGap \in Nat
  BY DEF Check!ChecksAssumption
<1>2. Check!Horizon \in Nat
  BY <1>1 DEF Check!Horizon
<1> QED
  BY <1>1, <1>2 DEF Check!Older

LEMMA RedStarts == ASSUME Check!ChecksAssumption, Check!RED_Init PROVE RedInv
  BY HorizonFar DEF Check!RED_Init, Check!Unset, RedInv, RedRecord

LEMMA DecidedType ==
  ASSUME Check!ChecksAssumption, NEW r \in RedRecord, NEW gap \in Nat, NEW flags
  PROVE  Check!Decided(Check!Later(r, gap), flags) \in RedRecord
<1>0. Check!Horizon \in Nat
  BY HorizonFar
<1>1. Check!Later(r, gap) \in RedRecord
  <2>1. PICK d \in 0..Check!Horizon : d = Check!Older(r.degraded_age, gap)
    BY HorizonFar DEF RedRecord
  <2>2. PICK e \in -1..Check!Horizon : e = IF r.recovery = -1 THEN -1 ELSE Check!Older(r.recovery, gap)
    <3>1. CASE r.recovery = -1
      BY <1>0, <3>1
    <3>2. CASE r.recovery # -1
      <4>1. r.recovery \in 0..Check!Horizon
        BY <1>0, <3>2 DEF RedRecord
      <4>2. Check!Older(r.recovery, gap) \in 0..Check!Horizon
        BY <4>1, HorizonFar
      <4> QED
        BY <1>0, <3>2, <4>2
    <3> QED
      BY <3>1, <3>2
  <2>3. Check!Later(r, gap) = [[r EXCEPT !.degraded_age = d] EXCEPT !.recovery = e]
    BY <2>1, <2>2 DEF Check!Later, Check!Unset
  <2> QED
    BY <2>3 DEF RedRecord
<1> PICK q \in RedRecord : q = Check!Later(r, gap)
  BY <1>1
<1>2. Check!Recovered(q) \in RedRecord
  <2>1. CASE ~q.degraded_mode
    BY <2>1 DEF Check!Recovered
  <2>2. CASE q.degraded_mode /\ q.recovery > RED_RECOVERY
    <3>1. -1 \in -1..Check!Horizon
      BY <1>0
    <3>2. Check!Recovered(q) = [[q EXCEPT !.degraded_mode = FALSE] EXCEPT !.recovery = -1]
      BY <2>2 DEF Check!Recovered, Check!Unset
    <3> QED
      BY <3>1, <3>2 DEF RedRecord
  <2>3. CASE q.degraded_mode /\ ~(q.recovery > RED_RECOVERY)
    <3>1. PICK e \in -1..Check!Horizon : e = IF q.recovery = -1 THEN 0 ELSE q.recovery
      BY <1>0 DEF RedRecord
    <3>2. Check!Recovered(q) = [q EXCEPT !.recovery = e]
      BY <2>3, <3>1 DEF Check!Recovered, Check!Unset
    <3> QED
      BY <3>2 DEF RedRecord
  <2> QED
    BY <2>1, <2>2, <2>3
<1>3. [Check!Recovered(q) EXCEPT !.safe_stop = FALSE] \in RedRecord
  BY <1>2 DEF RedRecord
<1>4. Check!Degraded(q) \in RedRecord
  <2>1. PICK d \in 0..Check!Horizon : d = IF q.degraded_mode THEN q.degraded_age ELSE 0
    BY <1>0 DEF RedRecord
  <2>2. PICK b \in BOOLEAN : b = (q.degraded_mode \/ d > DEGRADED_DEBOUNCE)
    BY DEF RedRecord
  <2>3. Check!Degraded(q) = [[q EXCEPT !.degraded_age = d] EXCEPT !.degraded_mode = b]
    BY <2>1, <2>2 DEF Check!Degraded
  <2> QED
    BY <2>3 DEF RedRecord
<1>5. Check!Stopped(q) \in RedRecord
  <2>1. [[q EXCEPT !.safe_stop = TRUE] EXCEPT !.degraded_mode = TRUE] \in RedRecord
    BY DEF RedRecord
  <2> QED
    BY <2>1 DEF Check!Stopped
<1> QED
  BY <1>3, <1>4, <1>5 DEF Check!Decided

LEMMA RedGoesOn ==
  ASSUME Check!ChecksAssumption, RedInv, [Check!RedNext]_<<red, disagreed>> PROVE RedInv'
<1>0. Check!Horizon \in Nat
  BY HorizonFar
<1>1. CASE Check!RED_Update
  <2>1. PICK gap \in 1..RedGap, differ \in SUBSET Pair :
          LET flags == Check!CheckedFlags(red, gap, differ)
          IN  /\ red' = [Check!Decided(Check!Later(red, gap), flags) EXCEPT
                           !.flagged = flags,
                           !.age = [p \in Pair |-> Check!CheckedAge(red, p, gap, differ)]]
              /\ disagreed' = IF differ # Pair THEN -1
                              ELSE IF disagreed = -1 THEN 0
                              ELSE Check!Older(disagreed, gap)
    BY <1>1 DEF Check!RED_Update, Check!Unset
  <2>2. gap \in Nat
    BY HorizonFar
  <2>3. PICK flags \in SUBSET Pair : flags = Check!CheckedFlags(red, gap, differ)
    BY DEF Check!CheckedFlags
  <2>4. PICK ages \in [Pair -> 0..Check!Horizon] :
          ages = [p \in Pair |-> Check!CheckedAge(red, p, gap, differ)]
    <3>1. ASSUME NEW p \in Pair PROVE Check!CheckedAge(red, p, gap, differ) \in 0..Check!Horizon
      <4>1. red.age[p] \in 0..Check!Horizon
        BY DEF RedInv, RedRecord
      <4>2. Check!Older(red.age[p], gap) \in 0..Check!Horizon
        BY <2>2, <4>1, HorizonFar
      <4> QED
        BY <1>0, <4>2 DEF Check!CheckedAge
    <3> QED
      BY <3>1
  <2>5. PICK d \in RedRecord : d = Check!Decided(Check!Later(red, gap), flags)
    BY <2>2, DecidedType DEF RedInv
  <2>6. red' = [[d EXCEPT !.flagged = flags] EXCEPT !.age = ages]
    BY <2>1, <2>3, <2>4, <2>5, Zenon
  <2>7. red' \in RedRecord
    BY <2>6 DEF RedRecord
  <2>8. disagreed' \in -1..Check!Horizon
    <3>1. disagreed # -1 => Check!Older(disagreed, gap) \in 0..Check!Horizon
      <4>1. disagreed # -1 => disagreed \in 0..Check!Horizon
        BY <1>0 DEF RedInv
      <4> QED
        BY <2>2, <4>1, HorizonFar
    <3>2. disagreed' = IF differ # Pair THEN -1 ELSE IF disagreed = -1 THEN 0
                       ELSE Check!Older(disagreed, gap)
      BY <2>1, Zenon
    <3> QED
      BY <1>0, <3>1, <3>2
  <2> QED
    BY <2>7, <2>8 DEF RedInv
<1>2. CASE Check!RED_ClearSafeStop
  <2>1. red' = [[[red EXCEPT !.safe_stop = FALSE] EXCEPT !.degraded_mode = FALSE] EXCEPT !.flagged = {}]
        /\ disagreed' = -1
    BY <1>2 DEF Check!RED_ClearSafeStop, Check!Unset
  <2>2. {} \in SUBSET Pair
    OBVIOUS
  <2>3. red' \in RedRecord
    BY <2>1, <2>2 DEF RedInv, RedRecord
  <2> QED
    BY <1>0, <2>1, <2>3 DEF RedInv
<1>3. CASE UNCHANGED <<red, disagreed>>
  BY <1>3 DEF RedInv
<1> QED
  BY <1>1, <1>2, <1>3 DEF Check!RedNext

InjectorRecord == [state : {"disabled", "armed", "triggered", "verified", "failed"},
                   armed : Nat, verified : BOOLEAN]
FaultInv ==
  /\ fault \in [Injector -> InjectorRecord]
  /\ totals \in [triggers : Nat, verified : Nat, failed : Nat]
  /\ totals.verified + totals.failed + Cardinality(Check!Judged) <= totals.triggers

LEMMA CheckCounts ==
  \A S : Check!Cardinality(S) = Cardinality(S) /\ (Check!IsFiniteSet(S) <=> IsFiniteSet(S))
  BY DEF Check!Cardinality, Cardinality, Check!IsFiniteSet, IsFiniteSet

LEMMA InjectorsFinite ==
  ASSUME Check!ChecksAssumption, NEW S \in SUBSET Injector
  PROVE  IsFiniteSet(S) /\ Cardinality(S) \in Nat
<1>1. IsFiniteSet(Injector)
  BY CheckCounts DEF Check!ChecksAssumption
<1> QED
  BY <1>1, FS_Subset, FS_CardinalityType

LEMMA JudgedFinite ==
  ASSUME Check!ChecksAssumption
  PROVE  IsFiniteSet(Check!Judged) /\ Cardinality(Check!Judged) \in Nat
  BY InjectorsFinite DEF Check!Judged

LEMMA Forgotten ==
  ASSUME Check!ChecksAssumption, fault = [i \in Injector |-> Check!Disabled],
         totals = Check!NoTotals
  PROVE  FaultInv
<1>1. Check!Judged = {}
  BY DEF Check!Judged, Check!Disabled
<1>2. Check!Disabled \in InjectorRecord
  BY DEF Check!Disabled, InjectorRecord
<1>3. Cardinality(Check!Judged) = 0
  BY <1>1, FS_EmptySet
<1> QED
  BY <1>2, <1>3 DEF Check!NoTotals, FaultInv

(* A call that neither triggers nor judges adds nothing to be judged.      *)
LEMMA NothingTriggered ==
  ASSUME Check!ChecksAssumption, FaultInv, fault' \in [Injector -> InjectorRecord],
         Check!Judged' \subseteq Check!Judged, totals' = totals
  PROVE  FaultInv'
<1>1. Cardinality(Check!Judged') <= Cardinality(Check!Judged) /\ Cardinality(Check!Judged') \in Nat
  BY JudgedFinite, FS_Subset, FS_CardinalityType
<1>2. Cardinality(Check!Judged) \in Nat
  BY JudgedFinite
<1> QED
  BY <1>1, <1>2 DEF FaultInv

LEMMA OneInjector ==
  ASSUME FaultInv, NEW i \in Injector, NEW r \in InjectorRecord, fault' = [fault EXCEPT ![i] = r]
  PROVE  fault' \in [Injector -> InjectorRecord] /\ fault'[i] = r
         /\ \A j \in Injector \ {i} : fault'[j] = fault[j]
  BY DEF FaultInv

LEMMA Triggers ==
  ASSUME Check!ChecksAssumption, FaultInv, NEW which \in SUBSET Check!Armed,
         Check!Triggered(which)
  PROVE  FaultInv'
<1>1. which \in SUBSET Injector
  BY DEF Check!Armed
<1>2. IsFiniteSet(which) /\ Cardinality(which) \in Nat
  BY <1>1, InjectorsFinite
<1>3. ASSUME NEW i \in Injector
      PROVE  /\ fault'[i] \in InjectorRecord
             /\ i \notin which => fault'[i] = fault[i]
  <2>1. fault[i] \in InjectorRecord
    BY DEF FaultInv
  <2>2. fault'[i] = IF i \in which THEN [fault[i] EXCEPT !.state = "triggered"] ELSE fault[i]
    BY DEF Check!Triggered
  <2> QED
    BY <2>1, <2>2 DEF InjectorRecord
<1>4. fault' \in [Injector -> InjectorRecord]
  <2>1. fault' = [i \in Injector |-> fault'[i]]
    BY DEF Check!Triggered
  <2> QED
    BY <1>3, <2>1
<1>5. Check!Judged' \subseteq Check!Judged \cup which
  BY <1>3 DEF Check!Judged
<1>6. Cardinality(Check!Judged') <= Cardinality(Check!Judged) + Cardinality(which)
      /\ Cardinality(Check!Judged') \in Nat
  <2>1. Cardinality(Check!Judged \cup which) \in Nat /\ IsFiniteSet(Check!Judged \cup which)
        /\ Cardinality(Check!Judged \cup which) <= Cardinality(Check!Judged) + Cardinality(which)
    <3>1. IsFiniteSet(Check!Judged \cup which) /\ IsFiniteSet(Check!Judged \cap which)
      BY <1>2, JudgedFinite, FS_Union, FS_Subset
    <3>2. Cardinality(Check!Judged \cup which) =
            Cardinality(Check!Judged) + Cardinality(which) - Cardinality(Check!Judged \cap which)
      BY <1>2, JudgedFinite, FS_Union
    <3>3. /\ Cardinality(Check!Judged \cap which) \in Nat
          /\ Cardinality(Check!Judged \cup which) \in Nat
          /\ Cardinality(Check!Judged) \in Nat
      BY <3>1, JudgedFinite, FS_CardinalityType
    <3> QED
      BY <1>2, <3>1, <3>2, <3>3
  <2>2. Cardinality(Check!Judged') <= Cardinality(Check!Judged \cup which)
        /\ Cardinality(Check!Judged') \in Nat
    BY <1>5, <2>1, FS_Subset, FS_CardinalityType
  <2> QED
    BY <1>2, <2>1, <2>2, JudgedFinite
<1>7. PICK n \in Nat : n = Cardinality(which)
  BY <1>2
<1>8. totals' = [totals EXCEPT !.triggers = @ + n]
  BY <1>7, CheckCounts DEF Check!Triggered
<1>9. /\ totals' \in [triggers : Nat, verified : Nat, failed : Nat]
      /\ totals'.triggers = totals.triggers + n
      /\ totals'.verified = totals.verified /\ totals'.failed = totals.failed
  BY <1>8 DEF FaultInv
<1> QED
  BY <1>4, <1>6, <1>7, <1>9, JudgedFinite DEF FaultInv

LEMMA Verifies ==
  ASSUME Check!ChecksAssumption, FaultInv, Check!FAULT_VerifyAll PROVE FaultInv'
<1>1. PICK caught \in SUBSET Check!Judged :
        /\ fault' = [i \in Injector |->
             IF i \in caught
             THEN [fault[i] EXCEPT !.state = "verified", !.verified = TRUE]
             ELSE IF i \in Check!Judged THEN [fault[i] EXCEPT !.state = "failed"]
             ELSE fault[i]]
        /\ totals' = [totals EXCEPT !.verified = @ + Cardinality(caught),
                                    !.failed = @ + Cardinality(Check!Judged \ caught)]
  BY CheckCounts DEF Check!FAULT_VerifyAll
<1>2. PICK n \in Nat, k \in Nat :
        /\ n = Cardinality(caught) /\ k = Cardinality(Check!Judged \ caught)
        /\ n + k = Cardinality(Check!Judged)
  <2>1. IsFiniteSet(caught) /\ IsFiniteSet(Check!Judged \ caught)
    BY JudgedFinite, FS_Subset, Check!Judged \ caught \subseteq Check!Judged
  <2>2. Check!Judged \cap caught = caught
    OBVIOUS
  <2>3. Cardinality(Check!Judged \ caught) = Cardinality(Check!Judged) - Cardinality(caught)
    BY <2>1, <2>2, JudgedFinite, FS_Difference
  <2>4. Cardinality(caught) \in Nat /\ Cardinality(Check!Judged \ caught) \in Nat
    BY <2>1, FS_CardinalityType
  <2> QED
    BY <2>3, <2>4, JudgedFinite
<1>3. totals' = [triggers |-> totals.triggers, verified |-> totals.verified + n,
                 failed |-> totals.failed + k]
  BY <1>1, <1>2 DEF FaultInv
<1>4. /\ totals' \in [triggers : Nat, verified : Nat, failed : Nat]
      /\ totals'.triggers = totals.triggers
      /\ totals'.verified = totals.verified + n /\ totals'.failed = totals.failed + k
  BY <1>3 DEF FaultInv
<1>5. ASSUME NEW i \in Injector
      PROVE  /\ fault'[i] \in InjectorRecord
             /\ i \in Check!Judged => fault'[i].state # "triggered"
             /\ i \notin Check!Judged => fault'[i] = fault[i]
  <2>1. fault[i] \in InjectorRecord
    BY DEF FaultInv
  <2>2. CASE i \in caught
    <3>1. fault'[i] = [[fault[i] EXCEPT !.state = "verified"] EXCEPT !.verified = TRUE]
      BY <1>1, <2>2
    <3> QED
      BY <2>1, <2>2, <3>1 DEF InjectorRecord
  <2>3. CASE i \notin caught /\ i \in Check!Judged
    <3>1. fault'[i] = [fault[i] EXCEPT !.state = "failed"]
      BY <1>1, <2>3
    <3> QED
      BY <2>1, <2>3, <3>1 DEF InjectorRecord
  <2>4. CASE i \notin Check!Judged
    BY <1>1, <2>1, <2>4
  <2> QED
    BY <2>2, <2>3, <2>4
<1>6. fault' \in [Injector -> InjectorRecord]
  <2>1. fault' = [i \in Injector |-> fault'[i]]
    BY <1>1
  <2> QED
    BY <1>5, <2>1
<1>7. Check!Judged' = {}
  BY <1>5 DEF Check!Judged
<1>8. Cardinality(Check!Judged') = 0
  BY <1>7, FS_EmptySet
<1> QED
  BY <1>2, <1>4, <1>6, <1>8 DEF FaultInv

LEMMA FaultGoesOn ==
  ASSUME Check!ChecksAssumption, FaultInv, [Check!FaultNext]_<<fault, totals>> PROVE FaultInv'
<1>1. ASSUME NEW i \in Injector, Check!FAULT_Arm(i) PROVE FaultInv'
  <2>1. fault[i] \in InjectorRecord
    BY DEF FaultInv
  <2>2. PICK r : r = [[fault[i] EXCEPT !.state = "armed"] EXCEPT !.armed = 0]
    OBVIOUS
  <2>3. r \in InjectorRecord /\ r.state = "armed"
    BY <2>1, <2>2 DEF InjectorRecord
  <2>4. fault' = [fault EXCEPT ![i] = r] /\ totals' = totals /\ fault[i].state # "triggered"
    BY <1>1, <2>2 DEF Check!FAULT_Arm, FaultInv
  <2>5. fault' \in [Injector -> InjectorRecord] /\ Check!Judged' \subseteq Check!Judged
    BY <2>3, <2>4, OneInjector DEF Check!Judged
  <2> QED
    BY <2>4, <2>5, NothingTriggered
<1>2. ASSUME NEW i \in Injector, Check!FAULT_Disarm(i) PROVE FaultInv'
  <2>1. fault[i] \in InjectorRecord
    BY DEF FaultInv
  <2>2. PICK r : r = [fault[i] EXCEPT !.state = "disabled"]
    OBVIOUS
  <2>3. r \in InjectorRecord /\ r.state = "disabled"
    BY <2>1, <2>2 DEF InjectorRecord
  <2>4. fault' = [fault EXCEPT ![i] = r] /\ totals' = totals
    BY <1>2, <2>2 DEF Check!FAULT_Disarm
  <2>5. fault' \in [Injector -> InjectorRecord] /\ Check!Judged' \subseteq Check!Judged
    BY <2>3, <2>4, OneInjector DEF Check!Judged
  <2> QED
    BY <2>4, <2>5, NothingTriggered
<1>3. ASSUME NEW i \in Injector, Check!FAULT_Trigger(i) PROVE FaultInv'
  <2>1. {i} \in SUBSET Check!Armed /\ Check!Triggered({i})
    BY <1>3 DEF Check!FAULT_Trigger, Check!Armed
  <2> QED
    BY <2>1, Triggers
<1>4. CASE Check!FAULT_EvaluateTriggers
  <2>1. \E which \in SUBSET Check!Armed : Check!Triggered(which)
    BY <1>4 DEF Check!FAULT_EvaluateTriggers
  <2> QED
    BY <2>1, Triggers
<1>5. CASE Check!TimePasses
  <2>1. ASSUME NEW i \in Injector
        PROVE  fault'[i] \in InjectorRecord /\ fault'[i].state = fault[i].state
               /\ fault'[i].verified = fault[i].verified
    <3>1. fault[i] \in InjectorRecord
      BY DEF FaultInv
    <3>2. \/ fault'[i] = [fault[i] EXCEPT !.armed = @ + 1]
          \/ fault'[i] = fault[i]
      BY <1>5 DEF Check!TimePasses
    <3> QED
      BY <3>1, <3>2 DEF InjectorRecord
  <2>2. fault' = [i \in Injector |-> fault'[i]] /\ totals' = totals
    BY <1>5 DEF Check!TimePasses
  <2>3. fault' \in [Injector -> InjectorRecord] /\ Check!Judged' \subseteq Check!Judged
    BY <2>1, <2>2 DEF Check!Judged
  <2> QED
    BY <2>2, <2>3, NothingTriggered
<1>6. CASE Check!FAULT_VerifyAll
  BY <1>6, Verifies
<1>7. CASE Check!FAULT_ResetAll
  <2>1. Check!Judged' = {}
    BY <1>7 DEF Check!FAULT_ResetAll, Check!Judged, Check!Disabled
  <2>2. Check!Disabled \in InjectorRecord
    BY DEF Check!Disabled, InjectorRecord
  <2>3. Cardinality(Check!Judged') = 0
    BY <2>1, FS_EmptySet
  <2> QED
    BY <1>7, <2>2, <2>3 DEF Check!FAULT_ResetAll, Check!NoTotals, FaultInv
<1>8. CASE UNCHANGED <<fault, totals>>
  BY <1>8 DEF FaultInv, Check!Judged
<1> QED
  BY <1>1, <1>2, <1>3, <1>4, <1>5, <1>6, <1>7, <1>8 DEF Check!FaultNext

LEMMA FaultHolds ==
  ASSUME FaultInv PROVE Check!VerdictsNeedTriggers
  BY CheckCounts DEF FaultInv, Check!VerdictsNeedTriggers

-----------------------------------------------------------------------------
(* event_logger.c.                                                         *)
(* A rotation that sees every file leaves EVENTS_MAX_FILES; after it there *)
(* is one more while one is being written, and one for each close without  *)
(* such a rotation.                                                        *)
FilesInv ==
  /\ opens \in 0..MaxOpens /\ clock \in 0..MaxClock /\ current \in 0..MaxOpens
  /\ size \in 0..FileCap /\ extra \in Nat
  /\ DOMAIN files \subseteq 1..opens
  /\ files \in [DOMAIN files -> 0..MaxClock]
  /\ current # 0 => current \in DOMAIN files /\ size < FileCap
  /\ Cardinality(DOMAIN files) <= EVENTS_MAX_FILES + extra + (IF current # 0 THEN 1 ELSE 0)

LEMMA LogNumbers ==
  ASSUME Log!LoggingAssumption
  PROVE  /\ EVENTS_MAX_FILES \in Nat \ {0} /\ FileCap \in Nat \ {0} /\ MaxOpens \in Nat \ {0}
         /\ MaxSeen \in Nat \ {0}
         /\ MaxClock \in Nat \ {0} /\ TRACE_BUFFER_SIZE \in Nat \ {0} /\ MaxPushes \in Nat \ {0}
         /\ MaxCrashes \in Nat \ {0} /\ PERF_MAX_TASKS \in Nat \ {0} /\ MaxTime \in Nat \ {0}
  BY DEF Log!LoggingAssumption

LEMMA LogCounts ==
  \A S : Log!Cardinality(S) = Cardinality(S) /\ (Log!IsFiniteSet(S) <=> IsFiniteSet(S))
  BY DEF Log!Cardinality, Cardinality, Log!IsFiniteSet, IsFiniteSet

LEMMA NamesFinite ==
  ASSUME NEW n \in Nat, NEW S \in SUBSET (1..n)
  PROVE  IsFiniteSet(S) /\ Cardinality(S) \in Nat
<1>1. IsFiniteSet(1..n)
  BY FS_Interval
<1> QED
  BY <1>1, FS_Subset, FS_CardinalityType

LEMMA FilesStart == ASSUME Log!LoggingAssumption, Log!EventInit PROVE FilesInv
<1>1. files = <<>> /\ DOMAIN files = {} /\ files \in [{} -> 0..MaxClock]
  BY DEF Log!EventInit
<1>2. Cardinality(DOMAIN files) = 0
  BY <1>1, FS_EmptySet
<1> QED
  BY <1>1, <1>2, LogNumbers DEF Log!EventInit, FilesInv

(* What a rotation leaves: EVENTS_MAX_FILES of the files if it saw all of  *)
(* them, and no more than there were in any case.                          *)
LEMMA KeptFew ==
  ASSUME Log!LoggingAssumption, extra \in Nat, NEW fs, NEW n \in Nat, DOMAIN fs \subseteq 1..n,
         NEW kept \in SUBSET DOMAIN fs, Log!rotate_logs(fs, kept)
  PROVE  /\ Cardinality(kept) \in Nat /\ extra' \in Nat
         /\ \/ Cardinality(kept) <= EVENTS_MAX_FILES
            \/ extra' = extra + 1 /\ Cardinality(kept) <= Cardinality(DOMAIN fs)
<1> DEFINE D == DOMAIN fs
<1>1. /\ IsFiniteSet(D) /\ IsFiniteSet(kept) /\ IsFiniteSet(D \ kept)
      /\ Cardinality(D) \in Nat /\ Cardinality(kept) \in Nat /\ Cardinality(D \ kept) \in Nat
  BY NamesFinite
<1>2. Cardinality(D \ kept) = Cardinality(D) - Cardinality(kept)
  <2>1. D \cap kept = kept
    OBVIOUS
  <2> QED
    BY <1>1, <2>1, FS_Difference
<1>3. PICK seen \in Log!Taken(fs) :
        /\ Log!Kept(fs, seen, kept)
        /\ \/ seen = D /\ extra' = 0
           \/ seen # D /\ extra < MaxOpens /\ extra' = extra + 1
  BY DEF Log!rotate_logs
<1>4. CASE seen = D /\ extra' = 0
  <2>1. Cardinality(D \ kept) = IF Cardinality(D) - EVENTS_MAX_FILES > 0
                                THEN Cardinality(D) - EVENTS_MAX_FILES ELSE 0
    BY <1>3, <1>4, LogCounts DEF Log!Kept, Log!ToDelete
  <2> HIDE DEF D
  <2> QED
    BY <1>1, <1>2, <1>4, <2>1, LogNumbers
<1>5. CASE extra' = extra + 1
  <2> HIDE DEF D
  <2> QED
    BY <1>1, <1>2, <1>5 DEF D
<1> QED
  BY <1>3, <1>4, <1>5

(* A new file has a name of its own.                                       *)
LEMMA OpenedMore ==
  ASSUME Log!LoggingAssumption, FilesInv, NEW fs, fs \in [DOMAIN fs -> 0..MaxClock],
         DOMAIN fs \subseteq 1..opens
  PROVE  /\ DOMAIN Log!Opened(fs) = DOMAIN fs \cup {opens + 1}
         /\ Log!Opened(fs) \in [DOMAIN fs \cup {opens + 1} -> 0..MaxClock]
         /\ DOMAIN Log!Opened(fs) \subseteq 1..(opens + 1)
         /\ Cardinality(DOMAIN Log!Opened(fs)) = Cardinality(DOMAIN fs) + 1
         /\ Cardinality(DOMAIN fs) \in Nat
<1>1. opens \in Nat /\ clock \in 0..MaxClock
  BY LogNumbers DEF FilesInv
<1>2. /\ DOMAIN Log!Opened(fs) = DOMAIN fs \cup {opens + 1}
      /\ Log!Opened(fs) \in [DOMAIN fs \cup {opens + 1} -> 0..MaxClock]
  BY <1>1 DEF Log!Opened
<1>3. opens + 1 \notin DOMAIN fs /\ DOMAIN fs \cup {opens + 1} \subseteq 1..(opens + 1)
  BY <1>1
<1>4. IsFiniteSet(DOMAIN fs) /\ Cardinality(DOMAIN fs) \in Nat
  BY <1>1, NamesFinite
<1>5. Cardinality(DOMAIN fs \cup {opens + 1}) = Cardinality(DOMAIN fs) + 1
  BY <1>3, <1>4, FS_AddElement
<1> QED
  BY <1>2, <1>3, <1>4, <1>5

LEMMA LoggerStarts ==
  ASSUME Log!LoggingAssumption, FilesInv, Log!event_logger_init PROVE FilesInv'
<1> USE LogNumbers
<1>0. opens \in Nat /\ DOMAIN files \subseteq 1..opens /\ opens < MaxOpens
  BY DEF FilesInv, Log!event_logger_init
<1>1. PICK kept \in SUBSET DOMAIN files :
        /\ Log!rotate_logs(files, kept)
        /\ \/ /\ files' = Log!Opened([f \in kept |-> files[f]]) /\ current' = opens + 1
              /\ opens' = opens + 1
           \/ files' = [f \in kept |-> files[f]] /\ current' = 0 /\ UNCHANGED opens
  BY DEF Log!event_logger_init
<1>2. PICK fs : fs = [f \in kept |-> files[f]]
  OBVIOUS
<1>3. DOMAIN fs = kept /\ fs \in [DOMAIN fs -> 0..MaxClock] /\ DOMAIN fs \subseteq 1..opens
  BY <1>0, <1>2 DEF FilesInv
<1>4. /\ Cardinality(kept) \in Nat /\ extra' \in Nat
      /\ Cardinality(kept) <= EVENTS_MAX_FILES + extra'
  <2>1. extra \in Nat /\ Cardinality(DOMAIN files) <= EVENTS_MAX_FILES + extra + 1
        /\ Cardinality(DOMAIN files) \in Nat
    <3>1. Cardinality(DOMAIN files) \in Nat
      BY <1>0, NamesFinite
    <3> QED
      BY <3>1 DEF FilesInv
  <2>2. /\ Cardinality(kept) \in Nat /\ extra' \in Nat
        /\ \/ Cardinality(kept) <= EVENTS_MAX_FILES
           \/ extra' = extra + 1 /\ Cardinality(kept) <= Cardinality(DOMAIN files)
    BY <1>0, <1>1, <2>1, KeptFew
  <2> QED
    BY <2>1, <2>2
<1>5. size' = 0 /\ clock' = clock
  BY DEF Log!event_logger_init
<1>6. CASE files' = Log!Opened(fs) /\ current' = opens + 1 /\ opens' = opens + 1
  <2>1. /\ DOMAIN files' = kept \cup {opens + 1} /\ files' \in [DOMAIN files' -> 0..MaxClock]
        /\ DOMAIN files' \subseteq 1..(opens + 1)
        /\ Cardinality(DOMAIN files') = Cardinality(kept) + 1
    BY ONLY Log!LoggingAssumption, FilesInv, <1>3, <1>6, OpenedMore
  <2>2. opens + 1 \in 1..MaxOpens /\ clock \in 0..MaxClock
    BY <1>0 DEF FilesInv
  <2> QED
    BY <1>4, <1>5, <1>6, <2>1, <2>2 DEF FilesInv
<1>7. CASE files' = fs /\ current' = 0 /\ opens' = opens
  BY <1>0, <1>3, <1>4, <1>5, <1>7 DEF FilesInv
<1> QED
  BY <1>1, <1>2, <1>6, <1>7

LEMMA LineWritten ==
  ASSUME Log!LoggingAssumption, FilesInv, Log!write_json_line PROVE FilesInv'
<1> USE LogNumbers
<1> DEFINE file == IF current = 0 THEN opens + 1 ELSE current
           there == IF current = 0 THEN Log!Opened(files) ELSE files
           n == IF current = 0 THEN 1 ELSE size + 1
           written == [there EXCEPT ![file] = clock]
<1>0. opens \in Nat /\ clock \in 0..MaxClock /\ opens \in 0..MaxOpens /\ current \in 0..MaxOpens
  BY DEF FilesInv
<1>1. /\ file <= MaxOpens /\ opens' = (IF current = 0 THEN file ELSE opens)
      /\ \/ /\ n < FileCap /\ size' = n /\ files' = written /\ current' = file
            /\ UNCHANGED extra
         \/ /\ n = FileCap /\ size' = n /\ current' = 0
            /\ \E kept \in SUBSET DOMAIN there :
                 Log!rotate_logs(written, kept) /\ files' = [f \in kept |-> written[f]]
         \/ /\ files' = there /\ current' = 0 /\ size' = n - 1 /\ extra' = extra + 1
      /\ UNCHANGED clock
  BY DEF Log!write_json_line
<1>2. /\ there \in [DOMAIN there -> 0..MaxClock] /\ file \in DOMAIN there
      /\ DOMAIN there \subseteq 1..(opens') /\ opens' \in 0..MaxOpens /\ file \in 1..MaxOpens
      /\ Cardinality(DOMAIN there) \in Nat
      /\ Cardinality(DOMAIN there) <= EVENTS_MAX_FILES + extra + 1
  <2>1. CASE current = 0
    <3>1. files \in [DOMAIN files -> 0..MaxClock] /\ DOMAIN files \subseteq 1..opens
          /\ Cardinality(DOMAIN files) <= EVENTS_MAX_FILES + extra /\ extra \in Nat
      BY <2>1 DEF FilesInv
    <3>2. /\ DOMAIN Log!Opened(files) = DOMAIN files \cup {opens + 1}
          /\ Log!Opened(files) \in [DOMAIN files \cup {opens + 1} -> 0..MaxClock]
          /\ DOMAIN Log!Opened(files) \subseteq 1..(opens + 1)
          /\ Cardinality(DOMAIN Log!Opened(files)) = Cardinality(DOMAIN files) + 1
          /\ Cardinality(DOMAIN files) \in Nat
      BY ONLY Log!LoggingAssumption, FilesInv, <3>1, OpenedMore
    <3>3. there = Log!Opened(files) /\ file = opens + 1 /\ opens' = opens + 1 /\ file <= MaxOpens
      BY <1>1, <2>1
    <3> HIDE DEF there, file
    <3> QED
      BY <1>0, <3>1, <3>2, <3>3
  <2>2. CASE current # 0
    <3>1. Cardinality(DOMAIN files) \in Nat
      BY <1>0, NamesFinite DEF FilesInv
    <3> QED
      BY <1>0, <1>1, <2>2, <3>1 DEF FilesInv
  <2> QED
    BY <2>1, <2>2
<1>3. n \in 1..FileCap
  BY DEF FilesInv
<1> HIDE DEF there, file, n
<1>4. DOMAIN written = DOMAIN there /\ written \in [DOMAIN there -> 0..MaxClock]
  BY <1>0, <1>2
<1> HIDE DEF written
<1>5. extra \in Nat /\ clock' \in 0..MaxClock
  BY <1>0, <1>1 DEF FilesInv
<1>6. CASE n < FileCap /\ size' = n /\ files' = written /\ current' = file /\ extra' = extra
  BY <1>1, <1>2, <1>3, <1>4, <1>5, <1>6 DEF FilesInv
<1>7. CASE /\ n = FileCap /\ size' = n /\ current' = 0
           /\ \E kept \in SUBSET DOMAIN there :
                Log!rotate_logs(written, kept) /\ files' = [f \in kept |-> written[f]]
  <2>1. PICK kept \in SUBSET DOMAIN there :
          Log!rotate_logs(written, kept) /\ files' = [f \in kept |-> written[f]]
    BY <1>7
  <2>2. /\ Cardinality(kept) \in Nat /\ extra' \in Nat
        /\ Cardinality(kept) <= EVENTS_MAX_FILES + extra'
    <3>1. opens' \in Nat
      BY <1>2
    <3>2. /\ Cardinality(kept) \in Nat /\ extra' \in Nat
          /\ \/ Cardinality(kept) <= EVENTS_MAX_FILES
             \/ extra' = extra + 1 /\ Cardinality(kept) <= Cardinality(DOMAIN written)
      BY <1>2, <1>4, <1>5, <2>1, <3>1, KeptFew
    <3> QED
      BY <1>2, <1>4, <1>5, <3>2
  <2>3. DOMAIN files' = kept /\ files' \in [kept -> 0..MaxClock]
    BY <1>4, <2>1
  <2> QED
    BY <1>1, <1>2, <1>3, <1>5, <1>7, <2>1, <2>2, <2>3 DEF FilesInv
<1>8. CASE files' = there /\ current' = 0 /\ size' = n - 1 /\ extra' = extra + 1
  BY <1>1, <1>2, <1>3, <1>5, <1>8 DEF FilesInv
<1> QED
  BY <1>1, <1>6, <1>7, <1>8

LEMMA FilesGoOn ==
  ASSUME Log!LoggingAssumption, FilesInv, [Log!EventNext]_(Log!eventvars) PROVE FilesInv'
<1>1. CASE Log!event_logger_close
  <2>1. Cardinality(DOMAIN files) \in Nat
    BY LogNumbers, NamesFinite DEF FilesInv
  <2> QED
    BY <1>1, <2>1, LogNumbers DEF Log!event_logger_close, FilesInv
<1>2. CASE Log!Second
  BY <1>2, LogNumbers DEF Log!Second, FilesInv
<1>3. CASE UNCHANGED Log!eventvars
  BY <1>3 DEF Log!eventvars, FilesInv
<1> QED
  BY <1>1, <1>2, <1>3, LoggerStarts, LineWritten DEF Log!EventNext

LEMMA FilesHold ==
  ASSUME Log!LoggingAssumption, FilesInv PROVE Log!FilesBounded
<1>1. Cardinality(DOMAIN files) \in Nat
  BY LogNumbers, NamesFinite DEF FilesInv
<1> QED
  BY <1>1, LogCounts, LogNumbers DEF FilesInv, Log!FilesBounded

-----------------------------------------------------------------------------
(* trace_buffer.c.                                                         *)
(* Where each of the last events is: those since the last wrap below the   *)
(* index, and once the ring is full the older ones from the index on.      *)
TraceInv ==
  /\ ring \in [0..TRACE_BUFFER_SIZE - 1 -> 0..MaxPushes] /\ pushed \in 0..MaxPushes
  /\ write_index \in 0..TRACE_BUFFER_SIZE - 1 /\ event_count \in 0..TRACE_BUFFER_SIZE
  /\ event_count < TRACE_BUFFER_SIZE => write_index = event_count
  /\ \A j \in 0..TRACE_BUFFER_SIZE - 1 :
       /\ j < write_index => ring[j] = pushed - write_index + 1 + j
       /\ j >= write_index /\ event_count = TRACE_BUFFER_SIZE =>
            ring[j] = pushed - write_index + 1 + j - TRACE_BUFFER_SIZE

LEMMA TraceStarts == ASSUME Log!LoggingAssumption, Log!TraceInit PROVE TraceInv
  BY LogNumbers DEF Log!TraceInit, TraceInv

LEMMA TraceGoesOn ==
  ASSUME Log!LoggingAssumption, TraceInv, [Log!TraceNext]_(Log!tracevars) PROVE TraceInv'
<1> USE LogNumbers DEF TraceInv
<1>1. CASE Log!trace_buffer_push
  <2>1. /\ pushed < MaxPushes /\ pushed' = pushed + 1
        /\ ring' = [ring EXCEPT ![write_index] = pushed + 1]
        /\ write_index' = (write_index + 1) % TRACE_BUFFER_SIZE
        /\ event_count' = IF event_count < TRACE_BUFFER_SIZE THEN event_count + 1 ELSE event_count
    BY <1>1 DEF Log!trace_buffer_push, Log!After
  <2>2. /\ write_index \in 0..TRACE_BUFFER_SIZE - 1 /\ write_index + 1 \in Int /\ pushed \in Nat
        /\ TRACE_BUFFER_SIZE \in Nat \ {0}
    OBVIOUS
  <2>3. write_index' = IF write_index + 1 < TRACE_BUFFER_SIZE THEN write_index + 1 ELSE 0
    <3>1. CASE write_index + 1 < TRACE_BUFFER_SIZE
      BY ONLY <2>1, <2>2, <3>1, Small
    <3>2. CASE ~(write_index + 1 < TRACE_BUFFER_SIZE)
      <4>1. (write_index + 1) % TRACE_BUFFER_SIZE = (write_index + 1) - TRACE_BUFFER_SIZE
        BY ONLY <2>2, <3>2, Small
      <4> QED
        BY ONLY <2>1, <2>2, <3>2, <4>1
    <3> QED
      BY <3>1, <3>2
  <2>4. /\ ring' \in [0..TRACE_BUFFER_SIZE - 1 -> 0..MaxPushes] /\ pushed' \in 0..MaxPushes
        /\ \A j \in 0..TRACE_BUFFER_SIZE - 1 :
             ring'[j] = IF j = write_index THEN pushed + 1 ELSE ring[j]
    BY <2>1
  <2>5. /\ write_index' \in 0..TRACE_BUFFER_SIZE - 1 /\ event_count' \in 0..TRACE_BUFFER_SIZE
        /\ event_count' < TRACE_BUFFER_SIZE => write_index' = event_count'
    <3>1. event_count \in 0..TRACE_BUFFER_SIZE
          /\ (event_count < TRACE_BUFFER_SIZE => write_index = event_count)
      OBVIOUS
    <3>2. event_count' = IF event_count < TRACE_BUFFER_SIZE THEN event_count + 1 ELSE event_count
      BY <2>1
    <3> QED
      BY ONLY <2>2, <2>3, <3>1, <3>2
  <2>6. ASSUME NEW j \in 0..TRACE_BUFFER_SIZE - 1
        PROVE  /\ j < write_index' => ring'[j] = pushed' - write_index' + 1 + j
               /\ j >= write_index' /\ event_count' = TRACE_BUFFER_SIZE =>
                    ring'[j] = pushed' - write_index' + 1 + j - TRACE_BUFFER_SIZE
    <3>1. /\ j < write_index => ring[j] = pushed - write_index + 1 + j
          /\ j >= write_index /\ event_count = TRACE_BUFFER_SIZE =>
               ring[j] = pushed - write_index + 1 + j - TRACE_BUFFER_SIZE
          /\ event_count < TRACE_BUFFER_SIZE => write_index = event_count
          /\ event_count \in 0..TRACE_BUFFER_SIZE
      OBVIOUS
    <3>2. ring'[j] = IF j = write_index THEN pushed + 1 ELSE ring[j]
      BY <2>4
    <3>3. /\ pushed' = pushed + 1
          /\ event_count' = IF event_count < TRACE_BUFFER_SIZE THEN event_count + 1 ELSE event_count
      BY <2>1
    <3>4. CASE write_index + 1 < TRACE_BUFFER_SIZE
      BY ONLY <2>2, <2>3, <3>1, <3>2, <3>3, <3>4, j \in 0..TRACE_BUFFER_SIZE - 1
    <3>5. CASE ~(write_index + 1 < TRACE_BUFFER_SIZE)
      BY ONLY <2>2, <2>3, <3>1, <3>2, <3>3, <3>5, j \in 0..TRACE_BUFFER_SIZE - 1
    <3> QED
      BY <3>4, <3>5
  <2> QED
    BY <2>4, <2>5, <2>6
<1>2. CASE Log!trace_buffer_clear
  BY <1>2 DEF Log!trace_buffer_clear
<1>3. CASE UNCHANGED Log!tracevars
  BY <1>3 DEF Log!tracevars
<1> QED
  BY <1>1, <1>2, <1>3 DEF Log!TraceNext

LEMMA SlotsOf ==
  ASSUME Log!LoggingAssumption, TraceInv, NEW from \in 0..TRACE_BUFFER_SIZE - 1,
         NEW n \in 0..TRACE_BUFFER_SIZE, NEW i \in 1..n
  PROVE  Log!Slots(from, n)[i] = IF from + i - 1 < TRACE_BUFFER_SIZE THEN ring[from + i - 1]
                                 ELSE ring[from + i - 1 - TRACE_BUFFER_SIZE]
<1>1. Log!Slots(from, n)[i] = ring[(from + i - 1) % TRACE_BUFFER_SIZE]
  BY DEF Log!Slots
<1>2. (from + i - 1) \in Int /\ 0 <= from + i - 1 /\ from + i - 1 < 2 * TRACE_BUFFER_SIZE
  BY LogNumbers
<1>2a. TRACE_BUFFER_SIZE \in Nat \ {0}
  BY LogNumbers
<1> DEFINE x == from + i - 1
<1>3. x \in Int /\ 0 <= x /\ x < 2 * TRACE_BUFFER_SIZE
  BY <1>2
<1>4. Log!Slots(from, n)[i] = ring[x % TRACE_BUFFER_SIZE]
  BY <1>1
<1>5. Log!Slots(from, n)[i] = IF x < TRACE_BUFFER_SIZE THEN ring[x] ELSE ring[x - TRACE_BUFFER_SIZE]
  <2> HIDE DEF x
  <2>1. x < TRACE_BUFFER_SIZE => x % TRACE_BUFFER_SIZE = x
    BY ONLY <1>2a, <1>3, Small
  <2>2. ~(x < TRACE_BUFFER_SIZE) => x % TRACE_BUFFER_SIZE = x - TRACE_BUFFER_SIZE
    <3>1. ~(x < TRACE_BUFFER_SIZE) => TRACE_BUFFER_SIZE <= x
      BY <1>2a, <1>3
    <3>2. TRACE_BUFFER_SIZE <= x /\ x < 2 * TRACE_BUFFER_SIZE =>
            x % TRACE_BUFFER_SIZE = x - TRACE_BUFFER_SIZE
      BY ONLY <1>2a, <1>3, Small
    <3> QED
      BY <1>3, <3>1, <3>2
  <2> QED
    BY ONLY <1>4, <2>1, <2>2, Zenon
<1>6. CASE x < TRACE_BUFFER_SIZE
  BY <1>5, <1>6
<1>7. CASE ~(x < TRACE_BUFFER_SIZE)
  <2>1. x - TRACE_BUFFER_SIZE = from + i - 1 - TRACE_BUFFER_SIZE
    BY LogNumbers
  <2> QED
    BY ONLY <1>5, <1>7, <2>1, Zenon
<1> QED
  BY <1>6, <1>7

LEMMA TraceHolds == ASSUME Log!LoggingAssumption, TraceInv PROVE Log!DumpIsLast
<1> USE LogNumbers
<1>0. /\ event_count \in 0..TRACE_BUFFER_SIZE /\ write_index \in 0..TRACE_BUFFER_SIZE - 1
      /\ 0 \in 0..TRACE_BUFFER_SIZE - 1 /\ TRACE_BUFFER_SIZE \in 0..TRACE_BUFFER_SIZE
  BY DEF TraceInv
<1>1. Log!Dumped = [i \in 1..event_count |-> pushed - event_count + i]
  <2>1. CASE event_count < TRACE_BUFFER_SIZE
    <3>1. Log!Dumped = Log!Slots(0, event_count)
      BY <2>1 DEF Log!Dumped
    <3>2. ASSUME NEW i \in 1..event_count
          PROVE  Log!Slots(0, event_count)[i] = pushed - event_count + i
      <4>1. Log!Slots(0, event_count)[i] = ring[i - 1]
        <5>1. 0 + i - 1 = i - 1 /\ i - 1 < TRACE_BUFFER_SIZE
          BY <2>1, <1>0
        <5> QED
          BY <1>0, <5>1, SlotsOf
      <4>2. i - 1 \in 0..TRACE_BUFFER_SIZE - 1 /\ i - 1 < write_index /\ write_index = event_count
        BY <2>1 DEF TraceInv
      <4> QED
        BY <4>1, <4>2 DEF TraceInv
    <3>3. Log!Slots(0, event_count) = [i \in 1..event_count |-> Log!Slots(0, event_count)[i]]
      BY DEF Log!Slots
    <3> QED
      BY <3>1, <3>2, <3>3
  <2>2. CASE event_count = TRACE_BUFFER_SIZE
    <3>1. Log!Dumped = Log!Slots(write_index, TRACE_BUFFER_SIZE)
      BY <2>2 DEF Log!Dumped
    <3>2. ASSUME NEW i \in 1..TRACE_BUFFER_SIZE
          PROVE  Log!Slots(write_index, TRACE_BUFFER_SIZE)[i] = pushed - TRACE_BUFFER_SIZE + i
      <4>1. Log!Slots(write_index, TRACE_BUFFER_SIZE)[i] =
              IF write_index + i - 1 < TRACE_BUFFER_SIZE THEN ring[write_index + i - 1]
              ELSE ring[write_index + i - 1 - TRACE_BUFFER_SIZE]
        BY <1>0, SlotsOf
      <4>2. CASE write_index + i - 1 < TRACE_BUFFER_SIZE
        <5>1. write_index + i - 1 \in 0..TRACE_BUFFER_SIZE - 1 /\ write_index + i - 1 >= write_index
          BY <1>0, <4>2
        <5> QED
          BY <1>0, <2>2, <4>1, <4>2, <5>1 DEF TraceInv
      <4>3. CASE ~(write_index + i - 1 < TRACE_BUFFER_SIZE)
        <5>1. /\ write_index + i - 1 - TRACE_BUFFER_SIZE \in 0..TRACE_BUFFER_SIZE - 1
              /\ write_index + i - 1 - TRACE_BUFFER_SIZE < write_index
          BY <1>0, <4>3
        <5>2. ring[write_index + i - 1 - TRACE_BUFFER_SIZE] =
                pushed - write_index + 1 + (write_index + i - 1 - TRACE_BUFFER_SIZE)
          BY <5>1 DEF TraceInv
        <5>3. pushed \in Int
          BY DEF TraceInv
        <5> QED
          BY ONLY <1>0, <4>1, <4>3, <5>2, <5>3, TRACE_BUFFER_SIZE \in Nat, i \in 1..TRACE_BUFFER_SIZE
      <4> QED
        BY <4>2, <4>3
    <3>3. Log!Slots(write_index, TRACE_BUFFER_SIZE) =
            [i \in 1..TRACE_BUFFER_SIZE |-> Log!Slots(write_index, TRACE_BUFFER_SIZE)[i]]
      BY DEF Log!Slots
    <3> QED
      BY <2>2, <3>1, <3>2, <3>3
  <2> QED
    BY <1>0, <2>1, <2>2
<1>2. Log!ToSet(Log!Shown) = Log!ToSet(Log!Dumped)
  <2>1. Log!Shown = Log!Slots(0, event_count)
    BY <1>0 DEF Log!Shown
  <2>2. CASE event_count < TRACE_BUFFER_SIZE
    BY <2>1, <2>2 DEF Log!Dumped
  <2>3. CASE event_count = TRACE_BUFFER_SIZE
    <3> DEFINE N == TRACE_BUFFER_SIZE
               R == {ring[j] : j \in 0..N - 1}
    <3>1. ASSUME NEW from \in 0..N - 1 PROVE Log!ToSet(Log!Slots(from, N)) = R
      <4>1. DOMAIN Log!Slots(from, N) = 1..N
        BY DEF Log!Slots
      <4>2. ASSUME NEW i \in 1..N PROVE Log!Slots(from, N)[i] \in R
        <5>1. Log!Slots(from, N)[i] = IF from + i - 1 < N THEN ring[from + i - 1]
                                      ELSE ring[from + i - 1 - N]
          BY <1>0, SlotsOf
        <5>2. \/ from + i - 1 < N /\ from + i - 1 \in 0..N - 1
              \/ ~(from + i - 1 < N) /\ from + i - 1 - N \in 0..N - 1
          OBVIOUS
        <5> QED
          BY <5>1, <5>2
      <4>3. ASSUME NEW j \in 0..N - 1
            PROVE  \E i \in 1..N : Log!Slots(from, N)[i] = ring[j]
        <5>1. CASE j >= from
          <6>1. PICK i \in 1..N : i = j - from + 1
            BY <5>1
          <6>2. from + i - 1 < N /\ from + i - 1 = j
            BY <6>1
          <6>3. Log!Slots(from, N)[i] = ring[j]
            BY <1>0, <6>2, SlotsOf
          <6> QED
            BY <6>3
        <5>2. CASE j < from
          <6>1. PICK i \in 1..N : i = j - from + 1 + N
            BY <5>2
          <6>2. ~(from + i - 1 < N) /\ from + i - 1 - N = j
            BY <6>1
          <6>3. Log!Slots(from, N)[i] = ring[j]
            BY <1>0, <6>2, SlotsOf
          <6> QED
            BY <6>3
        <5> QED
          BY <5>1, <5>2
      <4>4. Log!ToSet(Log!Slots(from, N)) = {Log!Slots(from, N)[i] : i \in 1..N}
        BY <4>1 DEF Log!ToSet
      <4> HIDE DEF N
      <4> QED
        BY <4>2, <4>3, <4>4
    <3>2. Log!Dumped = Log!Slots(write_index, N) /\ Log!Shown = Log!Slots(0, N)
      BY <2>1, <2>3 DEF Log!Dumped
    <3> HIDE DEF R
    <3> QED
      BY <1>0, <3>1, <3>2
  <2> QED
    BY <1>0, <2>2, <2>3
<1> QED
  BY <1>1, <1>2 DEF Log!DumpIsLast

-----------------------------------------------------------------------------
(* crash_dump.c.                                                           *)
(* What is cleared was reported or lost in the writing of its report, or   *)
(* it had not been read: then it counts as missed.                         *)
CrashInv ==
  /\ dump \in 0..crashes /\ saved \in 0..crashes /\ crashes \in 0..MaxCrashes
  /\ apc \in {"idle", "report", "clear"}
  /\ logged \subseteq 1..crashes /\ unwritten \subseteq 1..crashes /\ missed \subseteq 1..crashes
  /\ apc # "idle" => read \in 1..crashes
  /\ apc = "clear" => read \in logged \cup unwritten
  /\ Log!CrashReported

LEMMA CrashStarts == ASSUME Log!LoggingAssumption, Log!CrashInit PROVE CrashInv
  BY LogNumbers DEF Log!CrashInit, CrashInv, Log!CrashReported

LEMMA CrashGoesOn ==
  ASSUME Log!LoggingAssumption, CrashInv, [Log!CrashNext]_(Log!crashvars) PROVE CrashInv'
<1> USE LogNumbers DEF CrashInv, Log!CrashReported, Log!Valid, Log!Cleared
<1>1. CASE Log!Crash
  BY <1>1 DEF Log!Crash
<1>2. CASE Log!Saved
  BY <1>2 DEF Log!Saved
<1>3. CASE Log!ReadContext
  BY <1>3 DEF Log!ReadContext
<1>4. CASE Log!Report
  BY <1>4 DEF Log!Report, Log!Unopened
<1>5. CASE Log!ClearContext
  <2>1. /\ apc = "clear" /\ apc' = "idle" /\ dump' \in {0, dump} /\ saved' \in {0, saved}
        /\ missed' = missed \cup (IF dump' = dump THEN {} ELSE {dump} \ {read})
        /\ UNCHANGED <<read, crashes, logged, unwritten>>
    BY <1>5 DEF Log!ClearContext
  <2>2. dump' \in 0..crashes /\ saved' \in 0..crashes
    BY <2>1
  <2>3. missed' \subseteq 1..crashes
    <3>1. missed \subseteq 1..crashes /\ dump \in 0..crashes /\ crashes \in Nat
      BY <2>1
    <3>2. CASE dump' = dump
      <4>1. missed' = missed
        BY ONLY <2>1, <3>2
      <4> QED
        BY ONLY <3>1, <4>1
    <3>3. CASE dump' # dump
      <4>1. dump \in 1..crashes
        BY ONLY <2>1, <3>1, <3>3
      <4>2. missed' = missed \cup ({dump} \ {read})
        BY ONLY <2>1, <3>3
      <4> QED
        BY ONLY <3>1, <4>1, <4>2
    <3> QED
      BY <3>2, <3>3
  <2>4. (1..crashes) \ missed' \subseteq logged \cup unwritten \cup {dump'}
    <3>1. (1..crashes) \ missed \subseteq logged \cup unwritten \cup {dump}
          /\ read \in logged \cup unwritten
      BY <2>1
    <3>2. missed \subseteq missed' /\ (dump' # dump => dump = read \/ dump \in missed')
      BY <2>1
    <3> QED
      BY ONLY <3>1, <3>2
  <2>5. apc' = "idle" /\ crashes' = crashes /\ logged' = logged /\ unwritten' = unwritten
        /\ crashes \in 0..MaxCrashes /\ logged \subseteq 1..crashes
        /\ unwritten \subseteq 1..crashes
    BY <2>1
  <2> QED
    BY ONLY <2>2, <2>3, <2>4, <2>5 DEF CrashInv, Log!CrashReported
<1>6. CASE Log!crash_dump_clear
  <2>1. /\ dump' \in {0, dump} /\ saved' \in {0, saved}
        /\ missed' = missed \cup (IF dump' = dump THEN {} ELSE {dump})
        /\ UNCHANGED <<apc, read, crashes, logged, unwritten>>
    BY <1>6 DEF Log!crash_dump_clear
  <2>2. CASE dump' = dump
    BY <2>1, <2>2
  <2>3. CASE dump' # dump
    <3>1. dump' = 0 /\ dump \in 1..crashes /\ missed' = missed \cup {dump}
      BY <2>1, <2>3
    <3> QED
      BY <2>1, <3>1
  <2> QED
    BY <2>2, <2>3
<1>7. CASE Log!Killed
  BY <1>7 DEF Log!Killed
<1>8. CASE UNCHANGED Log!crashvars
  BY <1>8 DEF Log!crashvars
<1> QED
  BY <1>1, <1>2, <1>3, <1>4, <1>5, <1>6, <1>7, <1>8 DEF Log!CrashNext

-----------------------------------------------------------------------------
(* perf_profiler.c.                                                        *)
(* The sum is a fold over the tasks in an order that is chosen: what the   *)
(* fold computes is a function of the subsets of the tasks.                *)
Pick(s) == CHOOSE x \in s : TRUE
Sums(f, sum) == sum = [s \in SUBSET Task |-> IF s = {} THEN 0
                                             ELSE f[Pick(s)] + sum[s \ {Pick(s)}]]

LEMMA Picked ==
  ASSUME Log!LoggingAssumption, NEW s \in SUBSET Task, s # {}
  PROVE  /\ Pick(s) \in s /\ s \ {Pick(s)} \in SUBSET Task
         /\ IsFiniteSet(s) /\ Cardinality(s) \in Nat /\ Cardinality(s) # 0
         /\ Cardinality(s \ {Pick(s)}) = Cardinality(s) - 1
<1>1. IsFiniteSet(Task)
  BY LogCounts DEF Log!LoggingAssumption
<1>2. IsFiniteSet(s) /\ Cardinality(s) \in Nat /\ Cardinality(s) # 0
  BY <1>1, FS_Subset, FS_CardinalityType, FS_EmptySet
<1>3. Pick(s) \in s
  BY DEF Pick
<1> QED
  BY <1>2, <1>3, FS_RemoveElement

(* Induction over the number of tasks.                                     *)
LEMMA OverTasks ==
  ASSUME Log!LoggingAssumption, NEW P, {} \in P,
         \A s \in SUBSET Task : s # {} /\ s \ {Pick(s)} \in P => s \in P
  PROVE  SUBSET Task \subseteq P
<1> DEFINE S == {n \in Nat : \A s \in SUBSET Task : Cardinality(s) = n => s \in P}
<1>1. 0 \in S
  <2>1. \A s \in SUBSET Task : Cardinality(s) = 0 => s = {}
    BY Picked
  <2> QED
    BY <2>1
<1>2. ASSUME NEW n \in Nat, n \in S PROVE n + 1 \in S
  <2>1. ASSUME NEW s \in SUBSET Task, Cardinality(s) = n + 1 PROVE s \in P
    <3>1. s # {}
      BY <2>1, FS_EmptySet
    <3>2. Cardinality(s \ {Pick(s)}) = n /\ s \ {Pick(s)} \in SUBSET Task
      BY <2>1, <3>1, Picked
    <3> QED
      BY <1>2, <3>1, <3>2
  <2> QED
    BY <2>1
<1>3. Nat \subseteq S
  <2> HIDE DEF S
  <2> QED
    BY <1>1, <1>2, SetInduction
<1>4. ASSUME NEW s \in SUBSET Task PROVE s \in P
  <2>1. Cardinality(s) \in Nat
    BY LogCounts, FS_Subset, FS_CardinalityType DEF Log!LoggingAssumption
  <2> QED
    BY <1>3, <2>1
<1> QED
  BY <1>4

Sum(f) == CHOOSE sum : Sums(f, sum)

LEMMA SumDefined == ASSUME Log!LoggingAssumption, NEW f PROVE Sums(f, Sum(f))
<1> DEFINE D(n) == {s \in SUBSET Task : Cardinality(s) <= n}
           Step(g, s) == IF s = {} THEN 0 ELSE f[Pick(s)] + g[s \ {Pick(s)}]
           S == {n \in Nat : \E g : g = [s \in D(n) |-> Step(g, s)]}
<1>0. IsFiniteSet(Task) /\ \A s \in SUBSET Task : Cardinality(s) \in Nat
  BY LogCounts, FS_Subset, FS_CardinalityType DEF Log!LoggingAssumption
<1>1. 0 \in S
  <2> DEFINE g == [s \in D(0) |-> 0]
  <2>1. ASSUME NEW s \in D(0) PROVE s = {}
    <3>1. s \in SUBSET Task /\ Cardinality(s) = 0
      BY <1>0
    <3> QED
      BY <3>1, Picked
  <2>2. g = [s \in D(0) |-> Step(g, s)]
    BY <2>1
  <2> HIDE DEF g, Step, D
  <2> QED
    BY <2>2
<1>2. ASSUME NEW n \in Nat, n \in S PROVE n + 1 \in S
  <2> HIDE DEF Step
  <2>1. PICK h : h = [s \in D(n) |-> Step(h, s)]
    BY <1>2
  <2> DEFINE g == [s \in D(n + 1) |-> IF s \in D(n) THEN h[s] ELSE Step(h, s)]
  <2>2. ASSUME NEW s \in D(n + 1) PROVE g[s] = Step(g, s)
    <3>1. Step(g, s) = Step(h, s)
      <4>1. s # {} => s \ {Pick(s)} \in D(n) /\ s \ {Pick(s)} \in D(n + 1)
        <5>1. CASE s # {}
          <6>1. /\ s \ {Pick(s)} \in SUBSET Task /\ Cardinality(s \ {Pick(s)}) = Cardinality(s) - 1
                /\ Cardinality(s) \in Nat /\ Cardinality(s) <= n + 1
            BY <5>1, Picked
          <6> QED
            BY <6>1
        <5> QED
          BY <5>1
      <4>2. s # {} => g[s \ {Pick(s)}] = h[s \ {Pick(s)}]
        BY <4>1
      <4> HIDE DEF g, D
      <4> QED
        BY <4>2 DEF Step
    <3>2. s \in D(n) => h[s] = Step(h, s)
      <4> HIDE DEF D
      <4> QED
        BY <2>1
    <3>3. g[s] = IF s \in D(n) THEN h[s] ELSE Step(h, s)
      <4> HIDE DEF D
      <4> QED
        OBVIOUS
    <3> HIDE DEF g, D
    <3> QED
      BY <3>1, <3>2, <3>3
  <2>3. g = [s \in D(n + 1) |-> Step(g, s)]
    <3>1. g = [s \in D(n + 1) |-> g[s]]
      <4> HIDE DEF D
      <4> QED
        OBVIOUS
    <3> HIDE DEF g, D
    <3> QED
      BY <2>2, <3>1, Zenon
  <2> HIDE DEF g, D
  <2> QED
    BY <2>3
<1>3. Cardinality(Task) \in S
  <2> HIDE DEF S
  <2> QED
    BY <1>0, <1>1, <1>2, SetInduction
<1>4. D(Cardinality(Task)) = SUBSET Task
  BY <1>0, FS_Subset
<1>5. PICK g : g = [s \in D(Cardinality(Task)) |-> Step(g, s)]
  BY <1>3
<1>6. g = [s \in SUBSET Task |-> Step(g, s)]
  <2> HIDE DEF D, Step
  <2> QED
    BY <1>4, <1>5
<1>7. Sums(f, g)
  BY <1>6, Zenon DEF Sums
<1> QED
  BY <1>7, Zenon DEF Sum

(* What the sum of a set is.                                               *)
LEMMA SumOf ==
  ASSUME Log!LoggingAssumption, NEW f, NEW s \in SUBSET Task
  PROVE  Sum(f)[s] = IF s = {} THEN 0 ELSE f[Pick(s)] + Sum(f)[s \ {Pick(s)}]
<1> DEFINE g == Sum(f)
<1>1. Sums(f, g)
  BY SumDefined
<1> HIDE DEF g
<1>2. g[s] = IF s = {} THEN 0 ELSE f[Pick(s)] + g[s \ {Pick(s)}]
  BY <1>1, Zenon DEF Sums
<1> QED
  BY ONLY <1>2 DEF g

LEMMA SumType ==
  ASSUME Log!LoggingAssumption, NEW f \in [Task -> Nat] PROVE Sum(f)[Task] \in Nat
<1> DEFINE P == {s \in SUBSET Task : Sum(f)[s] \in Nat}
<1>1. {} \in P
  <2>1. Sum(f)[{}] = 0
    BY SumOf
  <2> QED
    BY <2>1
<1>2. ASSUME NEW s \in SUBSET Task, s # {}, s \ {Pick(s)} \in P PROVE s \in P
  <2>1. Sum(f)[s] = f[Pick(s)] + Sum(f)[s \ {Pick(s)}]
    BY <1>2, SumOf
  <2>2. f[Pick(s)] \in Nat
    BY <1>2, Picked
  <2> QED
    BY <1>2, <2>1, <2>2
<1>3. SUBSET Task \subseteq P
  <2> HIDE DEF P
  <2> QED
    BY <1>1, <1>2, OverTasks
<1> QED
  BY <1>3

LEMMA SumOfNone == ASSUME Log!LoggingAssumption PROVE Sum([t \in Task |-> 0])[Task] = 0
<1> DEFINE f == [t \in Task |-> 0]
           P == {s \in SUBSET Task : Sum(f)[s] = 0}
<1>1. {} \in P
  BY SumOf
<1>2. ASSUME NEW s \in SUBSET Task, s # {}, s \ {Pick(s)} \in P PROVE s \in P
  <2>1. Sum(f)[s] = f[Pick(s)] + Sum(f)[s \ {Pick(s)}]
    BY <1>2, SumOf
  <2>2. f[Pick(s)] = 0
    BY <1>2, Picked
  <2> HIDE DEF f
  <2> QED
    BY <1>2, <2>1, <2>2
<1>3. SUBSET Task \subseteq P
  <2> HIDE DEF P
  <2> QED
    BY <1>1, <1>2, OverTasks
<1> QED
  BY <1>3

(* What one task gains the sum gains.                                      *)
LEMMA SumGains ==
  ASSUME Log!LoggingAssumption, NEW f \in [Task -> Nat], NEW t \in Task, NEW d \in Nat
  PROVE  Sum([f EXCEPT ![t] = @ + d])[Task] = Sum(f)[Task] + d
<1> DEFINE h == [f EXCEPT ![t] = @ + d]
           P == {s \in SUBSET Task : /\ Sum(f)[s] \in Nat
                                     /\ Sum(h)[s] = Sum(f)[s] + (IF t \in s THEN d ELSE 0)}
<1>0. \A u \in Task : h[u] = f[u] + (IF u = t THEN d ELSE 0)
  OBVIOUS
<1> HIDE DEF h
<1>1. {} \in P
  <2>1. Sum(f)[{}] = 0 /\ Sum(h)[{}] = 0
    BY SumOf
  <2> QED
    BY <2>1
<1>2. ASSUME NEW s \in SUBSET Task, s # {}, s \ {Pick(s)} \in P PROVE s \in P
  <2>1. PICK r : r = s \ {Pick(s)}
    OBVIOUS
  <2>2. Sum(f)[s] = f[Pick(s)] + Sum(f)[r] /\ Sum(h)[s] = h[Pick(s)] + Sum(h)[r]
    BY <1>2, <2>1, SumOf
  <2>3. Pick(s) \in s /\ Pick(s) \in Task /\ f[Pick(s)] \in Nat
    BY <1>2, Picked
  <2>4. h[Pick(s)] = f[Pick(s)] + (IF Pick(s) = t THEN d ELSE 0)
    BY <1>0, <2>3
  <2>5. /\ Sum(f)[r] \in Nat
        /\ Sum(h)[r] = Sum(f)[r] + (IF t \in s /\ t # Pick(s) THEN d ELSE 0)
    BY <1>2, <2>1
  <2>6. Sum(f)[s] \in Nat /\ Sum(h)[s] = Sum(f)[s] + (IF t \in s THEN d ELSE 0)
    <3> DEFINE a == f[Pick(s)]
               b == Sum(f)[r]
               c == h[Pick(s)]
               e == Sum(h)[r]
               x == Sum(f)[s]
               y == Sum(h)[s]
    <3>1. /\ a \in Nat /\ b \in Nat /\ x = a + b /\ y = c + e /\ d \in Nat
          /\ c = a + (IF Pick(s) = t THEN d ELSE 0)
          /\ e = b + (IF t \in s /\ t # Pick(s) THEN d ELSE 0)
          /\ Pick(s) \in s
      BY <2>2, <2>3, <2>4, <2>5
    <3> HIDE DEF a, b, c, e, x, y
    <3>2. x \in Nat /\ y = x + (IF t \in s THEN d ELSE 0)
      BY ONLY <3>1
    <3> QED
      BY <3>2 DEF x, y
  <2> QED
    BY <2>6
<1>3. SUBSET Task \subseteq P
  <2> HIDE DEF P
  <2> QED
    BY <1>1, <1>2, OverTasks
<1>4. Sum(h)[Task] = Sum(f)[Task] + d
  BY <1>3
<1> QED
  BY <1>4 DEF h

(* The fold of the model is this sum.                                      *)
LEMMA SumIsFold ==
  ASSUME Log!LoggingAssumption, runtime \in [Task -> Nat]
  PROVE  Log!TimesAddUp <=> Sum(runtime)[Task] = uptime
<1>1. DOMAIN runtime = Task
  OBVIOUS
<1> QED
  BY <1>1, Zenon
  DEF Log!TimesAddUp, Log!FoldFunction, Log!FoldFunctionOnSet, Log!MapThenFoldSet, Sum, Sums, Pick

(* The sum over all tasks.                                                 *)
Total(f) == Sum(f)[Task]

LEMMA TotalOf ==
  ASSUME Log!LoggingAssumption
  PROVE  /\ Total([t \in Task |-> 0]) = 0
         /\ \A f \in [Task -> Nat], t \in Task, d \in Nat :
              Total([f EXCEPT ![t] = @ + d]) = Total(f) + d
  BY SumOfNone, SumGains, Zenon DEF Total

(* The task that runs is one with an entry, and the time of the interval   *)
(* is the sum of what the tasks used.                                      *)
PerfNumbers ==
  /\ tasks \subseteq Task /\ runtime \in [Task -> Nat] /\ uptime \in Nat /\ ran \in Nat
  /\ uptime + ran <= MaxTime
  /\ \A t \in Task : runtime[t] <= uptime
PerfSum == Total(runtime) = uptime
PerfTask == on_cpu \in Task \cup {""}
PerfInv == PerfNumbers /\ PerfTask /\ PerfSum

LEMMA PerfStarts == ASSUME Log!LoggingAssumption, Log!PerfInit PROVE PerfInv
<1>1. /\ tasks = {} /\ runtime = [t \in Task |-> 0] /\ uptime = 0 /\ on_cpu = "" /\ ran = 0
  BY DEF Log!PerfInit
<1>2. Total(runtime) = 0
  BY <1>1, TotalOf
<1>3. runtime \in [Task -> Nat] /\ \A t \in Task : runtime[t] = 0
  BY <1>1
<1>4. PerfNumbers
  <2>1. tasks \subseteq Task /\ uptime = 0 /\ ran = 0
    BY <1>1
  <2> QED
    BY ONLY <2>1, <1>3, Log!LoggingAssumption, LogNumbers DEF PerfNumbers
<1> QED
  BY <1>1, <1>2, <1>4, Zenon DEF PerfInv, PerfTask, PerfSum

LEMMA PerfGoesOn ==
  ASSUME Log!LoggingAssumption, PerfInv, [Log!PerfNext]_(Log!perfvars) PROVE PerfInv'
<1>0. PerfNumbers /\ PerfTask /\ PerfSum
  BY DEF PerfInv
<1> USE LogNumbers DEF PerfNumbers
<1>1. ASSUME NEW t \in Task PROVE Log!Added(t) \subseteq Task
  BY <1>0 DEF Log!Added
<1>2. ASSUME NEW t \in Task, Log!perf_profiler_task_switch_in(t) PROVE PerfInv'
  <2>1. /\ runtime' = IF on_cpu = "" THEN runtime ELSE [runtime EXCEPT ![on_cpu] = @ + ran]
        /\ uptime' = uptime + (IF on_cpu = "" THEN 0 ELSE ran)
        /\ tasks' = Log!Added(t) /\ on_cpu' \in {t, ""} /\ ran' = 0
    BY <1>2 DEF Log!perf_profiler_task_switch_in, Log!Counted
  <2>2. tasks' \subseteq Task /\ PerfTask' /\ ran' \in Nat
    <3>1. PerfTask'
      BY <2>1, Zenon DEF PerfTask
    <3>2. tasks' \subseteq Task
      BY <1>1, <2>1, Zenon
    <3>3. ran' = 0
      BY <2>1
    <3> QED
      BY <3>1, <3>2, <3>3
  <2>3. CASE on_cpu = ""
    <3>1. runtime' = runtime /\ uptime' = uptime /\ ran' = 0
      <4>1. runtime' = runtime /\ uptime' = uptime + 0 /\ ran' = 0
        BY <2>1, <2>3, Zenon
      <4> QED
        BY <1>0, <4>1
    <3>2. PerfNumbers'
      BY <1>0, <2>2, <3>1
    <3> QED
      BY <1>0, <2>2, <3>1, <3>2, Zenon DEF PerfInv, PerfTask, PerfSum
  <2>4. CASE on_cpu # ""
    <3>1. /\ on_cpu \in Task /\ runtime' = [runtime EXCEPT ![on_cpu] = @ + ran]
          /\ uptime' = uptime + ran
      BY <1>0, <2>1, <2>4, Zenon DEF PerfTask
    <3>2. Total(runtime') = uptime'
      <4>1. runtime \in [Task -> Nat] /\ ran \in Nat
        BY <1>0
      <4>2. Total([runtime EXCEPT ![on_cpu] = @ + ran]) = Total(runtime) + ran
        BY <3>1, <4>1, TotalOf, Zenon
      <4> QED
        BY <1>0, <3>1, <4>2, Zenon DEF PerfSum
    <3>3. PerfNumbers'
      <4>1. ASSUME NEW u \in Task PROVE runtime'[u] \in Nat /\ runtime'[u] <= uptime'
        <5>1. runtime'[u] = IF u = on_cpu THEN runtime[u] + ran ELSE runtime[u]
          BY <1>0, <3>1
        <5>2. runtime[u] \in Nat /\ runtime[u] <= uptime /\ ran \in Nat /\ uptime \in Nat
          BY <1>0
        <5> QED
          BY ONLY <3>1, <5>1, <5>2
      <4>2. runtime' \in [Task -> Nat]
        BY <1>0, <3>1, <4>1
      <4>3. tasks' \subseteq Task /\ uptime' = uptime + ran /\ ran' = 0
        BY <2>1, <2>2, <3>1, Zenon
      <4> QED
        BY <1>0, <4>1, <4>2, <4>3
    <3> QED
      BY <2>2, <3>2, <3>3, Zenon DEF PerfInv, PerfTask, PerfSum
  <2> QED
    BY <2>3, <2>4
<1>3. ASSUME NEW t \in Task, Log!perf_profiler_stack_hwm(t) PROVE PerfInv'
  <2>1. /\ runtime' = runtime /\ uptime' = uptime /\ tasks' \subseteq Task
        /\ on_cpu' = on_cpu /\ ran' = ran
    BY <1>1, <1>3 DEF Log!perf_profiler_stack_hwm
  <2>2. PerfNumbers'
    BY <1>0, <2>1
  <2> QED
    BY <1>0, <2>1, <2>2, Zenon DEF PerfInv, PerfTask, PerfSum
<1>4. CASE Log!perf_profiler_flush
  <2>1. /\ runtime' = [t \in Task |-> 0] /\ uptime' = 0
        /\ tasks' = tasks /\ on_cpu' = on_cpu /\ ran' = ran
    BY <1>4 DEF Log!perf_profiler_flush
  <2>2. Total(runtime') = 0
    BY <2>1, TotalOf, Zenon
  <2>3. runtime' \in [Task -> Nat] /\ \A t \in Task : runtime'[t] = 0
    BY <2>1
  <2>4. PerfNumbers'
    BY <1>0, <2>1, <2>3
  <2> QED
    BY <2>1, <2>2, <2>4, Zenon DEF PerfInv, PerfTask, PerfSum
<1>5. CASE Log!PerfTick
  <2>1. /\ uptime + ran < MaxTime /\ ran' = ran + 1 /\ tasks' = tasks
        /\ runtime' = runtime /\ uptime' = uptime /\ on_cpu' = on_cpu
    BY <1>5 DEF Log!PerfTick
  <2>2. PerfNumbers'
    BY <1>0, <2>1
  <2> QED
    BY <1>0, <2>1, <2>2, Zenon DEF PerfInv, PerfTask, PerfSum
<1>6. CASE UNCHANGED Log!perfvars
  <2>1. /\ tasks' = tasks /\ runtime' = runtime /\ uptime' = uptime /\ on_cpu' = on_cpu
        /\ ran' = ran
    BY <1>6 DEF Log!perfvars
  <2>2. PerfNumbers'
    BY <1>0, <2>1
  <2> QED
    BY <1>0, <2>1, <2>2, Zenon DEF PerfInv, PerfTask, PerfSum
<1> QED
  BY <1>2, <1>3, <1>4, <1>5, <1>6 DEF Log!PerfNext

LEMMA PerfHolds == ASSUME Log!LoggingAssumption, PerfInv PROVE Log!TimesAddUp
  BY SumIsFold DEF PerfInv, PerfNumbers, PerfSum, Total

-----------------------------------------------------------------------------
(* uds.c.                                                                  *)
(* The table: entries of different codes, those taken since the last clear.*)
Entries == [dtc : Dtc, occurrence_count : Nat]
UdsInv ==
  /\ session \in Field!Sessions \cup {Field!NoSession} /\ initialized \in BOOLEAN
  /\ table \in Seq(Entries) /\ Len(table) <= DTC_SLOTS
  /\ uds_answer.positive \in BOOLEAN /\ faults \subseteq Dtc
  /\ Field!FaultsAreKept

(* The width of a counter is the number of subsets of its bits.            *)
LEMMA PowerOfTwo == ASSUME NEW w \in Nat PROVE 2 ^ w \in Nat \ {0}
<1>1. IsFiniteSet(1..w) /\ Cardinality(1..w) = w
  BY FS_Interval
<1>2. IsFiniteSet(SUBSET (1..w)) /\ Cardinality(SUBSET (1..w)) = 2 ^ w
  BY <1>1, FS_SUBSET
<1>3. Cardinality(SUBSET (1..w)) \in Nat /\ Cardinality(SUBSET (1..w)) # 0
  <2>1. {} \in SUBSET (1..w)
    OBVIOUS
  <2> QED
    BY <1>2, <2>1, FS_CardinalityType, FS_EmptySet
<1> QED
  BY <1>2, <1>3

LEMMA UdsStarts == ASSUME Field!FieldBusAssumption, Field!UDS_Init PROVE UdsInv
<1> USE DEF Field!UDS_Init, Field!Empty
<1>1. table = <<>> /\ Len(table) = 0 /\ DOMAIN table = {} /\ faults = {}
  OBVIOUS
<1>2. Field!FaultsAreKept
  BY <1>1 DEF Field!FaultsAreKept
<1>3. session \in Field!Sessions /\ uds_answer.positive = FALSE
  BY DEF Field!Sessions, Field!DEFAULT, Field!Negative
<1>4. table \in Seq(Entries) /\ initialized = FALSE
  BY <1>1
<1>5. Len(table) <= DTC_SLOTS
  BY <1>1 DEF Field!FieldBusAssumption
<1> QED
  BY ONLY <1>1, <1>2, <1>3, <1>4, <1>5 DEF UdsInv

LEMMA AnswersPositive ==
  /\ \A sid, bytes : Field!Positive(sid, bytes).positive = TRUE
  /\ \A nrc : Field!Negative(nrc).positive = FALSE
  BY DEF Field!Positive, Field!Negative

LEMMA UdsAnswers ==
  ASSUME Field!FieldBusAssumption, UdsInv, NEW req \in Field!Request, Field!Handler(req),
         UNCHANGED initialized
  PROVE  UdsInv'
<1>0. /\ session \in Field!Sessions \cup {Field!NoSession} /\ initialized \in BOOLEAN
      /\ table \in Seq(Entries) /\ Len(table) <= DTC_SLOTS /\ faults \subseteq Dtc
      /\ Field!FaultsAreKept
  BY DEF UdsInv
<1>1. req.byte \in Field!Sessions \cup {Field!NoSession}
  BY DEF Field!Request
<1>2. ASSUME /\ session' \in Field!Sessions \cup {Field!NoSession}
             /\ table' = table /\ faults' = faults /\ uds_answer'.positive \in BOOLEAN
      PROVE  UdsInv'
  BY <1>0, <1>2 DEF UdsInv, Field!FaultsAreKept
<1>3. CASE Field!handle_session_control(req)
  BY <1>0, <1>2, <1>3, AnswersPositive DEF Field!handle_session_control
<1>4. CASE Field!handle_ecu_reset(req)
  BY <1>0, <1>2, <1>4, AnswersPositive DEF Field!handle_ecu_reset
<1>5. CASE Field!handle_read_data_by_id(req)
  BY <1>0, <1>2, <1>5, AnswersPositive DEF Field!handle_read_data_by_id
<1>6. CASE Field!handle_write_data_by_id(req)
  <2>1. uds_answer'.positive \in BOOLEAN
    BY <1>6, AnswersPositive DEF Field!handle_write_data_by_id
  <2>2. session' \in {session, req.byte} /\ table' = table /\ faults' = faults
    BY <1>6 DEF Field!handle_write_data_by_id
  <2> QED
    BY <1>0, <1>1, <1>2, <2>1, <2>2
<1>7. CASE Field!handle_clear_dtc(req)
  <2>1. /\ table' = <<>> /\ faults' = {} /\ session' = session
        /\ uds_answer'.positive \in BOOLEAN
    BY <1>7, AnswersPositive DEF Field!handle_clear_dtc, Field!uds_dtc_clear, Field!Empty
  <2>2. Len(table') = 0 /\ DOMAIN table' = {} /\ table' \in Seq(Entries)
    BY <2>1
  <2> QED
    BY <1>0, <2>1, <2>2 DEF UdsInv, Field!FaultsAreKept, Field!FieldBusAssumption
<1>8. CASE Field!handle_read_dtc(req)
  <2>1. uds_answer'.positive \in BOOLEAN
    BY <1>8 DEF Field!handle_read_dtc, Field!Positive, Field!Negative
  <2>2. session' = session /\ table' = table /\ faults' = faults
    BY <1>8 DEF Field!handle_read_dtc
  <2> QED
    BY <1>0, <1>2, <2>1, <2>2
<1>9. CASE uds_answer' = Field!Negative("service") /\ UNCHANGED <<session, table, faults>>
  BY <1>0, <1>2, <1>9, AnswersPositive
<1> QED
  BY <1>3, <1>4, <1>5, <1>6, <1>7, <1>8, <1>9, Zenon DEF Field!Handler

LEMMA UdsGoesOn ==
  ASSUME Field!FieldBusAssumption, UdsInv, [Field!UdsNext]_(Field!udsvars) PROVE UdsInv'
<1>0. /\ session \in Field!Sessions \cup {Field!NoSession} /\ initialized \in BOOLEAN
      /\ table \in Seq(Entries) /\ Len(table) <= DTC_SLOTS /\ faults \subseteq Dtc
      /\ uds_answer.positive \in BOOLEAN
      /\ {table[i].dtc : i \in DOMAIN table} = faults
      /\ \A i, j \in DOMAIN table : table[i].dtc = table[j].dtc => i = j
  BY DEF UdsInv, Field!FaultsAreKept
<1>1. CASE Field!uds_init
  <2>1. /\ table' = <<>> /\ faults' = {} /\ session' \in Field!Sessions /\ initialized' = TRUE
        /\ uds_answer' = uds_answer
    BY <1>1 DEF Field!uds_init, Field!Empty, Field!Sessions
  <2>2. Len(table') = 0 /\ DOMAIN table' = {} /\ table' \in Seq(Entries)
    BY <2>1
  <2> QED
    BY <1>0, <2>1, <2>2 DEF UdsInv, Field!FaultsAreKept, Field!FieldBusAssumption
<1>2. CASE Field!uds_shutdown
  BY <1>0, <1>2 DEF Field!uds_shutdown, UdsInv, Field!FaultsAreKept
<1>3. CASE Field!uds_poll
  BY <1>3, UdsAnswers DEF Field!uds_poll
<1>4. ASSUME NEW dtc \in Dtc, Field!uds_dtc_set(dtc) PROVE UdsInv'
  <2>1. faults' = faults \cup {dtc} /\ UNCHANGED <<session, initialized, uds_answer>>
    BY <1>4 DEF Field!uds_dtc_set
  <2>2. ASSUME /\ table' \in Seq(Entries) /\ Len(table') <= DTC_SLOTS
               /\ {table'[i].dtc : i \in DOMAIN table'} = faults \cup {dtc}
               /\ \A i, j \in DOMAIN table' : table'[i].dtc = table'[j].dtc => i = j
        PROVE  UdsInv'
    BY <1>0, <2>1, <2>2 DEF UdsInv, Field!FaultsAreKept
  <2>3. ASSUME NEW i \in Field!Entry(dtc),
               table' = [table EXCEPT ![i].occurrence_count = (@ + 1) % 2 ^ OccurrenceWidth]
        PROVE  UdsInv'
    <3>1. i \in DOMAIN table /\ table[i].dtc = dtc /\ i \in 1..Len(table)
      BY <1>0 DEF Field!Entry
    <3>2. PICK m \in Nat \ {0} : m = 2 ^ OccurrenceWidth
      BY PowerOfTwo DEF Field!FieldBusAssumption
    <3>3. PICK c \in Nat : c = (table[i].occurrence_count + 1) % m
      <4>1. table[i] \in Entries
        BY <1>0, <3>1
      <4>2. table[i].occurrence_count \in Nat
        BY <4>1 DEF Entries
      <4> QED
        BY <4>2
    <3>4. table' = [table EXCEPT ![i] = [table[i] EXCEPT !.occurrence_count = c]]
      BY <2>3, <3>1, <3>2, <3>3
    <3>5. [table[i] EXCEPT !.occurrence_count = c] \in Entries
          /\ [table[i] EXCEPT !.occurrence_count = c].dtc = dtc
      <4>1. PICK r \in Entries : r = table[i]
        BY <1>0, <3>1
      <4>2. r.dtc = dtc /\ c \in Nat
        BY <3>1, <4>1
      <4>3. [r EXCEPT !.occurrence_count = c] \in Entries /\ [r EXCEPT !.occurrence_count = c].dtc = dtc
        BY ONLY <4>2, r \in Entries DEF Entries
      <4> QED
        BY <4>1, <4>3
    <3>6. PICK e \in Entries : e = [table[i] EXCEPT !.occurrence_count = c]
      BY <3>5
    <3>7. e.dtc = dtc /\ table' = [table EXCEPT ![i] = e]
      BY <3>4, <3>5, <3>6
    <3>8. table' \in Seq(Entries) /\ Len(table') = Len(table) /\ DOMAIN table' = DOMAIN table
      BY ONLY <1>0, <3>1, <3>7, e \in Entries
    <3>9. \A j \in DOMAIN table : table'[j].dtc = table[j].dtc
      BY ONLY <3>1, <3>7
    <3>10. {table'[j].dtc : j \in DOMAIN table'} = {table[j].dtc : j \in DOMAIN table}
      BY <3>8, <3>9
    <3>11. dtc \in faults
      BY <1>0, <3>1
    <3> QED
      BY <1>0, <2>2, <3>8, <3>9, <3>10, <3>11
  <2>4. ASSUME Field!Entry(dtc) = {}, Len(table) < DTC_SLOTS,
               table' = Append(table, [dtc |-> dtc, occurrence_count |-> 1])
        PROVE  UdsInv'
    <3>1. PICK e \in Entries : e = [dtc |-> dtc, occurrence_count |-> 1]
      BY DEF Entries
    <3>2. e.dtc = dtc /\ table' = Append(table, e)
      BY <2>4, <3>1
    <3>3. Len(table) \in Nat /\ DOMAIN table = 1..Len(table)
      BY <1>0
    <3>4. /\ table' \in Seq(Entries) /\ Len(table') = Len(table) + 1
          /\ DOMAIN table' = DOMAIN table \cup {Len(table) + 1}
          /\ \A j \in DOMAIN table : table'[j] = table[j]
          /\ table'[Len(table) + 1] = e
      BY ONLY <1>0, <3>2, <3>3, e \in Entries
    <3>5. \A j \in DOMAIN table : table[j].dtc # dtc
      BY <2>4 DEF Field!Entry
    <3>6. {table'[j].dtc : j \in DOMAIN table'} = faults \cup {dtc}
      BY ONLY <1>0, <3>2, <3>4
    <3>7. \A i, j \in DOMAIN table' : table'[i].dtc = table'[j].dtc => i = j
      BY ONLY <1>0, <3>2, <3>4, <3>5
    <3>8. Len(table') <= DTC_SLOTS
      BY <2>4, <3>3, <3>4 DEF Field!FieldBusAssumption
    <3> QED
      BY <2>2, <3>4, <3>6, <3>7, <3>8
  <2> QED
    BY <1>4, <2>3, <2>4 DEF Field!uds_dtc_set
<1>5. CASE UNCHANGED Field!udsvars
  BY <1>0, <1>5 DEF Field!udsvars, UdsInv, Field!FaultsAreKept
<1> QED
  BY <1>1, <1>2, <1>3, <1>4, <1>5 DEF Field!UdsNext

-----------------------------------------------------------------------------
(* modbus_rtu.c.                                                           *)
(* What is on the line are answers of the drive that was asked, or its     *)
(* exceptions.                                                             *)
Functions == {"read", "write", "writes"}
Requests == [drive : Drive, func : Functions]
Answered == [drive : Drive, func : Functions \cup {"exception"}, of : Requests]
Results == [ok : BOOLEAN, drive : Drive, func : Functions \cup {"exception", "none"},
            of : Requests \cup {Field!None}]
ModbusInv ==
  /\ modbus_pc \in {"idle", "send", "receive", "failed"} /\ retry \in 0..MODBUS_RETRY_COUNT
  /\ modbus_pc # "idle" => retry < MODBUS_RETRY_COUNT /\ request \in Requests
  /\ request \in Requests \cup {Field!None} /\ transactions \in 0..MaxTransactions
  /\ line \in Seq(Answered)
  /\ \A i \in DOMAIN line : /\ line[i].drive = line[i].of.drive
                            /\ line[i].func \in {line[i].of.func, "exception"}
  /\ result \in Results /\ Field!AnswerOfTheDrive

LEMMA ModbusStarts == ASSUME Field!FieldBusAssumption, Field!Modbus_Init PROVE ModbusInv
<1> USE DEF Field!Modbus_Init, Field!FieldBusAssumption
<1>1. /\ modbus_pc = "idle" /\ request = Field!None /\ retry = 0 /\ transactions = 0
      /\ line = <<>> /\ line \in Seq(Answered) /\ DOMAIN line = {}
  OBVIOUS
<1>2. result \in Results /\ result.ok = FALSE
  BY DEF Results
<1> QED
  BY <1>1, <1>2 DEF ModbusInv, Field!AnswerOfTheDrive

(* What leaves the result alone, or fails.                                 *)
LEMMA ModbusTakes ==
  ASSUME Field!FieldBusAssumption, ModbusInv, Field!modbus_receive PROVE ModbusInv'
<1>0. /\ retry \in 0..MODBUS_RETRY_COUNT /\ retry < MODBUS_RETRY_COUNT /\ request \in Requests
      /\ transactions \in 0..MaxTransactions /\ line \in Seq(Answered) /\ result \in Results
      /\ \A i \in DOMAIN line : /\ line[i].drive = line[i].of.drive
                                /\ line[i].func \in {line[i].of.func, "exception"}
      /\ Field!AnswerOfTheDrive /\ modbus_pc = "receive"
      /\ UNCHANGED <<request, retry, transactions>>
  BY DEF ModbusInv, Field!modbus_receive
<1>1. ASSUME line' = line \/ (line # <<>> /\ line' = Tail(line))
      PROVE  /\ line' \in Seq(Answered)
             /\ \A i \in DOMAIN line' : /\ line'[i].drive = line'[i].of.drive
                                        /\ line'[i].func \in {line'[i].of.func, "exception"}
  <2>1. CASE line' = line
    BY <1>0, <2>1
  <2>2. CASE line # <<>> /\ line' = Tail(line)
    <3>1. /\ line' \in Seq(Answered) /\ Len(line') = Len(line) - 1
          /\ \A i \in DOMAIN line' : i + 1 \in DOMAIN line /\ line'[i] = line[i + 1]
      BY <1>0, <2>2
    <3> QED
      BY <1>0, <3>1
  <2> QED
    BY <1>1, <2>1, <2>2
<1>2. ASSUME modbus_pc' = "failed", result' = result,
             line' = line \/ (line # <<>> /\ line' = Tail(line))
      PROVE  ModbusInv'
  <2>1. Field!AnswerOfTheDrive'
    BY <1>0, <1>2 DEF Field!AnswerOfTheDrive
  <2> QED
    BY <1>0, <1>1, <1>2, <2>1 DEF ModbusInv
<1>3. ASSUME line # <<>>, line' = Tail(line), modbus_pc' = "idle",
             result' = Field!Returned(Head(line))
      PROVE  ModbusInv'
  <2>1. PICK a \in Answered : a = Head(line) /\ a.drive = a.of.drive
                              /\ a.func \in {a.of.func, "exception"}
    <3>1. Head(line) = line[1] /\ 1 \in DOMAIN line /\ line[1] \in Answered
      BY <1>0, <1>3
    <3> QED
      BY <1>0, <3>1
  <2>2. /\ a.drive \in Drive /\ a.func \in Functions \cup {"exception"} /\ a.of \in Requests
        /\ request.func \in Functions /\ request.drive \in Drive
    BY <1>0 DEF Answered, Requests
  <2>3. result' = [ok |-> Field!Accepted(a) /\ a.func = request.func, drive |-> a.drive,
                   func |-> a.func, of |-> a.of]
    BY <1>3, <2>1 DEF Field!Returned
  <2>4. (Field!Accepted(a) /\ a.func = request.func) \in BOOLEAN
    BY DEF Field!Accepted
  <2>5. result' \in Results
    BY ONLY <2>2, <2>3, <2>4 DEF Results
  <2>6. result'.ok => a.func # "exception" /\ a.drive = request.drive /\ a.func = request.func
    BY <2>3 DEF Field!Accepted
  <2>7. result'.drive = a.drive /\ result'.func = a.func /\ result'.of = a.of
    BY <2>3
  <2>8. Field!AnswerOfTheDrive'
    BY <1>0, <2>1, <2>6, <2>7 DEF Field!AnswerOfTheDrive
  <2> QED
    BY <1>0, <1>1, <1>3, <2>5, <2>8 DEF ModbusInv
<1> QED
  BY <1>0, <1>2, <1>3 DEF Field!modbus_receive

LEMMA ModbusGoesOn ==
  ASSUME Field!FieldBusAssumption, ModbusInv, [Field!ModbusNext]_(Field!modbusvars)
  PROVE  ModbusInv'
<1>0. /\ retry \in 0..MODBUS_RETRY_COUNT /\ transactions \in 0..MaxTransactions
      /\ line \in Seq(Answered) /\ result \in Results
      /\ \A i \in DOMAIN line : /\ line[i].drive = line[i].of.drive
                                /\ line[i].func \in {line[i].of.func, "exception"}
      /\ Field!AnswerOfTheDrive /\ MODBUS_RETRY_COUNT \in Nat \ {0} /\ MaxTransactions \in Nat
  BY DEF ModbusInv, Field!FieldBusAssumption
<1>1. ASSUME NEW drive \in Drive, NEW func \in Functions, Field!Start(drive, func)
      PROVE  ModbusInv'
  <2>1. /\ modbus_pc' = "send" /\ retry' = 0 /\ transactions' = transactions + 1
        /\ transactions < MaxTransactions /\ line' = line /\ result' = result
        /\ request' = [drive |-> drive, func |-> func]
    BY <1>1 DEF Field!Start
  <2>2. request' \in Requests
    BY <2>1 DEF Requests
  <2>3. Field!AnswerOfTheDrive'
    BY <1>0, <2>1 DEF Field!AnswerOfTheDrive
  <2> QED
    BY <1>0, <2>1, <2>2, <2>3 DEF ModbusInv
<1>2. CASE Field!modbus_send
  <2>1. /\ modbus_pc = "send" /\ modbus_pc' \in {"failed", "receive"} /\ retry' = retry
        /\ request' = request /\ result' = result /\ transactions' = transactions
        /\ request \in Requests /\ retry < MODBUS_RETRY_COUNT
    BY <1>2 DEF Field!modbus_send, ModbusInv
  <2>2. Field!AnswerOfTheDrive'
    BY <1>0, <2>1 DEF Field!AnswerOfTheDrive
  <2>3. /\ line' \in Seq(Answered)
        /\ \A i \in DOMAIN line' : /\ line'[i].drive = line'[i].of.drive
                                   /\ line'[i].func \in {line'[i].of.func, "exception"}
    <3>1. CASE line' = line
      BY <1>0, <3>1
    <3>2. ASSUME NEW a \in Field!Answers(request), line' = Append(line, a) PROVE <2>3
      <4>1. PICK f \in {request.func, "exception"} :
              a = [drive |-> request.drive, func |-> f, of |-> request]
        BY DEF Field!Answers
      <4>2. a \in Answered /\ a.drive = a.of.drive /\ a.func \in {a.of.func, "exception"}
        <5>1. request.drive \in Drive /\ request.func \in Functions
          BY <2>1 DEF Requests
        <5> QED
          BY <2>1, <4>1, <5>1 DEF Answered
      <4>3. /\ line' \in Seq(Answered) /\ Len(line') = Len(line) + 1
            /\ \A i \in DOMAIN line' : (i \in DOMAIN line /\ line'[i] = line[i]) \/ line'[i] = a
        BY ONLY <1>0, <3>2, <4>2
      <4> QED
        BY <1>0, <4>2, <4>3
    <3> QED
      BY <1>2, <3>1, <3>2 DEF Field!modbus_send
  <2> QED
    BY <1>0, <2>1, <2>2, <2>3 DEF ModbusInv
<1>3. CASE Field!modbus_receive
  BY <1>3, ModbusTakes
<1>4. CASE Field!Retry
  <2>1. /\ retry' = retry + 1 /\ request' = request /\ line' = line
        /\ transactions' = transactions /\ request \in Requests /\ retry < MODBUS_RETRY_COUNT
        /\ modbus_pc = "failed"
    BY <1>4 DEF Field!Retry, ModbusInv
  <2>2. CASE retry + 1 < MODBUS_RETRY_COUNT
    <3>1. modbus_pc' = "send" /\ result' = result
      BY <1>4, <2>2 DEF Field!Retry
    <3>2. Field!AnswerOfTheDrive'
      BY <1>0, <2>1, <3>1 DEF Field!AnswerOfTheDrive
    <3> QED
      BY <1>0, <2>1, <2>2, <3>1, <3>2 DEF ModbusInv
  <2>3. CASE ~(retry + 1 < MODBUS_RETRY_COUNT)
    <3>1. /\ modbus_pc' = "idle"
          /\ result' = [ok |-> FALSE, drive |-> request.drive, func |-> "none", of |-> request]
      BY <1>4, <2>3 DEF Field!Retry
    <3>2. request.drive \in Drive
      BY <2>1 DEF Requests
    <3>3. result' \in Results /\ result'.ok = FALSE
      BY <2>1, <3>1, <3>2 DEF Results
    <3>4. Field!AnswerOfTheDrive'
      BY <3>3 DEF Field!AnswerOfTheDrive
    <3> QED
      BY <1>0, <2>1, <3>1, <3>3, <3>4 DEF ModbusInv
  <2> QED
    BY <2>2, <2>3
<1>5. CASE UNCHANGED Field!modbusvars
  BY <1>5 DEF Field!modbusvars, ModbusInv, Field!AnswerOfTheDrive
<1> QED
  BY <1>1, <1>2, <1>3, <1>4, <1>5 DEF Field!ModbusNext, Functions
-----------------------------------------------------------------------------
(* ethernet_ip.c.                                                          *)
(* What may wait at the two sockets.                                       *)
Tags == (1..MaxRequests) \cup {"session", "open"}
Waiting == [of : Tags, arrived : BOOLEAN]
Data == [from : {"plc", "robot"}, data : Assembly \cup {"none"}]
EipTypes ==
  /\ tcp \in BOOLEAN /\ udp \in BOOLEAN /\ lost \in BOOLEAN
  /\ eip \in [connected : BOOLEAN, io_active : BOOLEAN, keep_running : BOOLEAN]
  /\ eip_pc \in {"idle", "session", "open", "join", "answer"}
  /\ io \in {"none", "loop", "send", "recv"}
  /\ requests \in 0..MaxRequests /\ eip_answer \in 0..MaxRequests

(* The data of the cyclic connection.                                      *)
EipData == /\ input \in Assembly \cup {"none"}
           /\ output \in Field!Datagram \cup {Field!NoData}
           /\ port \in Seq(Data) /\ Len(port) <= MaxQueue

(* Which sockets are open, and for whom.                                   *)
EipSockets ==
  /\ eip.connected => tcp /\ udp
  /\ io # "none" => eip.connected
  /\ eip_pc \in {"session", "open"} => tcp /\ ~eip.connected
  /\ eip_pc = "open" => udp
  /\ eip_pc \in {"join", "answer"} => eip.connected

(* As long as no request was given up there is at most the one whose       *)
(* answer is waited for.                                                   *)
EipStream ==
  /\ stream \in Seq(Waiting)
  /\ eip_pc \in {"session", "open"} => Len(stream) = 1
  /\ eip_pc \notin {"session", "open"} => \A i \in DOMAIN stream : stream[i].of \in 1..requests
  /\ ~lost /\ eip_pc \in {"idle", "join"} => Len(stream) = 0
  /\ ~lost /\ eip_pc = "answer" => Len(stream) = 1 /\ stream[1].of = requests
  /\ ~lost /\ eip_pc # "answer" => eip_answer = requests

EipInv == EipTypes /\ EipData /\ EipSockets /\ EipStream

LEMMA EipStarts == ASSUME Field!FieldBusAssumption, Field!EIP_Init PROVE EipInv
<1> USE DEF Field!EIP_Init, Field!FieldBusAssumption
<1>1. EipTypes
  <2>1. eip \in [connected : BOOLEAN, io_active : BOOLEAN, keep_running : BOOLEAN]
    OBVIOUS
  <2>2. requests \in 0..MaxRequests /\ eip_answer \in 0..MaxRequests
    OBVIOUS
  <2>3. /\ tcp \in BOOLEAN /\ udp \in BOOLEAN /\ lost \in BOOLEAN
        /\ eip_pc = "idle" /\ io = "none"
    OBVIOUS
  <2> QED
    BY ONLY <2>1, <2>2, <2>3 DEF EipTypes
<1>2. EipData
  BY DEF EipData
<1>3. EipSockets
  BY DEF EipSockets
<1>4. EipStream
  BY DEF EipStream
<1> QED
  BY <1>1, <1>2, <1>3, <1>4 DEF EipInv

(* The types.                                                              *)
LEMMA EipTypesGoOn ==
  ASSUME Field!FieldBusAssumption, EipInv, [Field!EipNext]_(Field!eipvars) PROVE EipTypes'
<1>0. EipTypes /\ EipStream /\ MaxRequests \in Nat
  BY DEF EipInv, Field!FieldBusAssumption
<1> USE <1>0 DEF EipTypes
<1>1. CASE Field!ethernet_ip_connect
  BY <1>1 DEF Field!ethernet_ip_connect
<1>2. CASE Field!eip_register_session
  BY <1>2 DEF Field!eip_register_session
<1>3. CASE Field!eip_forward_open
  BY <1>3 DEF Field!eip_forward_open
<1>4. CASE Field!Fails
  BY <1>4 DEF Field!Fails
<1>5. CASE Field!ethernet_ip_disconnect
  BY <1>5 DEF Field!ethernet_ip_disconnect
<1>6. CASE Field!eip_io_loop
  BY <1>6 DEF Field!eip_io_loop
<1>7. CASE Field!eip_send_io_data
  BY <1>7 DEF Field!eip_send_io_data
<1>8. CASE Field!eip_recv_io_data
  BY <1>8 DEF Field!eip_recv_io_data
<1>9. CASE Field!ethernet_ip_set_input_assembly
  BY <1>9 DEF Field!ethernet_ip_set_input_assembly
<1>10. CASE Field!ethernet_ip_explicit_msg
  <2>1. CASE Field!eip_encap_recv /\ eip_pc = "answer" /\ eip_answer' = Head(stream).of
    <3>1. Head(stream).of \in 1..requests
      <4>1. Len(stream) # 0 /\ 1 \in DOMAIN stream /\ Head(stream) = stream[1]
        BY <2>1 DEF Field!eip_encap_recv, EipStream
      <4> QED
        BY <2>1, <4>1 DEF EipStream
    <3>2. UNCHANGED <<tcp, udp, eip, io, input, output, port>> /\ requests' = requests
      BY <1>10, <2>1 DEF Field!ethernet_ip_explicit_msg
    <3>3. lost' \in BOOLEAN /\ eip_pc' = "idle"
      BY <1>10, <2>1 DEF Field!ethernet_ip_explicit_msg
    <3>4. eip_answer' \in 0..MaxRequests
      BY <2>1, <3>1
    <3> QED
      BY <3>2, <3>3, <3>4
  <2>2. CASE ~(Field!eip_encap_recv /\ eip_pc = "answer" /\ eip_answer' = Head(stream).of)
    <3>1. UNCHANGED <<tcp, udp, eip, io, input, output, port, eip_answer>>
      BY <1>10, <2>2 DEF Field!ethernet_ip_explicit_msg
    <3>2. lost' \in BOOLEAN
      BY <1>10, <2>2 DEF Field!ethernet_ip_explicit_msg
    <3>3. eip_pc' \in {"idle", "answer"}
      BY <1>10, <2>2 DEF Field!ethernet_ip_explicit_msg
    <3>4. requests' = requests \/ (requests < MaxRequests /\ requests' = requests + 1)
      BY <1>10, <2>2 DEF Field!ethernet_ip_explicit_msg
    <3> QED
      BY <3>1, <3>2, <3>3, <3>4
  <2> QED
    BY <2>1, <2>2
<1>11. CASE Field!PlcAnswers
  BY <1>11 DEF Field!PlcAnswers
<1>12. CASE Field!PlcSends
  BY <1>12 DEF Field!PlcSends
<1>13. CASE UNCHANGED Field!eipvars
  BY <1>13 DEF Field!eipvars
<1> QED
  BY <1>1, <1>2, <1>3, <1>4, <1>5, <1>6, <1>7, <1>8, <1>9, <1>10, <1>11, <1>12, <1>13
  DEF Field!EipNext

LEMMA EipDataGoesOn ==
  ASSUME Field!FieldBusAssumption, EipInv, [Field!EipNext]_(Field!eipvars) PROVE EipData'
<1>0. /\ input \in Assembly \cup {"none"} /\ output \in Field!Datagram \cup {Field!NoData}
      /\ port \in Seq(Data) /\ Len(port) <= MaxQueue /\ MaxQueue \in Nat \ {0}
  BY DEF EipInv, EipData, Field!FieldBusAssumption
<1>1. ASSUME UNCHANGED <<input, output>>,
             \/ port' = port
             \/ port' = <<>>
             \/ Len(port) < MaxQueue /\ \E d \in Data : port' = Append(port, d)
      PROVE  EipData'
  <2>1. CASE port' = <<>>
    BY <1>0, <1>1, <2>1 DEF EipData
  <2>2. CASE port' = port
    BY <1>0, <1>1, <2>2 DEF EipData
  <2>3. ASSUME Len(port) < MaxQueue, NEW d \in Data, port' = Append(port, d) PROVE EipData'
    <3>1. port' \in Seq(Data) /\ Len(port') <= MaxQueue
      BY <1>0, <2>3
    <3> QED
      BY <1>0, <1>1, <3>1 DEF EipData
  <2> QED
    BY <1>1, <2>1, <2>2, <2>3
<1>2. CASE Field!eip_send_io_data
  <2>1. [from |-> "robot", data |-> input] \in Data
    BY <1>0 DEF Data
  <2> QED
    BY <1>1, <1>2, <2>1 DEF Field!eip_send_io_data
<1>3. CASE Field!eip_recv_io_data
  <2>1. /\ port # <<>> /\ port' = Tail(port) /\ input' = input
        /\ output' = IF Head(port).data = "none" THEN output ELSE Head(port)
    BY <1>3 DEF Field!eip_recv_io_data
  <2>2. port' \in Seq(Data) /\ Len(port') <= MaxQueue /\ Head(port) \in Data
    BY <1>0, <2>1
  <2>3. Head(port).data # "none" => Head(port) \in Field!Datagram
    BY <2>2 DEF Data, Field!Datagram
  <2> QED
    BY <1>0, <2>1, <2>2, <2>3 DEF EipData
<1>4. CASE Field!ethernet_ip_set_input_assembly
  BY <1>0, <1>4 DEF Field!ethernet_ip_set_input_assembly, EipData
<1>5. CASE Field!PlcSends
  <2>1. PICK a \in Assembly : port' = Append(port, [from |-> "plc", data |-> a])
    BY <1>5 DEF Field!PlcSends
  <2>2. [from |-> "plc", data |-> a] \in Data
    BY DEF Data
  <2> QED
    BY <1>1, <1>5, <2>1, <2>2 DEF Field!PlcSends
<1>6. CASE \/ Field!ethernet_ip_connect \/ Field!eip_register_session
           \/ Field!eip_forward_open \/ Field!Fails \/ Field!ethernet_ip_disconnect
           \/ Field!eip_io_loop \/ Field!ethernet_ip_explicit_msg \/ Field!PlcAnswers
           \/ UNCHANGED Field!eipvars
  BY <1>1, <1>6
  DEF Field!ethernet_ip_connect, Field!eip_register_session, Field!eip_forward_open,
      Field!Fails, Field!ethernet_ip_disconnect, Field!eip_io_loop,
      Field!ethernet_ip_explicit_msg, Field!PlcAnswers, Field!eipvars
<1> QED
  BY <1>2, <1>3, <1>4, <1>5, <1>6 DEF Field!EipNext

LEMMA EipSocketsGoOn ==
  ASSUME Field!FieldBusAssumption, EipInv, [Field!EipNext]_(Field!eipvars) PROVE EipSockets'
<1>0. EipTypes /\ EipSockets
  BY DEF EipInv
<1> USE <1>0 DEF EipSockets, EipTypes
<1>1. CASE Field!ethernet_ip_connect
  BY <1>1 DEF Field!ethernet_ip_connect
<1>2. CASE Field!eip_register_session
  BY <1>2 DEF Field!eip_register_session
<1>3. CASE Field!eip_forward_open
  BY <1>3 DEF Field!eip_forward_open
<1>4. CASE Field!Fails
  BY <1>4 DEF Field!Fails
<1>5. CASE Field!ethernet_ip_disconnect
  BY <1>5 DEF Field!ethernet_ip_disconnect, Field!Joined
<1>6. CASE Field!eip_io_loop
  BY <1>6 DEF Field!eip_io_loop
<1>7. CASE Field!eip_send_io_data
  BY <1>7 DEF Field!eip_send_io_data
<1>8. CASE Field!eip_recv_io_data
  BY <1>8 DEF Field!eip_recv_io_data
<1>9. CASE Field!ethernet_ip_set_input_assembly
  BY <1>9 DEF Field!ethernet_ip_set_input_assembly
<1>10. CASE Field!ethernet_ip_explicit_msg
  BY <1>10 DEF Field!ethernet_ip_explicit_msg
<1>11. CASE Field!PlcAnswers \/ Field!PlcSends \/ UNCHANGED Field!eipvars
  BY <1>11 DEF Field!PlcAnswers, Field!PlcSends, Field!eipvars
<1> QED
  BY <1>1, <1>2, <1>3, <1>4, <1>5, <1>6, <1>7, <1>8, <1>9, <1>10, <1>11 DEF Field!EipNext

LEMMA EipStreamGoesOn ==
  ASSUME Field!FieldBusAssumption, EipInv, [Field!EipNext]_(Field!eipvars) PROVE EipStream'
<1>0. /\ stream \in Seq(Waiting) /\ lost \in BOOLEAN /\ requests \in 0..MaxRequests
      /\ eip_pc \in {"idle", "session", "open", "join", "answer"} /\ MaxRequests \in Nat
      /\ EipStream
  BY DEF EipInv, EipTypes, EipStream, Field!FieldBusAssumption
(* A stream of nothing, and of one request.                                *)
<1>1. ASSUME stream' = <<>>, UNCHANGED <<lost, requests, eip_answer>>,
             eip_pc # "answer", eip_pc' = "idle"
      PROVE  EipStream'
  BY <1>0, <1>1 DEF EipStream
<1>2. ASSUME NEW tag \in {"session", "open"}, stream' = <<[of |-> tag, arrived |-> FALSE]>>,
             eip_pc' = tag, eip_pc # "answer", UNCHANGED <<lost, requests, eip_answer>>
      PROVE  EipStream'
  <2>1. PICK w \in Waiting : w = [of |-> tag, arrived |-> FALSE]
    BY DEF Waiting, Tags
  <2>2. stream' \in Seq(Waiting) /\ Len(stream') = 1
    BY <1>2, <2>1
  <2> QED
    BY <1>0, <1>2, <2>2 DEF EipStream
<1>3. ASSUME Len(stream) = 1 PROVE Tail(stream) = <<>>
  <2>1. Tail(stream) \in Seq(Waiting) /\ Len(Tail(stream)) = 0
    BY <1>0, <1>3
  <2> QED
    BY <2>1, EmptySeq
<1>4. CASE Field!ethernet_ip_connect
  BY <1>0, <1>2, <1>4 DEF Field!ethernet_ip_connect
<1>5. CASE Field!eip_register_session
  <2>1. Len(stream) = 1
    BY <1>0, <1>5 DEF Field!eip_register_session, EipStream
  <2>2. stream' = Append(<<>>, [of |-> "open", arrived |-> FALSE])
    BY <1>3, <1>5, <2>1 DEF Field!eip_register_session
  <2>3. \A w : Append(<<>>, w) = <<w>>
    OBVIOUS
  <2>4. stream' = <<[of |-> "open", arrived |-> FALSE]>>
    BY <2>2, <2>3, Zenon
  <2> QED
    BY <1>2, <1>5, <2>4 DEF Field!eip_register_session
<1>6. CASE Field!eip_forward_open
  <2>1. Len(stream) = 1 /\ stream' = <<>>
    BY <1>0, <1>3, <1>6 DEF Field!eip_forward_open, EipStream
  <2> QED
    BY <1>1, <1>6, <2>1 DEF Field!eip_forward_open
<1>7. CASE Field!Fails
  BY <1>1, <1>7 DEF Field!Fails
<1>8. CASE Field!ethernet_ip_disconnect
  <2>1. CASE eip_pc = "idle" /\ eip_pc' = "join" /\ UNCHANGED <<stream, lost, requests, eip_answer>>
    BY <1>0, <2>1 DEF EipStream
  <2>2. CASE /\ eip_pc = "join" /\ eip_pc' = "idle" /\ stream' = <<>>
             /\ UNCHANGED <<lost, requests, eip_answer>>
    BY <1>1, <2>2
  <2> QED
    BY <1>8, <2>1, <2>2 DEF Field!ethernet_ip_disconnect
<1>9. CASE Field!ethernet_ip_explicit_msg
  <2>1. ASSUME eip_pc = "idle", requests < MaxRequests, requests' = requests + 1,
               Field!eip_encap_send(requests'), eip_pc' = "answer",
               UNCHANGED <<eip_answer, lost>>
        PROVE  EipStream'
    <3>1. PICK w \in Waiting : w = [of |-> requests + 1, arrived |-> FALSE]
      <4>1. requests + 1 \in Tags
        BY <1>0, <2>1 DEF Tags
      <4> QED
        BY ONLY <4>1 DEF Waiting
    <3>2. stream' = Append(stream, w) /\ w.of = requests + 1
      BY <2>1, <3>1 DEF Field!eip_encap_send
    <3>3. /\ stream' \in Seq(Waiting) /\ Len(stream') = Len(stream) + 1
          /\ stream'[Len(stream) + 1] = w
          /\ \A i \in DOMAIN stream' : (i \in DOMAIN stream /\ stream'[i] = stream[i])
                                       \/ stream'[i] = w
      BY ONLY <1>0, <3>2, w \in Waiting
    <3>4. \A i \in DOMAIN stream : stream[i].of \in 1..requests
      BY <1>0, <2>1 DEF EipStream
    <3>5. \A i \in DOMAIN stream' : stream'[i].of \in 1..(requests + 1)
      <4>1. ASSUME NEW i \in DOMAIN stream' PROVE stream'[i].of \in 1..(requests + 1)
        <5>1. CASE i \in DOMAIN stream /\ stream'[i] = stream[i]
          <6>1. stream[i].of \in 1..requests
            BY <3>4, <5>1
          <6> QED
            BY <1>0, <5>1, <6>1
        <5>2. CASE stream'[i] = w
          BY <1>0, <3>2, <5>2
        <5> QED
          BY <3>3, <5>1, <5>2
      <4> QED
        BY <4>1
    <3>6. ~lost => Len(stream) = 0
      BY <1>0, <2>1 DEF EipStream
    <3> QED
      BY <1>0, <2>1, <3>2, <3>3, <3>5, <3>6 DEF EipStream
  <2>2. ASSUME eip_pc = "answer", Field!eip_encap_recv, eip_answer' = Head(stream).of,
               stream' = Tail(stream), eip_pc' = "idle", UNCHANGED <<requests, lost>>
        PROVE  EipStream'
    <3>1. /\ stream # <<>> /\ Head(stream) = stream[1] /\ stream' \in Seq(Waiting)
          /\ Len(stream') = Len(stream) - 1
          /\ \A i \in DOMAIN stream' : i + 1 \in DOMAIN stream /\ stream'[i] = stream[i + 1]
      BY <1>0, <2>2 DEF Field!eip_encap_recv
    <3>2. \A i \in DOMAIN stream : stream[i].of \in 1..requests
      BY <1>0, <2>2 DEF EipStream
    <3>3. \A i \in DOMAIN stream' : stream'[i].of \in 1..requests
      BY <3>1, <3>2
    <3>4. ~lost => Len(stream) = 1 /\ eip_answer' = requests
      BY <1>0, <2>2, <3>1 DEF EipStream
    <3> QED
      BY <1>0, <2>2, <3>1, <3>3, <3>4 DEF EipStream
  <2>3. ASSUME eip_pc = "answer", lost' = TRUE, eip_pc' = "idle",
               stream' = IF Field!eip_encap_recv THEN Tail(stream) ELSE stream,
               UNCHANGED <<requests, eip_answer>>
        PROVE  EipStream'
    <3>1. CASE stream' = stream
      BY <1>0, <2>3, <3>1 DEF EipStream
    <3>2. CASE Field!eip_encap_recv /\ stream' = Tail(stream)
      <4>1. /\ stream # <<>> /\ stream' \in Seq(Waiting)
            /\ \A i \in DOMAIN stream' : i + 1 \in DOMAIN stream /\ stream'[i] = stream[i + 1]
        BY <1>0, <3>2 DEF Field!eip_encap_recv
      <4>2. \A i \in DOMAIN stream : stream[i].of \in 1..requests
        BY <1>0, <2>3 DEF EipStream
      <4>3. \A i \in DOMAIN stream' : stream'[i].of \in 1..requests
        BY <4>1, <4>2
      <4> QED
        BY <1>0, <2>3, <4>1, <4>3 DEF EipStream
    <3> QED
      BY <2>3, <3>1, <3>2
  <2> QED
    BY <1>9, <2>1, <2>2, <2>3 DEF Field!ethernet_ip_explicit_msg
<1>10. CASE Field!PlcAnswers
  <2>1. PICK i \in DOMAIN stream : stream' = [stream EXCEPT ![i].arrived = TRUE]
    BY <1>10 DEF Field!PlcAnswers
  <2>2. UNCHANGED <<eip_pc, lost, requests, eip_answer>>
    BY <1>10 DEF Field!PlcAnswers
  <2>3. PICK r \in Waiting : r = stream[i]
    BY <1>0
  <2>4. PICK w \in Waiting : w = [r EXCEPT !.arrived = TRUE] /\ w.of = r.of
    <3>1. [r EXCEPT !.arrived = TRUE] \in Waiting
      BY ONLY r \in Waiting DEF Waiting
    <3>2. [r EXCEPT !.arrived = TRUE].of = r.of
      BY ONLY r \in Waiting DEF Waiting
    <3> QED
      BY <3>1, <3>2
  <2>5. stream' = [stream EXCEPT ![i] = w]
    BY <2>1, <2>3, <2>4
  <2>6. /\ stream' \in Seq(Waiting) /\ Len(stream') = Len(stream) /\ DOMAIN stream' = DOMAIN stream
        /\ \A j \in DOMAIN stream : stream'[j] = IF j = i THEN w ELSE stream[j]
    BY ONLY <1>0, <2>5, i \in DOMAIN stream, w \in Waiting
  <2>7. \A j \in DOMAIN stream : stream'[j].of = stream[j].of
    BY ONLY <2>3, <2>4, <2>6
  <2>8. Len(stream) = 1 => 1 \in DOMAIN stream
    BY <1>0
  <2> QED
    BY <1>0, <2>2, <2>6, <2>7, <2>8 DEF EipStream
<1>11. CASE UNCHANGED <<stream, eip_pc, lost, requests, eip_answer>>
  BY <1>0, <1>11 DEF EipStream
<1>12. CASE \/ Field!eip_io_loop \/ Field!eip_send_io_data \/ Field!eip_recv_io_data
            \/ Field!ethernet_ip_set_input_assembly \/ Field!PlcSends
            \/ UNCHANGED Field!eipvars
  BY <1>11, <1>12
  DEF Field!eip_io_loop, Field!eip_send_io_data, Field!eip_recv_io_data,
      Field!ethernet_ip_set_input_assembly, Field!PlcSends, Field!eipvars
<1> QED
  BY <1>4, <1>5, <1>6, <1>7, <1>8, <1>9, <1>10, <1>12 DEF Field!EipNext

LEMMA EipGoesOn ==
  ASSUME Field!FieldBusAssumption, EipInv, [Field!EipNext]_(Field!eipvars) PROVE EipInv'
  BY EipTypesGoOn, EipDataGoesOn, EipSocketsGoOn, EipStreamGoesOn DEF EipInv

LEMMA EipHolds == ASSUME EipInv PROVE Field!ThreadHasSocket /\ Field!AnswersMatch
  BY DEF EipInv, EipSockets, EipStream, Field!ThreadHasSocket, Field!AnswersMatch
-----------------------------------------------------------------------------
(* tuya_iot.c.                                                             *)
(* The pieces on the wire are in the order in which they were sent.        *)
Piece == [frame : Peer!Frame, half : {1, 2}]
Before(p, q) == p.frame.n < q.frame.n \/ (p.frame.n = q.frame.n /\ p.half < q.half)
InOrder(pieces) == \A i, j \in DOMAIN pieces : i < j => Before(pieces[i], pieces[j])
Rising(fs) == \A i, j \in DOMAIN fs : i < j => fs[i].n < fs[j].n
Upto(pieces, f) ==
  f = [i \in 1..Len(pieces) |->
         IF i = 1 THEN <<>>
         ELSE IF Peer!Taken(pieces[i]) THEN Append(f[i - 1], pieces[i].frame)
         ELSE f[i - 1]]

LEMMA UptoDefined ==
  ASSUME NEW pieces \in Seq(Piece), Len(pieces) # 0
  PROVE  \E f : Upto(pieces, f) /\ Peer!Whole(pieces) = f[Len(pieces)]
<1> DEFINE Step(f, i) == IF i = 1 THEN <<>>
                         ELSE IF Peer!Taken(pieces[i]) THEN Append(f[i - 1], pieces[i].frame)
                         ELSE f[i - 1]
           S == {n \in Nat : \E f : f = [i \in 1..n |-> Step(f, i)]}
<1>1. 0 \in S
  <2> DEFINE g == [i \in 1..0 |-> <<>>]
  <2>1. \A i \in 1..0 : FALSE
    OBVIOUS
  <2>2. g = [i \in 1..0 |-> Step(g, i)]
    BY <2>1
  <2> HIDE DEF g, Step
  <2> QED
    BY <2>2
<1>2. ASSUME NEW n \in Nat, n \in S PROVE n + 1 \in S
  <2> HIDE DEF Step
  <2>1. PICK f : f = [i \in 1..n |-> Step(f, i)]
    BY <1>2
  <2> DEFINE g == [i \in 1..(n + 1) |-> IF i \in 1..n THEN f[i] ELSE Step(f, i)]
  <2>2. ASSUME NEW i \in 1..(n + 1) PROVE g[i] = Step(g, i)
    <3>1. Step(g, i) = Step(f, i)
      <4>1. i # 1 => i - 1 \in 1..n
        OBVIOUS
      <4>2. i # 1 => g[i - 1] = f[i - 1]
        BY <4>1
      <4> HIDE DEF g
      <4> QED
        BY <4>2, Zenon DEF Step
    <3>2. i \in 1..n => f[i] = Step(f, i)
      BY <2>1
    <3>3. g[i] = IF i \in 1..n THEN f[i] ELSE Step(f, i)
      OBVIOUS
    <3> HIDE DEF g
    <3> QED
      BY <3>1, <3>2, <3>3, Zenon
  <2>3. g = [i \in 1..(n + 1) |-> Step(g, i)]
    <3>1. g = [i \in 1..(n + 1) |-> g[i]]
      OBVIOUS
    <3> HIDE DEF g
    <3> QED
      BY <2>2, <3>1, Zenon
  <2> HIDE DEF g
  <2> QED
    BY <2>3
<1>3. Len(pieces) \in S
  <2>1. Len(pieces) \in Nat
    OBVIOUS
  <2> HIDE DEF S
  <2> QED
    BY <1>1, <1>2, <2>1, SetInduction
<1>4. PICK f : f = [i \in 1..Len(pieces) |-> Step(f, i)]
  BY <1>3
<1> QED
  BY <1>4, Zenon DEF Upto, Peer!Whole

(* What rx_process hands on are whole frames in the order of their pieces. *)
LEMMA WholeInOrder ==
  ASSUME NEW pieces \in Seq(Piece), Len(pieces) # 0, InOrder(pieces), MaxFrames \in Nat
  PROVE  /\ Peer!Whole(pieces) \in Seq(Peer!Frame) /\ Rising(Peer!Whole(pieces))
         /\ \A j \in DOMAIN Peer!Whole(pieces) : \E k \in DOMAIN pieces :
              pieces[k].half = 2 /\ Peer!Whole(pieces)[j] = pieces[k].frame
<1>1. PICK f : Upto(pieces, f) /\ Peer!Whole(pieces) = f[Len(pieces)]
  BY UptoDefined
<1> DEFINE Good(i) == /\ f[i] \in Seq(Peer!Frame) /\ Rising(f[i])
                      /\ \A j \in DOMAIN f[i] : \E k \in 1..i :
                           pieces[k].half = 2 /\ f[i][j] = pieces[k].frame
           S == {n \in Nat : n + 1 \in 1..Len(pieces) => Good(n + 1)}
<1>2. DOMAIN pieces = 1..Len(pieces) /\ Len(pieces) \in Nat
  OBVIOUS
<1>3. \A i \in 1..Len(pieces) : f[i] = IF i = 1 THEN <<>>
         ELSE IF Peer!Taken(pieces[i]) THEN Append(f[i - 1], pieces[i].frame) ELSE f[i - 1]
  BY <1>1, Zenon DEF Upto
<1>4. 0 \in S
  <2>1. 0 + 1 = 1
    OBVIOUS
  <2>2. 1 \in 1..Len(pieces) => f[1] = <<>>
    BY <1>3
  <2>3. <<>> \in Seq(Peer!Frame) /\ DOMAIN <<>> = {}
    OBVIOUS
  <2> QED
    BY <2>1, <2>2, <2>3 DEF Rising
<1>5. ASSUME NEW n \in Nat, n \in S PROVE n + 1 \in S
  <2> SUFFICES ASSUME (n + 1) + 1 \in 1..Len(pieces) PROVE Good((n + 1) + 1)
    OBVIOUS
  <2>1. PICK i \in 1..Len(pieces) : i = n + 1
    BY <1>2
  <2>2. i + 1 = (n + 1) + 1 /\ i + 1 \in 1..Len(pieces) /\ i + 1 # 1 /\ (i + 1) - 1 = i /\ i \in Nat
    BY <2>1
  <2>3. Good(i)
    BY <1>5, <2>1
  <2>4. Good(i + 1)
    <3>1. PICK p \in Piece : p = pieces[i + 1]
      BY <1>2, <2>2
    <3>2. f[i + 1] = IF Peer!Taken(p) THEN Append(f[i], p.frame) ELSE f[i]
      BY <1>3, <2>2, <3>1, Zenon
    <3>3. f[i] \in Seq(Peer!Frame) /\ Rising(f[i])
          /\ \A j \in DOMAIN f[i] : \E k \in 1..i :
                pieces[k].half = 2 /\ f[i][j] = pieces[k].frame
      BY <2>3
    <3>4. CASE ~Peer!Taken(p)
      <4>1. f[i + 1] = f[i]
        BY <3>2, <3>4
      <4>2. \A k \in 1..i : k \in 1..(i + 1)
        BY <2>2
      <4> QED
        BY <3>3, <4>1, <4>2, Zenon
    <3>5. CASE Peer!Taken(p)
      <4>1. p.half = 2 /\ p.frame \in Peer!Frame
        BY <3>5 DEF Peer!Taken, Piece
      <4>2. PICK s \in Seq(Peer!Frame) : s = f[i]
        BY <3>3
      <4>3. PICK e \in Peer!Frame : e = p.frame
        BY <4>1
      <4>4. PICK t \in Seq(Peer!Frame) : t = f[i + 1]
        <5>1. f[i + 1] = Append(s, e)
          BY <3>2, <3>5, <4>2, <4>3, Zenon
        <5>2. Append(s, e) \in Seq(Peer!Frame)
          OBVIOUS
        <5> QED
          BY <5>1, <5>2, Zenon
      <4>5. t = Append(s, e)
        BY <3>2, <3>5, <4>2, <4>3, <4>4, Zenon
      <4>6. /\ DOMAIN t = 1..(Len(s) + 1) /\ DOMAIN s = 1..Len(s) /\ Len(s) \in Nat
            /\ t[Len(s) + 1] = e /\ \A j \in 1..Len(s) : t[j] = s[j]
        BY ONLY <4>5, s \in Seq(Peer!Frame), e \in Peer!Frame
      <4>7. ASSUME NEW j \in DOMAIN s PROVE s[j].n < e.n
        <5>1. PICK k \in 1..i : pieces[k].half = 2 /\ s[j] = pieces[k].frame
          BY <3>3, <4>2
        <5>2. k \in DOMAIN pieces /\ i + 1 \in DOMAIN pieces /\ k < i + 1
          BY <1>2, <2>2
        <5>3. Before(pieces[k], p)
          BY <3>1, <5>2, Zenon DEF InOrder
        <5> QED
          BY <4>1, <4>3, <5>1, <5>3 DEF Before
      <4>8. Rising(t)
        <5>1. ASSUME NEW a \in DOMAIN t, NEW b \in DOMAIN t, a < b PROVE t[a].n < t[b].n
          <6>1. CASE b = Len(s) + 1
            <7>1. a \in DOMAIN s /\ t[a] = s[a] /\ t[b] = e
              BY <4>6, <5>1, <6>1
            <7> QED
              BY <4>7, <7>1
          <6>2. CASE b # Len(s) + 1
            <7>1. a \in DOMAIN s /\ b \in DOMAIN s /\ t[a] = s[a] /\ t[b] = s[b]
              BY <4>6, <5>1, <6>2
            <7> QED
              BY <3>3, <4>2, <5>1, <7>1 DEF Rising
          <6> QED
            BY <6>1, <6>2
        <5> QED
          BY <5>1 DEF Rising
      <4>9. ASSUME NEW j \in DOMAIN t
            PROVE  \E k \in 1..(i + 1) : pieces[k].half = 2 /\ t[j] = pieces[k].frame
        <5>1. CASE j = Len(s) + 1
          <6>1. pieces[i + 1].half = 2 /\ t[j] = pieces[i + 1].frame
            BY <3>1, <4>1, <4>3, <4>6, <5>1
          <6> QED
            BY <2>2, <6>1
        <5>2. CASE j # Len(s) + 1
          <6>1. j \in DOMAIN s /\ t[j] = s[j]
            BY <4>6, <5>2
          <6>2. PICK k \in 1..i : pieces[k].half = 2 /\ s[j] = pieces[k].frame
            BY <3>3, <4>2, <6>1
          <6>3. k \in 1..(i + 1)
            BY <2>2
          <6> QED
            BY <6>1, <6>2, <6>3
        <5> QED
          BY <5>1, <5>2
      <4> QED
        BY <4>4, <4>8, <4>9
    <3> QED
      BY <3>4, <3>5
  <2> HIDE DEF Good
  <2> QED
    BY <2>2, <2>4
<1>6. Nat \subseteq S
  <2> HIDE DEF S
  <2> QED
    BY <1>4, <1>5, SetInduction
<1>7. Good(Len(pieces))
  <2>1. PICK n \in Nat : n + 1 = Len(pieces)
    <3>1. Len(pieces) - 1 \in Nat /\ (Len(pieces) - 1) + 1 = Len(pieces)
      BY <1>2
    <3> QED
      BY <3>1
  <2>2. n \in S /\ n + 1 \in 1..Len(pieces)
    BY <1>2, <1>6, <2>1
  <2>3. Good(n + 1)
    BY <2>2
  <2> HIDE DEF Good
  <2> QED
    BY <2>1, <2>3
<1> QED
  BY <1>1, <1>2, <1>7, Zenon

LEMMA FrameOf ==
  ASSUME MaxFrames \in Nat
  PROVE  /\ \A f \in Peer!Frame : /\ f.n \in 1..MaxFrames /\ f.n \in Nat /\ f.dp \in Dp
                                  /\ f.cmd \in Peer!Cmd
         /\ \A p \in Piece : p.frame \in Peer!Frame /\ p.half \in {1, 2}
         /\ \A s \in Seq(Peer!Frame) : \A i \in DOMAIN s : s[i].n \in Nat
<1>1. ASSUME NEW f \in Peer!Frame
      PROVE  f.n \in 1..MaxFrames /\ f.n \in Nat /\ f.dp \in Dp /\ f.cmd \in Peer!Cmd
  BY DEF Peer!Frame
<1>2. ASSUME NEW s \in Seq(Peer!Frame), NEW i \in DOMAIN s PROVE s[i].n \in Nat
  <2>1. s[i] \in Peer!Frame
    OBVIOUS
  <2> QED
    BY <1>1, <2>1
<1>3. ASSUME NEW p \in Piece PROVE p.frame \in Peer!Frame /\ p.half \in {1, 2}
  BY DEF Piece
<1> QED
  BY <1>1, <1>2, <1>3

(* What was applied came before what is to be handled, and that before the *)
(* wire.                                                                   *)
TuyaTypes ==
  /\ uart \in BOOLEAN /\ running \in BOOLEAN /\ reader \in {"none", "loop"}
  /\ tstate \in {"DISCONNECTED", "CONNECTED", "ERROR"}
  /\ beat \in 0..TUYA_HEARTBEAT_INTERVAL /\ out \in Peer!Cmd \cup {"none"}
TuyaFrames ==
  /\ frames \in 0..MaxFrames
  /\ wire \in Seq(Piece) /\ todo \in Seq(Peer!Frame) /\ applied \in Seq(Peer!Frame)
  /\ InOrder(wire) /\ Rising(todo) /\ Rising(applied)
  /\ \A i \in DOMAIN applied : applied[i].n <= frames
  /\ \A i \in DOMAIN todo : todo[i].n <= frames
  /\ \A i \in DOMAIN wire : wire[i].frame.n <= frames
  /\ \A i \in DOMAIN applied, j \in DOMAIN todo : applied[i].n < todo[j].n
  /\ \A i \in DOMAIN applied, j \in DOMAIN wire : applied[i].n < wire[j].frame.n
  /\ \A i \in DOMAIN todo, j \in DOMAIN wire : todo[i].n < wire[j].frame.n
Written(i, d) == applied[i].cmd = "report" /\ applied[i].dp = d
TuyaPoints ==
  /\ dp \in [Dp -> 0..MaxFrames]
  /\ \A d \in Dp :
       /\ dp[d] = 0 \/ \E i \in DOMAIN applied : Written(i, d) /\ applied[i].n = dp[d]
       /\ \A i \in DOMAIN applied : Written(i, d) => applied[i].n <= dp[d]
TuyaInv == TuyaTypes /\ TuyaFrames /\ TuyaPoints

LEMMA TuyaStarts == ASSUME Peer!PeerAssumption, Peer!TuyaInit PROVE TuyaInv
<1> USE DEF Peer!TuyaInit, Peer!PeerAssumption
<1>1. TuyaTypes
  <2>1. /\ uart = FALSE /\ running = TRUE /\ reader = "none" /\ tstate = "DISCONNECTED"
        /\ beat = 0 /\ out = "none"
    OBVIOUS
  <2>2. TUYA_HEARTBEAT_INTERVAL \in Nat
    OBVIOUS
  <2>3. beat \in 0..TUYA_HEARTBEAT_INTERVAL
    BY <2>1, <2>2
  <2> QED
    BY ONLY <2>1, <2>3, Zenon DEF TuyaTypes
<1>2. /\ wire = <<>> /\ todo = <<>> /\ applied = <<>> /\ frames = 0
      /\ DOMAIN wire = {} /\ DOMAIN todo = {} /\ DOMAIN applied = {}
  OBVIOUS
<1>3. TuyaFrames
  <2>1. wire \in Seq(Piece) /\ todo \in Seq(Peer!Frame) /\ applied \in Seq(Peer!Frame)
    BY <1>2
  <2>2. InOrder(wire) /\ Rising(todo) /\ Rising(applied)
    BY <1>2 DEF InOrder, Rising
  <2> QED
    BY <1>2, <2>1, <2>2 DEF TuyaFrames
<1>4. TuyaPoints
  <2>1. dp \in [Dp -> 0..MaxFrames] /\ \A d \in Dp : dp[d] = 0
    OBVIOUS
  <2> QED
    BY <1>2, <2>1 DEF TuyaPoints
<1> QED
  BY <1>1, <1>3, <1>4 DEF TuyaInv

(* A number is the newest command of a data point.                         *)
LEMMA TuyaTypesGoOn ==
  ASSUME Peer!PeerAssumption, TuyaInv, [Peer!TuyaNext]_(Peer!tuyavars) PROVE TuyaTypes'
<1>0. TuyaTypes /\ TuyaFrames /\ TUYA_HEARTBEAT_INTERVAL \in Nat \ {0}
  BY DEF TuyaInv, Peer!PeerAssumption
<1>1. {"heartbeat", "product", "report", "query", "wifi", "reset"} = Peer!Cmd
  BY DEF Peer!Cmd
<1> USE <1>0, <1>1 DEF TuyaTypes
<1>2. CASE Peer!Module
  BY <1>2 DEF Peer!Module
<1>3. CASE Peer!tuya_iot_connect
  <2>1. running' = running
    BY <1>3 DEF Peer!tuya_iot_connect
  <2>2. CASE /\ uart' = TRUE /\ tstate' = "CONNECTED" /\ beat' = 0 /\ out' = "heartbeat"
             /\ reader' = "loop"
    BY <2>1, <2>2
  <2>3. CASE uart' = FALSE /\ tstate' = "ERROR" /\ UNCHANGED <<beat, out, reader>>
    BY <2>1, <2>3
  <2> QED
    BY <1>3, <2>2, <2>3 DEF Peer!tuya_iot_connect
<1>4. CASE Peer!tuya_iot_disconnect
  BY <1>4 DEF Peer!tuya_iot_disconnect
<1>5. CASE Peer!tuya_iot_report_status
  BY <1>5 DEF Peer!tuya_iot_report_status, Peer!send_dp_report, Peer!send_frame
<1>6. CASE Peer!rx_process
  BY <1>6 DEF Peer!rx_process
<1>7. CASE Peer!process_frame
  <2>1. out' \in Peer!Cmd \cup {"none"}
    BY <1>7 DEF Peer!process_frame, Peer!send_heartbeat, Peer!send_dp_report, Peer!send_frame
  <2> QED
    BY <1>7, <2>1 DEF Peer!process_frame
<1>8. CASE Peer!rx_loop
  BY <1>8 DEF Peer!rx_loop, Peer!send_heartbeat, Peer!send_frame
<1>9. CASE Peer!Second
  BY <1>9 DEF Peer!Second
<1>10. CASE UNCHANGED Peer!tuyavars
  BY <1>10 DEF Peer!tuyavars
<1> QED
  BY <1>2, <1>3, <1>4, <1>5, <1>6, <1>7, <1>8, <1>9, <1>10 DEF Peer!TuyaNext

LEMMA TuyaModule ==
  ASSUME Peer!PeerAssumption, TuyaFrames, Peer!Module PROVE TuyaFrames'
<1> USE DEF TuyaFrames
<1>1. PICK f \in Peer!Frame :
        /\ f.n = frames' /\ frames' = frames + 1 /\ frames < MaxFrames
        /\ wire' = IF uart THEN wire \o <<[frame |-> f, half |-> 1], [frame |-> f, half |-> 2]>>
                   ELSE wire
        /\ todo' = todo /\ applied' = applied
  BY DEF Peer!Module
<1>2. MaxFrames \in Nat /\ frames \in Nat /\ frames' \in 0..MaxFrames
  BY <1>1 DEF Peer!PeerAssumption
<1>2a. (\A i \in DOMAIN applied : applied[i].n <= frames')
       /\ (\A i \in DOMAIN todo : todo[i].n <= frames')
  <2>1. \A i \in DOMAIN applied : applied[i].n <= frames /\ applied[i].n \in Nat
    BY <1>2, FrameOf
  <2>2. \A i \in DOMAIN todo : todo[i].n <= frames /\ todo[i].n \in Nat
    BY <1>2, FrameOf
  <2> QED
    BY ONLY <1>1, <1>2, <2>1, <2>2
<1>2b. \A i \in DOMAIN wire : wire[i].frame.n <= frames /\ wire[i].frame.n \in Nat
  <2>1. ASSUME NEW i \in DOMAIN wire PROVE wire[i].frame.n <= frames /\ wire[i].frame.n \in Nat
    <3>1. wire[i] \in Piece /\ wire[i].frame.n <= frames
      OBVIOUS
    <3>2. wire[i].frame \in Peer!Frame
      BY <1>2, <3>1, FrameOf
    <3> QED
      BY <1>2, <3>1, <3>2, FrameOf
  <2> QED
    BY <2>1
<1>3. CASE ~uart
  <2>1. wire' = wire /\ todo' = todo /\ applied' = applied
    BY <1>1, <1>3
  <2>2. \A i \in DOMAIN wire : wire[i].frame.n <= frames'
    BY ONLY <1>1, <1>2, <1>2b
  <2> QED
    BY <1>2, <1>2a, <2>1, <2>2
<1>4. CASE uart
  <2>1. PICK p \in Piece, q \in Piece :
          /\ p = [frame |-> f, half |-> 1] /\ q = [frame |-> f, half |-> 2]
          /\ p.frame = f /\ q.frame = f /\ p.half = 1 /\ q.half = 2
    <3>1. /\ [frame |-> f, half |-> 1] \in Piece /\ [frame |-> f, half |-> 1].frame = f
          /\ [frame |-> f, half |-> 1].half = 1
      BY DEF Piece
    <3>2. /\ [frame |-> f, half |-> 2] \in Piece /\ [frame |-> f, half |-> 2].frame = f
          /\ [frame |-> f, half |-> 2].half = 2
      BY DEF Piece
    <3> QED
      BY <3>1, <3>2
  <2>2. wire' = wire \o <<p, q>>
    BY <1>1, <1>4, <2>1
  <2>3. PICK s \in Seq(Piece) : s = wire
    OBVIOUS
  <2>4. PICK t \in Seq(Piece) : t = wire' /\ t = s \o <<p, q>>
    <3>1. s \o <<p, q>> \in Seq(Piece)
      OBVIOUS
    <3> QED
      BY <2>2, <2>3, <3>1
  <2>5. /\ DOMAIN t = 1..(Len(s) + 2) /\ DOMAIN s = 1..Len(s) /\ Len(s) \in Nat
        /\ \A i \in DOMAIN s : t[i] = s[i]
        /\ t[Len(s) + 1] = p /\ t[Len(s) + 2] = q
    BY ONLY <2>4, s \in Seq(Piece), t \in Seq(Piece), p \in Piece, q \in Piece
  <2>6. \A i \in DOMAIN t : \/ i \in DOMAIN s
                           \/ i = Len(s) + 1
                           \/ i = Len(s) + 2
    BY ONLY <2>5
  <2>7. \A i \in DOMAIN s : s[i].frame.n <= frames /\ s[i].frame.n < f.n /\ s[i].frame.n \in Nat
    BY ONLY <1>1, <1>2, <1>2b, <2>3
  <2>8. InOrder(t)
    <3>1. ASSUME NEW i \in DOMAIN t, NEW j \in DOMAIN t, i < j PROVE Before(t[i], t[j])
      <4>1. CASE j \in DOMAIN s
        <5>1. i \in DOMAIN s
          BY ONLY <2>5, <3>1, <4>1, i \in DOMAIN t
        <5>2. InOrder(s)
          BY <2>3
        <5> QED
          BY <2>5, <3>1, <4>1, <5>1, <5>2, Zenon DEF InOrder
      <4>2. CASE j = Len(s) + 1
        <5>1. i \in DOMAIN s
          BY ONLY <2>5, <3>1, <4>2, i \in DOMAIN t
        <5>2. t[i].frame.n < f.n /\ t[j].frame = f
          BY <2>1, <2>5, <2>7, <4>2, <5>1
        <5> QED
          BY <5>2 DEF Before
      <4>3. CASE j = Len(s) + 2
        <5>1. CASE i \in DOMAIN s
          <6>1. t[i].frame.n < f.n /\ t[j].frame = f
            BY <2>1, <2>5, <2>7, <4>3, <5>1
          <6> QED
            BY <6>1 DEF Before
        <5>2. CASE i = Len(s) + 1
          <6>1. t[i].frame = f /\ t[j].frame = f /\ t[i].half = 1 /\ t[j].half = 2
            BY <2>1, <2>5, <4>3, <5>2
          <6> QED
            BY <6>1 DEF Before
        <5> QED
          BY ONLY <2>5, <2>6, <3>1, <4>3, <5>1, <5>2, i \in DOMAIN t
      <4> QED
        BY <2>6, <4>1, <4>2, <4>3
    <3> QED
      BY <3>1 DEF InOrder
  <2>9. \A j \in DOMAIN t : t[j].frame.n <= frames'
                            /\ (t[j].frame.n = f.n \/ (j \in DOMAIN s /\ t[j] = s[j]))
    <3>1. ASSUME NEW j \in DOMAIN t
          PROVE  /\ t[j].frame.n <= frames'
                 /\ t[j].frame.n = f.n \/ (j \in DOMAIN s /\ t[j] = s[j])
      <4>1. CASE j \in DOMAIN s
        <5>1. t[j] = s[j] /\ s[j].frame.n <= frames /\ s[j].frame.n \in Nat
          BY <2>5, <2>7, <4>1
        <5> QED
          BY ONLY <1>1, <1>2, <4>1, <5>1
      <4>2. CASE j = Len(s) + 1 \/ j = Len(s) + 2
        <5>1. t[j].frame = f
          BY <2>1, <2>5, <4>2
        <5> QED
          BY ONLY <1>1, <1>2, <5>1
      <4> QED
        BY <2>6, <4>1, <4>2
    <3> QED
      BY <3>1
  <2>10. \A i \in DOMAIN applied, j \in DOMAIN t : applied[i].n < t[j].frame.n
    <3>1. ASSUME NEW i \in DOMAIN applied, NEW j \in DOMAIN t PROVE applied[i].n < t[j].frame.n
      <4>1. applied[i].n <= frames /\ applied[i].n \in Nat
        <5>1. applied[i] \in Peer!Frame /\ applied[i].n <= frames
          OBVIOUS
        <5> QED
          BY <1>2, <5>1, FrameOf
      <4>2. j \in DOMAIN s => applied[i].n < s[j].frame.n
        BY <2>3
      <4> QED
        BY ONLY <1>1, <1>2, <2>9, <4>1, <4>2, j \in DOMAIN t
    <3> QED
      BY <3>1
  <2>11. \A i \in DOMAIN todo, j \in DOMAIN t : todo[i].n < t[j].frame.n
    <3>1. ASSUME NEW i \in DOMAIN todo, NEW j \in DOMAIN t PROVE todo[i].n < t[j].frame.n
      <4>1. todo[i].n <= frames /\ todo[i].n \in Nat
        <5>1. todo[i] \in Peer!Frame /\ todo[i].n <= frames
          OBVIOUS
        <5> QED
          BY <1>2, <5>1, FrameOf
      <4>2. j \in DOMAIN s => todo[i].n < s[j].frame.n
        BY <2>3
      <4> QED
        BY ONLY <1>1, <1>2, <2>9, <4>1, <4>2, j \in DOMAIN t
    <3> QED
      BY <3>1
  <2> QED
    BY <1>1, <1>2, <1>2a, <2>4, <2>8, <2>9, <2>10, <2>11
<1> QED
  BY <1>3, <1>4

(* A read: what is handed on is from the part that is read.                *)
LEMMA TuyaRead ==
  ASSUME Peer!PeerAssumption, TuyaFrames, Peer!rx_process PROVE TuyaFrames'
<1> USE DEF TuyaFrames
<1>1. PICK n \in 1..Len(wire) :
        /\ todo' = Peer!Whole(SubSeq(wire, 1, n)) /\ wire' = SubSeq(wire, n + 1, Len(wire))
        /\ frames' = frames /\ applied' = applied
  BY DEF Peer!rx_process, Peer!Unread
<1>2. PICK s \in Seq(Piece) : s = wire /\ DOMAIN s = 1..Len(s) /\ Len(s) \in Nat /\ n \in 1..Len(s)
  OBVIOUS
<1>3. PICK r \in Seq(Piece) : /\ r = SubSeq(s, 1, n) /\ DOMAIN r = 1..n /\ Len(r) = n
                              /\ \A i \in 1..n : r[i] = s[i]
  <2>1. /\ SubSeq(s, 1, n) \in Seq(Piece) /\ DOMAIN SubSeq(s, 1, n) = 1..n
        /\ Len(SubSeq(s, 1, n)) = n /\ \A i \in 1..n : SubSeq(s, 1, n)[i] = s[i]
    BY <1>2, CutOf
  <2> QED
    BY ONLY <2>1, Zenon
<1>4. PICK u \in Seq(Piece) : /\ u = SubSeq(s, n + 1, Len(s)) /\ DOMAIN u = 1..(Len(s) - n)
                              /\ \A i \in DOMAIN u : u[i] = s[n + i]
  <2>1. /\ SubSeq(s, n + 1, Len(s)) \in Seq(Piece)
        /\ DOMAIN SubSeq(s, n + 1, Len(s)) = 1..(Len(s) - n)
        /\ \A i \in 1..(Len(s) - n) : SubSeq(s, n + 1, Len(s))[i] = s[n + i]
    BY <1>2, CutOf
  <2>2. \A i \in DOMAIN SubSeq(s, n + 1, Len(s)) : SubSeq(s, n + 1, Len(s))[i] = s[n + i]
    BY ONLY <2>1, Zenon
  <2> QED
    BY ONLY <2>1, <2>2, Zenon
<1>5. InOrder(s)
  BY <1>2
<1>6. InOrder(r)
  BY <1>2, <1>3, <1>5 DEF InOrder
<1>7. InOrder(u)
  <2>1. \A i \in DOMAIN u : n + i \in DOMAIN s
    BY ONLY <1>2, <1>4
  <2>2. \A i, j \in DOMAIN u : i < j => n + i < n + j
    BY ONLY <1>2, <1>4
  <2> QED
    BY ONLY <1>4, <1>5, <2>1, <2>2 DEF InOrder
<1>8. PICK w \in Seq(Peer!Frame) :
        /\ w = Peer!Whole(r) /\ Rising(w)
        /\ \A j \in DOMAIN w : \E k \in DOMAIN r : r[k].half = 2 /\ w[j] = r[k].frame
  <2>1. Len(r) # 0 /\ MaxFrames \in Nat
    BY <1>2, <1>3 DEF Peer!PeerAssumption
  <2> QED
    BY <1>6, <2>1, WholeInOrder
<1>9. todo' = w /\ wire' = u
  BY <1>1, <1>2, <1>3, <1>4, <1>8, Zenon
<1>10. \A j \in DOMAIN w : \E k \in 1..n : s[k].half = 2 /\ w[j] = s[k].frame
  <2>1. ASSUME NEW j \in DOMAIN w PROVE \E k \in 1..n : s[k].half = 2 /\ w[j] = s[k].frame
    <3>1. PICK k \in DOMAIN r : r[k].half = 2 /\ w[j] = r[k].frame
      BY <1>8
    <3>2. k \in 1..n /\ r[k] = s[k]
      BY <1>3
    <3> QED
      BY <3>1, <3>2
  <2> QED
    BY <2>1
<1>11. ASSUME NEW i \in DOMAIN w, NEW j \in DOMAIN u PROVE w[i].n < u[j].frame.n
  <2>1. PICK k \in 1..n : s[k].half = 2 /\ w[i] = s[k].frame
    BY <1>10
  <2>2. n + j \in DOMAIN s /\ k \in DOMAIN s /\ k < n + j /\ u[j] = s[n + j]
    BY ONLY <1>2, <1>4, k \in 1..n, j \in DOMAIN u
  <2>3. Before(s[k], s[n + j])
    BY <1>5, <2>2, Zenon DEF InOrder
  <2>4. s[n + j].half \in {1, 2}
    <3>1. s[n + j] \in Piece
      BY <2>2
    <3> QED
      BY <3>1 DEF Piece
  <2> QED
    BY ONLY <2>1, <2>2, <2>3, <2>4 DEF Before
<1>12. ASSUME NEW i \in DOMAIN applied, NEW j \in DOMAIN w PROVE applied[i].n < w[j].n
  <2>1. PICK k \in 1..n : s[k].half = 2 /\ w[j] = s[k].frame
    BY <1>10
  <2>2. k \in DOMAIN wire /\ s[k] = wire[k]
    BY <1>2
  <2>3. applied[i].n < wire[k].frame.n
    BY <2>2
  <2> QED
    BY ONLY <2>1, <2>2, <2>3
<1>13. ASSUME NEW j \in DOMAIN w PROVE w[j].n <= frames
  <2>1. PICK k \in 1..n : s[k].half = 2 /\ w[j] = s[k].frame
    BY <1>10
  <2>2. k \in DOMAIN wire /\ s[k] = wire[k]
    BY <1>2
  <2>3. wire[k].frame.n <= frames
    BY <2>2
  <2> QED
    BY ONLY <2>1, <2>2, <2>3
<1>14. \A j \in DOMAIN u : n + j \in DOMAIN wire /\ u[j] = wire[n + j]
  BY ONLY <1>2, <1>4
<1>15. /\ \A j \in DOMAIN u : u[j].frame.n <= frames
       /\ \A i \in DOMAIN applied, j \in DOMAIN u : applied[i].n < u[j].frame.n
  BY <1>14
<1> QED
  BY <1>1, <1>7, <1>8, <1>9, <1>11, <1>12, <1>13, <1>15

(* A frame is handled.                                                     *)
LEMMA TuyaHandled ==
  ASSUME Peer!PeerAssumption, TuyaFrames, TuyaPoints, Peer!process_frame
  PROVE  TuyaFrames' /\ TuyaPoints'
<1>0. /\ frames \in 0..MaxFrames /\ MaxFrames \in Nat
      /\ wire \in Seq(Piece) /\ todo \in Seq(Peer!Frame) /\ applied \in Seq(Peer!Frame)
      /\ InOrder(wire) /\ Rising(todo) /\ Rising(applied)
      /\ \A i \in DOMAIN applied : applied[i].n <= frames
      /\ \A i \in DOMAIN todo : todo[i].n <= frames
      /\ \A i \in DOMAIN wire : wire[i].frame.n <= frames
      /\ \A i \in DOMAIN applied, j \in DOMAIN todo : applied[i].n < todo[j].n
      /\ \A i \in DOMAIN applied, j \in DOMAIN wire : applied[i].n < wire[j].frame.n
      /\ \A i \in DOMAIN todo, j \in DOMAIN wire : todo[i].n < wire[j].frame.n
  BY DEF TuyaFrames, Peer!PeerAssumption
<1>1. /\ todo # <<>> /\ todo' = Tail(todo) /\ wire' = wire /\ frames' = frames
      /\ dp' = IF Head(todo).cmd = "report"
               THEN [dp EXCEPT ![Head(todo).dp] = Head(todo).n] ELSE dp
      /\ applied' = IF Head(todo).cmd \in {"report", "reset"} THEN Append(applied, Head(todo))
                    ELSE applied
  BY DEF Peer!process_frame
<1>2. PICK f \in Peer!Frame : /\ f = Head(todo) /\ f = todo[1] /\ 1 \in DOMAIN todo
  BY ONLY <1>0, <1>1
<1>3. f.n \in 1..MaxFrames /\ f.dp \in Dp /\ f.n <= frames /\ f.n \in Nat
  BY <1>0, <1>2, FrameOf
<1>4. PICK t \in Seq(Peer!Frame) :
        /\ t = todo' /\ \A i \in DOMAIN t : i + 1 \in DOMAIN todo /\ t[i] = todo[i + 1] /\ i \in Nat /\ 1 < i + 1
  <2>1. todo \in Seq(Peer!Frame) /\ todo # <<>> /\ todo' = Tail(todo)
    BY <1>0, <1>1
  <2> QED
    BY ONLY <2>1, TailOf
<1>5. \A i \in DOMAIN t : f.n < t[i].n
  BY <1>0, <1>2, <1>4 DEF Rising
<1>6. Rising(t) /\ \A i \in DOMAIN t : t[i].n <= frames
  <2>1. \A i, j \in DOMAIN t : i < j => i + 1 < j + 1
    BY <1>4
  <2> QED
    BY ONLY <1>0, <1>4, <2>1 DEF Rising
<1>7. /\ \A i \in DOMAIN t, j \in DOMAIN wire : t[i].n < wire[j].frame.n
      /\ \A j \in DOMAIN wire : f.n < wire[j].frame.n
      /\ \A i \in DOMAIN applied : applied[i].n < f.n
      /\ \A i \in DOMAIN applied, j \in DOMAIN t : applied[i].n < t[j].n
  BY ONLY <1>0, <1>2, <1>4
<1>8. CASE f.cmd \in {"report", "reset"}
  <2>1. applied' = Append(applied, f)
    BY <1>1, <1>2, <1>8
  <2>2. PICK a \in Seq(Peer!Frame) :
          /\ a = applied' /\ DOMAIN applied = 1..Len(applied) /\ Len(applied) \in Nat
          /\ DOMAIN a = 1..(Len(applied) + 1)
          /\ a[Len(applied) + 1] = f /\ \A i \in DOMAIN applied : a[i] = applied[i]
    <3>1. applied \in Seq(Peer!Frame)
      BY <1>0
    <3> QED
      BY ONLY <2>1, <3>1, AppendOf, f \in Peer!Frame
  <2>3. \A i \in DOMAIN a : i \in DOMAIN applied \/ i = Len(applied) + 1
    BY ONLY <2>2
  <2>3a. PICK last \in DOMAIN a : last = Len(applied) + 1 /\ a[last] = f
    BY ONLY <2>2
  <2>4. Rising(a)
    <3>1. ASSUME NEW i \in DOMAIN a, NEW j \in DOMAIN a, i < j PROVE a[i].n < a[j].n
      <4>1. i \in DOMAIN applied
        BY ONLY <2>2, <3>1, i \in DOMAIN a, j \in DOMAIN a
      <4>2. CASE j \in DOMAIN applied
        BY <1>0, <2>2, <3>1, <4>1, <4>2 DEF Rising
      <4>3. CASE j = Len(applied) + 1
        BY <1>7, <2>2, <4>1, <4>3
      <4> QED
        BY <2>3, <4>2, <4>3
    <3> QED
      BY <3>1 DEF Rising
  <2>5. TuyaFrames'
    <3>1. \A i \in DOMAIN a : a[i].n <= frames
      BY <1>0, <1>3, <2>2, <2>3
    <3>2. \A i \in DOMAIN a, j \in DOMAIN t : a[i].n < t[j].n
      BY <1>5, <1>7, <2>2, <2>3
    <3>3. \A i \in DOMAIN a, j \in DOMAIN wire : a[i].n < wire[j].frame.n
      BY <1>0, <1>7, <2>2, <2>3
    <3> QED
      BY <1>0, <1>1, <1>4, <1>6, <1>7, <2>2, <2>4, <3>1, <3>2, <3>3 DEF TuyaFrames
  <2>6. \A i \in DOMAIN applied, d \in Dp : Written(i, d)' <=> Written(i, d)
    BY <2>2 DEF Written
  <2>7. \A d \in Dp : Written(last, d)' <=> (f.cmd = "report" /\ f.dp = d)
    <3>1. applied'[last] = f
      BY <2>2, <2>3a
    <3> QED
      BY <3>1, Zenon DEF Written
  <2>8. dp' \in [Dp -> 0..MaxFrames]
        /\ \A d \in Dp : dp'[d] = IF f.cmd = "report" /\ f.dp = d THEN f.n ELSE dp[d]
    BY <1>1, <1>2, <1>3 DEF TuyaPoints
  <2>9. ASSUME NEW d \in Dp
        PROVE  /\ dp'[d] = 0 \/ \E i \in DOMAIN a : Written(i, d)' /\ a[i].n = dp'[d]
               /\ \A i \in DOMAIN a : Written(i, d)' => a[i].n <= dp'[d]
    <3>1. /\ dp[d] = 0 \/ \E i \in DOMAIN applied : Written(i, d) /\ applied[i].n = dp[d]
          /\ \A i \in DOMAIN applied : Written(i, d) => applied[i].n <= dp[d]
      BY DEF TuyaPoints
    <3>2. Len(applied) + 1 \in DOMAIN a /\ \A i \in DOMAIN applied : i \in DOMAIN a
      BY ONLY <2>2
    <3>3. CASE f.cmd = "report" /\ f.dp = d
      <4>1. dp'[d] = f.n
        BY <2>8, <3>3
      <4>2. \A i \in DOMAIN applied : applied[i].n <= f.n
        <5>1. \A i \in DOMAIN applied : applied[i].n \in Nat
          BY <1>0, FrameOf
        <5> QED
          BY <1>3, <1>7, <5>1
      <4>3. Written(last, d)' /\ a[last].n = dp'[d]
        BY <2>3a, <2>7, <3>3, <4>1
      <4>4. \A i \in DOMAIN a : a[i].n <= dp'[d]
        BY <1>3, <2>2, <2>3, <4>1, <4>2
      <4>5. \E i \in DOMAIN a : Written(i, d)' /\ a[i].n = dp'[d]
        BY <4>3
      <4> QED
        BY <4>4, <4>5
    <3>4. CASE ~(f.cmd = "report" /\ f.dp = d)
      <4>1. dp'[d] = dp[d] /\ ~Written(last, d)'
        BY <2>7, <2>8, <3>4
      <4>2. \A i \in DOMAIN a : Written(i, d)' => a[i].n <= dp'[d]
        <5>1. ASSUME NEW i \in DOMAIN a, Written(i, d)' PROVE a[i].n <= dp'[d]
          <6>1. i \in DOMAIN applied
            BY <2>3, <2>3a, <4>1, <5>1
          <6>2. Written(i, d) /\ a[i] = applied[i]
            BY <2>2, <2>6, <5>1, <6>1
          <6> QED
            BY <3>1, <4>1, <6>1, <6>2
        <5> QED
          BY <5>1
      <4>3. dp'[d] = 0 \/ \E i \in DOMAIN a : Written(i, d)' /\ a[i].n = dp'[d]
        BY <2>2, <2>6, <3>1, <3>2, <4>1
      <4> QED
        BY <4>2, <4>3
    <3> QED
      BY <3>3, <3>4
  <2>10. TuyaPoints'
    BY <2>2, <2>8, <2>9 DEF TuyaPoints
  <2> QED
    BY <2>5, <2>10
<1>9. CASE f.cmd \notin {"report", "reset"}
  <2>1. applied' = applied /\ dp' = dp
    BY <1>1, <1>2, <1>9
  <2>2. TuyaFrames'
    BY <1>0, <1>1, <1>4, <1>6, <1>7, <2>1 DEF TuyaFrames
  <2>3. TuyaPoints'
    BY <2>1 DEF TuyaPoints, Written
  <2> QED
    BY <2>2, <2>3
<1> QED
  BY <1>8, <1>9

LEMMA TuyaGoesOn ==
  ASSUME Peer!PeerAssumption, TuyaInv, [Peer!TuyaNext]_(Peer!tuyavars) PROVE TuyaInv'
<1>0. TuyaTypes' /\ TuyaFrames /\ TuyaPoints
  BY TuyaTypesGoOn DEF TuyaInv
<1>1. ASSUME UNCHANGED <<frames, todo, applied, dp>>, wire' = wire \/ wire' = <<>>
      PROVE  TuyaFrames' /\ TuyaPoints'
  <2>1. TuyaPoints'
    BY <1>0, <1>1 DEF TuyaPoints, Written
  <2>2. CASE wire' = wire
    BY <1>0, <1>1, <2>1, <2>2 DEF TuyaFrames
  <2>3. CASE wire' = <<>>
    <3>1. wire' \in Seq(Piece) /\ DOMAIN wire' = {} /\ InOrder(wire')
      BY <2>3 DEF InOrder
    <3> QED
      BY <1>0, <1>1, <2>1, <3>1 DEF TuyaFrames
  <2> QED
    BY <1>1, <2>2, <2>3
<1>2. ASSUME UNCHANGED <<applied, dp>> PROVE TuyaPoints'
  BY <1>0, <1>2 DEF TuyaPoints, Written
<1>3. CASE Peer!Module
  BY <1>0, <1>2, <1>3, TuyaModule DEF Peer!Module, TuyaInv
<1>4. CASE Peer!rx_process
  BY <1>0, <1>2, <1>4, TuyaRead DEF Peer!rx_process, TuyaInv
<1>5. CASE Peer!process_frame
  BY <1>0, <1>5, TuyaHandled DEF TuyaInv
<1>6. CASE \/ Peer!tuya_iot_connect \/ Peer!tuya_iot_disconnect \/ Peer!tuya_iot_report_status
           \/ Peer!rx_loop \/ Peer!Second \/ UNCHANGED Peer!tuyavars
  BY <1>0, <1>1, <1>6
  DEF Peer!tuya_iot_connect, Peer!tuya_iot_disconnect, Peer!tuya_iot_report_status,
      Peer!rx_loop, Peer!Second, Peer!tuyavars, TuyaInv
<1> QED
  BY <1>3, <1>4, <1>5, <1>6 DEF Peer!TuyaNext

LEMMA TuyaHolds == ASSUME Peer!PeerAssumption, TuyaInv PROVE Peer!CommandsInOrder
<1>0. TuyaFrames /\ TuyaPoints
  BY DEF TuyaInv
<1>1. \A i, j \in DOMAIN applied : i < j => applied[i].n < applied[j].n
  BY <1>0 DEF TuyaFrames, Rising
<1>2. ASSUME NEW d \in Dp
      PROVE  dp[d] = Peer!Max({applied[i].n : i \in {k \in DOMAIN applied :
                       applied[k].cmd = "report" /\ applied[k].dp = d}} \cup {0})
  <2> DEFINE I == {k \in DOMAIN applied : applied[k].cmd = "report" /\ applied[k].dp = d}
             M == {applied[i].n : i \in I} \cup {0}
  <2>1. \A i \in DOMAIN applied : i \in I <=> Written(i, d)
    BY DEF Written
  <2>2. /\ dp[d] = 0 \/ \E i \in DOMAIN applied : Written(i, d) /\ applied[i].n = dp[d]
        /\ \A i \in DOMAIN applied : Written(i, d) => applied[i].n <= dp[d]
        /\ dp[d] \in 0..MaxFrames /\ MaxFrames \in Nat
    BY <1>0 DEF TuyaPoints, Peer!PeerAssumption
  <2>3. \A i \in DOMAIN applied : applied[i].n \in Nat
    <3>1. applied \in Seq(Peer!Frame)
      BY <1>0 DEF TuyaFrames
    <3> QED
      BY <2>2, <3>1, FrameOf
  <2>4. dp[d] \in M
    BY <2>1, <2>2
  <2>5. \A y \in M : dp[d] >= y /\ y \in Nat
    BY <2>1, <2>2, <2>3
  <2> HIDE DEF M
  <2>6. \A x \in M : (\A y \in M : x >= y) => x = dp[d]
    BY <2>2, <2>4, <2>5
  <2>7. dp[d] = Peer!Max(M)
    BY <2>4, <2>5, <2>6 DEF Peer!Max
  <2> QED
    BY <2>7 DEF M
<1> QED
  BY <1>1, <1>2 DEF Peer!CommandsInOrder
-----------------------------------------------------------------------------
(* proto_version.c.                                                        *)
(* What the two builds share, and the newest of it.                        *)
Both(g) == Peer!Range(g["a"]) \cap Peer!Range(g["b"])
Newest(g, v) == v \in Both(g) /\ \A u \in Both(g) : u <= v

(* A frame says what its sender has: its list, or what it found.           *)
Honest(g, e, f) ==
  /\ f.frame_type \in {"REQ", "RESP"} => f.versions = g[Peer!Peer(e)]
  /\ f.frame_type = "ACK" => Newest(g, f.negotiated_version)
  /\ f.frame_type = "NAK" => Both(g) = {}
Way(g, w) == /\ w \in [Peer!End -> Seq(Peer!version_frame_t)]
             /\ \A e \in Peer!End : \A i \in DOMAIN w[e] : Honest(g, e, w[e][i])

Context == [negotiated_version : Version \cup {0}, compatible : BOOLEAN,
            negotiated : BOOLEAN, retry_count : 0..max_retries]
Right(g, c) == /\ c.compatible => Newest(g, c.negotiated_version)
               /\ c.negotiated /\ ~c.compatible => Both(g) = {}
Contexts(g, ctx) == ctx \in [Peer!End -> Context] /\ \A e \in Peer!End : Right(g, ctx[e])

Places == {"idle", "request again", "wait again", "resp", "req", "ack"}
ProtoInv ==
  /\ g_supported_versions \in [Peer!End -> Peer!supported_versions]
  /\ proto_pc \in [Peer!End -> Places]
  /\ Way(g_supported_versions, on_way)
  /\ Contexts(g_supported_versions, g_ctx)

LEMMA TheEnds ==
  /\ "a" \in Peer!End /\ "b" \in Peer!End
  /\ \A e \in Peer!End : e = "a" \/ e = "b"
  /\ \A e \in Peer!End : Peer!Peer(e) \in Peer!End /\ Peer!Peer(Peer!Peer(e)) = e
  /\ \A e \in Peer!End : \A g : Both(g) = Peer!Range(g[e]) \cap Peer!Range(g[Peer!Peer(e)])
<1>1. Peer!End = {"a", "b"} /\ Peer!Peer("a") = "b" /\ Peer!Peer("b") = "a"
  BY DEF Peer!End, Peer!Peer
<1> QED
  BY <1>1 DEF Both

(* The least of a set of numbers.                                          *)
LEMMA LeastOf ==
  ASSUME NEW S \in SUBSET Nat, S # {}
  PROVE  Peer!Min(S) \in S /\ \A y \in S : Peer!Min(S) <= y
<1> DEFINE R == OpToRel(<, Nat)
<1>1. PICK x \in S : \A y \in S : ~(<<y, x>> \in R)
  <2>1. IsWellFoundedOn(R, Nat)
    BY NatLessThanWellFounded
  <2> HIDE DEF R
  <2> QED
    BY <2>1, WFMin
<1>2. ASSUME NEW y \in S PROVE x <= y
  <2>1. ~(y < x)
    BY <1>1 DEF OpToRel
  <2> QED
    BY <2>1
<1>3. \E m \in S : \A y \in S : m <= y
  BY <1>2
<1> QED
  BY <1>3, Zenon DEF Peer!Min

LEMMA Lists ==
  ASSUME Peer!PeerAssumption, NEW l \in Peer!supported_versions
  PROVE  /\ DOMAIN l \subseteq Nat /\ \A i \in DOMAIN l : l[i] \in Version /\ l[i] \in Nat \ {0}
         /\ \A i, j \in DOMAIN l : i < j => l[i] > l[j]
<1>1. PICK n \in 1..Cardinality(Version) : l \in [1..n -> Version]
  <2>1. Peer!Cardinality(Version) = Cardinality(Version)
    BY DEF Peer!Cardinality, Cardinality
  <2> QED
    BY <2>1 DEF Peer!supported_versions
<1>2. \A i, j \in DOMAIN l : i < j => l[i] > l[j]
  BY DEF Peer!supported_versions
<1>3. DOMAIN l = 1..n /\ \A i \in DOMAIN l : l[i] \in Version
  BY <1>1
<1>4. DOMAIN l \subseteq Nat
  BY <1>3
<1> QED
  BY <1>2, <1>3, <1>4 DEF Peer!PeerAssumption

(* The first of one's own versions that the other end has is the newest of *)
(* all that both have.                                                     *)
LEMMA FindsNewest ==
  ASSUME Peer!PeerAssumption, NEW g \in [Peer!End -> Peer!supported_versions],
         NEW e \in Peer!End
  PROVE  LET v == Peer!find_common_version(g[e], g[Peer!Peer(e)])
         IN (v = 0 /\ Both(g) = {}) \/ (v # 0 /\ v \in Version /\ Newest(g, v))
<1>1. PICK mine \in Peer!supported_versions, remote \in Peer!supported_versions :
        mine = g[e] /\ remote = g[Peer!Peer(e)]
  BY TheEnds
<1>2. Both(g) = Peer!Range(mine) \cap Peer!Range(remote)
  BY <1>1, TheEnds
<1> DEFINE C == Peer!Common(mine, remote)
<1>3. \A i : i \in C <=> i \in DOMAIN mine /\ mine[i] \in Peer!Range(remote)
  BY DEF Peer!Common
<1>4. C \in SUBSET Nat
  BY <1>3, Lists
<1>5. \A u \in Both(g) : \E i \in C : u = mine[i]
  BY <1>2, <1>3 DEF Peer!Range
<1>6. \A i \in C : mine[i] \in Both(g)
  BY <1>2, <1>3 DEF Peer!Range
<1> HIDE DEF C
<1>7. CASE C = {}
  <2>1. Peer!find_common_version(mine, remote) = 0
    BY <1>7 DEF Peer!find_common_version, C
  <2>2. Both(g) = {}
    BY <1>5, <1>7
  <2> QED
    BY <1>1, <2>1, <2>2
<1>8. CASE C # {}
  <2>1. PICK m \in C : m = Peer!Min(C) /\ \A i \in C : m <= i
    BY <1>4, <1>8, LeastOf
  <2>2. Peer!find_common_version(mine, remote) = mine[m]
    BY <1>8, <2>1 DEF Peer!find_common_version, C
  <2>3. mine[m] \in Version /\ mine[m] \in Nat \ {0}
    BY <1>3, Lists
  <2>4. ASSUME NEW u \in Both(g) PROVE u <= mine[m]
    <3>1. PICK i \in C : u = mine[i]
      BY <1>5
    <3>2. i \in DOMAIN mine /\ m \in DOMAIN mine /\ m <= i /\ i \in Nat /\ m \in Nat
      BY <1>3, <1>4, <2>1
    <3>3. m < i => mine[m] > mine[i]
      BY <3>2, Lists
    <3>4. mine[i] \in Nat
      BY <3>2, Lists
    <3> QED
      BY <2>3, <3>1, <3>2, <3>3, <3>4
  <2>5. Newest(g, mine[m])
    BY <1>6, <2>4 DEF Newest
  <2> QED
    BY <1>1, <2>2, <2>3, <2>5
<1> QED
  BY <1>7, <1>8

(* What is on the way after a frame was taken, or sent.                    *)
LEMMA WayTaken ==
  ASSUME NEW g, Way(g, on_way), NEW e \in Peer!End, on_way[e] # <<>>
  PROVE  /\ Way(g, Peer!Rest(e)) /\ Peer!Received(e) \in Peer!version_frame_t
         /\ Honest(g, e, Peer!Received(e))
<1>1. PICK s \in Seq(Peer!version_frame_t) : s = on_way[e] /\ s # <<>>
  BY DEF Way
<1>2. /\ Head(s) = s[1] /\ 1 \in DOMAIN s /\ s[1] \in Peer!version_frame_t
      /\ Tail(s) \in Seq(Peer!version_frame_t)
      /\ \A i \in DOMAIN Tail(s) : i + 1 \in DOMAIN s /\ Tail(s)[i] = s[i + 1]
  BY ONLY <1>1, TailOf, s \in Seq(Peer!version_frame_t)
<1>3. \A i \in DOMAIN s : Honest(g, e, s[i])
  BY <1>1 DEF Way
<1>4. Peer!Received(e) = s[1]
  BY <1>1, <1>2 DEF Peer!Received
<1>5. PICK t \in Seq(Peer!version_frame_t) : t = Tail(s) /\ \A i \in DOMAIN t : Honest(g, e, t[i])
  BY <1>2, <1>3
<1>6. Peer!Rest(e) = [on_way EXCEPT ![e] = t]
  BY <1>1, <1>5 DEF Peer!Rest
<1>7. Peer!Rest(e) \in [Peer!End -> Seq(Peer!version_frame_t)]
      /\ \A x \in Peer!End : Peer!Rest(e)[x] = IF x = e THEN t ELSE on_way[x]
  BY <1>6 DEF Way
<1>8. Way(g, Peer!Rest(e))
  BY <1>5, <1>7 DEF Way
<1> QED
  BY <1>2, <1>3, <1>4, <1>8

LEMMA WaySent ==
  ASSUME NEW g, NEW w, Way(g, w), NEW e \in Peer!End, NEW f \in Peer!version_frame_t,
         Honest(g, Peer!Peer(e), f), Peer!proto_send_frame(e, w, f)
  PROVE  Way(g, on_way')
<1>1. PICK x \in Peer!End : x = Peer!Peer(e)
  BY TheEnds
<1>2. CASE on_way' = w
  BY <1>2
<1>3. CASE on_way' = [w EXCEPT ![x] = Append(@, f)]
  <2>1. PICK s \in Seq(Peer!version_frame_t) : s = w[x]
    BY DEF Way
  <2>2. PICK t \in Seq(Peer!version_frame_t) :
          /\ t = Append(s, f) /\ DOMAIN t = 1..(Len(s) + 1) /\ DOMAIN s = 1..Len(s)
          /\ Len(s) \in Nat /\ t[Len(s) + 1] = f /\ \A i \in DOMAIN s : t[i] = s[i]
    <3>1. /\ Append(s, f) \in Seq(Peer!version_frame_t) /\ DOMAIN Append(s, f) = 1..(Len(s) + 1)
          /\ DOMAIN s = 1..Len(s) /\ Len(s) \in Nat /\ Append(s, f)[Len(s) + 1] = f
          /\ \A i \in DOMAIN s : Append(s, f)[i] = s[i]
      BY AppendOf
    <3> QED
      BY ONLY <3>1, Zenon
  <2>3. \A i \in DOMAIN t : t[i] = f \/ (i \in DOMAIN s /\ t[i] = s[i])
    BY ONLY <2>2
  <2>4. \A i \in DOMAIN t : Honest(g, x, t[i])
    BY <1>1, <2>1, <2>3 DEF Way
  <2>5. /\ on_way' \in [Peer!End -> Seq(Peer!version_frame_t)]
        /\ \A y \in Peer!End : on_way'[y] = IF y = x THEN t ELSE w[y]
    BY <1>3, <2>1, <2>2 DEF Way
  <2> QED
    BY <2>4, <2>5 DEF Way
<1> QED
  BY <1>1, <1>2, <1>3 DEF Peer!proto_send_frame

LEMMA FramesMade ==
  ASSUME Peer!PeerAssumption
  PROVE  /\ \A type \in {"REQ", "RESP"}, l \in Peer!supported_versions :
              /\ Peer!ListFrame(type, l) \in Peer!version_frame_t
              /\ Peer!ListFrame(type, l).frame_type = type
              /\ Peer!ListFrame(type, l).versions = l
         /\ \A type \in {"ACK", "NAK"}, v \in Version \cup {0} :
              /\ Peer!AckFrame(type, v) \in Peer!version_frame_t
              /\ Peer!AckFrame(type, v).frame_type = type
              /\ Peer!AckFrame(type, v).negotiated_version = v
<1>1. ASSUME NEW type \in {"REQ", "RESP"}, NEW l \in Peer!supported_versions
      PROVE  /\ Peer!ListFrame(type, l) \in Peer!version_frame_t
             /\ Peer!ListFrame(type, l).frame_type = type
             /\ Peer!ListFrame(type, l).versions = l
  BY DEF Peer!ListFrame, Peer!version_frame_t
<1>2. ASSUME NEW type \in {"ACK", "NAK"}, NEW v \in Version \cup {0}
      PROVE  /\ Peer!AckFrame(type, v) \in Peer!version_frame_t
             /\ Peer!AckFrame(type, v).frame_type = type
             /\ Peer!AckFrame(type, v).negotiated_version = v
  BY DEF Peer!AckFrame, Peer!version_frame_t
<1> QED
  BY <1>1, <1>2

(* What the ends take down.                                                *)
LEMMA CountUp ==
  ASSUME NEW c \in Context, c.retry_count < max_retries, max_retries \in Nat, NEW g, Right(g, c)
  PROVE  [c EXCEPT !.retry_count = @ + 1] \in Context
         /\ Right(g, [c EXCEPT !.retry_count = @ + 1])
<1>1. PICK n \in 0..max_retries : n = c.retry_count + 1
  BY DEF Context
<1>2. PICK d \in Context : /\ d = [c EXCEPT !.retry_count = n]
                           /\ d.negotiated_version = c.negotiated_version
                           /\ d.compatible = c.compatible /\ d.negotiated = c.negotiated
  <2>1. [c EXCEPT !.retry_count = n] \in Context
    BY DEF Context
  <2>2. /\ [c EXCEPT !.retry_count = n].negotiated_version = c.negotiated_version
        /\ [c EXCEPT !.retry_count = n].compatible = c.compatible
        /\ [c EXCEPT !.retry_count = n].negotiated = c.negotiated
    BY DEF Context
  <2> QED
    BY <2>1, <2>2
<1>3. Right(g, d)
  BY <1>2 DEF Right
<1>4. [c EXCEPT !.retry_count = @ + 1] = d
  BY <1>1, <1>2
<1> QED
  BY <1>3, <1>4

LEMMA TakenDown ==
  ASSUME NEW c \in Context, NEW v \in Version \cup {0}, NEW b \in BOOLEAN, NEW g,
         b => Newest(g, v), ~b => Both(g) = {}
  PROVE  [c EXCEPT !.negotiated_version = v, !.compatible = b, !.negotiated = TRUE] \in Context
         /\ Right(g, [c EXCEPT !.negotiated_version = v, !.compatible = b, !.negotiated = TRUE])
<1>1. PICK d : d = [c EXCEPT !.negotiated_version = v, !.compatible = b, !.negotiated = TRUE]
  OBVIOUS
<1>2. d = [negotiated_version |-> v, compatible |-> b, negotiated |-> TRUE,
           retry_count |-> c.retry_count]
  BY <1>1 DEF Context
<1>3. c.retry_count \in 0..max_retries
  BY DEF Context
<1>4. d \in Context /\ d.compatible = b /\ d.negotiated_version = v
  BY <1>2, <1>3 DEF Context
<1>5. Right(g, d)
  BY <1>4 DEF Right
<1> QED
  BY <1>1, <1>4, <1>5

LEMMA OneChanged ==
  ASSUME NEW g, NEW ctx, Contexts(g, ctx), NEW e \in Peer!End, NEW d \in Context, Right(g, d)
  PROVE  Contexts(g, [ctx EXCEPT ![e] = d])
  BY DEF Contexts

LEMMA TryFailed ==
  ASSUME Peer!PeerAssumption, NEW g, NEW ctx, Contexts(g, ctx), NEW e \in Peer!End,
         proto_pc \in [Peer!End -> Places], Peer!Failed(e, ctx)
  PROVE  Contexts(g, g_ctx') /\ proto_pc' \in [Peer!End -> Places]
<1>1. PICK c \in Context : c = ctx[e] /\ Right(g, c)
  BY DEF Contexts
<1>2. CASE c.retry_count < max_retries
  <2>1. PICK d \in Context : d = [c EXCEPT !.retry_count = @ + 1] /\ Right(g, d)
    BY <1>1, <1>2, CountUp DEF Peer!PeerAssumption
  <2>2. g_ctx' = [ctx EXCEPT ![e].retry_count = @ + 1]
    BY <1>1, <1>2 DEF Peer!Failed
  <2>3. g_ctx' = [ctx EXCEPT ![e] = d]
    BY <1>1, <2>1, <2>2
  <2>4. proto_pc' \in [Peer!End -> Places]
    BY <1>1, <1>2 DEF Peer!Failed, Peer!Goto, Places
  <2> QED
    BY <2>1, <2>3, <2>4, OneChanged
<1>3. CASE ~(c.retry_count < max_retries)
  BY <1>1, <1>3 DEF Peer!Failed, Peer!Goto, Places
<1> QED
  BY <1>2, <1>3

LEMMA ProtoStarts == ASSUME Peer!PeerAssumption, Peer!ProtoInit PROVE ProtoInv
<1> USE DEF Peer!ProtoInit
<1>1. proto_pc \in [Peer!End -> Places]
  BY DEF Places
<1>2. Way(g_supported_versions, on_way)
  <2>1. on_way \in [Peer!End -> Seq(Peer!version_frame_t)]
    OBVIOUS
  <2>2. \A e \in Peer!End : DOMAIN on_way[e] = {}
    OBVIOUS
  <2> QED
    BY <2>1, <2>2 DEF Way
<1>3. Contexts(g_supported_versions, g_ctx)
  <2>1. PICK d : d = Peer!proto_version_init
    OBVIOUS
  <2>2. d \in Context /\ d.compatible = FALSE /\ d.negotiated = FALSE
    BY <2>1 DEF Peer!proto_version_init, Context, Peer!PeerAssumption
  <2>3. g_ctx = [e \in Peer!End |-> d]
    BY <2>1
  <2> QED
    BY <2>2, <2>3 DEF Contexts, Right
<1> QED
  BY <1>1, <1>2, <1>3 DEF ProtoInv

(* The answer to a request: what both have, or a refusal.                  *)
LEMMA InitiatorGoesOn ==
  ASSUME Peer!PeerAssumption, ProtoInv, NEW e \in Peer!End, Peer!negotiate_as_initiator(e),
         g_supported_versions' = g_supported_versions
  PROVE  ProtoInv'
<1>0. /\ g_supported_versions \in [Peer!End -> Peer!supported_versions]
      /\ proto_pc \in [Peer!End -> Places]
      /\ Way(g_supported_versions, on_way) /\ Contexts(g_supported_versions, g_ctx)
  BY DEF ProtoInv
<1>1. PICK g \in [Peer!End -> Peer!supported_versions] : g = g_supported_versions
  BY <1>0
<1>2. on_way[e] # <<>>
  BY DEF Peer!negotiate_as_initiator, Peer!recv_frame
<1>3. PICK f \in Peer!version_frame_t : f = Peer!Received(e) /\ Honest(g, e, f)
  BY <1>0, <1>1, <1>2, WayTaken
<1>4. PICK w : w = Peer!Rest(e) /\ Way(g, w)
  BY <1>0, <1>1, <1>2, WayTaken
<1>5. ASSUME Way(g, on_way'), Contexts(g, g_ctx'), proto_pc' \in [Peer!End -> Places]
      PROVE  ProtoInv'
  BY <1>1, <1>5 DEF ProtoInv
<1>6. CASE f.frame_type # "RESP" /\ Peer!Unexpected(e)
  <2>1. on_way' = w /\ Peer!Failed(e, g_ctx)
    BY <1>4, <1>6 DEF Peer!Unexpected
  <2> QED
    BY <1>0, <1>1, <1>4, <1>5, <2>1, TryFailed
<1>7. CASE f.frame_type = "RESP"
  <2>1. f.versions = g[Peer!Peer(e)]
    BY <1>3, <1>7 DEF Honest
  <2>2. PICK v : v = Peer!find_common_version(g[e], g[Peer!Peer(e)])
    OBVIOUS
  <2>3. (v = 0 /\ Both(g) = {}) \/ (v # 0 /\ v \in Version /\ Newest(g, v))
    BY <2>2, FindsNewest
  <2>4. v = Peer!find_common_version(g_supported_versions[e], Peer!Received(e).versions)
    BY <1>1, <1>3, <2>1, <2>2
  <2>5. \/ /\ v # 0 /\ Peer!Record(e, v) /\ Peer!Goto(e, "idle")
           /\ Peer!proto_send_frame(e, w, Peer!AckFrame("ACK", v))
        \/ /\ v = 0 /\ Peer!proto_send_frame(e, w, Peer!AckFrame("NAK", 0))
           /\ Peer!Failed(e, [g_ctx EXCEPT ![e] =
                 [@ EXCEPT !.negotiated_version = 0, !.compatible = FALSE, !.negotiated = TRUE]])
    BY <1>3, <1>4, <1>7, <2>4, Zenon DEF Peer!negotiate_as_initiator, Peer!Unexpected
  <2>6. PICK c \in Context : c = g_ctx[e]
    BY <1>0 DEF Contexts
  <2>7. CASE v # 0
    <3>1. v \in Version /\ Newest(g, v)
      BY <2>3, <2>7
    <3>2. PICK k \in Peer!version_frame_t : /\ k = Peer!AckFrame("ACK", v) /\ k.frame_type = "ACK"
                                            /\ k.negotiated_version = v
      BY <3>1, FramesMade
    <3>3. Honest(g, Peer!Peer(e), k)
      BY <3>1, <3>2 DEF Honest
    <3>4. Way(g, on_way')
      BY <1>4, <2>5, <2>7, <3>2, <3>3, WaySent
    <3>5. PICK d \in Context :
            /\ d = [c EXCEPT !.negotiated_version = v, !.compatible = TRUE, !.negotiated = TRUE]
            /\ Right(g, d)
      BY <3>1, TakenDown
    <3>6. g_ctx' = [g_ctx EXCEPT ![e] = d]
      <4>1. (v # 0) = TRUE
        BY <2>7
      <4> QED
        BY <2>5, <2>6, <2>7, <3>5, <4>1, Zenon DEF Peer!Record
    <3>7. proto_pc' \in [Peer!End -> Places]
      BY <1>0, <2>5, <2>7 DEF Peer!Goto, Places
    <3> QED
      BY <1>0, <1>1, <1>5, <3>4, <3>5, <3>6, <3>7, OneChanged
  <2>8. CASE v = 0
    <3>1. Both(g) = {}
      BY <2>3, <2>8
    <3>2. PICK k \in Peer!version_frame_t : k = Peer!AckFrame("NAK", 0) /\ k.frame_type = "NAK"
      BY FramesMade
    <3>3. Honest(g, Peer!Peer(e), k)
      BY <3>1, <3>2 DEF Honest
    <3>4. Way(g, on_way')
      BY <1>4, <2>5, <2>8, <3>2, <3>3, WaySent
    <3>5. PICK d \in Context :
            /\ d = [c EXCEPT !.negotiated_version = 0, !.compatible = FALSE, !.negotiated = TRUE]
            /\ Right(g, d)
      BY <3>1, TakenDown
    <3>6. PICK ctx : ctx = [g_ctx EXCEPT ![e] = d] /\ Contexts(g, ctx)
      BY <1>0, <1>1, <3>5, OneChanged
    <3>7. Peer!Failed(e, ctx)
      BY <2>5, <2>6, <2>8, <3>5, <3>6, Zenon
    <3> QED
      BY <1>0, <1>5, <3>4, <3>6, <3>7, TryFailed
  <2> QED
    BY <2>7, <2>8
<1> QED
  BY <1>3, <1>6, <1>7, Zenon DEF Peer!negotiate_as_initiator

(* The acknowledgement.                                                    *)
LEMMA ResponderGoesOn ==
  ASSUME Peer!PeerAssumption, ProtoInv, NEW e \in Peer!End, Peer!negotiate_as_responder(e),
         g_supported_versions' = g_supported_versions
  PROVE  ProtoInv'
<1>0. /\ g_supported_versions \in [Peer!End -> Peer!supported_versions]
      /\ proto_pc \in [Peer!End -> Places]
      /\ Way(g_supported_versions, on_way) /\ Contexts(g_supported_versions, g_ctx)
  BY DEF ProtoInv
<1>1. PICK g \in [Peer!End -> Peer!supported_versions] : g = g_supported_versions
  BY <1>0
<1>2. on_way[e] # <<>> /\ on_way' = Peer!Rest(e)
  BY DEF Peer!negotiate_as_responder, Peer!recv_frame
<1>3. PICK f \in Peer!version_frame_t : f = Peer!Received(e) /\ Honest(g, e, f)
  BY <1>0, <1>1, <1>2, WayTaken
<1>4. Way(g, on_way')
  BY <1>0, <1>1, <1>2, WayTaken
<1>5. ASSUME Contexts(g, g_ctx'), proto_pc' \in [Peer!End -> Places] PROVE ProtoInv'
  BY <1>1, <1>4, <1>5 DEF ProtoInv
<1>6. PICK c \in Context : c = g_ctx[e]
  BY <1>0 DEF Contexts
<1>7. CASE f.frame_type = "ACK" /\ Peer!Record(e, f.negotiated_version) /\ Peer!Goto(e, "idle")
  <2>1. PICK v \in Version : v = f.negotiated_version /\ v # 0 /\ Newest(g, v)
    <3>1. Newest(g, f.negotiated_version)
      BY <1>3, <1>7 DEF Honest
    <3>2. f.negotiated_version \in Peer!Range(g["a"]) /\ g["a"] \in Peer!supported_versions
      BY <3>1, TheEnds DEF Newest, Both
    <3>3. PICK i \in DOMAIN g["a"] : f.negotiated_version = g["a"][i]
      BY <3>2 DEF Peer!Range
    <3>4. g["a"][i] \in Version /\ g["a"][i] \in Nat \ {0}
      BY <3>2, Lists
    <3> QED
      BY <3>1, <3>3, <3>4
  <2>2. PICK d \in Context :
          /\ d = [c EXCEPT !.negotiated_version = v, !.compatible = TRUE, !.negotiated = TRUE]
          /\ Right(g, d)
    BY <2>1, TakenDown
  <2>3. g_ctx' = [g_ctx EXCEPT ![e] = d]
    <3>1. (v # 0) = TRUE
      BY <2>1
    <3> QED
      BY <1>6, <1>7, <2>1, <2>2, <3>1, Zenon DEF Peer!Record
  <2>4. proto_pc' \in [Peer!End -> Places]
    BY <1>0, <1>7 DEF Peer!Goto, Places
  <2> QED
    BY <1>0, <1>1, <1>5, <2>2, <2>3, <2>4, OneChanged
<1>8. CASE /\ f.frame_type = "NAK"
           /\ Peer!Failed(e, [g_ctx EXCEPT ![e] =
                [@ EXCEPT !.negotiated_version = 0, !.compatible = FALSE, !.negotiated = TRUE]])
  <2>1. Both(g) = {}
    BY <1>3, <1>8 DEF Honest
  <2>2. PICK d \in Context :
          /\ d = [c EXCEPT !.negotiated_version = 0, !.compatible = FALSE, !.negotiated = TRUE]
          /\ Right(g, d)
    BY <2>1, TakenDown
  <2>3. PICK ctx : ctx = [g_ctx EXCEPT ![e] = d] /\ Contexts(g, ctx)
    BY <1>0, <1>1, <2>2, OneChanged
  <2>4. Peer!Failed(e, ctx)
    BY <1>6, <1>8, <2>2, <2>3, Zenon
  <2> QED
    BY <1>0, <1>5, <2>3, <2>4, TryFailed
<1>9. CASE Peer!Failed(e, g_ctx)
  BY <1>0, <1>1, <1>5, <1>9, TryFailed
<1> QED
  BY <1>3, <1>7, <1>8, <1>9, Zenon DEF Peer!negotiate_as_responder

LEMMA ProtoGoesOn ==
  ASSUME Peer!PeerAssumption, ProtoInv, [Peer!ProtoNext]_(Peer!protovars) PROVE ProtoInv'
<1>0. /\ g_supported_versions \in [Peer!End -> Peer!supported_versions]
      /\ proto_pc \in [Peer!End -> Places]
      /\ Way(g_supported_versions, on_way) /\ Contexts(g_supported_versions, g_ctx)
  BY DEF ProtoInv
<1>1. PICK g \in [Peer!End -> Peer!supported_versions] : g = g_supported_versions
  BY <1>0
<1>2. ASSUME g_supported_versions' = g_supported_versions, Way(g, on_way'), Contexts(g, g_ctx'),
             proto_pc' \in [Peer!End -> Places]
      PROVE  ProtoInv'
  BY <1>1, <1>2 DEF ProtoInv
<1>3. CASE UNCHANGED Peer!protovars
  BY <1>0, <1>3 DEF Peer!protovars, ProtoInv
<1>4. ASSUME NEW e \in Peer!End, g_supported_versions' = g_supported_versions,
             Peer!proto_version_negotiate(e)
      PROVE  ProtoInv'
  <2>1. g_ctx' = g_ctx
    BY <1>4 DEF Peer!proto_version_negotiate
  <2>2. proto_pc' \in [Peer!End -> Places]
    BY <1>0, <1>4 DEF Peer!proto_version_negotiate, Peer!Goto, Places
  <2>3. CASE on_way' = on_way
    BY <1>0, <1>1, <1>2, <1>4, <2>1, <2>2, <2>3
  <2>4. CASE Peer!proto_send_frame(e, on_way, Peer!ListFrame("REQ", g_supported_versions[e]))
    <3>1. PICK k \in Peer!version_frame_t : /\ k = Peer!ListFrame("REQ", g[e])
                                            /\ k.frame_type = "REQ" /\ k.versions = g[e]
      BY FramesMade
    <3>2. Honest(g, Peer!Peer(e), k)
      BY <3>1, TheEnds DEF Honest
    <3>3. Way(g, on_way')
      BY <1>0, <1>1, <2>4, <3>1, <3>2, WaySent
    <3> QED
      BY <1>0, <1>1, <1>2, <1>4, <2>1, <2>2, <3>3
  <2> QED
    BY <1>4, <2>3, <2>4 DEF Peer!proto_version_negotiate
<1>5. ASSUME NEW e \in Peer!End, g_supported_versions' = g_supported_versions,
             Peer!recv_frame_fails(e)
      PROVE  ProtoInv'
  <2>1. Peer!Failed(e, g_ctx)
    BY <1>5 DEF Peer!recv_frame_fails
  <2>2. Way(g, on_way')
    <3>1. CASE on_way' = on_way
      BY <1>0, <1>1, <3>1
    <3>2. CASE on_way' = [on_way EXCEPT ![e] = IF @ = <<>> THEN @ ELSE Tail(@)]
      <4>1. CASE on_way[e] = <<>>
        <5>1. on_way' = on_way
          BY <1>0, <3>2, <4>1 DEF Way
        <5> QED
          BY <1>0, <1>1, <5>1
      <4>2. CASE on_way[e] # <<>>
        <5>1. on_way' = Peer!Rest(e)
          BY <3>2, <4>2 DEF Peer!Rest
        <5> QED
          BY <1>0, <1>1, <4>2, <5>1, WayTaken
      <4> QED
        BY <4>1, <4>2
    <3> QED
      BY <1>5, <3>1, <3>2 DEF Peer!recv_frame_fails
  <2> QED
    BY <1>0, <1>1, <1>2, <1>5, <2>1, <2>2, TryFailed
<1>6. ASSUME NEW e \in Peer!End, g_supported_versions' = g_supported_versions, Peer!Answer(e)
      PROVE  ProtoInv'
  <2>1. PICK w : w = Peer!Rest(e) /\ Way(g, w)
    BY <1>0, <1>1, <1>6, WayTaken DEF Peer!Answer, Peer!recv_frame
  <2>2. CASE Peer!Unexpected(e)
    <3>1. on_way' = w /\ Peer!Failed(e, g_ctx)
      BY <2>1, <2>2 DEF Peer!Unexpected
    <3> QED
      BY <1>0, <1>1, <1>2, <1>6, <2>1, <3>1, TryFailed
  <2>3. CASE /\ Peer!Goto(e, "ack") /\ UNCHANGED g_ctx
             /\ Peer!proto_send_frame(e, Peer!Rest(e), Peer!ListFrame("RESP", g_supported_versions[e]))
    <3>1. PICK k \in Peer!version_frame_t : /\ k = Peer!ListFrame("RESP", g[e])
                                            /\ k.frame_type = "RESP" /\ k.versions = g[e]
      BY FramesMade
    <3>2. Honest(g, Peer!Peer(e), k)
      BY <3>1, TheEnds DEF Honest
    <3>3. Way(g, on_way')
      BY <1>1, <2>1, <2>3, <3>1, <3>2, WaySent
    <3>4. proto_pc' \in [Peer!End -> Places]
      BY <1>0, <2>3 DEF Peer!Goto, Places
    <3> QED
      BY <1>0, <1>1, <1>2, <1>6, <2>3, <3>3, <3>4
  <2> QED
    BY <1>6, <2>2, <2>3 DEF Peer!Answer
<1> QED
  BY <1>3, <1>4, <1>5, <1>6, InitiatorGoesOn, ResponderGoesOn DEF Peer!ProtoNext

LEMMA ProtoHolds == ASSUME ProtoInv PROVE Peer!NewestInCommon
<1>1. \A e \in Peer!End : Right(g_supported_versions, g_ctx[e])
  BY DEF ProtoInv, Contexts
<1> QED
  BY <1>1
  DEF Peer!NewestInCommon, Right, Newest, Both, Peer!proto_version_is_compatible,
      Peer!proto_version_get_negotiated
-----------------------------------------------------------------------------
(* The bench.                                                              *)

MotorsInv == SideInv /\ RollerInv /\ FanInv /\ CoordInv
ChecksInv == RedInv /\ FaultInv
LogsInv   == FilesInv /\ TraceInv /\ CrashInv /\ PerfInv
FieldInv  == UdsInv /\ ModbusInv /\ EipInv
PeersInv  == TuyaInv /\ ProtoInv
Inv == MotorsInv /\ ChecksInv /\ LogsInv /\ FieldInv /\ PeersInv

LEMMA Setup ==
  /\ Motor!MotorsAssumption /\ Check!ChecksAssumption /\ Log!LoggingAssumption
  /\ Field!FieldBusAssumption /\ Peer!PeerAssumption
  BY SetupAssumption

LEMMA Starts == ASSUME Init PROVE Inv
<1>1. /\ Motor!Init /\ Check!Init /\ Log!Init /\ Field!Init /\ Peer!Init
  BY DEF Init
<1>2. MotorsInv
  BY <1>1, Setup, SideStarts, RollerStarts, FanStarts, CoordStarts DEF Motor!Init, MotorsInv
<1>3. ChecksInv
  <2>1. FaultInv
    BY <1>1, Setup, Forgotten DEF Check!Init, Check!FAULT_InitAll
  <2> QED
    BY <1>1, <2>1, Setup, RedStarts DEF Check!Init, ChecksInv
<1>4. LogsInv
  BY <1>1, Setup, FilesStart, TraceStarts, CrashStarts, PerfStarts DEF Log!Init, LogsInv
<1>5. FieldInv
  BY <1>1, Setup, UdsStarts, ModbusStarts, EipStarts DEF Field!Init, FieldInv
<1>6. PeersInv
  BY <1>1, Setup, TuyaStarts, ProtoStarts DEF Peer!Init, PeersInv
<1> QED
  BY <1>2, <1>3, <1>4, <1>5, <1>6 DEF Inv

(* A step of the bench is a step of one of its parts and a stutter of the  *)
(* others.                                                                 *)
LEMMA MotorsTurn ==
  ASSUME [Next]_vars
  PROVE  /\ [Motor!SideNext]_<<side, side_stuck>> /\ [Motor!RollerNext]_<<roller, roller_stuck>>
         /\ [Motor!FanNext]_<<fan, risen>> /\ [Motor!CoordNext]_<<mot, active, agreed>>
<1>1. \/ Motor!SideNext \/ Motor!RollerNext \/ Motor!FanNext \/ Motor!CoordNext
      \/ UNCHANGED motorvars
  BY DEF Next, Parked, vars, MotorSetups, CheckSetups, LogSetups, FieldSetups
<1> QED
  BY <1>1 DEF motorvars, Motor!SideNext, Motor!RollerNext, Motor!FanNext, Motor!CoordNext,
     Motor!sidevars, Motor!rollervars, Motor!fanvars, Motor!coordvars

LEMMA ChecksRun ==
  ASSUME [Next]_vars
  PROVE  [Check!RedNext]_<<red, disagreed>> /\ [Check!FaultNext]_<<fault, totals>>
<1>1. Check!RedNext \/ Check!FaultNext \/ UNCHANGED checkvars
  BY DEF Next, Parked, vars, MotorSetups, CheckSetups, LogSetups, FieldSetups
<1> QED
  BY <1>1 DEF checkvars, Check!RedNext, Check!FaultNext, Check!redvars, Check!faultvars

LEMMA LogsGrow ==
  ASSUME [Next]_vars
  PROVE  /\ [Log!EventNext]_(Log!eventvars) /\ [Log!TraceNext]_(Log!tracevars)
         /\ [Log!CrashNext]_(Log!crashvars) /\ [Log!PerfNext]_(Log!perfvars)
<1>1. \/ Log!EventNext \/ Log!TraceNext \/ Log!CrashNext \/ Log!PerfNext
      \/ UNCHANGED logvars
  BY DEF Next, Parked, vars, MotorSetups, CheckSetups, LogSetups, FieldSetups
<1> QED
  BY <1>1 DEF logvars, Log!EventNext, Log!TraceNext, Log!CrashNext, Log!PerfNext,
     Log!eventvars, Log!tracevars, Log!crashvars, Log!perfvars

LEMMA FieldTalks ==
  ASSUME [Next]_vars
  PROVE  /\ [Field!UdsNext]_(Field!udsvars) /\ [Field!ModbusNext]_(Field!modbusvars)
         /\ [Field!EipNext]_(Field!eipvars)
<1>1. Field!UdsNext \/ Field!ModbusNext \/ Field!EipNext \/ UNCHANGED fieldvars
  BY DEF Next, Parked, vars, MotorSetups, CheckSetups, LogSetups, FieldSetups
<1> QED
  BY <1>1 DEF fieldvars, Field!UdsNext, Field!ModbusNext, Field!EipNext, Field!udsvars,
     Field!modbusvars, Field!eipvars

LEMMA PeersTalk ==
  ASSUME [Next]_vars
  PROVE  [Peer!TuyaNext]_(Peer!tuyavars) /\ [Peer!ProtoNext]_(Peer!protovars)
<1>1. \/ Peer!TuyaNext \/ Peer!ProtoNext
      \/ UNCHANGED tuyavars /\ UNCHANGED protovars
  BY DEF Next, Parked, vars, MotorSetups, CheckSetups, LogSetups, FieldSetups
<1> QED
  BY <1>1 DEF tuyavars, protovars, Peer!TuyaNext, Peer!ProtoNext, Peer!tuyavars,
     Peer!protovars

LEMMA GoesOn == ASSUME Inv, [Next]_vars PROVE Inv'
<1>1. MotorsInv'
  BY Setup, MotorsTurn, SideGoesOn, RollerGoesOn, FanGoesOn, CoordGoesOn DEF Inv, MotorsInv
<1>2. ChecksInv'
  BY Setup, ChecksRun, RedGoesOn, FaultGoesOn DEF Inv, ChecksInv
<1>3. LogsInv'
  BY Setup, LogsGrow, FilesGoOn, TraceGoesOn, CrashGoesOn, PerfGoesOn DEF Inv, LogsInv
<1>4. FieldInv'
  BY Setup, FieldTalks, UdsGoesOn, ModbusGoesOn, EipGoesOn DEF Inv, FieldInv
<1>5. PeersInv'
  BY Setup, PeersTalk, TuyaGoesOn, ProtoGoesOn DEF Inv, PeersInv
<1> QED
  BY <1>1, <1>2, <1>3, <1>4, <1>5 DEF Inv

(* What the invariant says of each module's types.                         *)
LEMMA MotorTypes == ASSUME MotorsInv PROVE Motor!TypeOK
<1> USE Setup, MotorNumbers DEF MotorsInv, Motor!TypeOK
<1>1. /\ side.context \in Motor!Context
      /\ side.speed_ref \in {0} \cup SIDE_SPEED_MIN..SIDE_SPEED_MAX
      /\ side.start \in -1..SIDE_STALL_TIME + 1 /\ side_stuck \in -1..Motor!SideLimit + 1
      /\ side.enabled \in BOOLEAN /\ side.fault \in BOOLEAN
  BY DEF SideInv, SideType
<1>2. /\ roller.start \in -1..ROLLER_STALL_TIME + 1
      /\ roller_stuck \in -1..Motor!RollerLimit + 1
      /\ roller.enabled \in BOOLEAN /\ roller.fault \in BOOLEAN
  BY DEF RollerInv, RollerRecord
<1>3. /\ fan.state \in {"IDLE", "SOFTSTART", "RUN"} /\ fan.speed_ref \in 0..FanLevels
      /\ {fan.full_start, risen} \subseteq -1..DUST_FULL_DEBOUNCE + 1
  BY DEF FanInv, FanRecord
<1>4. active \in BOOLEAN /\ agreed \in BOOLEAN
  BY DEF CoordInv
<1>5. \A m \in Motor!Index : mot[m].iq_ref \in Int /\ mot[m].allocated \in 0..IqMax[m]
  BY Limits DEF CoordInv, MotorRecord
<1> QED
  BY <1>1, <1>2, <1>3, <1>4, <1>5

LEMMA CheckTypes == ASSUME ChecksInv PROVE Check!TypeOK
  BY DEF ChecksInv, RedInv, RedRecord, FaultInv, InjectorRecord, Check!TypeOK, Check!Unset

LEMMA LogTypes == ASSUME LogsInv PROVE Log!TypeOK
<1> USE Setup, LogNumbers DEF LogsInv
<1>1. /\ DOMAIN files \subseteq 1..MaxOpens /\ current \in 0..MaxOpens /\ size \in 0..FileCap
      /\ \A f \in DOMAIN files : files[f] \in 0..MaxClock
  BY DEF FilesInv
<1>2. /\ ring \in [0..TRACE_BUFFER_SIZE - 1 -> 0..MaxPushes]
      /\ write_index \in DOMAIN ring /\ event_count \in 0..TRACE_BUFFER_SIZE
  BY DEF TraceInv
<1>3. /\ {dump, saved} \subseteq 0..MaxCrashes /\ apc \in {"idle", "report", "clear"}
      /\ logged \cup unwritten \cup missed \subseteq 1..MaxCrashes
  BY DEF CrashInv
<1>4. /\ tasks \subseteq Task /\ runtime \in [Task -> 0..MaxTime] /\ uptime \in 0..MaxTime
  <2>1. \A t \in Task : runtime[t] \in 0..MaxTime
    BY DEF PerfInv, PerfNumbers
  <2> QED
    BY <2>1 DEF PerfInv, PerfNumbers
<1>5. on_cpu \in Task \cup {""}
  BY DEF PerfInv, PerfTask
<1> QED
  BY <1>1, <1>2, <1>3, <1>4, <1>5 DEF Log!TypeOK

LEMMA FieldTypes == ASSUME FieldInv PROVE Field!TypeOK
<1>1. \A e \in Field!Range(table) : e.dtc \in Dtc
  <2>1. table \in Seq(Entries)
    BY DEF FieldInv, UdsInv
  <2>2. ASSUME NEW i \in DOMAIN table PROVE table[i].dtc \in Dtc
    <3>1. table[i] \in Entries
      BY <2>1
    <3> QED
      BY ONLY <3>1 DEF Entries
  <2> QED
    BY <2>2 DEF Field!Range
<1>2. /\ session \in Field!Sessions \cup {Field!NoSession} /\ initialized \in BOOLEAN
      /\ Len(table) <= DTC_SLOTS /\ uds_answer.positive \in BOOLEAN /\ faults \subseteq Dtc
  BY DEF FieldInv, UdsInv
<1>3. /\ modbus_pc \in {"idle", "send", "receive", "failed"} /\ retry \in 0..MODBUS_RETRY_COUNT
      /\ transactions \in 0..MaxTransactions
  BY DEF FieldInv, ModbusInv
<1>4. EipTypes /\ EipData
  BY DEF FieldInv, EipInv
<1> QED
  BY <1>1, <1>2, <1>3, <1>4 DEF Field!TypeOK, EipTypes, EipData

LEMMA PeerTypes == ASSUME PeersInv PROVE Peer!TypeOK
<1>1. TuyaTypes /\ frames \in 0..MaxFrames /\ dp \in [Dp -> 0..MaxFrames]
  BY DEF PeersInv, TuyaInv, TuyaFrames, TuyaPoints
<1>2. g_supported_versions \in [Peer!End -> Peer!supported_versions]
  BY DEF PeersInv, ProtoInv
<1>3. ASSUME NEW e \in Peer!End
      PROVE  /\ g_ctx[e].negotiated_version \in Version \cup {0}
             /\ g_ctx[e].retry_count \in 0..max_retries
             /\ proto_pc[e] \in Places
             /\ \A i \in DOMAIN on_way[e] : on_way[e][i] \in Peer!version_frame_t
  <2>1. g_ctx[e] \in Context /\ proto_pc[e] \in Places
    BY DEF PeersInv, ProtoInv, Contexts
  <2>2. on_way[e] \in Seq(Peer!version_frame_t)
    BY DEF PeersInv, ProtoInv, Way
  <2> QED
    BY <2>1, <2>2 DEF Context
<1> QED
  BY <1>1, <1>2, <1>3 DEF Peer!TypeOK, TuyaTypes, Places

LEMMA Holds == ASSUME Inv PROVE TypeOK /\ MotorsAndChecks /\ LogsHold /\ EndsAgree
<1>1. TypeOK
  BY MotorTypes, CheckTypes, LogTypes, FieldTypes, PeerTypes DEF Inv, TypeOK
<1>2. MotorsAndChecks
  <2>1. Motor!StallStopsBrush
    BY DEF Inv, MotorsInv, SideInv, RollerInv, Motor!StallStopsBrush
  <2>2. Motor!FanInRange
    BY DEF Inv, MotorsInv, FanInv, FanRecord, Motor!FanInRange
  <2>3. Motor!AllocationHolds
    BY Setup, CoordHolds DEF Inv, MotorsInv
  <2>4. Check!VerdictsNeedTriggers
    BY FaultHolds DEF Inv, ChecksInv
  <2> QED
    BY <2>1, <2>2, <2>3, <2>4 DEF MotorsAndChecks
<1>3. LogsHold
  BY Setup, FilesHold, TraceHolds, PerfHolds DEF Inv, LogsInv, CrashInv, LogsHold
<1>4. EndsAgree
  <2>1. Field!FaultsAreKept /\ Field!AnswerOfTheDrive
    BY DEF Inv, FieldInv, UdsInv, ModbusInv
  <2> QED
    BY <2>1, Setup, EipHolds, TuyaHolds, ProtoHolds DEF Inv, FieldInv, PeersInv, EndsAgree
<1> QED
  BY <1>1, <1>2, <1>3, <1>4

LEMMA Always == Spec => []Inv
  BY Starts, GoesOn, PTL DEF Spec

(* Every variable of these parts stays in its type.                        *)
THEOREM DevicesTyped == Spec => []TypeOK
<1>1. Inv => TypeOK
  BY Holds
<1> QED
  BY Always, <1>1, PTL

(* A brush that is blocked is stopped once it has been on for its stall    *)
(* time, also when it is switched off and on meanwhile or the tick was 0,  *)
(* and then it is not driven until the stall is cleared; the fan has its   *)
(* constant power only in its range; the references of the enabled motors  *)
(* add up to no more than the budget after an allocation; and no injected  *)
(* fault is judged that was not triggered, or judged twice.                *)
THEOREM MotorsAndChecksHold == Spec => []MotorsAndChecks
<1>1. Inv => MotorsAndChecks
  BY Holds
<1> QED
  BY Always, <1>1, PTL

(* The event files stay bounded over restarts, failing writes and          *)
(* rotations that see only some of them; a dump of the trace ring holds    *)
(* its last events in their order; a crash of the M4 is logged or still to *)
(* be read unless it was overwritten or cleared unread, or its report was  *)
(* lost in a failing write; and the run times of the tasks add up to the   *)
(* time they are related to.                                               *)
THEOREM LogsAlwaysHold == Spec => []LogsHold
<1>1. Inv => LogsHold
  BY Holds
<1> QED
  BY Always, <1>1, PTL

(* The trouble codes that are kept are those taken since the last clear; a *)
(* successful call has an answer of the drive it asked; the I/O thread     *)
(* never uses a closed socket; commands of the Tuya module are applied     *)
(* once and in order, however the stream is cut; and two ends that say     *)
(* they are compatible speak the newest version both have.                 *)
THEOREM EndsAlwaysAgree == Spec => []EndsAgree
<1>1. Inv => EndsAgree
  BY Holds
<1> QED
  BY Always, <1>1, PTL
=============================================================================
