----------------------------- MODULE Net_proofs ------------------------------
(***************************************************************************)
(* Proofs about the connections of the RK3566, for every value of the      *)
(* constants: the link and its queues, the radio, a cloud client with its  *)
(* threads, and the two services above it.  Each has an inductive          *)
(* invariant; the bench puts them together.                                *)
(***************************************************************************)
EXTENDS MCNet, SequenceTheorems, TLAPS

-----------------------------------------------------------------------------
(* reconnect.c: the link to the M7.                                        *)

(* The age of the last sign that the connection counts runs with the       *)
(* silence of the peer, and less than a poll behind it: an answered SYNC   *)
(* waits for the next poll, and nothing but that poll ends the state.      *)
LinkInv ==
  /\ Link!TypeOK
  /\ link = "CONNECTED" => ack_age <= ACK_TIMEOUT + gap /\ silence <= ack_age + LinkGap
  /\ link = "SYNCING" /\ ~sync_pending => silence <= gap

LEMMA Times ==
  ASSUME Link!ReconnectAssumption
  PROVE  /\ ACK_TIMEOUT \in Nat \ {0} /\ SYNC_TIMEOUT \in Nat \ {0} /\ LinkGap \in Nat \ {0}
         /\ 1 \in DOMAIN Backoff /\ LinkClock \in Nat \ {0}
         /\ \A i \in DOMAIN Backoff : Backoff[i] \in Nat /\ Link!Stepped(i) \in DOMAIN Backoff
<1>1. 1 \in DOMAIN Backoff /\ Backoff[1] \in Nat /\ Backoff[1] < LinkClock /\ LinkClock \in Nat
  BY DEF Link!ReconnectAssumption
<1> QED
  BY <1>1 DEF Link!ReconnectAssumption, Link!Stepped

(* The clock and the end of a wait stay within the width of the clock.     *)
LEMMA Within32 ==
  ASSUME Link!ReconnectAssumption, clock \in 0..LinkClock - 1
  PROVE  /\ (clock + 1) % LinkClock \in 0..LinkClock - 1
         /\ \A i \in DOMAIN Backoff : Link!In(Backoff[i]) \in 0..LinkClock - 1
<1> DEFINE M == LinkClock
<1>1. M \in Nat \ {0} /\ clock \in Nat
  BY Times
<1>2. \A n \in Nat : n % M \in 0..M - 1
  <2> HIDE DEF M
  <2> QED BY <1>1
<1>3. (clock + 1) % M \in 0..M - 1
  BY <1>1, <1>2
<1>4. ASSUME NEW i \in DOMAIN Backoff PROVE (clock + Backoff[i]) % M \in 0..M - 1
  <2>1. clock + Backoff[i] \in Nat
    BY <1>1, Times
  <2> QED
    BY <1>2, <2>1
<1> QED
  BY <1>3, <1>4 DEF Link!In

LEMMA LinkStarts == ASSUME Link!ReconnectAssumption, Link!Init PROVE LinkInv
<1>1. 0 \in 0..Link!AgeMax /\ -1 \in -1..Link!AgeMax /\ 0 \in 0..LinkGap /\ 0 <= ACK_TIMEOUT + 0
      /\ 0 <= 0 + LinkGap /\ 0 \in 0..LinkClock - 1
  BY Times DEF Link!AgeMax
<1>2. 0 \in Nat /\ {link} \subseteq Link!Links
  BY DEF Link!Init, Link!Links
<1>3. Link!TypeOK
  BY <1>1, <1>2, Times, Zenon DEF Link!Init, Link!TypeOK
<1> QED
  BY <1>1, <1>3, Zenon DEF Link!Init, LinkInv

LEMMA AgeOlder ==
  ASSUME Link!ReconnectAssumption
  PROVE  /\ \A n \in 0..Link!AgeMax : Link!Older(n) \in 0..Link!AgeMax /\ Link!Older(n) <= n + 1
         /\ \A m, n \in 0..Link!AgeMax : m <= n + LinkGap => Link!Older(m) <= Link!Older(n) + LinkGap
  BY Times DEF Link!AgeMax, Link!Older

LEMMA PollType ==
  ASSUME Link!ReconnectAssumption, Link!TypeOK, Link!recon_poll
  PROVE  Link!TypeOK'
<1> USE Times DEF Link!TypeOK, Link!recon_poll
<1>0. /\ 0 \in 0..Link!AgeMax /\ -1 \in -1..Link!AgeMax /\ 0 \in 0..LinkGap
      /\ \A i \in DOMAIN Backoff : Link!In(Backoff[i]) \in 0..LinkClock - 1
  BY Within32 DEF Link!AgeMax
<1>1. CASE Link!PollConnected
  BY <1>0, <1>1 DEF Link!PollConnected, Link!enter_disconnected, Link!Links
<1>2. CASE Link!PollDisconnected
  BY <1>0, <1>2 DEF Link!PollDisconnected, Link!enter_reconnecting, Link!Links
<1>3. CASE Link!PollReconnecting
  BY <1>0, <1>3 DEF Link!PollReconnecting, Link!Links
<1>4. CASE Link!PollSyncing
  BY <1>0, <1>4 DEF Link!PollSyncing, Link!enter_connected, Link!enter_reconnecting,
                    Link!Links
<1> QED
  BY <1>1, <1>2, <1>3, <1>4

LEMMA LinkGoesOn == ASSUME Link!ReconnectAssumption, LinkInv, [Link!Next]_(Link!vars) PROVE LinkInv'
<1> USE Times DEF LinkInv
<1>0. 0 \in 0..Link!AgeMax /\ silence \in 0..Link!AgeMax /\ gap \in Nat
  BY DEF Link!TypeOK, Link!AgeMax
<1>1. CASE Link!recon_on_ack
  BY <1>0, <1>1 DEF Link!recon_on_ack, Link!enter_connected, Link!TypeOK, Link!Links
<1>2. CASE Link!recon_process_sync
  <2>1. Link!TypeOK'
    BY <1>0, <1>2 DEF Link!recon_process_sync, Link!TypeOK
  <2>2. 0 <= ack_age + LinkGap /\ 0 <= gap
    BY <1>0 DEF Link!TypeOK
  <2> QED
    BY <1>2, <2>1, <2>2, Zenon DEF Link!recon_process_sync
<1>3. CASE Link!recon_mark_disconnected
  <2>1. Link!In(Backoff[1]) \in 0..LinkClock - 1
    BY Within32 DEF Link!TypeOK
  <2> QED
    BY <1>3, <2>1 DEF Link!recon_mark_disconnected, Link!enter_disconnected, Link!TypeOK,
                      Link!Links
<1>4. CASE Link!PeerChanges
  BY <1>4 DEF Link!PeerChanges, Link!TypeOK
<1>5. CASE Link!recon_poll
  <2>1. Link!TypeOK'
    BY <1>5, PollType
  <2>2. gap' = 0 /\ silence' = silence
    BY <1>5 DEF Link!recon_poll
  <2>3. CASE Link!PollConnected
    BY <2>1, <2>2, <2>3 DEF Link!PollConnected, Link!enter_disconnected, Link!TypeOK
  <2>4. CASE Link!PollDisconnected
    BY <2>1, <2>4 DEF Link!PollDisconnected, Link!enter_reconnecting
  <2>5. CASE Link!PollReconnecting
    BY <2>1, <2>5 DEF Link!PollReconnecting
  <2>6. CASE Link!PollSyncing
    BY <1>0, <2>1, <2>2, <2>6
       DEF Link!PollSyncing, Link!enter_connected, Link!enter_reconnecting, Link!TypeOK
  <2> QED
    BY <1>5, <2>3, <2>4, <2>5, <2>6 DEF Link!recon_poll
<1>6. CASE Link!Tick
  <2>1. ack_age' \in 0..Link!AgeMax /\ silence' \in 0..Link!AgeMax /\ sync_start' \in -1..Link!AgeMax
        /\ clock' \in 0..LinkClock - 1
    BY <1>6, AgeOlder, Within32 DEF Link!Tick, Link!TypeOK
  <2>2. Link!TypeOK'
    BY <1>6, <2>1 DEF Link!Tick, Link!TypeOK
  <2>3. silence' <= silence + 1 /\ ack_age' <= ack_age + 1 /\ gap' = gap + 1
        /\ (silence <= ack_age + LinkGap => silence' <= ack_age' + LinkGap)
    BY <1>6, AgeOlder DEF Link!Tick, Link!TypeOK
  <2> QED
    BY <1>6, <2>1, <2>2, <2>3 DEF Link!Tick, Link!TypeOK
<1>7. CASE UNCHANGED Link!vars
  BY <1>7 DEF Link!vars, Link!TypeOK
<1> QED
  BY <1>1, <1>2, <1>3, <1>4, <1>5, <1>6, <1>7 DEF Link!Next

LEMMA LinkHolds == ASSUME Link!ReconnectAssumption, LinkInv PROVE Link!ConnectedMeansHeard
  BY Times DEF LinkInv, Link!ConnectedMeansHeard, Link!TypeOK

-----------------------------------------------------------------------------
(* frame_priority.c: the three queues.                                     *)

(* Time left to the guard.                                                 *)
Ahead == IF now >= starve_check THEN 0 ELSE starve_check - now

(* SlotsInTime is not inductive: what bounds the wait of LOW is that it    *)
(* and the time left to the guard add up to no more than the time of the   *)
(* guard, until that has run out; then the next call of fp_transmit ends   *)
(* the wait.  And a second forced slot can not follow the first before a   *)
(* call that takes the waiting HIGH frame: less time passes from a call to *)
(* the next than the guard takes.  All this as long as neither the clock   *)
(* nor the check time has wrapped.                                         *)
SlotsInv ==
  /\ Queues!TypeOK
  /\ ~turned =>
       /\ ~Queues!NearWrap(now) /\ starve_check <= now + FP_STARVATION_TIMEOUT
       /\ low_wait + Ahead <= FP_STARVATION_TIMEOUT + (IF Ahead = 0 THEN tx_gap ELSE 0)
       /\ overtaken \in {0, 1}
       /\ overtaken = 1 => Ahead + tx_gap >= FP_STARVATION_TIMEOUT

LEMMA Clock ==
  ASSUME Queues!PriorityAssumption, now \in 0..ClockMod - 1
  PROVE  /\ Queues!NextCheck \in 0..ClockMod - 1 /\ (now + 1) % ClockMod \in 0..ClockMod - 1
         /\ ~Queues!NearWrap(now) => Queues!NextCheck = now + FP_STARVATION_TIMEOUT
         /\ ~Queues!NearWrap(now) => (now + 1) % ClockMod = now + 1
<1>1. /\ ClockMod \in Nat \ {0} /\ FP_STARVATION_TIMEOUT \in Nat \ {0} /\ now \in Nat
  BY DEF Queues!PriorityAssumption
<1>2. ASSUME NEW n \in Nat PROVE n % ClockMod \in 0..ClockMod - 1 /\ (n < ClockMod => n % ClockMod = n)
  BY <1>1, SMT
<1>3. now + 1 \in Nat /\ now + FP_STARVATION_TIMEOUT \in Nat
  BY <1>1
<1> QED
  BY <1>1, <1>2, <1>3 DEF Queues!NextCheck, Queues!NearWrap

(* The queues stay within their length.                                    *)
LEMMA SendKeepsLength ==
  ASSUME Queues!PriorityAssumption, SlotsInv, NEW q \in Queues!Priority, Queues!fp_send(q) PROVE SlotsInv'
<1>1. count[q] \in 0..FP_MAX_QUEUE_LENGTH /\ FP_MAX_QUEUE_LENGTH \in Nat \ {0}
  BY DEF SlotsInv, Queues!TypeOK, Queues!PriorityAssumption
<1>2. ~Queues!Full(q) => count[q] + 1 \in 0..FP_MAX_QUEUE_LENGTH
  BY <1>1, SMT DEF Queues!Full
<1>3. Queues!Full(q) => count[q] - 1 \in 0..FP_MAX_QUEUE_LENGTH
  BY <1>1, SMT DEF Queues!Full
<1>4. count' \in [Queues!Priority -> 0..FP_MAX_QUEUE_LENGTH]
  BY <1>2, <1>3 DEF Queues!fp_send, SlotsInv, Queues!TypeOK
<1> QED
  BY <1>4 DEF Queues!fp_send, SlotsInv, Ahead, Queues!TypeOK, Queues!WaitMax,
              Queues!NearWrap

(* A frame is taken from the first queue of the order that has one.        *)
LEMMA Taken ==
  ASSUME Queues!PriorityAssumption, SlotsInv, NEW i \in Queues!Next3
  PROVE  /\ Queues!Order[i] \in Queues!Priority /\ count[Queues!Order[i]] \in 1..FP_MAX_QUEUE_LENGTH
         /\ Queues!ForceLow => Queues!Order[i] = "LOW"
         /\ ~Queues!ForceLow /\ count["HIGH"] > 0 => Queues!Order[i] = "HIGH"
<1>1. count \in [Queues!Priority -> 0..FP_MAX_QUEUE_LENGTH] /\ FP_MAX_QUEUE_LENGTH \in Nat
  BY DEF SlotsInv, Queues!TypeOK, Queues!PriorityAssumption
<1>2. i \in 1..3 /\ count[Queues!Order[i]] > 0 /\ \A j \in 1..i - 1 : count[Queues!Order[j]] = 0
  BY DEF Queues!Next3, Queues!Order
<1>3. CASE Queues!ForceLow
  <2>1. Queues!Order = <<"LOW", "HIGH", "MEDIUM">> /\ count["LOW"] > 0
    BY <1>3 DEF Queues!Order, Queues!ForceLow
  <2>2. i = 1
    BY <1>2, <2>1
  <2> QED
    BY <1>1, <1>2, <1>3, <2>1, <2>2 DEF Queues!Priority
<1>4. CASE ~Queues!ForceLow
  <2>1. Queues!Order = <<"HIGH", "MEDIUM", "LOW">>
    BY <1>4 DEF Queues!Order
  <2>2. Queues!Order[i] \in Queues!Priority
    BY <1>2, <2>1 DEF Queues!Priority
  <2>3. count["HIGH"] > 0 => i = 1
    BY <1>2, <2>1
  <2> QED
    BY <1>1, <1>2, <1>4, <2>1, <2>2, <2>3
<1> QED
  BY <1>3, <1>4

LEMMA TransmitInv == ASSUME Queues!PriorityAssumption, SlotsInv, Queues!fp_transmit PROVE SlotsInv'
<1> USE DEF Queues!PriorityAssumption, Queues!WaitMax
<1>1. /\ count \in [Queues!Priority -> 0..FP_MAX_QUEUE_LENGTH] /\ tx_gap' = 0 /\ now' = now
      /\ now \in 0..ClockMod - 1 /\ starve_check \in 0..ClockMod - 1 /\ turned \in BOOLEAN
      /\ low_wait \in 0..FP_STARVATION_TIMEOUT + 2 * QueueGap /\ tx_gap \in 0..QueueGap
      /\ overtaken \in 0..2 /\ 0 \in 0..QueueGap
  BY DEF SlotsInv, Queues!TypeOK, Queues!fp_transmit
<1>2. /\ Queues!NextCheck \in 0..ClockMod - 1
      /\ ~Queues!NearWrap(now) => Queues!NextCheck = now + FP_STARVATION_TIMEOUT
  BY <1>1, Clock
<1>3. Queues!NearWrap(now)' = Queues!NearWrap(now) /\ Queues!NearWrap(now) \in BOOLEAN
  BY <1>1 DEF Queues!NearWrap
<1>4. CASE Queues!Next3 = {}
  <2>1. /\ starve_check' = Queues!NextCheck /\ overtaken' = 0 /\ low_wait' = 0 /\ count' = count
        /\ turned' = Queues!NearWrap(now)
    BY <1>4 DEF Queues!fp_transmit
  <2>2. Queues!TypeOK'
    BY <1>1, <1>2, <1>3, <2>1 DEF Queues!TypeOK
  <2>3. ASSUME ~turned'
        PROVE  /\ ~Queues!NearWrap(now)' /\ starve_check' <= now' + FP_STARVATION_TIMEOUT
               /\ Ahead' = FP_STARVATION_TIMEOUT
    BY <1>1, <1>2, <1>3, <2>1, <2>3 DEF Ahead
  <2> QED
    BY <1>1, <2>1, <2>2, <2>3 DEF SlotsInv
<1>5. ASSUME NEW i \in Queues!Next3,
             count' = [count EXCEPT ![Queues!Order[i]] = @ - 1],
             starve_check' = IF Queues!ForceLow THEN Queues!NextCheck ELSE starve_check,
             overtaken' = IF Queues!Order[i] = "HIGH" \/ count["HIGH"] = 0 THEN 0
                          ELSE IF overtaken < 2 THEN overtaken + 1 ELSE 2,
             low_wait' = IF Queues!Order[i] = "LOW" \/ count["LOW"] = 0 THEN 0 ELSE low_wait,
             turned' = turned
      PROVE  SlotsInv'
  <2>1. /\ Queues!Order[i] \in Queues!Priority /\ count[Queues!Order[i]] \in 1..FP_MAX_QUEUE_LENGTH
        /\ Queues!ForceLow => Queues!Order[i] = "LOW"
        /\ ~Queues!ForceLow /\ count["HIGH"] > 0 => Queues!Order[i] = "HIGH"
    BY <1>5, Taken
  <2>2. count' \in [Queues!Priority -> 0..FP_MAX_QUEUE_LENGTH]
    BY <1>1, <1>5, <2>1
  <2>3. starve_check' \in 0..ClockMod - 1 /\ overtaken' \in 0..2 /\ low_wait' \in {0, low_wait}
    BY <1>1, <1>2, <1>5
  <2>4. Queues!TypeOK'
    BY <1>1, <1>5, <2>2, <2>3 DEF Queues!TypeOK
  <2>5. SUFFICES ASSUME ~turned
                 PROVE  /\ ~Queues!NearWrap(now)' /\ starve_check' <= now' + FP_STARVATION_TIMEOUT
                        /\ low_wait' + Ahead' <= FP_STARVATION_TIMEOUT + (IF Ahead' = 0 THEN tx_gap' ELSE 0)
                        /\ overtaken' \in {0, 1}
                        /\ overtaken' = 1 => Ahead' + tx_gap' >= FP_STARVATION_TIMEOUT
    BY <1>5, <2>4 DEF SlotsInv
  <2>6. /\ ~Queues!NearWrap(now) /\ starve_check <= now + FP_STARVATION_TIMEOUT
        /\ low_wait + Ahead <= FP_STARVATION_TIMEOUT + (IF Ahead = 0 THEN tx_gap ELSE 0)
        /\ overtaken \in {0, 1} /\ (overtaken = 1 => Ahead + tx_gap >= FP_STARVATION_TIMEOUT)
    BY <2>5 DEF SlotsInv
  <2>7. CASE Queues!ForceLow
    <3>1. now >= starve_check
      BY <2>7 DEF Queues!ForceLow
    <3>2. starve_check' = now + FP_STARVATION_TIMEOUT /\ low_wait' = 0
      BY <1>2, <1>5, <2>1, <2>6, <2>7
    <3>3. Ahead' = FP_STARVATION_TIMEOUT
      BY <1>1, <3>2 DEF Ahead
    <3>4. Ahead = 0
      BY <1>1, <3>1 DEF Ahead
    <3>5. overtaken = 0
      BY <1>1, <2>6, <3>4
    <3>6. overtaken' \in {0, 1}
      BY <1>5, <3>5
    <3> QED
      BY <1>1, <1>3, <2>6, <3>2, <3>3, <3>6
  <2>8. CASE ~Queues!ForceLow
    <3>1. starve_check' = starve_check /\ Ahead' = Ahead
      BY <1>1, <1>5, <2>8 DEF Ahead
    <3>2. Ahead = 0 => low_wait' = 0
      BY <1>1, <1>5, <2>8, "LOW" \in Queues!Priority DEF Queues!ForceLow, Queues!Priority, Ahead
    <3>3. overtaken' = 0
      BY <1>1, <1>5, <2>1, <2>8, "HIGH" \in Queues!Priority DEF Queues!Priority
    <3>4. Ahead \in Nat
      BY <1>1 DEF Ahead
    <3> QED
      BY <1>1, <1>3, <2>3, <2>6, <3>1, <3>2, <3>3, <3>4
  <2> QED
    BY <2>7, <2>8
<1>6. Queues!Next3 # {} => \E i \in Queues!Next3 :
         /\ count' = [count EXCEPT ![Queues!Order[i]] = @ - 1]
         /\ starve_check' = IF Queues!ForceLow THEN Queues!NextCheck ELSE starve_check
         /\ overtaken' = IF Queues!Order[i] = "HIGH" \/ count["HIGH"] = 0 THEN 0
                         ELSE IF overtaken < 2 THEN overtaken + 1 ELSE 2
         /\ low_wait' = IF Queues!Order[i] = "LOW" \/ count["LOW"] = 0 THEN 0 ELSE low_wait
         /\ turned' = turned
  BY Zenon DEF Queues!fp_transmit
<1> QED
  BY <1>4, <1>5, <1>6

LEMMA TickInv == ASSUME Queues!PriorityAssumption, SlotsInv, Queues!Tick PROVE SlotsInv'
<1> USE DEF Queues!PriorityAssumption, Queues!WaitMax
<1>1. /\ now \in 0..ClockMod - 1 /\ starve_check \in 0..ClockMod - 1 /\ turned \in BOOLEAN
      /\ low_wait \in 0..FP_STARVATION_TIMEOUT + 2 * QueueGap /\ tx_gap \in 0..QueueGap
      /\ starve_check' = starve_check /\ overtaken' = overtaken /\ tx_gap' = tx_gap + 1
      /\ tx_gap < QueueGap
      /\ now' = (now + 1) % ClockMod /\ turned' = (turned \/ Queues!NearWrap(now'))
  BY DEF SlotsInv, Queues!TypeOK, Queues!Tick
<1>2. now' \in 0..ClockMod - 1 /\ (~Queues!NearWrap(now) => now' = now + 1)
  BY <1>1, Clock
<1>3. low_wait' \in 0..FP_STARVATION_TIMEOUT + 2 * QueueGap /\ low_wait' <= low_wait + 1
  BY <1>1 DEF Queues!Tick
<1>4. Queues!TypeOK'
  <2>1. Queues!NearWrap(now') \in BOOLEAN
    BY <1>1 DEF Queues!NearWrap
  <2> QED
    BY <1>1, <1>2, <1>3, <2>1 DEF SlotsInv, Queues!TypeOK, Queues!Tick
<1>5. SUFFICES ASSUME ~turned'
               PROVE  /\ ~Queues!NearWrap(now)' /\ starve_check' <= now' + FP_STARVATION_TIMEOUT
                      /\ low_wait' + Ahead' <= FP_STARVATION_TIMEOUT + (IF Ahead' = 0 THEN tx_gap' ELSE 0)
                      /\ overtaken' \in {0, 1}
                      /\ overtaken' = 1 => Ahead' + tx_gap' >= FP_STARVATION_TIMEOUT
  BY <1>4 DEF SlotsInv
<1>6. /\ ~turned /\ ~Queues!NearWrap(now)' /\ now' = now + 1
      /\ starve_check <= now + FP_STARVATION_TIMEOUT
      /\ low_wait + Ahead <= FP_STARVATION_TIMEOUT + (IF Ahead = 0 THEN tx_gap ELSE 0)
      /\ overtaken \in {0, 1} /\ (overtaken = 1 => Ahead + tx_gap >= FP_STARVATION_TIMEOUT)
  <2>1. ~turned /\ ~Queues!NearWrap(now')
    BY <1>1, <1>5
  <2>2. Queues!NearWrap(now)' = Queues!NearWrap(now')
    BY DEF Queues!NearWrap
  <2> QED
    BY <1>2, <2>1, <2>2 DEF SlotsInv
<1>7. /\ Ahead \in Nat /\ (Ahead > 0 => Ahead' = Ahead - 1) /\ (Ahead = 0 => Ahead' = 0)
  BY <1>1, <1>6 DEF Ahead
<1> QED
  BY <1>1, <1>3, <1>6, <1>7

LEMMA QueuesStart == ASSUME Queues!PriorityAssumption, Queues!Init PROVE SlotsInv
<1>1. /\ FP_STARVATION_TIMEOUT \in Nat \ {0} /\ ClockMod \in Nat /\ FP_STARVATION_TIMEOUT < ClockMod
      /\ FP_MAX_QUEUE_LENGTH \in Nat /\ QueueGap \in Nat
  BY DEF Queues!PriorityAssumption
<1>2. /\ 0 \in 0..ClockMod - 1 /\ FP_STARVATION_TIMEOUT \in 0..ClockMod - 1 /\ 0 \in 0..2
      /\ 0 \in 0..Queues!WaitMax /\ 0 \in 0..QueueGap /\ 0 \in 0..FP_MAX_QUEUE_LENGTH
  BY <1>1 DEF Queues!WaitMax
<1>3. Queues!TypeOK
  <2>1. count \in [Queues!Priority -> 0..FP_MAX_QUEUE_LENGTH]
    BY <1>2 DEF Queues!Init
  <2> QED
    BY <1>2, <2>1, Zenon DEF Queues!Init, Queues!TypeOK
<1>4. Ahead = FP_STARVATION_TIMEOUT /\ ~Queues!NearWrap(now)
  BY <1>1 DEF Queues!Init, Ahead, Queues!NearWrap
<1> QED
  BY <1>1, <1>3, <1>4 DEF SlotsInv, Queues!Init

LEMMA QueuesGoOn == ASSUME Queues!PriorityAssumption, SlotsInv, [Queues!Next]_(Queues!vars) PROVE SlotsInv'
<1>1. CASE \E q \in Queues!Priority : Queues!fp_send(q)
  BY <1>1, SendKeepsLength
<1>2. CASE Queues!fp_transmit
  BY <1>2, TransmitInv
<1>3. CASE Queues!fp_flush
  BY <1>3 DEF Queues!fp_flush, SlotsInv, Ahead, Queues!TypeOK, Queues!WaitMax,
              Queues!PriorityAssumption, Queues!NearWrap
<1>4. CASE Queues!Tick
  BY <1>4, TickInv
<1>5. CASE UNCHANGED Queues!vars
  BY <1>5 DEF Queues!vars, SlotsInv, Ahead, Queues!TypeOK, Queues!NearWrap
<1> QED
  BY <1>1, <1>2, <1>3, <1>4, <1>5 DEF Queues!Next

LEMMA QueuesHold == ASSUME Queues!PriorityAssumption, SlotsInv PROVE Queues!TypeOK /\ Queues!SlotsInTime
  BY DEF SlotsInv, Ahead, Queues!TypeOK, Queues!SlotsInTime, Queues!LowGetsSlots,
         Queues!PriorityAssumption

-----------------------------------------------------------------------------
(* wifi_roam.c and lte_backup.c.                                           *)

(* Time left of the sleep of roam_loop; a late end counts as its end.      *)
Left == IF rwait > 0 THEN rwait ELSE 0

(* The phase that roam_loop times began no sooner than the reading that    *)
(* found the signal weak, and no sooner than the loop went on after the    *)
(* last reassociation; a scan comes a sleep after the phase was found long *)
(* enough.                                                                 *)
RoamTypes ==
  /\ rssi \in Rssi /\ since \in -1..Radio!TimeMax /\ rpc \in {"top", "scan", "settle"}
  /\ rwait \in Int /\ weak_for \in -1..Radio!TimeMax /\ roam_age \in 0..Radio!TimeMax
  /\ lwait \in -MaxLate..LTE_CHECK_INTERVAL

RoamPhases ==
  /\ rssi < ROAM_RSSI_THRESHOLD => weak_for # -1
  /\ since # -1 => weak_for >= since
  /\ rpc = "scan" => since # -1 /\ since >= ROAM_TRIGGER_TIME + ROAM_SCAN_INTERVAL - Left
  /\ rpc = "settle" => since # -1 /\ roam_age >= ROAM_SETTLE - Left
  /\ rpc # "settle" => roam_age >= ROAM_SETTLE
  /\ rpc # "settle" /\ since # -1 => roam_age >= since + ROAM_SETTLE \/ roam_age = Radio!TimeMax

RoamInv == Radio!TypeOK /\ RoamTypes /\ RoamPhases

LEMMA RoamTimes ==
  ASSUME Radio!WirelessAssumption
  PROVE  /\ ROAM_TRIGGER_TIME \in Nat \ {0} /\ ROAM_SCAN_INTERVAL \in Nat \ {0}
         /\ ROAM_SETTLE \in Nat \ {0} /\ LTE_CHECK_INTERVAL \in Nat \ {0}
         /\ MaxLate \in Nat \ {0} /\ ROAM_RSSI_THRESHOLD \in Int
         /\ Radio!TimeMax \in Nat /\ Radio!TimeMax >= 3
         /\ Radio!TimeMax = ROAM_TRIGGER_TIME + ROAM_SCAN_INTERVAL + ROAM_SETTLE
         /\ Rssi \subseteq Int /\ Radio!Weakest \in Rssi
<1>1. Radio!Weakest \in Rssi
  BY DEF Radio!WirelessAssumption, Radio!Weakest
<1> QED
  BY <1>1 DEF Radio!WirelessAssumption, Radio!TimeMax

(* What was read of the access point in use.                               *)
LEMMA Readings ==
  ASSUME Radio!WirelessAssumption, RoamInv, Radio!get_current_bss_info
  PROVE  /\ rssi' \in Rssi /\ weak_for' \in -1..Radio!TimeMax
         /\ rssi' < ROAM_RSSI_THRESHOLD => weak_for' # -1
         /\ rssi' < ROAM_RSSI_THRESHOLD /\ since # -1 => weak_for' = weak_for
  BY RoamTimes DEF RoamInv, RoamTypes, RoamPhases, Radio!get_current_bss_info

LEMMA RoamStarts == ASSUME Radio!WirelessAssumption, Radio!Init PROVE RoamInv
<1>1. <<>> = [ap \in {} |-> Radio!Weakest]
  OBVIOUS
<1>2. <<>> \in [{} -> Rssi]
  BY <1>1
<1>3. {} \in SUBSET Radio!Ap
  OBVIOUS
<1>4. \E found \in SUBSET Radio!Ap : cache \in [found -> Rssi]
  BY <1>2, <1>3 DEF Radio!Init
<1>5. /\ 0 \in Int /\ -1 \in -1..Radio!TimeMax /\ 0 \in -1..Radio!TimeMax /\ Radio!TimeMax \in 0..Radio!TimeMax
      /\ LTE_CHECK_INTERVAL \in -MaxLate..LTE_CHECK_INTERVAL /\ 0 # -1 /\ Radio!TimeMax >= ROAM_SETTLE
  BY RoamTimes
<1>6. Radio!TypeOK
  BY <1>4, <1>5, RoamTimes, Zenon DEF Radio!Init, Radio!TypeOK
<1>7. RoamTypes /\ RoamPhases
  BY <1>5, RoamTimes DEF Radio!Init, RoamTypes, RoamPhases
<1> QED
  BY <1>6, <1>7 DEF RoamInv

(* The types that are not numbers.                                         *)
LEMMA RoamKinds ==
  ASSUME Radio!WirelessAssumption, RoamInv, [Radio!Next]_(Radio!vars), RoamTypes'
  PROVE  Radio!TypeOK'
<1>1. Radio!TypeOK
  BY DEF RoamInv
<1>2. bssid' \in Radio!Ap \cup {""}
  BY <1>1, Zenon DEF Radio!TypeOK, Radio!get_current_bss_info, Radio!Next, Radio!roam_loop,
                     Radio!Top, Radio!Settled, Radio!Scanned,
     Radio!lte_monitor_loop, Radio!Activate, Radio!Activated, Radio!Check,
     Radio!lte_backup_stop, Radio!lte_backup_start, Radio!Tick, Radio!vars, Radio!roamvars
<1>3. \E found \in SUBSET Radio!Ap : cache' \in [found -> Rssi]
  BY <1>1, Zenon DEF Radio!TypeOK, Radio!Next, Radio!roam_loop, Radio!Top, Radio!Settled,
                     Radio!Scanned, Radio!lte_monitor_loop, Radio!Activate,
     Radio!Activated, Radio!Check, Radio!lte_backup_stop, Radio!lte_backup_start,
     Radio!Tick, Radio!vars, Radio!roamvars
<1>4. /\ lte_state' \in {"OFF", "INIT", "CONNECTED", "ERROR"}
      /\ lpc' \in {"sleep", "activating", "ended"}
  BY <1>1, Zenon DEF Radio!TypeOK, Radio!Next, Radio!roam_loop, Radio!Top, Radio!Settled,
                     Radio!Scanned, Radio!lte_monitor_loop, Radio!Activate,
     Radio!Activated, Radio!Check, Radio!lte_backup_stop, Radio!lte_backup_start,
     Radio!Tick, Radio!vars, Radio!ltevars
<1>5. {active', fallback_mode', keep_running', uart_open'} \subseteq BOOLEAN
  <2>1. {active, fallback_mode, keep_running, uart_open} \subseteq BOOLEAN
    BY <1>1, Zenon DEF Radio!TypeOK
  <2> QED
    BY <2>1, Zenon DEF Radio!Next, Radio!roam_loop, Radio!Top, Radio!Settled,
                       Radio!Scanned, Radio!lte_monitor_loop, Radio!Activate,
       Radio!Activated, Radio!Check, Radio!lte_backup_stop, Radio!lte_backup_start,
       Radio!Tick, Radio!vars, Radio!ltevars
<1> QED
  BY <1>2, <1>3, <1>4, <1>5, Zenon DEF Radio!TypeOK, RoamTypes

LEMMA TopRoam == ASSUME Radio!WirelessAssumption, RoamInv, Radio!Top PROVE RoamTypes' /\ RoamPhases'
<1> USE RoamTimes DEF RoamInv
<1>1. /\ rpc = "top" /\ rwait' = ROAM_SCAN_INTERVAL /\ lwait' = lwait /\ roam_age' = roam_age
  BY DEF Radio!Top, Radio!ltevars
<1>2. /\ rssi' \in Rssi /\ weak_for' \in -1..Radio!TimeMax
      /\ rssi' < ROAM_RSSI_THRESHOLD => weak_for' # -1
      /\ rssi' < ROAM_RSSI_THRESHOLD /\ since # -1 => weak_for' = weak_for
  BY Readings DEF Radio!Top
<1>3. Left' = ROAM_SCAN_INTERVAL
  BY <1>1 DEF Left
<1>4. /\ since \in -1..Radio!TimeMax /\ weak_for \in -1..Radio!TimeMax /\ roam_age \in 0..Radio!TimeMax
      /\ since # -1 => weak_for >= since
      /\ roam_age >= ROAM_SETTLE
      /\ since # -1 => roam_age >= since + ROAM_SETTLE \/ roam_age = Radio!TimeMax
  BY <1>1 DEF RoamTypes, RoamPhases
<1>5. CASE rssi' >= ROAM_RSSI_THRESHOLD
  <2>1. since' = -1 /\ rpc' = "top"
    BY <1>1, <1>5, <1>2 DEF Radio!Top, Radio!Below
  <2> QED
    BY <1>1, <1>2, <1>4, <1>5, <2>1 DEF RoamTypes, RoamPhases
<1>6. CASE rssi' < ROAM_RSSI_THRESHOLD
  <2>1. /\ since' = IF since = -1 THEN 0 ELSE since
        /\ rpc' = IF since >= ROAM_TRIGGER_TIME THEN "scan" ELSE "top"
    BY <1>2, <1>6 DEF Radio!Top, Radio!Below
  <2>2. since' \in 0..Radio!TimeMax /\ rpc' \in {"top", "scan", "settle"} /\ rpc' # "settle"
    BY <2>1, <1>4
  <2>3. rpc' = "scan" => since' >= ROAM_TRIGGER_TIME + ROAM_SCAN_INTERVAL - Left'
    BY <2>1, <1>3, <1>4
  <2>4. weak_for' >= since' /\ weak_for' # -1 /\ since' # -1
    <3>1. CASE since = -1
      BY <1>2, <1>6, <2>1, <3>1
    <3>2. CASE since # -1
      BY <1>2, <1>4, <1>6, <2>1, <2>2, <3>2
    <3> QED
      BY <3>1, <3>2
  <2>5. roam_age' >= since' + ROAM_SETTLE \/ roam_age' = Radio!TimeMax
    BY <1>1, <1>4, <2>1
  <2> QED
    BY <1>1, <1>2, <1>4, <2>2, <2>3, <2>4, <2>5 DEF RoamTypes, RoamPhases
<1> QED
  BY <1>2, <1>5, <1>6

LEMMA ScanRoam == ASSUME Radio!WirelessAssumption, RoamInv, Radio!Scanned PROVE RoamTypes' /\ RoamPhases'
<1> USE RoamTimes DEF RoamInv
<1>1. rpc = "scan" /\ rssi' = rssi /\ weak_for' = weak_for /\ lwait' = lwait
  BY DEF Radio!Scanned, Radio!ltevars
<1>2. \/ /\ rpc' = "top" /\ since' = -1 /\ rwait' = ROAM_SCAN_INTERVAL /\ roam_age' = roam_age
      \/ /\ rpc' = "settle" /\ rwait' = ROAM_SETTLE /\ roam_age' = 0 /\ since' = since
  BY Zenon DEF Radio!Scanned
<1> QED
  BY <1>1, <1>2 DEF RoamTypes, RoamPhases, Left

LEMMA SettledRoam == ASSUME Radio!WirelessAssumption, RoamInv, Radio!Settled PROVE RoamTypes' /\ RoamPhases'
<1> USE RoamTimes DEF RoamInv
<1>1. /\ rpc = "settle" /\ rwait <= 0 /\ rpc' = "top" /\ since' = -1
      /\ rwait' = ROAM_SCAN_INTERVAL /\ roam_age' = roam_age /\ lwait' = lwait
  BY DEF Radio!Settled, Radio!ltevars
<1>2. /\ rssi' \in Rssi /\ weak_for' \in -1..Radio!TimeMax
      /\ rssi' < ROAM_RSSI_THRESHOLD => weak_for' # -1
  BY Readings DEF Radio!Settled
<1>3. roam_age >= ROAM_SETTLE
  BY <1>1 DEF RoamTypes, RoamPhases, Left
<1> QED
  BY <1>1, <1>2, <1>3 DEF RoamTypes, RoamPhases

LEMMA TickRoam == ASSUME Radio!WirelessAssumption, RoamInv, Radio!Tick PROVE RoamTypes' /\ RoamPhases'
<1> USE RoamTimes DEF RoamInv
<1>1. /\ rwait' = rwait - 1 /\ since' = Radio!Older(since) /\ weak_for' = Radio!Older(weak_for)
      /\ roam_age' = Radio!Older(roam_age) /\ rssi' = rssi /\ rpc' = rpc
  BY DEF Radio!Tick
<1>2. /\ since \in -1..Radio!TimeMax /\ weak_for \in -1..Radio!TimeMax /\ roam_age \in 0..Radio!TimeMax
      /\ rwait \in Int
  BY DEF RoamTypes
<1>3. lwait' \in -MaxLate..LTE_CHECK_INTERVAL
  <2>1. lwait \in -MaxLate..LTE_CHECK_INTERVAL
    BY DEF RoamTypes
  <2>2. CASE lpc = "sleep"
    BY <2>1, <2>2 DEF Radio!Tick
  <2>3. CASE lpc # "sleep"
    BY <2>1, <2>3 DEF Radio!Tick
  <2> QED
    BY <2>2, <2>3
<1>4. /\ since' \in -1..Radio!TimeMax /\ weak_for' \in -1..Radio!TimeMax /\ roam_age' \in 0..Radio!TimeMax
      /\ rwait' \in Int
  BY <1>1, <1>2 DEF Radio!Older
<1>5. RoamTypes'
  BY <1>1, <1>3, <1>4 DEF RoamTypes
<1>6. /\ rssi' < ROAM_RSSI_THRESHOLD => weak_for' # -1
      /\ since' # -1 => since # -1 /\ weak_for' >= since'
  BY <1>1, <1>2 DEF RoamPhases, Radio!Older
<1>7. rpc' = "scan" =>
        since' # -1 /\ since' >= ROAM_TRIGGER_TIME + ROAM_SCAN_INTERVAL - Left'
  BY <1>1, <1>2 DEF RoamPhases, Radio!Older, Left
<1>8. rpc' = "settle" => since' # -1 /\ roam_age' >= ROAM_SETTLE - Left'
  BY <1>1, <1>2 DEF RoamPhases, Radio!Older, Left
<1>9. rpc' # "settle" => roam_age' >= ROAM_SETTLE
  BY <1>1, <1>2 DEF RoamPhases, Radio!Older
<1>10. rpc' # "settle" /\ since' # -1 =>
         roam_age' >= since' + ROAM_SETTLE \/ roam_age' = Radio!TimeMax
  BY <1>1, <1>2 DEF RoamPhases, Radio!Older
<1> QED
  BY <1>5, <1>6, <1>7, <1>8, <1>9, <1>10 DEF RoamPhases

LEMMA LteRoam ==
  ASSUME Radio!WirelessAssumption, RoamInv, Radio!lte_monitor_loop \/ Radio!lte_backup_stop \/ Radio!lte_backup_start
  PROVE  RoamTypes' /\ RoamPhases'
<1> USE RoamTimes DEF RoamInv
<1>1. UNCHANGED Radio!roamvars
  BY Zenon DEF Radio!lte_monitor_loop, Radio!Activate, Radio!Activated, Radio!Check,
               Radio!lte_backup_stop, Radio!lte_backup_start
<1>2. LTE_CHECK_INTERVAL \in -MaxLate..LTE_CHECK_INTERVAL /\ lwait \in -MaxLate..LTE_CHECK_INTERVAL
  BY DEF RoamTypes
<1>3. lwait' \in -MaxLate..LTE_CHECK_INTERVAL
  BY <1>2, Zenon DEF Radio!lte_monitor_loop, Radio!Activate, Radio!Activated, Radio!Check,
                     Radio!lte_backup_stop,
                     Radio!lte_backup_start
<1> QED
  BY <1>1, <1>3 DEF RoamTypes, RoamPhases, Radio!roamvars, Left

LEMMA RoamGoesOn == ASSUME Radio!WirelessAssumption, RoamInv, [Radio!Next]_(Radio!vars) PROVE RoamInv'
<1>1. RoamTypes' /\ RoamPhases'
  <2>1. CASE UNCHANGED Radio!vars
    BY <2>1 DEF Radio!vars, Radio!roamvars, Radio!ltevars, RoamInv, RoamTypes, RoamPhases,
                Left
  <2> QED
    BY <2>1, TopRoam, ScanRoam, SettledRoam, LteRoam, TickRoam
       DEF Radio!Next, Radio!roam_loop
<1> QED
  BY <1>1, RoamKinds DEF RoamInv

LEMMA RoamsDuly ==
  ASSUME Radio!WirelessAssumption, RoamInv, [Radio!Next]_(Radio!vars) PROVE Radio!RoamsAfterWeakPhase
<1> USE RoamTimes DEF RoamInv
<1>1. SUFFICES ASSUME roam_age' = 0, rpc = "scan"
               PROVE  /\ weak_for >= ROAM_TRIGGER_TIME + ROAM_SCAN_INTERVAL
                      /\ roam_age >= ROAM_SETTLE + ROAM_TRIGGER_TIME + ROAM_SCAN_INTERVAL
  BY DEF Radio!RoamsAfterWeakPhase
<1>2. roam_age \in 0..Radio!TimeMax /\ roam_age >= ROAM_SETTLE /\ roam_age # 0
  BY <1>1 DEF RoamTypes, RoamPhases
<1>3. roam_age' # roam_age
  BY <1>1, <1>2
<1>4. ~Radio!Tick
  BY <1>1, <1>2 DEF Radio!Tick, Radio!Older
<1>5. Radio!Scanned
  BY <1>1, <1>3, <1>4, Zenon
     DEF Radio!Next, Radio!roam_loop, Radio!Top, Radio!Settled, Radio!lte_monitor_loop,
         Radio!Activate,
     Radio!Activated, Radio!Check, Radio!lte_backup_stop, Radio!lte_backup_start,
     Radio!vars, Radio!roamvars
<1>6. rwait <= 0 /\ rwait \in Int
  BY <1>5 DEF Radio!Scanned, RoamTypes
<1>7. since # -1 /\ since >= ROAM_TRIGGER_TIME + ROAM_SCAN_INTERVAL /\ since \in -1..Radio!TimeMax
  BY <1>1, <1>6 DEF RoamTypes, RoamPhases, Left
<1> QED
  BY <1>1, <1>7 DEF RoamTypes, RoamPhases

-----------------------------------------------------------------------------
(* aws_iot.c and aliyun_iot.c.                                             *)

(* The task only runs after a caller that has given up, without a thread   *)
(* that reads, and while it ends a reconnection the state is CONNECTED as  *)
(* long as the connection lasts.  A topic that is registered meanwhile is  *)
(* the only one the broker may lack, and its request follows, because the  *)
(* state says CONNECTED.                                                   *)
ThreadInv ==
  /\ caller \in {"idle", "connecting", "opened", "start"} => rx = "none" /\ task = "none"
  /\ task # "none" => rx = "none"
  /\ caller \in {"closing", "closed"} => ~rx_running
  /\ task = "start" /\ tls = "up" /\ rx_running =>
       /\ cstate = "CONNECTED"
       /\ sub \in {"idle", "suback", "hung"} => subs \subseteq granted
       /\ sub \in {"registered", "send"} => subs \subseteq granted \cup {topic}

(* Until the one connection that succeeds nobody waits for a SUBACK; who   *)
(* waits for one later has announced it.                                   *)
WaitInv ==
  /\ caller \in {"idle", "connecting"} \/ task \in {"wait", "attempt"} =>
       cstate # "CONNECTED" /\ tls # "up" /\ sub \in {"idle", "registered"}
  /\ sub \in {"suback", "hung"} => mixed

ClientInv ==
  Cloud!TypeOK /\ ThreadInv /\ WaitInv /\ Cloud!ConnectedIsRead /\ Cloud!StaysInStep

LEMMA ClientStarts == ASSUME Cloud!CloudAssumption, Cloud!Init PROVE ClientInv
<1>1. Cloud!TypeOK
  BY Zenon DEF Cloud!Init, Cloud!TypeOK
<1>2. ThreadInv /\ WaitInv /\ Cloud!ConnectedIsRead
  BY DEF Cloud!Init, ThreadInv, WaitInv, Cloud!ConnectedIsRead
<1>3. Cloud!StaysInStep
  BY Zenon DEF Cloud!Init, Cloud!StaysInStep, Cloud!AtPacketStart
<1> QED
  BY <1>1, <1>2, <1>3 DEF ClientInv

(* A length of one or two bytes is read as it was written.                 *)
LEMMA ReadsLength ==
  ASSUME NEW len \in Nat, len > 0, len < 16384
  PROVE  Cloud!Decoded(Cloud!mqtt_enc_remlen(len)) = len
<1> DEFINE P(i) == len < Cloud!Place[i + 1] /\ \A j \in 1..i - 1 : len >= Cloud!Place[j + 1]
           places == CHOOSE i \in 1..4 : P(i)
           bytes == [i \in 1..places |-> (len \div Cloud!Place[i]) % 128]
<1>1. Cloud!Place[1] = 1 /\ Cloud!Place[2] = 128 /\ Cloud!Place[3] = 16384 /\ Cloud!Place[4] = 2097152
      /\ Cloud!Place[5] = 268435456
  BY SMT DEF Cloud!Place
<1>2. Cloud!mqtt_enc_remlen(len) = bytes
  BY SMT DEF Cloud!mqtt_enc_remlen
<1>3. Cloud!Place[2] % 256 = 128 /\ Cloud!Place[3] % 256 = 0 /\ Cloud!Place[4] % 256 = 0
  BY <1>1, SMT
<1>4. CASE len < 128
  <2>1. \A i \in 1..4 : P(i) <=> i = 1
    BY <1>1, <1>4, SMT
  <2>2. places = 1
    BY <2>1, SMT
  <2> HIDE DEF places
  <2>3. DOMAIN bytes = 1..1 /\ bytes[1] = len
    <3>1. DOMAIN bytes = 1..1 /\ bytes[1] = (len \div Cloud!Place[1]) % 128
      BY <2>2
    <3>2. (len \div 1) % 128 = len
      BY <1>4, SMT
    <3> QED
      BY <1>1, <3>1, <3>2
  <2> HIDE DEF bytes
  <2>4. 1 \in DOMAIN bytes /\ 2 \notin DOMAIN bytes /\ 3 \notin DOMAIN bytes /\ 4 \notin DOMAIN bytes
    BY <2>3, SMT
  <2> QED
    BY <1>2, <1>3, <2>3, <2>4, SMT DEF Cloud!Decoded
<1>5. CASE len >= 128
  <2>1. \A i \in 1..4 : P(i) <=> i = 2
    BY <1>1, <1>5, SMT
  <2>2. places = 2
    BY <2>1, SMT
  <2> HIDE DEF places
  <2>3. DOMAIN bytes = 1..2 /\ bytes[1] = len % 128 /\ bytes[2] = (len \div 128) % 128
    <3>1. /\ DOMAIN bytes = 1..2 /\ bytes[1] = (len \div Cloud!Place[1]) % 128
          /\ bytes[2] = (len \div Cloud!Place[2]) % 128
      BY <2>2
    <3>2. len \div 1 = len
      BY SMT
    <3> QED
      BY <1>1, <3>1, <3>2
  <2> HIDE DEF bytes
  <2>4. 1 \in DOMAIN bytes /\ 2 \in DOMAIN bytes /\ 3 \notin DOMAIN bytes /\ 4 \notin DOMAIN bytes
    BY <2>3, SMT
  <2>5. (len % 128) + ((len \div 128) % 128) * 128 = len
    <3>1. len \div 128 \in 0..127
      BY <1>5, SMT
    <3> QED
      BY <3>1, SMT
  <2>6. Cloud!Decoded(bytes) = bytes[1] + bytes[2] * 128 + 0 * 0 + 0 * 0
    BY <1>3, <2>4, SMT DEF Cloud!Decoded
  <2> QED
    BY <1>2, <2>3, <2>5, <2>6, SMT
<1> QED
  BY <1>4, <1>5, SMT

(* A connection starts in step; an early PUBLISH is noted.                 *)
LEMMA Opens ==
  ASSUME Cloud!CloudAssumption, ClientInv, Cloud!mqtt_connect, UNCHANGED names
  PROVE  /\ names' \in NameSize /\ packet' \in PacketSize \cup {0}
         /\ instep' \in BOOLEAN /\ mixed' \in BOOLEAN
         /\ Cloud!StaysInStep' /\ (~Cloud!Opening /\ mixed => mixed')
<1>1. names' = names /\ packet' \in {0, packet}
  BY Zenon DEF Cloud!mqtt_connect
<1>2. /\ names \in NameSize /\ packet \in PacketSize \cup {0} /\ Cloud!StaysInStep
      /\ instep \in BOOLEAN /\ mixed \in BOOLEAN
  BY DEF ClientInv, Cloud!TypeOK
<1>3. names' \in NameSize /\ packet' \in PacketSize \cup {0}
  BY <1>1, <1>2
<1>4. /\ instep' \in BOOLEAN /\ mixed' \in BOOLEAN
      /\ Cloud!StaysInStep' /\ (~Cloud!Opening /\ mixed => mixed')
  <2>1. CASE Cloud!Opening /\ instep' = TRUE /\ mixed' = FALSE
    <3>1. Cloud!StaysInStep'
      BY <2>1 DEF Cloud!StaysInStep, Cloud!AtPacketStart
    <3> QED
      BY <2>1, <3>1
  <2>2. CASE instep' = instep /\ mixed' = mixed
    <3>1. Cloud!StaysInStep'
      BY <1>2, <2>2 DEF Cloud!StaysInStep, Cloud!AtPacketStart
    <3> QED
      BY <1>2, <2>2, <3>1
  <2>3. CASE instep' = FALSE /\ mixed' = TRUE
    <3>1. Cloud!StaysInStep'
      BY <2>3 DEF Cloud!StaysInStep, Cloud!AtPacketStart
    <3> QED
      BY <2>3, <3>1
  <2> QED
    BY <2>1, <2>2, <2>3, Zenon DEF Cloud!mqtt_connect
<1> QED
  BY <1>3, <1>4

LEMMA ConnectClient ==
  ASSUME Cloud!CloudAssumption, ClientInv, Cloud!aliyun_iot_connect PROVE ClientInv'
<1>1. /\ names' \in NameSize /\ packet' \in PacketSize \cup {0} /\ Cloud!StaysInStep'
      /\ instep' \in BOOLEAN /\ mixed' \in BOOLEAN /\ (~Cloud!Opening /\ mixed => mixed')
  BY Opens DEF Cloud!aliyun_iot_connect
<1>2. Cloud!TypeOK'
  BY <1>1, Zenon DEF ClientInv, Cloud!aliyun_iot_connect, Cloud!Connect,
                     Cloud!aws_iot_connect, Cloud!Opened, Cloud!TypeOK
<1>3. ThreadInv'
  BY DEF ClientInv, ThreadInv, Cloud!aliyun_iot_connect, Cloud!Connect,
         Cloud!aws_iot_connect, Cloud!Opened
<1>4. WaitInv'
  <2>1. sub' = sub /\ (tls # "up" /\ tls' = "up" => caller = "connecting")
    BY DEF Cloud!aliyun_iot_connect, Cloud!Connect, Cloud!aws_iot_connect, Cloud!Opened
  <2>2. sub' \in {"suback", "hung"} => mixed'
    BY <1>1, <2>1 DEF ClientInv, WaitInv, Cloud!Opening
  <2>3. ASSUME caller' \in {"idle", "connecting"} \/ task' \in {"wait", "attempt"}
        PROVE  cstate' # "CONNECTED" /\ tls' # "up" /\ sub' \in {"idle", "registered"}
    BY <2>1, <2>3 DEF ClientInv, ThreadInv, WaitInv, Cloud!aliyun_iot_connect,
                      Cloud!Connect, Cloud!aws_iot_connect, Cloud!Opened
  <2> QED
    BY <2>2, <2>3 DEF WaitInv
<1>5. Cloud!ConnectedIsRead'
  BY DEF ClientInv, Cloud!ConnectedIsRead, Cloud!aliyun_iot_connect, Cloud!Connect,
         Cloud!aws_iot_connect
<1> QED
  BY <1>1, <1>2, <1>3, <1>4, <1>5 DEF ClientInv

LEMMA TaskClient ==
  ASSUME Cloud!CloudAssumption, ClientInv, Cloud!reconnect_task PROVE ClientInv'
<1>1. /\ names' \in NameSize /\ packet' \in PacketSize \cup {0} /\ Cloud!StaysInStep'
      /\ instep' \in BOOLEAN /\ mixed' \in BOOLEAN /\ (~Cloud!Opening /\ mixed => mixed')
  BY Opens DEF Cloud!reconnect_task
<1>2. CASE Cloud!Wait \/ Cloud!Restart
  BY <1>1, <1>2 DEF Cloud!Wait, Cloud!Restart, Cloud!StartRx, ClientInv, Cloud!TypeOK,
                    ThreadInv, WaitInv, Cloud!ConnectedIsRead, Cloud!Opening
<1>3. CASE Cloud!Resubscribe
  BY <1>1, <1>3 DEF Cloud!Resubscribe, Cloud!Connected, ClientInv, Cloud!TypeOK, ThreadInv,
                    WaitInv, Cloud!ConnectedIsRead, Cloud!Opening
<1>4. ASSUME NEW done \in BOOLEAN, Cloud!Attempt(done) PROVE ClientInv'
  BY <1>1, <1>4 DEF Cloud!Attempt, Cloud!Opened, Cloud!Again, ClientInv, Cloud!TypeOK,
                    ThreadInv, WaitInv, Cloud!ConnectedIsRead
<1> QED
  BY <1>2, <1>3, <1>4 DEF Cloud!reconnect_task

LEMMA SubscribeClient ==
  ASSUME Cloud!CloudAssumption, ClientInv, Cloud!aliyun_iot_subscribe PROVE ClientInv'
<1>1. /\ UNCHANGED <<cstate, rx_running, tls, caller, rx, task, names, packet, instep>>
      /\ mixed' = IF sub' = "suback" THEN TRUE ELSE mixed
  BY DEF Cloud!aliyun_iot_subscribe, Cloud!aws_iot_subscribe
<1>2. Cloud!TypeOK'
  BY <1>1 DEF ClientInv, Cloud!TypeOK, Cloud!aliyun_iot_subscribe, Cloud!aws_iot_subscribe
<1>3. ThreadInv'
  <2>1. SUFFICES ASSUME task = "start", tls = "up", rx_running
                 PROVE  /\ sub' \in {"idle", "suback", "hung"} => subs' \subseteq granted'
                        /\ sub' \in {"registered", "send"} => subs' \subseteq granted' \cup {topic'}
    BY <1>1 DEF ClientInv, ThreadInv
  <2>2. cstate = "CONNECTED"
    BY <2>1 DEF ClientInv, ThreadInv
  <2> QED
    BY <2>1, <2>2 DEF Cloud!aliyun_iot_subscribe, Cloud!aws_iot_subscribe, ClientInv,
                      ThreadInv, Cloud!TypeOK
<1>4. WaitInv'
  BY <1>1 DEF ClientInv, WaitInv, Cloud!aliyun_iot_subscribe, Cloud!aws_iot_subscribe
<1>5. Cloud!StaysInStep' /\ Cloud!ConnectedIsRead'
  <2>0. instep' = instep /\ (mixed' = TRUE \/ mixed' = mixed) /\ Cloud!StaysInStep
    BY <1>1, Zenon DEF ClientInv
  <2>1. Cloud!StaysInStep'
    BY <2>0 DEF Cloud!StaysInStep, Cloud!AtPacketStart
  <2> QED
    BY <1>1, <2>1 DEF ClientInv, Cloud!ConnectedIsRead
<1> QED
  BY <1>2, <1>3, <1>4, <1>5 DEF ClientInv

(* Whoever waits for a SUBACK is noted.                                    *)
LEMMA SharedClient ==
  ASSUME Cloud!CloudAssumption, ClientInv, Cloud!mqtt_subscribe PROVE ClientInv'
<1>1. /\ UNCHANGED <<cstate, rx_running, tls, caller, rx, task, subs, granted, names, mixed>>
      /\ sub \in {"suback", "hung"} /\ sub' \in {"idle", "hung"} /\ mixed
  BY DEF Cloud!mqtt_subscribe, ClientInv, WaitInv
<1>2. Cloud!TypeOK'
  BY <1>1 DEF Cloud!mqtt_subscribe, ClientInv, Cloud!TypeOK
<1>3. ThreadInv' /\ WaitInv'
  BY <1>1 DEF ClientInv, ThreadInv, WaitInv
<1> QED
  BY <1>1, <1>2, <1>3 DEF ClientInv, Cloud!StaysInStep, Cloud!ConnectedIsRead

LEMMA ReceiveClient ==
  ASSUME Cloud!CloudAssumption, ClientInv, Cloud!Receive PROVE ClientInv'
<1>1. /\ rx = "loop" /\ packet \in PacketSize /\ packet' = 0 /\ cstate = "CONNECTED"
      /\ UNCHANGED <<rx_running, tls, caller, task, sub, topic, subs, granted, losses,
                     names, mixed>>
      /\ \/ UNCHANGED <<rx, cstate>>
         \/ rx' = "none" /\ cstate' = "RECONNECTING"
  BY DEF Cloud!Receive, Cloud!Failed, ClientInv, Cloud!TypeOK
<1>2. instep' \in BOOLEAN /\ Cloud!StaysInStep'
  <2>1. CASE UNCHANGED instep
    <3>1. instep' = instep /\ mixed' = mixed /\ Cloud!StaysInStep /\ instep \in BOOLEAN
      BY <1>1, <2>1 DEF ClientInv, Cloud!TypeOK
    <3> QED
      BY <3>1 DEF Cloud!StaysInStep, Cloud!AtPacketStart
  <2>2. CASE instep' = (Cloud!Decoded(Cloud!mqtt_enc_remlen(packet)) = packet)
    <3>1. packet \in Nat /\ packet > 0
      BY <1>1 DEF Cloud!CloudAssumption
    <3>2. instep' \in BOOLEAN
      BY <2>2
    <3>3. ASSUME \A n \in PacketSize : n < 16384 PROVE instep'
      <4>1. packet < 16384
        BY <1>1, <3>3
      <4>2. Cloud!Decoded(Cloud!mqtt_enc_remlen(packet)) = packet
        BY <3>1, <4>1, ReadsLength
      <4> QED
        BY <2>2, <4>2
    <3> QED
      BY <3>2, <3>3 DEF Cloud!StaysInStep, Cloud!AtPacketStart
  <2> QED
    BY <2>1, <2>2, Zenon DEF Cloud!Receive
<1>3. Cloud!TypeOK'
  BY <1>1, <1>2 DEF ClientInv, Cloud!TypeOK
<1>4. ThreadInv' /\ WaitInv' /\ Cloud!ConnectedIsRead'
  BY <1>1 DEF ClientInv, ThreadInv, WaitInv, Cloud!ConnectedIsRead
<1> QED
  BY <1>2, <1>3, <1>4 DEF ClientInv

LEMMA ClientGoesOn ==
  ASSUME Cloud!CloudAssumption, ClientInv, [Cloud!Next]_(Cloud!vars) PROVE ClientInv'
<1>1. CASE Cloud!aliyun_iot_disconnect
  <2>1. UNCHANGED <<rx, task, sub, topic, subs, granted, Cloud!lengths>>
    BY <1>1 DEF Cloud!aliyun_iot_disconnect, Cloud!Disconnect
  <2>2. Cloud!TypeOK'
    BY <1>1, <2>1 DEF Cloud!aliyun_iot_disconnect, Cloud!Disconnect, Cloud!lengths,
                      ClientInv, Cloud!TypeOK
  <2>3. ThreadInv' /\ WaitInv' /\ Cloud!ConnectedIsRead'
    BY <1>1 DEF Cloud!aliyun_iot_disconnect, Cloud!Disconnect, Cloud!lengths, ClientInv,
                ThreadInv, WaitInv, Cloud!ConnectedIsRead
  <2> QED
    BY <2>1, <2>2, <2>3 DEF ClientInv, Cloud!StaysInStep, Cloud!AtPacketStart, Cloud!lengths
<1>2. CASE Cloud!Send
  BY <1>2 DEF Cloud!Send, Cloud!client, ClientInv, Cloud!TypeOK, ThreadInv,
              WaitInv, Cloud!ConnectedIsRead, Cloud!StaysInStep, Cloud!AtPacketStart
<1>3. CASE (Cloud!Lose \/ Cloud!rx_loop) /\ UNCHANGED Cloud!lengths
  BY <1>3 DEF Cloud!Lose, Cloud!rx_loop, Cloud!lengths, ClientInv, Cloud!TypeOK, ThreadInv,
              WaitInv, Cloud!ConnectedIsRead, Cloud!StaysInStep, Cloud!AtPacketStart
<1>4. CASE UNCHANGED Cloud!vars
  BY <1>4 DEF Cloud!vars, Cloud!client, Cloud!lengths, ClientInv, Cloud!TypeOK, ThreadInv,
              WaitInv, Cloud!ConnectedIsRead, Cloud!StaysInStep, Cloud!AtPacketStart
<1> QED
  BY <1>1, <1>2, <1>3, <1>4, ConnectClient, TaskClient, SubscribeClient, SharedClient,
     ReceiveClient
     DEF Cloud!Next

LEMMA ClientHolds ==
  ASSUME ClientInv PROVE Cloud!TypeOK /\ Cloud!ConnectedIsRead /\ Cloud!ReconnectRestores /\ Cloud!StaysInStep
  BY DEF ClientInv, ThreadInv, Cloud!ReconnectRestores

-----------------------------------------------------------------------------
(* telemetry_batch.c and device_shadow.c.                                  *)

(* The batches in the files d are numbered up to m, in the order of the    *)
(* files and, in a file, of their places; those in s come before those     *)
(* behind the first n files; and none in the files is in t.                *)
Within(d, m) == \A f \in DOMAIN d : \A i \in DOMAIN d[f] : d[f][i] \in 1..m
Ordered(d) ==
  \A f, g \in DOMAIN d : \A i \in DOMAIN d[f], j \in DOMAIN d[g] :
    f < g \/ (f = g /\ i < j) => d[f][i] < d[g][j]
Before(s, d, n) ==
  \A k \in DOMAIN s : \A f \in DOMAIN d : f > n => \A i \in DOMAIN d[f] : s[k] < d[f][i]
NoneOf(t, d) == \A k \in DOMAIN t : \A f \in DOMAIN d : \A i \in DOMAIN d[f] : t[k] # d[f][i]

SpillTypes ==
  /\ made \in 0..MaxBatches /\ disk \in Seq(Seq(Nat)) /\ spill_bytes \in Nat
  /\ open \in {"none", "linked", "unlinked"} /\ (open = "linked" => disk # <<>>)
  /\ live \in Seq(1..made) /\ replayed \in Seq(1..made) /\ Within(disk, made)

ReplaySet == [left : Nat, read : BOOLEAN]
ReplayTypes ==
  /\ replays \in Seq(ReplaySet) /\ doubled \in BOOLEAN
  /\ \A r \in DOMAIN replays : /\ replays[r].left <= Len(disk)
                               /\ replays[r].read => replays[r].left > 0

InOrder == /\ \A i, j \in DOMAIN replayed : i < j => replayed[i] < replayed[j]
           /\ \A i \in DOMAIN replayed, j \in DOMAIN live : replayed[i] # live[j]
FilesInOrder == Ordered(disk) /\ NoneOf(live, disk) /\ InOrder

(* A file that has been read is the first, and the one replay removes it   *)
(* before it reads the next.                                               *)
Done == IF \E r \in DOMAIN replays : replays[r].read THEN 1 ELSE 0
OrderInv == Len(replays) <= 1 /\ Before(replayed, disk, Done) /\ FilesInOrder

SpillInv == SpillTypes /\ ReplayTypes /\ (~doubled => OrderInv)

BucketTypes == /\ available \in BOOLEAN /\ dated \in BOOLEAN
               /\ points \in 0..TELEMETRY_MAX_POINTS

BucketActions == \/ Services!telemetry_batch_add_ts \/ Services!telemetry_upload_loop \/ Services!telemetry_batch_stop
                 \/ Services!telemetry_batch_set_network_available \/ Services!telemetry_replay_spill
                 \/ Services!telemetry_batch_init

ShadowTypes ==
  /\ reported \in 0..MaxUpdates /\ shown \in 0..MaxUpdates /\ dirty \in BOOLEAN
  /\ commands \in 0..MaxCommands
  /\ shadow_pc \in [Services!Reporter -> {"idle", "report", "built", "publish"}]
  /\ json \in [Services!Reporter -> 0..MaxUpdates]

ServicesInv == SpillInv /\ BucketTypes /\ ShadowTypes

LEMMA Retyped ==
  ASSUME NEW S, NEW q \in Seq(Nat), \A i \in DOMAIN q : q[i] \in S
  PROVE  q \in Seq(S)
<1>1. q = [i \in 1..Len(q) |-> q[i]] /\ Len(q) \in Nat
  OBVIOUS
<1>2. q \in [1..Len(q) -> S]
  BY <1>1
<1> QED
  BY <1>1, <1>2, SeqDef

LEMMA SeqOf ==
  ASSUME NEW S, NEW n \in Nat, NEW q \in [1..n -> S] PROVE q \in Seq(S) /\ Len(q) = n
<1>1. q \in Seq(S)
  BY SeqDef
<1>2. Len(q) \in Nat /\ DOMAIN q = 1..Len(q) /\ DOMAIN q = 1..n
  BY <1>1, LenProperties
<1> QED
  BY <1>1, <1>2

LEMMA ReplayOf ==
  ASSUME replays \in Seq(ReplaySet), NEW r \in DOMAIN replays
  PROVE  replays[r] \in ReplaySet /\ replays[r].left \in Nat /\ replays[r].read \in BOOLEAN
<1>1. replays[r] \in ReplaySet
  BY ElementOfSeq, LenProperties
<1> QED
  BY <1>1 DEF ReplaySet

LEMMA Sizes ==
  ASSUME Services!ServicesAssumption
  PROVE  /\ TELEMETRY_MAX_POINTS \in Nat \ {0} /\ SPILL_MAX \in Nat \ {0}
         /\ SPILL_CHUNK \in Nat \ {0} /\ SPILL_HEADER \in Nat \ {0}
         /\ MaxBatches \in Nat /\ MaxReplays \in Nat /\ MaxUpdates \in Nat
         /\ MaxCommands \in Nat
         /\ BatchSizes \subseteq Nat
  BY DEF Services!ServicesAssumption

LEMMA ServicesStart == ASSUME Services!ServicesAssumption, Services!Init PROVE ServicesInv
<1>0. /\ made = 0 /\ disk = <<>> /\ spill_bytes = 0 /\ open = "none" /\ live = <<>> /\ replayed = <<>>
      /\ replays = <<>> /\ doubled = FALSE
  BY DEF Services!Init, Services!TelInit
<1>1. SpillInv
  <2>1. SpillTypes
    BY <1>0, Sizes DEF SpillTypes, Within
  <2>2. ReplayTypes
    <3>1. <<>> \in Seq(ReplaySet) /\ DOMAIN <<>> = {}
      OBVIOUS
    <3> QED
      BY <1>0, <3>1, Zenon DEF ReplayTypes
  <2>3. Ordered(disk) /\ NoneOf(live, disk) /\ Before(replayed, disk, Done) /\ InOrder
    BY <1>0 DEF InOrder, Ordered, Before, NoneOf
  <2>4. Len(replays) <= 1
    BY <1>0
  <2> QED
    BY <2>1, <2>2, <2>3, <2>4 DEF SpillInv, OrderInv, FilesInOrder
<1>2. 0 \in 0..TELEMETRY_MAX_POINTS /\ 0 \in 0..MaxUpdates /\ 0 \in 0..MaxCommands
  BY Sizes
<1>3. BucketTypes
  BY <1>2, Zenon DEF Services!Init, Services!TelInit, BucketTypes
<1>4. /\ [t \in Services!Reporter |-> "idle"] \in [Services!Reporter -> {"idle", "report", "built", "publish"}]
      /\ [t \in Services!Reporter |-> 0] \in [Services!Reporter -> 0..MaxUpdates]
  BY <1>2
<1>5. ShadowTypes
  BY <1>2, <1>4, Zenon DEF Services!Init, Services!ShadowInit, ShadowTypes
<1> QED
  BY <1>1, <1>3, <1>5 DEF ServicesInv

-----------------------------------------------------------------------------
(* The files e are the files d and the batch b at the very end.            *)
AtEnd(d, e, b) ==
  \A f \in DOMAIN e : \A i \in DOMAIN e[f] :
    \/ f \in DOMAIN d /\ i \in DOMAIN d[f] /\ e[f][i] = d[f][i]
    \/ e[f][i] = b /\ f = Len(e) /\ i = Len(e[f])

(* What is behind everything in the files leaves the order as it is.       *)
LEMMA BehindAll ==
  ASSUME NEW m \in Nat, NEW b, b = m + 1, NEW d, NEW e, e \in Seq(Seq(Nat)), Within(d, m),
         AtEnd(d, e, b)
  PROVE  Within(e, b) /\ (Ordered(d) => Ordered(e))
<1>1. \A f \in DOMAIN d : \A i \in DOMAIN d[f] : d[f][i] \in 1..m
  BY DEF Within
<1>2. /\ DOMAIN e = 1..Len(e) /\ Len(e) \in Nat
      /\ \A f \in DOMAIN e : DOMAIN e[f] = 1..Len(e[f]) /\ Len(e[f]) \in Nat
  OBVIOUS
<1>3. Within(e, b)
  <2>1. SUFFICES ASSUME NEW f \in DOMAIN e, NEW i \in DOMAIN e[f] PROVE e[f][i] \in 1..b
    BY DEF Within
  <2>2. e[f][i] \in 1..m \/ e[f][i] = b
    BY <1>1 DEF AtEnd
  <2> QED
    BY <2>2
<1>4. Ordered(d) => Ordered(e)
  <2>1. SUFFICES ASSUME Ordered(d), NEW f \in DOMAIN e, NEW g \in DOMAIN e,
                        NEW i \in DOMAIN e[f], NEW j \in DOMAIN e[g],
                        f < g \/ (f = g /\ i < j)
                 PROVE  e[f][i] < e[g][j]
    BY DEF Ordered
  <2>2. f \in 1..Len(e) /\ g \in 1..Len(e) /\ i \in 1..Len(e[f]) /\ j \in 1..Len(e[g])
        /\ Len(e[f]) \in Nat
    BY <1>2
  <2>3. ~(f = Len(e) /\ i = Len(e[f]))
    BY <1>2, <2>1, <2>2
  <2>4. f \in DOMAIN d /\ i \in DOMAIN d[f] /\ e[f][i] = d[f][i]
    BY <2>3 DEF AtEnd
  <2>5. CASE g \in DOMAIN d /\ j \in DOMAIN d[g] /\ e[g][j] = d[g][j]
    BY <2>1, <2>4, <2>5 DEF Ordered
  <2>6. CASE e[g][j] = b
    <3>1. e[f][i] \in 1..m
      BY <1>1, <2>4
    <3> QED
      BY <2>6, <3>1
  <2> QED
    BY <2>5, <2>6 DEF AtEnd
<1> QED
  BY <1>3, <1>4

(* And it is behind what was smaller, and no part of what was.             *)
LEMMA BehindEarlier ==
  ASSUME NEW m \in Nat, NEW b, b = m + 1, NEW d, NEW e, AtEnd(d, e, b),
         NEW s, \A k \in DOMAIN s : s[k] \in 1..m
  PROVE  (NoneOf(s, d) => NoneOf(s, e)) /\ \A n \in Nat : Before(s, d, n) => Before(s, e, n)
<1>1. ASSUME NEW n \in Nat, Before(s, d, n) PROVE Before(s, e, n)
  <2>1. SUFFICES ASSUME NEW k \in DOMAIN s, NEW f \in DOMAIN e, f > n, NEW i \in DOMAIN e[f]
                 PROVE  s[k] < e[f][i]
    BY DEF Before
  <2>2. CASE f \in DOMAIN d /\ i \in DOMAIN d[f] /\ e[f][i] = d[f][i]
    BY <1>1, <2>1, <2>2 DEF Before
  <2>3. CASE e[f][i] = b
    BY <2>3
  <2> QED
    BY <2>2, <2>3 DEF AtEnd
<1>2. ASSUME NoneOf(s, d) PROVE NoneOf(s, e)
  <2>1. SUFFICES ASSUME NEW k \in DOMAIN s, NEW f \in DOMAIN e, NEW i \in DOMAIN e[f]
                 PROVE  s[k] # e[f][i]
    BY DEF NoneOf
  <2>2. CASE f \in DOMAIN d /\ i \in DOMAIN d[f] /\ e[f][i] = d[f][i]
    BY <1>2, <2>2 DEF NoneOf
  <2>3. CASE e[f][i] = b
    BY <2>3
  <2> QED
    BY <2>2, <2>3 DEF AtEnd
<1> QED
  BY <1>1, <1>2

(* A batch goes to a new file or to the end of the last one.               *)
InNewFile(b, d, e) == e = Append(d, <<b>>)

LEMMA NewFile ==
  ASSUME NEW b \in Nat, NEW d \in Seq(Seq(Nat)), NEW e, InNewFile(b, d, e)
  PROVE  /\ e \in Seq(Seq(Nat)) /\ e # <<>> /\ Len(e) >= Len(d)
         /\ AtEnd(d, e, b)
<1> DEFINE file == <<b>>
<1>1. file \in Seq(Nat) /\ DOMAIN file = 1..1 /\ file[1] = b /\ Len(file) = 1
  OBVIOUS
<1>0. e = Append(d, file)
  BY DEF InNewFile
<1> HIDE DEF file
<1>2. /\ e \in Seq(Seq(Nat)) /\ Len(e) = Len(d) + 1 /\ e[Len(e)] = file /\ e # <<>>
      /\ \A f \in DOMAIN e : (f \in DOMAIN d /\ e[f] = d[f]) \/ f = Len(e)
      /\ Len(e) >= Len(d)
  <2>1. /\ e \in Seq(Seq(Nat)) /\ Len(e) = Len(d) + 1 /\ e[Len(d) + 1] = file
        /\ \A f \in 1..Len(d) : e[f] = d[f]
    BY <1>0, <1>1
  <2>2. DOMAIN e = 1..Len(d) + 1 /\ DOMAIN d = 1..Len(d) /\ Len(d) \in Nat /\ Len(e) # 0
        /\ Len(e) >= Len(d)
    BY <2>1
  <2>3. e # <<>>
    BY <2>2
  <2>4. \A f \in DOMAIN e : (f \in DOMAIN d /\ e[f] = d[f]) \/ f = Len(e)
    BY <2>1, <2>2
  <2> QED
    BY <2>1, <2>2, <2>3, <2>4
<1>3. ASSUME NEW f \in DOMAIN e, NEW i \in DOMAIN e[f]
      PROVE  \/ f \in DOMAIN d /\ i \in DOMAIN d[f] /\ e[f][i] = d[f][i]
             \/ e[f][i] = b /\ f = Len(e) /\ i = Len(e[f])
  <2>1. CASE f \in DOMAIN d /\ e[f] = d[f]
    BY <2>1
  <2>2. CASE f = Len(e)
    <3>1. i \in 1..1 /\ e[f] = file
      BY <1>1, <1>2, <2>2
    <3> QED
      BY <1>1, <2>2, <3>1
  <2> QED
    BY <1>2, <2>1, <2>2
<1> QED
  BY <1>2, <1>3, Zenon DEF AtEnd

LEMMA LastFile ==
  ASSUME NEW b \in Nat, NEW d \in Seq(Seq(Nat)), d # <<>>, NEW e, e = [d EXCEPT ![Len(d)] = Append(@, b)]
  PROVE  /\ e \in Seq(Seq(Nat)) /\ e # <<>> /\ Len(e) >= Len(d)
         /\ AtEnd(d, e, b)
<1> DEFINE n == Len(d)
<1>1. n \in DOMAIN d /\ d[n] \in Seq(Nat) /\ n \in Nat
  OBVIOUS
<1>2. /\ Append(d[n], b) \in Seq(Nat) /\ Len(Append(d[n], b)) = Len(d[n]) + 1
      /\ \A i \in DOMAIN Append(d[n], b) :
           \/ i \in DOMAIN d[n] /\ Append(d[n], b)[i] = d[n][i]
           \/ Append(d[n], b)[i] = b /\ i = Len(d[n]) + 1
  BY <1>1
<1>3. /\ e \in Seq(Seq(Nat)) /\ Len(e) = n /\ e # <<>> /\ DOMAIN e = DOMAIN d /\ Len(e) >= n
      /\ e[n] = Append(d[n], b)
      /\ \A f \in DOMAIN d : f # n => e[f] = d[f]
  BY <1>1, <1>2
<1> HIDE DEF n
<1>4. ASSUME NEW f \in DOMAIN e, NEW i \in DOMAIN e[f]
      PROVE  \/ f \in DOMAIN d /\ i \in DOMAIN d[f] /\ e[f][i] = d[f][i]
             \/ e[f][i] = b /\ f = Len(e) /\ i = Len(e[f])
  <2>1. CASE f # n
    BY <1>3, <2>1
  <2>2. CASE f = n
    BY <1>1, <1>2, <1>3, <2>2
  <2> QED
    BY <2>1, <2>2
<1> QED
  BY <1>3, <1>4, Zenon DEF n, AtEnd

(* A batch that is uploaded now has a new number.                          *)
LEMMA Uploaded ==
  ASSUME Services!ServicesAssumption, SpillTypes, made < MaxBatches, made' = made + 1,
         live' = Append(live, made'), UNCHANGED <<disk, spill_bytes, replayed>>,
         open' \in {"none", open}
  PROVE  SpillTypes' /\ (FilesInOrder => FilesInOrder')
<1>1. /\ made \in 0..MaxBatches /\ disk \in Seq(Seq(Nat)) /\ live \in Seq(1..made)
      /\ replayed \in Seq(1..made)
  BY DEF SpillTypes
<1>2. made' \in 0..MaxBatches /\ replayed \in Seq(1..made') /\ live' \in Seq(1..made')
  <2>1. made \in Nat /\ MaxBatches \in Nat /\ made' \in 0..MaxBatches /\ made' \in 1..made'
    BY <1>1, Sizes
  <2>2. replayed \in Seq(1..made') /\ live \in Seq(1..made')
    BY <1>1, <2>1
  <2>3. live' \in Seq(1..made')
    BY <2>1, <2>2
  <2> QED
    BY <2>1, <2>2, <2>3
<1>3. \A k \in DOMAIN live' : (k \in DOMAIN live /\ live'[k] = live[k]) \/ live'[k] = made + 1
  BY <1>1
<1>4. Within(disk, made')
  BY <1>1 DEF SpillTypes, Within
<1>5. SpillTypes'
  BY <1>1, <1>2, <1>4 DEF SpillTypes, Within
<1>6. FilesInOrder => NoneOf(live', disk)
  <2>1. SUFFICES ASSUME NoneOf(live, disk), NEW k \in DOMAIN live', NEW f \in DOMAIN disk,
                        NEW i \in DOMAIN disk[f]
                 PROVE  live'[k] # disk[f][i]
    BY DEF FilesInOrder, NoneOf
  <2>2. disk[f][i] \in 1..made /\ made \in Nat
    BY <1>1 DEF SpillTypes, Within
  <2> QED
    BY <1>3, <2>1, <2>2 DEF NoneOf
<1>7. FilesInOrder => InOrder'
  BY <1>1, <1>3 DEF FilesInOrder, InOrder
<1> QED
  BY <1>5, <1>6, <1>7 DEF FilesInOrder, Ordered, NoneOf

LEMMA Written ==
  ASSUME Services!ServicesAssumption, SpillTypes, NEW closing \in BOOLEAN, made < MaxBatches,
         made' = made + 1, Services!telemetry_write_spill(made', closing), UNCHANGED <<live, replayed>>
  PROVE  /\ SpillTypes' /\ Len(disk') >= Len(disk) /\ (FilesInOrder => FilesInOrder')
         /\ \A n \in Nat : Before(replayed, disk, n) => Before(replayed, disk', n)
<1>1. /\ made \in Nat /\ made + 1 \in 0..MaxBatches /\ disk \in Seq(Seq(Nat))
      /\ live \in Seq(1..made) /\ replayed \in Seq(1..made) /\ spill_bytes \in Nat
      /\ open \in {"none", "linked", "unlinked"} /\ (open = "linked" => disk # <<>>)
      /\ Len(disk) \in Nat
  BY Sizes DEF SpillTypes
<1>2. live \in Seq(1..made + 1) /\ replayed \in Seq(1..made + 1)
  BY <1>1
<1>3. Within(disk, made + 1)
  BY <1>1 DEF SpillTypes, Within
<1>0. /\ Len(disk) >= Len(disk)
      /\ \A k \in DOMAIN replayed : replayed[k] \in 1..made
      /\ \A k \in DOMAIN live : live[k] \in 1..made
  BY <1>1
<1>4. ASSUME UNCHANGED disk, open' \in {"none", "linked", "unlinked"}, spill_bytes' \in Nat,
             open' = "linked" => open = "linked"
      PROVE  /\ SpillTypes' /\ Len(disk') >= Len(disk) /\ (FilesInOrder => FilesInOrder')
             /\ \A n \in Nat : Before(replayed, disk, n) => Before(replayed, disk', n)
  <2>1. SpillTypes'
    BY <1>1, <1>2, <1>3, <1>4 DEF SpillTypes, Within
  <2>2. FilesInOrder => FilesInOrder'
    BY <1>4 DEF FilesInOrder, InOrder, Ordered, NoneOf
  <2> QED
    BY <1>0, <1>4, <2>1, <2>2
<1>5. ASSUME NEW len \in BatchSizes,
             spill_bytes' = spill_bytes + len + SPILL_HEADER,
             disk' = CASE open = "none" -> Append(disk, <<made'>>)
                       [] open = "linked" ->
                            [disk EXCEPT ![Len(disk)] = Append(@, made')]
                       [] open = "unlinked" -> disk,
             open' = IF closing \/ spill_bytes' % SPILL_CHUNK < len THEN "none"
                     ELSE IF open = "none" THEN "linked" ELSE open
      PROVE  /\ SpillTypes' /\ Len(disk') >= Len(disk) /\ (FilesInOrder => FilesInOrder')
             /\ \A n \in Nat : Before(replayed, disk, n) => Before(replayed, disk', n)
  <2>1. spill_bytes' \in Nat /\ open' \in {"none", "linked", "unlinked"}
        /\ (open' = "linked" => open \in {"none", "linked"})
    <3>1. spill_bytes' \in Nat
      BY <1>1, <1>5, Sizes
    <3>2. open' \in {"none", "linked", "unlinked"} /\ (open' = "linked" => open \in {"none", "linked"})
      <4>1. open' \in {"none", "linked"} \/ open' = open
        BY <1>5, Zenon
      <4>2. open' = "linked" => open # "unlinked"
        BY <1>5
      <4> QED
        BY <1>1, <4>1, <4>2
    <3> QED
      BY <3>1, <3>2
  <2>2. CASE open \in {"none", "linked"}
    <3>1. \/ disk' = Append(disk, <<made'>>)
          \/ disk # <<>> /\ disk' = [disk EXCEPT ![Len(disk)] = Append(@, made')]
      <4>1. "none" # "linked" /\ "none" # "unlinked" /\ "linked" # "unlinked"
        OBVIOUS
      <4> QED
        BY <1>1, <1>5, <2>2, <4>1, Zenon
    <3>2. made' = made + 1 /\ made' \in Nat
      BY <1>1
    <3>3. /\ disk' \in Seq(Seq(Nat)) /\ disk' # <<>> /\ Len(disk') >= Len(disk)
          /\ AtEnd(disk, disk', made')
      <4>1. CASE disk' = Append(disk, <<made'>>)
        <5>1. made' \in Nat /\ disk \in Seq(Seq(Nat))
          BY <1>1, <3>2
        <5>2. InNewFile(made', disk, disk')
          BY <4>1 DEF InNewFile
        <5> QED
          BY <5>1, <5>2, NewFile
      <4>2. CASE disk # <<>> /\ disk' = [disk EXCEPT ![Len(disk)] = Append(@, made')]
        BY <1>1, <3>2, <4>2, LastFile
      <4> QED
        BY <3>1, <4>1, <4>2
    <3>4. /\ Within(disk', made') /\ (Ordered(disk) => Ordered(disk'))
          /\ (NoneOf(live, disk) => NoneOf(live, disk'))
          /\ \A n \in Nat : Before(replayed, disk, n) => Before(replayed, disk', n)
      <4>1. Within(disk, made)
        BY DEF SpillTypes
      <4>2. Within(disk', made') /\ (Ordered(disk) => Ordered(disk'))
        BY <1>1, <3>2, <3>3, <4>1, BehindAll, Zenon
      <4>3. /\ NoneOf(live, disk) => NoneOf(live, disk')
            /\ \A n \in Nat : Before(replayed, disk, n) => Before(replayed, disk', n)
        BY <1>0, <1>1, <3>2, <3>3, BehindEarlier, Zenon
      <4> QED
        BY <4>2, <4>3
    <3>5. SpillTypes'
      BY <1>1, <1>2, <2>1, <3>3, <3>4 DEF SpillTypes, Within
    <3>6. FilesInOrder => FilesInOrder'
      BY <3>4 DEF FilesInOrder, InOrder, Ordered, NoneOf
    <3> QED
      BY <3>3, <3>4, <3>5, <3>6
  <2>3. CASE open = "unlinked"
    <3>1. disk' = disk
      <4>1. "none" # "linked" /\ "none" # "unlinked" /\ "linked" # "unlinked"
        OBVIOUS
      <4> QED
        BY <1>5, <2>3, <4>1, Zenon
    <3> QED
      BY <1>4, <2>1, <2>3, <3>1
  <2> QED
    BY <1>1, <2>2, <2>3
<1> QED
  BY <1>1, <1>4, <1>5, Zenon DEF Services!telemetry_write_spill

LEMMA Flushed ==
  ASSUME Services!ServicesAssumption, SpillInv, NEW closing \in BOOLEAN,
         Services!telemetry_flush_bucket(closing), UNCHANGED <<replays, doubled, replayed>>
  PROVE  SpillInv'
<1>1. CASE /\ live' = Append(live, made') /\ open' = IF closing THEN "none" ELSE open
           /\ UNCHANGED <<disk, spill_bytes>>
  <2>1. SpillTypes' /\ (FilesInOrder => FilesInOrder')
    BY <1>1, Uploaded DEF Services!telemetry_flush_bucket, SpillInv
  <2> QED
    BY <1>1, <2>1 DEF SpillInv, ReplayTypes, OrderInv, Done, Before
<1>2. CASE Services!telemetry_write_spill(made', closing) /\ UNCHANGED live
  <2>1. /\ SpillTypes' /\ Len(disk') >= Len(disk) /\ (FilesInOrder => FilesInOrder')
        /\ \A n \in Nat : Before(replayed, disk, n) => Before(replayed, disk', n)
    BY <1>2, Written DEF Services!telemetry_flush_bucket, SpillInv
  <2>2. ReplayTypes'
    <3>1. Len(disk) \in Nat /\ Len(disk') \in Nat
      BY <2>1 DEF SpillInv, SpillTypes
    <3>2. ASSUME NEW r \in DOMAIN replays PROVE replays[r].left <= Len(disk')
      <4>1. replays[r].left \in Nat /\ replays[r].left <= Len(disk)
        BY ReplayOf DEF SpillInv, ReplayTypes
      <4> QED
        BY <2>1, <3>1, <4>1
    <3> QED
      BY <3>2 DEF SpillInv, ReplayTypes
  <2>3. OrderInv => OrderInv'
    <3>1. Done \in Nat /\ Done' = Done
      BY DEF Done
    <3>2. Before(replayed, disk, Done) => Before(replayed, disk', Done)
      BY <2>1, <3>1, Zenon
    <3>3. Before(replayed, disk, Done)' <=> Before(replayed, disk', Done)
      BY <3>1 DEF Before
    <3> QED
      BY <2>1, <3>2, <3>3 DEF OrderInv
  <2> QED
    BY <2>1, <2>2, <2>3 DEF SpillInv
<1> QED
  BY <1>1, <1>2 DEF Services!telemetry_flush_bucket

(* A replay starts with the files there are; a second one is noted.        *)
LEMMA BackInv ==
  ASSUME Services!ServicesAssumption, SpillInv, Services!NetworkBack PROVE SpillInv'
<1>1. SpillTypes' /\ (FilesInOrder => FilesInOrder')
  <2>1. CASE made' = made + 1
    BY <2>1, Uploaded DEF Services!NetworkBack, SpillInv
  <2>2. CASE UNCHANGED <<made, live>>
    BY <2>2 DEF Services!NetworkBack, SpillInv, SpillTypes, Within, FilesInOrder, InOrder,
                Ordered, NoneOf
  <2> QED
    BY <2>1, <2>2, Zenon DEF Services!NetworkBack
<1>2. UNCHANGED <<disk, replayed>>
  BY DEF Services!NetworkBack
<1>3. CASE UNCHANGED <<replays, doubled>>
  BY <1>1, <1>2, <1>3 DEF SpillInv, ReplayTypes, OrderInv, Done, Before
<1>4. CASE /\ replays' = Append(replays, [left |-> Len(disk), read |-> FALSE])
           /\ doubled' = (doubled \/ replays # <<>>)
  <2> DEFINE new == [left |-> Len(disk), read |-> FALSE]
  <2>1. new \in ReplaySet /\ new.left = Len(disk) /\ new.read = FALSE
        /\ Len(disk) \in Nat
    BY DEF SpillInv, SpillTypes, ReplaySet
  <2>2. replays \in Seq(ReplaySet) /\ doubled \in BOOLEAN
    BY DEF SpillInv, ReplayTypes
  <2> HIDE DEF new
  <2>3. /\ replays' \in Seq(ReplaySet)
        /\ \A r \in DOMAIN replays' : (r \in DOMAIN replays /\ replays'[r] = replays[r]) \/ replays'[r] = new
    BY <1>4, <2>1, <2>2 DEF new
  <2>4. ReplayTypes'
    <3>1. doubled' \in BOOLEAN
      BY <1>4, <2>2
    <3>2. \A r \in DOMAIN replays' : /\ replays'[r].left <= Len(disk)
                                     /\ replays'[r].read => replays'[r].left > 0
      BY <2>1, <2>3 DEF SpillInv, ReplayTypes
    <3> QED
      BY <1>2, <2>3, <3>1, <3>2 DEF ReplayTypes
  <2>5. ASSUME ~doubled' PROVE OrderInv'
    <3>0. ~doubled /\ replays = <<>>
      BY <1>4, <2>5, Zenon
    <3>1. ~doubled /\ replays = <<>> /\ Done = 0
      BY <3>0 DEF Done
    <3>2. Len(replays') <= 1
      BY <1>4, <2>2, <3>1
    <3>3. Done' = 0
      BY <2>1, <2>3, <3>1 DEF Done
    <3>4. Before(replayed, disk, 0) /\ FilesInOrder
      BY <3>1 DEF SpillInv, OrderInv
    <3> QED
      BY <1>1, <1>2, <3>2, <3>3, <3>4 DEF OrderInv, Before
  <2> QED
    BY <1>1, <2>4, <2>5 DEF SpillInv
<1> QED
  BY <1>3, <1>4, Zenon DEF Services!NetworkBack

(* What is uploaded of the first file comes after what was replayed.       *)
LEMMA FirstBatches ==
  ASSUME SpillTypes, disk # <<>>, NEW n \in 0..Len(disk[1]), UNCHANGED <<disk, made, live>>,
         replayed' = replayed \o SubSeq(disk[1], 1, n)
  PROVE  /\ replayed' \in Seq(1..made)
         /\ FilesInOrder /\ Before(replayed, disk, 0) => FilesInOrder' /\ Before(replayed', disk, 1)
<1>1. /\ disk \in Seq(Seq(Nat)) /\ live \in Seq(1..made) /\ replayed \in Seq(1..made)
      /\ made \in Nat /\ Within(disk, made)
  BY DEF SpillTypes
<1> DEFINE h == SubSeq(disk[1], 1, n)
           l == Len(replayed)
<1>2. 1 \in DOMAIN disk /\ disk[1] \in Seq(Nat) /\ l \in Nat
  BY <1>1
<1>3. /\ h \in Seq(Nat) /\ DOMAIN h = 1..n
      /\ \A i \in 1..n : i \in DOMAIN disk[1] /\ h[i] = disk[1][i]
  BY <1>2
<1> HIDE DEF h
<1>4. h \in Seq(1..made) /\ Len(h) = n
  <2>1. \A i \in DOMAIN h : h[i] \in 1..made
    BY <1>1, <1>2, <1>3 DEF Within
  <2>2. h \in Seq(1..made)
    BY <1>3, <2>1, Retyped
  <2>3. Len(h) \in Nat /\ DOMAIN h = 1..Len(h) /\ n \in Nat
    BY <1>2, <2>2, LenProperties
  <2> QED
    BY <1>3, <2>2, <2>3
<1>5. /\ replayed' \in Seq(1..made) /\ DOMAIN replayed' = 1..l + n
      /\ \A k \in 1..l : k \in DOMAIN replayed /\ replayed'[k] = replayed[k]
      /\ \A k \in l + 1..l + n : k - l \in 1..n /\ replayed'[k] = h[k - l]
  BY <1>1, <1>2, <1>4 DEF h
<1>6. /\ \A k \in 1..l : k \in DOMAIN replayed /\ replayed'[k] = replayed[k]
      /\ \A k \in l + 1..l + n : /\ k - l \in DOMAIN disk[1]
                                 /\ replayed'[k] = disk[1][k - l]
  BY <1>3, <1>5
<1>7. SUFFICES ASSUME FilesInOrder, Before(replayed, disk, 0)
               PROVE  InOrder' /\ Before(replayed', disk, 1)
  BY <1>5 DEF FilesInOrder, Ordered, NoneOf
<1>8. Before(replayed', disk, 1)
  <2>1. SUFFICES ASSUME NEW k \in DOMAIN replayed', NEW f \in DOMAIN disk, f > 1, NEW i \in DOMAIN disk[f]
                 PROVE  replayed'[k] < disk[f][i]
    BY DEF Before
  <2>2. f > 0
    BY <1>1
  <2>3. CASE k \in 1..l
    BY <1>6, <1>7, <2>2, <2>3 DEF Before
  <2>4. CASE k \in l + 1..l + n
    BY <1>2, <1>6, <1>7, <2>1, <2>4 DEF FilesInOrder, Ordered
  <2> QED
    BY <1>2, <1>5, <2>3, <2>4
<1>9. ASSUME NEW k \in DOMAIN replayed', NEW m \in DOMAIN replayed', k < m
      PROVE  replayed'[k] < replayed'[m]
  <2>1. k \in 1..l + n /\ m \in 1..l + n
    BY <1>5
  <2>2. CASE m <= l
    BY <1>2, <1>6, <1>7, <1>9, <2>1, <2>2 DEF FilesInOrder, InOrder
  <2>3. CASE k <= l /\ m > l
    <3>1. replayed'[k] = replayed[k] /\ k \in DOMAIN replayed
      BY <1>2, <1>6, <2>1, <2>3
    <3>2. m - l \in DOMAIN disk[1] /\ replayed'[m] = disk[1][m - l]
      BY <1>2, <1>6, <2>1, <2>3
    <3>3. \A i \in DOMAIN disk[1] : replayed[k] < disk[1][i]
      BY <1>2, <1>7, <3>1, 1 > 0 DEF Before
    <3> QED
      BY <3>1, <3>2, <3>3
  <2>4. CASE k > l
    <3>1. /\ k - l \in DOMAIN disk[1] /\ m - l \in DOMAIN disk[1] /\ k - l < m - l
          /\ replayed'[k] = disk[1][k - l] /\ replayed'[m] = disk[1][m - l]
      <4>1. /\ k \in l + 1..l + n /\ m \in l + 1..l + n /\ k - l < m - l
        BY <1>2, <1>9, <2>1, <2>4
      <4> QED
        BY <1>6, <4>1
    <3>2. disk[1][k - l] < disk[1][m - l]
      BY <1>2, <1>7, <3>1 DEF FilesInOrder, Ordered
    <3> QED
      BY <3>1, <3>2
  <2>5. k \in Nat /\ m \in Nat
    BY <1>2, <2>1
  <2>6. m <= l \/ (k <= l /\ m > l) \/ k > l
    <3> HIDE DEF l
    <3> QED BY <1>2, <2>5
  <2> QED
    BY <2>2, <2>3, <2>4, <2>6, Zenon
<1>10. ASSUME NEW k \in DOMAIN replayed', NEW m \in DOMAIN live PROVE replayed'[k] # live[m]
  <2>1. CASE k \in 1..l
    BY <1>6, <1>7, <2>1 DEF FilesInOrder, InOrder
  <2>2. CASE k \in l + 1..l + n
    BY <1>2, <1>6, <1>7, <2>2 DEF FilesInOrder, NoneOf
  <2> QED
    BY <1>2, <1>5, <2>1, <2>2
<1> QED
  BY <1>8, <1>9, <1>10 DEF InOrder

LEMMA ReadInv ==
  ASSUME SpillInv, NEW r \in DOMAIN replays, Services!Read(r), UNCHANGED <<made, live>>
  PROVE  SpillInv'
<1>1. /\ replays \in Seq(ReplaySet) /\ replays[r].left > 0 /\ ~replays[r].read
      /\ replays' = [replays EXCEPT ![r].read = TRUE] /\ replays[r].left <= Len(disk)
      /\ UNCHANGED <<disk, open, spill_bytes, doubled>> /\ doubled \in BOOLEAN
  BY DEF SpillInv, ReplayTypes, Services!Read
<1>2. disk \in Seq(Seq(Nat)) /\ disk # <<>> /\ disk[1] \in Seq(Nat) /\ Head(disk) = disk[1]
  <2>1. disk \in Seq(Seq(Nat)) /\ Len(disk) \in Nat /\ replays[r].left \in Nat
    BY <1>1, ReplayOf DEF SpillInv, SpillTypes
  <2>2. disk # <<>>
    BY <1>1, <2>1
  <2> QED
    BY <2>1, <2>2
<1>3. /\ replays' \in Seq(ReplaySet) /\ Len(replays') = Len(replays)
      /\ DOMAIN replays' = DOMAIN replays /\ replays'[r].read
      /\ \A q \in DOMAIN replays : replays'[q].left = replays[q].left
      /\ \A q \in DOMAIN replays : q # r => replays'[q] = replays[q]
  <2>1. Len(replays) \in Nat /\ DOMAIN replays = 1..Len(replays) /\ DOMAIN replays' = DOMAIN replays
    BY <1>1, LenProperties
  <2>2. ASSUME NEW q \in DOMAIN replays
        PROVE  /\ replays'[q] \in ReplaySet /\ replays'[q].left = replays[q].left
               /\ q # r => replays'[q] = replays[q]
               /\ q = r => replays'[q].read
    <3>1. replays[q] \in ReplaySet
      BY <1>1, ReplayOf
    <3>2. CASE q = r
      <4>1. replays'[q] = [replays[q] EXCEPT !.read = TRUE]
        BY <1>1, <3>2
      <4> QED
        BY <3>1, <3>2, <4>1 DEF ReplaySet
    <3>3. CASE q # r
      BY <1>1, <3>1, <3>3
    <3> QED
      BY <3>2, <3>3
  <2>3. replays' \in [1..Len(replays) -> ReplaySet]
    BY <1>1, <2>1, <2>2
  <2> QED
    BY <2>1, <2>2, <2>3, SeqOf
<1>4. ReplayTypes'
  BY <1>1, <1>3 DEF SpillInv, ReplayTypes
<1>5. \E n \in 0..Len(disk[1]) : replayed' = replayed \o SubSeq(disk[1], 1, n)
  <2>1. replayed \in Seq(1..made)
    BY DEF SpillInv, SpillTypes
  <2>2. CASE replayed' = replayed
    <3>1. SubSeq(disk[1], 1, 0) = <<>> /\ replayed = replayed \o <<>> /\ 0 \in 0..Len(disk[1])
      BY <1>2, <2>1
    <3> QED
      BY <2>2, <3>1, Zenon
  <2>3. CASE replayed' = replayed \o Head(disk)
    <3>1. SubSeq(disk[1], 1, Len(disk[1])) = disk[1] /\ Len(disk[1]) \in 0..Len(disk[1])
      BY <1>2
    <3> QED
      BY <1>2, <2>3, <3>1, Zenon
  <2>4. CASE \E n \in 0..Len(Head(disk)) - 1 : replayed' = replayed \o SubSeq(Head(disk), 1, n)
    <3>1. Len(disk[1]) \in Nat /\ 0..Len(disk[1]) - 1 \subseteq 0..Len(disk[1])
      BY <1>2
    <3> QED
      BY <1>2, <2>4, <3>1, Zenon
  <2> QED
    BY <2>2, <2>3, <2>4, Zenon DEF Services!Read
<1>6. /\ replayed' \in Seq(1..made)
      /\ FilesInOrder /\ Before(replayed, disk, 0) => FilesInOrder' /\ Before(replayed', disk, 1)
  BY <1>1, <1>2, <1>5, FirstBatches DEF SpillInv
<1>7. SpillTypes'
  BY <1>1, <1>6 DEF SpillInv, SpillTypes, Within
<1>8. ASSUME ~doubled' PROVE OrderInv'
  <2>1. OrderInv
    BY <1>1, <1>8 DEF SpillInv
  <2>2. Done = 0
    <3>1. ASSUME NEW q \in DOMAIN replays PROVE q = r
      <4>1. Len(replays) <= 1 /\ DOMAIN replays = 1..Len(replays) /\ Len(replays) \in Nat
        BY <1>1, <2>1 DEF OrderInv
      <4> QED
        BY <4>1
    <3> QED
      BY <1>1, <3>1 DEF Done
  <2>3. Done' = 1
    BY <1>3 DEF Done
  <2>4. FilesInOrder' /\ Before(replayed', disk, 1)
    BY <1>6, <2>1, <2>2 DEF OrderInv
  <2> QED
    BY <1>1, <1>3, <2>1, <2>3, <2>4 DEF OrderInv, Before
<1> QED
  BY <1>4, <1>7, <1>8 DEF SpillInv

(* The first file is removed: every other one moves up.                    *)
LEMMA FirstGone ==
  ASSUME SpillTypes, disk # <<>>, disk' = Tail(disk), UNCHANGED <<made, live, replayed>>
  PROVE  /\ disk' \in Seq(Seq(Nat)) /\ Len(disk') = Len(disk) - 1 /\ Within(disk', made)
         /\ FilesInOrder /\ Before(replayed, disk, 1) => FilesInOrder' /\ Before(replayed, disk', 0)
<1>1. disk \in Seq(Seq(Nat)) /\ Within(disk, made) /\ Len(disk) \in Nat
  BY DEF SpillTypes
<1>2. /\ disk' \in Seq(Seq(Nat)) /\ Len(disk') = Len(disk) - 1
      /\ \A f \in DOMAIN disk' :
           f \in Nat /\ f > 0 /\ f + 1 \in DOMAIN disk /\ disk'[f] = disk[f + 1]
  <2>1. /\ Tail(disk) \in Seq(Seq(Nat)) /\ Len(Tail(disk)) = Len(disk) - 1 /\ Len(disk) \in Nat
        /\ \A f \in 1..Len(disk) - 1 : Tail(disk)[f] = disk[f + 1]
    BY <1>1
  <2>2. DOMAIN Tail(disk) = 1..Len(disk) - 1 /\ DOMAIN disk = 1..Len(disk) /\ Len(disk) > 0
    BY <1>1, <2>1
  <2> QED
    BY <2>1, <2>2
<1>3. Within(disk', made)
  BY <1>1, <1>2 DEF Within
<1>4. SUFFICES ASSUME FilesInOrder, Before(replayed, disk, 1)
               PROVE  Ordered(disk') /\ NoneOf(live, disk') /\ Before(replayed, disk', 0)
  BY <1>2, <1>3 DEF FilesInOrder, InOrder, NoneOf
<1>5. Ordered(disk')
  <2>1. SUFFICES ASSUME NEW f \in DOMAIN disk', NEW g \in DOMAIN disk', NEW i \in DOMAIN disk'[f],
                        NEW j \in DOMAIN disk'[g], f < g \/ (f = g /\ i < j)
                 PROVE  disk'[f][i] < disk'[g][j]
    BY DEF Ordered
  <2>2. /\ f \in Nat /\ f + 1 \in DOMAIN disk /\ i \in DOMAIN disk[f + 1]
        /\ g \in Nat /\ g + 1 \in DOMAIN disk /\ j \in DOMAIN disk[g + 1]
        /\ disk'[f][i] = disk[f + 1][i] /\ disk'[g][j] = disk[g + 1][j]
    BY <1>2
  <2>3. f + 1 < g + 1 \/ (f + 1 = g + 1 /\ i < j)
    BY <2>1, <2>2
  <2> QED
    BY <1>4, <2>2, <2>3 DEF FilesInOrder, Ordered
<1>6. ASSUME NEW f \in DOMAIN disk', NEW i \in DOMAIN disk'[f]
      PROVE  /\ \A k \in DOMAIN live : live[k] # disk'[f][i]
             /\ \A k \in DOMAIN replayed : replayed[k] < disk'[f][i]
  <2>1. f + 1 \in DOMAIN disk /\ i \in DOMAIN disk[f + 1] /\ disk'[f][i] = disk[f + 1][i] /\ f + 1 > 1
    BY <1>2
  <2> QED
    BY <1>4, <2>1 DEF FilesInOrder, NoneOf, Before
<1> QED
  BY <1>5, <1>6 DEF NoneOf, Before

LEMMA RemovedInv ==
  ASSUME SpillInv, NEW r \in DOMAIN replays, Services!Removed(r), UNCHANGED <<made, live>>
  PROVE  SpillInv'
<1>1. /\ replays \in Seq(ReplaySet) /\ replays[r].left > 0 /\ replays[r].read
      /\ disk' = Tail(disk) /\ UNCHANGED <<spill_bytes, replayed, doubled>> /\ doubled \in BOOLEAN
      /\ replays' = [q \in DOMAIN replays |->
                       IF replays[q].left = 0 THEN replays[q]
                       ELSE [left |-> replays[q].left - 1, read |-> FALSE]]
      /\ replays[r].left <= Len(disk)
      /\ \A q \in DOMAIN replays : /\ replays[q].left <= Len(disk)
                                   /\ replays[q].read => replays[q].left > 0
  BY DEF SpillInv, ReplayTypes, Services!Removed, Services!Remaining
<1>2. disk \in Seq(Seq(Nat)) /\ Len(disk) \in Nat /\ disk # <<>>
  <2>1. disk \in Seq(Seq(Nat)) /\ Len(disk) \in Nat /\ replays[r].left \in Nat
    BY <1>1, ReplayOf DEF SpillInv, SpillTypes
  <2> QED
    BY <1>1, <2>1
<1>3. /\ disk' \in Seq(Seq(Nat)) /\ Len(disk') = Len(disk) - 1 /\ Within(disk', made)
      /\ FilesInOrder /\ Before(replayed, disk, 1) => FilesInOrder' /\ Before(replayed, disk', 0)
  BY <1>1, <1>2, FirstGone DEF SpillInv
<1>4. ASSUME NEW q \in DOMAIN replays
      PROVE  /\ replays'[q] \in ReplaySet /\ ~replays'[q].read
             /\ replays'[q].left <= Len(disk')
  <2>1. replays[q] \in ReplaySet /\ replays[q].left \in Nat
    BY <1>1, ReplayOf
  <2>2. CASE replays[q].left = 0
    <3>1. replays'[q] = replays[q] /\ ~replays[q].read
      BY <1>1, <2>2
    <3> QED
      BY <1>2, <1>3, <2>1, <2>2, <3>1
  <2>3. CASE replays[q].left # 0
    <3>1. replays'[q] = [left |-> replays[q].left - 1, read |-> FALSE]
      BY <1>1, <2>3
    <3>2. replays[q].left \in Nat /\ replays[q].left - 1 \in Nat /\ replays[q].left <= Len(disk)
      BY <1>1, <2>1, <2>3
    <3> QED
      BY <1>2, <1>3, <3>1, <3>2 DEF ReplaySet
  <2> QED
    BY <2>2, <2>3
<1>5. /\ DOMAIN replays' = DOMAIN replays /\ replays' \in Seq(ReplaySet)
      /\ Len(replays') = Len(replays)
  <2>1. DOMAIN replays' = 1..Len(replays) /\ Len(replays) \in Nat /\ DOMAIN replays = 1..Len(replays)
    BY <1>1, LenProperties
  <2>2. replays' \in [1..Len(replays) -> ReplaySet]
    BY <1>1, <1>4, <2>1
  <2> QED
    BY <2>1, <2>2, SeqOf
<1>6. ReplayTypes'
  BY <1>1, <1>4, <1>5 DEF ReplayTypes
<1>7. SpillTypes'
  <2>1. open' \in {"none", "linked", "unlinked"} /\ (open' = "linked" => disk' # <<>>)
    <3>1. open \in {"none", "linked", "unlinked"}
      BY DEF SpillInv, SpillTypes
    <3>2. open' = IF Len(disk) = 1 /\ open = "linked" THEN "unlinked" ELSE open
      BY DEF Services!Removed
    <3>3. Len(disk) # 1 => disk' # <<>>
      BY <1>2, <1>3
    <3> QED
      BY <3>1, <3>2, <3>3
  <2> QED
    BY <1>1, <1>3, <2>1 DEF SpillInv, SpillTypes, Within
<1>8. ASSUME ~doubled' PROVE OrderInv'
  <2>1. OrderInv /\ Done = 1
    BY <1>1, <1>8 DEF SpillInv, Done
  <2>2. Done' = 0
    BY <1>4, <1>5 DEF Done
  <2>3. FilesInOrder' /\ Before(replayed, disk', 0)
    BY <1>3, <2>1 DEF OrderInv
  <2> QED
    BY <1>1, <1>5, <2>1, <2>2, <2>3 DEF OrderInv, Before
<1> QED
  BY <1>6, <1>7, <1>8 DEF SpillInv

LEMMA EndedInv ==
  ASSUME SpillInv, NEW r \in DOMAIN replays, Services!Ended(r), UNCHANGED <<made, live>>
  PROVE  SpillInv'
<1>1. /\ replays \in Seq(ReplaySet) /\ replays[r].left = 0
      /\ replays' = [q \in 1..Len(replays) - 1 |-> replays[IF q < r THEN q ELSE q + 1]]
      /\ UNCHANGED <<disk, open, replayed, doubled>> /\ spill_bytes' = 0 /\ doubled \in BOOLEAN
      /\ Len(replays) \in Nat /\ r \in 1..Len(replays) /\ DOMAIN replays = 1..Len(replays)
  BY DEF SpillInv, ReplayTypes, Services!Ended
<1>2. ASSUME NEW q \in 1..Len(replays) - 1
      PROVE  (IF q < r THEN q ELSE q + 1) \in DOMAIN replays
  BY <1>1
<1>3. /\ DOMAIN replays' = 1..Len(replays) - 1
      /\ \A q \in DOMAIN replays' : \E p \in DOMAIN replays : replays'[q] = replays[p]
  BY <1>1, <1>2
<1>4. replays' \in Seq(ReplaySet) /\ Len(replays') = Len(replays) - 1
  <2>1. \A q \in 1..Len(replays) - 1 : replays'[q] \in ReplaySet
    BY <1>1, <1>2, ReplayOf
  <2>2. Len(replays) - 1 \in Nat /\ replays' \in [1..Len(replays) - 1 -> ReplaySet]
    BY <1>1, <2>1
  <2> QED
    BY <2>2, SeqOf
<1>5. ReplayTypes'
  BY <1>1, <1>3, <1>4 DEF SpillInv, ReplayTypes
<1>6. SpillTypes'
  BY <1>1 DEF SpillInv, SpillTypes, Within
<1>7. ASSUME ~doubled' PROVE OrderInv'
  <2>1. OrderInv
    BY <1>1, <1>7 DEF SpillInv
  <2>2. Len(replays) = 1 /\ r = 1
    BY <1>1, <2>1 DEF OrderInv
  <2>3. Done = 0
    BY <1>1, <2>2 DEF SpillInv, ReplayTypes, Done
  <2>4. Done' = 0
    BY <1>3, <2>2 DEF Done
  <2>5. FilesInOrder'
    BY <1>1, <2>1 DEF OrderInv, FilesInOrder, InOrder, Ordered, NoneOf
  <2> QED
    BY <1>1, <1>4, <2>1, <2>2, <2>3, <2>4, <2>5 DEF OrderInv, Before
<1> QED
  BY <1>5, <1>6, <1>7 DEF SpillInv

-----------------------------------------------------------------------------
LEMMA SpillStays ==
  ASSUME SpillInv, UNCHANGED <<disk, made, live, replayed, replays, doubled>>,
         spill_bytes' \in Nat, open' \in {"none", open}
  PROVE  SpillInv'
<1>1. SpillTypes'
  BY DEF SpillInv, SpillTypes, Within
<1>2. ReplayTypes'
  BY DEF SpillInv, ReplayTypes
<1>3. ~doubled' => OrderInv'
  BY DEF SpillInv, OrderInv, Done, FilesInOrder, InOrder, Ordered, NoneOf, Before
<1> QED
  BY <1>1, <1>2, <1>3 DEF SpillInv

(* A restart ends every replay; one that has not removed what it read is   *)
(* noted.                                                                  *)
LEMMA RestartInv ==
  ASSUME SpillInv, Services!telemetry_batch_init PROVE SpillInv'
<1>1. /\ UNCHANGED <<made, disk, live, replayed>> /\ replays' = <<>> /\ spill_bytes' = 0
      /\ open' = "none" /\ doubled' = (doubled \/ \E r \in DOMAIN replays : replays[r].read)
  BY DEF Services!telemetry_batch_init
<1>2. SpillTypes'
  BY <1>1 DEF SpillInv, SpillTypes, Within
<1>3. ReplayTypes'
  BY <1>1 DEF SpillInv, ReplayTypes
<1>4. ASSUME ~doubled' PROVE OrderInv'
  <2>0. ~doubled /\ ~\E r \in DOMAIN replays : replays[r].read
    BY <1>1, <1>4, Zenon
  <2>1. ~doubled /\ Done = 0 /\ Done' = 0 /\ Len(replays') = 0
    BY <1>1, <2>0 DEF Done
  <2> QED
    BY <1>1, <2>1 DEF SpillInv, OrderInv, FilesInOrder, InOrder, Ordered, NoneOf, Before
<1> QED
  BY <1>2, <1>3, <1>4 DEF SpillInv

LEMMA Buckets ==
  ASSUME Services!ServicesAssumption, BucketTypes, BucketActions PROVE BucketTypes'
<1> USE DEF Services!telemetry_replay_spill, Services!Read, Services!Removed, Services!Ended
<1>1. points' \in 0..TELEMETRY_MAX_POINTS
  <2>1. points \in 0..TELEMETRY_MAX_POINTS /\ 0 \in 0..TELEMETRY_MAX_POINTS
        /\ 1 \in 0..TELEMETRY_MAX_POINTS
    BY Sizes DEF BucketTypes
  <2>2. points' \in {0, 1, points} \/ (points < TELEMETRY_MAX_POINTS /\ points' = points + 1)
    BY Zenon DEF BucketActions, Services!telemetry_batch_add_ts,
                 Services!telemetry_upload_loop, Services!telemetry_batch_stop,
       Services!telemetry_batch_set_network_available, Services!NetworkLost,
       Services!NetworkBack, Services!telemetry_batch_init
  <2> QED
    BY <2>1, <2>2, Sizes
<1>2. available' \in BOOLEAN /\ dated' \in BOOLEAN
  BY Zenon DEF BucketTypes, BucketActions, Services!telemetry_batch_add_ts,
               Services!telemetry_upload_loop, Services!telemetry_batch_stop,
     Services!telemetry_batch_set_network_available, Services!NetworkLost,
     Services!NetworkBack, Services!telemetry_batch_init
<1> QED
  BY <1>1, <1>2 DEF BucketTypes

LEMMA Spills ==
  ASSUME Services!ServicesAssumption, SpillInv, BucketActions PROVE SpillInv'
<1>0. spill_bytes \in Nat /\ 0 \in Nat
  BY DEF SpillInv, SpillTypes
<1>1. CASE Services!telemetry_batch_add_ts
  BY <1>0, <1>1, Flushed, SpillStays DEF Services!telemetry_batch_add_ts
<1>2. CASE Services!telemetry_upload_loop
  BY <1>2, Flushed DEF Services!telemetry_upload_loop
<1>3. CASE Services!telemetry_batch_stop
  BY <1>0, <1>3, Flushed, SpillStays DEF Services!telemetry_batch_stop
<1>4. CASE Services!telemetry_batch_set_network_available
  BY <1>0, <1>4, BackInv, SpillStays
     DEF Services!telemetry_batch_set_network_available, Services!NetworkLost
<1>5. CASE Services!telemetry_replay_spill
  BY <1>5, ReadInv, RemovedInv, EndedInv DEF Services!telemetry_replay_spill
<1>6. CASE Services!telemetry_batch_init
  BY <1>6, RestartInv
<1> QED
  BY <1>1, <1>2, <1>3, <1>4, <1>5, <1>6 DEF BucketActions

LEMMA Shadow ==
  ASSUME Services!ServicesAssumption, ShadowTypes, Services!ShadowNext PROVE ShadowTypes'
<1> USE DEF ShadowTypes
<1>1. CASE Services!device_shadow_update
  BY <1>1, Sizes DEF Services!device_shadow_update
<1>2. CASE Services!shadow_on_cloud_msg
  <2>1. commands' \in 0..MaxCommands
    BY <1>2, Sizes DEF Services!shadow_on_cloud_msg
  <2>2. shadow_pc' \in [Services!Reporter -> {"idle", "report", "built", "publish"}]
    BY <1>2 DEF Services!shadow_on_cloud_msg
  <2> QED
    BY <1>2, <2>1, <2>2, Zenon DEF Services!shadow_on_cloud_msg
<1>4. CASE Services!shadow_report_thread
  BY <1>4 DEF Services!shadow_report_thread
<1>3. ASSUME NEW t \in Services!Reporter, Services!device_shadow_report(t) PROVE ShadowTypes'
  BY <1>3 DEF Services!device_shadow_report, Services!shadow_build_reported_json,
              Services!MarkClean, Services!Published, Services!NotPublished
<1> QED
  BY <1>1, <1>2, <1>3, <1>4 DEF Services!ShadowNext

LEMMA ServicesGoOn == ASSUME Services!ServicesAssumption, ServicesInv, [Services!Next]_(Services!vars) PROVE ServicesInv'
<1>1. CASE Services!TelNext
  BY <1>1, Buckets, Spills
     DEF Services!TelNext, BucketActions, Services!shadowvars, ServicesInv, ShadowTypes
<1>2. CASE Services!ShadowNext \/ UNCHANGED Services!vars
  <2>1. UNCHANGED Services!telvars
    BY <1>2 DEF Services!ShadowNext, Services!vars
  <2>2. SpillInv' /\ BucketTypes'
    <3>1. spill_bytes \in Nat
      BY DEF ServicesInv, SpillInv, SpillTypes
    <3> QED
      BY <2>1, <3>1, SpillStays DEF Services!telvars, ServicesInv, BucketTypes
  <2>3. ShadowTypes'
    BY <1>2, Shadow DEF ServicesInv, ShadowTypes, Services!vars, Services!shadowvars
  <2> QED
    BY <2>2, <2>3 DEF ServicesInv
<1> QED
  BY <1>1, <1>2 DEF Services!Next

LEMMA ServicesHold == ASSUME Services!ServicesAssumption, ServicesInv PROVE Services!TypeOK /\ Services!ReplayedInOrder
<1>1. made \in 0..MaxBatches /\ MaxBatches \in Nat /\ live \in Seq(1..made) /\ replayed \in Seq(1..made)
      /\ disk \in Seq(Seq(Nat)) /\ Within(disk, made)
  BY Sizes DEF ServicesInv, SpillInv, SpillTypes
<1>2. live \in Seq(1..MaxBatches) /\ replayed \in Seq(1..MaxBatches)
  BY <1>1
<1>3. disk \in Seq(Seq(1..MaxBatches))
  <2>1. ASSUME NEW f \in DOMAIN disk PROVE disk[f] \in Seq(1..MaxBatches)
    <3>1. disk[f] \in Seq(Nat) /\ \A i \in DOMAIN disk[f] : disk[f][i] \in 1..MaxBatches
      BY <1>1 DEF Within
    <3> QED
      BY <3>1, Retyped
  <2> QED
    BY <1>1, <2>1
<1>4. Services!ReplayedInOrder
  BY DEF ServicesInv, SpillInv, OrderInv, FilesInOrder, InOrder, Services!ReplayedInOrder
<1>5. Services!TypeOK
  BY <1>1, <1>2, <1>3
     DEF ServicesInv, SpillInv, SpillTypes, ReplayTypes, BucketTypes, ShadowTypes,
         ReplaySet, Services!TypeOK
<1> QED
  BY <1>4, <1>5

-----------------------------------------------------------------------------
(* The bench.                                                              *)

Inv == LinkInv /\ SlotsInv /\ RoamInv /\ ClientInv /\ ServicesInv

LEMMA Setup ==
  /\ Link!ReconnectAssumption /\ Queues!PriorityAssumption /\ Radio!WirelessAssumption
  /\ Cloud!CloudAssumption /\ Services!ServicesAssumption
  BY SetupAssumption

LEMMA Starts == ASSUME Init PROVE Inv
  BY Setup, LinkStarts, QueuesStart, RoamStarts, ClientStarts, ServicesStart DEF Init, Inv

(* A step of the bench is a step of one of its parts and a stutter of the  *)
(* others.                                                                 *)
LEMMA Interleaved ==
  ASSUME [Next]_vars
  PROVE  /\ [Link!Next]_(Link!vars) /\ [Queues!Next]_(Queues!vars)
         /\ [Radio!Next]_(Radio!vars) /\ [Cloud!Next]_(Cloud!vars)
         /\ [Services!Next]_(Services!vars)
<1>1. /\ Link!Next \/ UNCHANGED linkvars
      /\ Queues!Next \/ UNCHANGED queuevars
      /\ Radio!Next \/ UNCHANGED radiovars
      /\ Cloud!Next \/ UNCHANGED cloudvars
      /\ \/ Services!TelNext \/ Services!ShadowNext
         \/ UNCHANGED telvars /\ UNCHANGED shadowvars
  BY DEF Next, Parked, vars
<1> QED
  BY <1>1 DEF linkvars, queuevars, radiovars, cloudvars, telvars, shadowvars, Link!vars,
     Queues!vars, Radio!vars, Radio!roamvars, Radio!ltevars, Cloud!vars, Cloud!client,
     Cloud!lengths, Services!vars, Services!telvars, Services!shadowvars, Services!Next

LEMMA GoesOn == ASSUME Inv, [Next]_vars PROVE Inv'
  BY Setup, Interleaved, LinkGoesOn, QueuesGoOn, RoamGoesOn, ClientGoesOn, ServicesGoOn
     DEF Inv

LEMMA Holds == ASSUME Inv PROVE TypeOK /\ SessionsHold
<1>1. Link!TypeOK /\ Link!ConnectedMeansHeard
  BY Setup, LinkHolds DEF Inv, LinkInv
<1>2. Queues!TypeOK /\ Queues!SlotsInTime
  BY Setup, QueuesHold DEF Inv
<1>3. Radio!TypeOK
  BY DEF Inv, RoamInv
<1>4. Cloud!TypeOK /\ Cloud!ConnectedIsRead /\ Cloud!ReconnectRestores /\ Cloud!StaysInStep
  BY ClientHolds DEF Inv
<1>5. Services!TypeOK /\ Services!ReplayedInOrder
  BY Setup, ServicesHold DEF Inv
<1> QED
  BY <1>1, <1>2, <1>3, <1>4, <1>5 DEF TypeOK, SessionsHold

LEMMA Always == Spec => []Inv
  BY Starts, GoesOn, PTL DEF Spec

(* Every variable of the connections stays in its type.                    *)
THEOREM NetTyped == Spec => []TypeOK
<1>1. Inv => TypeOK
  BY Holds
<1> QED
  BY Always, <1>1, PTL

(* A link that is reported as connected had a sign of the peer within the  *)
(* time of the acknowledge and of one late poll, over the wrap of its      *)
(* clock; until the clock of the queues comes close to its wrap, LOW       *)
(* frames get their slot in time and at most one goes before a waiting     *)
(* HIGH one; a client that says it is connected is read, has its topics    *)
(* again and, until a packet comes to who waits for a SUBACK, is read from *)
(* the place where a packet starts; and kept measurements are uploaded     *)
(* once and in the order in which they were made, over outages, losses in  *)
(* the middle of a replay and restarts, until two threads replay at once   *)
(* or a restart comes between the reading of a file and its removal.       *)
THEOREM SessionsAlwaysHold == Spec => []SessionsHold
<1>1. Inv => SessionsHold
  BY Holds
<1> QED
  BY Always, <1>1, PTL

(* The access point is changed only after the signal was weak for the      *)
(* trigger time and the interval of the scan, and never again before the   *)
(* last change has settled: every step of the bench that reassociates.     *)
THEOREM RoamsOnlyWhenWeak == Spec => [][setup = "radio" => Radio!RoamsAfterWeakPhase]_vars
<1>1. Inv /\ [Next]_vars => Radio!RoamsAfterWeakPhase
  BY Setup, Interleaved, RoamsDuly DEF Inv
<1>2. Inv /\ [Next]_vars => [setup = "radio" => Radio!RoamsAfterWeakPhase]_vars
  BY <1>1
<1> QED
  BY Always, <1>2, PTL DEF Spec
=============================================================================
