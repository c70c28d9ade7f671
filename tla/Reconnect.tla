----------------------------- MODULE Reconnect ------------------------------
(***************************************************************************)
(* The connection manager of l2_rk3566/src/comm/reconnect.c: silence of    *)
(* the peer, the wait before an attempt, the SYNC frame and its answer.    *)
(* Instants that are subtracted are kept as ages; the end of the wait is   *)
(* compared with a clock that wraps.  The peer is external: it may fall    *)
(* silent, and answers in any order or not at all.                         *)
(***************************************************************************)
EXTENDS Integers, Sequences

CONSTANTS
  ACK_TIMEOUT, SYNC_TIMEOUT,  \* RECONNECT_ACK_TIMEOUT_MS; the 2000 ms of recon_poll
  Backoff,                    \* g_backoff_schedule
  ClockMod,                   \* the clock wraps to 0 there; 2^32 ms in the code
  MaxGap                      \* bound: clock ticks between two polls

ReconnectAssumption ==
  /\ {ACK_TIMEOUT, SYNC_TIMEOUT, MaxGap} \subseteq Nat \ {0}
  /\ Backoff \in Seq(Nat \ {0}) /\ Len(Backoff) > 0
  /\ ClockMod \in Nat /\ \A i \in DOMAIN Backoff : Backoff[i] < ClockMod

VARIABLES
  link,           \* g_recon.state
  ack_age,        \* time since g_recon.last_ack_ms
  backoff_step,   \* index of Backoff, from 1
  clock,          \* what recon_get_ms returns
  next_reconnect, \* g_recon.next_reconnect_ms
  sync_pending,
  sync_start,     \* age of the static of recon_poll; -1 stands for its 0
  answers,        \* has the peer a SYNC of ours that it may answer?
  peer,           \* is the peer there?
  silence,        \* history: time since anything came from the peer
  gap             \* ticks since the last poll

vars == <<link, ack_age, backoff_step, clock, next_reconnect, sync_pending, sync_start,
          answers, peer, silence, gap>>

Links == {"CONNECTED", "DISCONNECTED", "RECONNECTING", "SYNCING"}
AgeMax == ACK_TIMEOUT + SYNC_TIMEOUT + 4 * MaxGap
Older(n) == IF n < AgeMax THEN n + 1 ELSE n

(* recon_init.                                                             *)
Init ==
  /\ link = "CONNECTED" /\ ack_age = 0 /\ backoff_step = 1
  /\ clock = 0 /\ next_reconnect = 0
  /\ sync_pending = FALSE /\ sync_start = -1 /\ answers = FALSE
  /\ peer = TRUE /\ silence = 0 /\ gap = 0

In(delay) == (clock + delay) % ClockMod
Stepped(n) == IF n < Len(Backoff) THEN n + 1 ELSE n

enter_disconnected ==
  /\ link' = "DISCONNECTED" /\ backoff_step' = 1 /\ next_reconnect' = In(Backoff[1])

enter_reconnecting ==
  /\ link' = "RECONNECTING" /\ next_reconnect' = In(Backoff[backoff_step])
  /\ backoff_step' = Stepped(backoff_step)

enter_connected == link' = "CONNECTED" /\ ack_age' = 0 /\ backoff_step' = 1

-----------------------------------------------------------------------------
(* What the peer sends.                                                    *)

(* recon_on_ack, recon_on_data_received, recon_mark_connected: each ends   *)
(* every state but CONNECTED, whatever was asked of the peer.              *)
recon_on_ack ==
  /\ peer /\ silence' = 0 /\ ack_age' = 0
  /\ IF link = "CONNECTED" THEN UNCHANGED <<link, backoff_step>> ELSE enter_connected
  /\ UNCHANGED <<clock, next_reconnect, sync_pending, sync_start, answers, peer, gap>>

(* recon_process_sync: only a flag, which the next poll looks at.          *)
recon_process_sync ==
  /\ peer /\ answers /\ answers' = FALSE /\ silence' = 0
  /\ sync_pending' = FALSE
  /\ UNCHANGED <<link, ack_age, backoff_step, clock, next_reconnect, sync_start, peer, gap>>

(* recon_mark_disconnected, called by the transport.                       *)
recon_mark_disconnected ==
  /\ link # "DISCONNECTED" /\ enter_disconnected
  /\ UNCHANGED <<ack_age, clock, sync_pending, sync_start, answers, peer, silence, gap>>

(* The peer goes, with what it had to answer, and comes back.              *)
PeerChanges == /\ peer' = ~peer /\ answers' = FALSE
               /\ UNCHANGED <<link, ack_age, backoff_step, clock, next_reconnect,
                              sync_pending, sync_start, silence, gap>>

-----------------------------------------------------------------------------
(* recon_poll, one disjunct per state.                                     *)

(* Mutant: the link is not given up.                                       *)
PollConnected_m == link = "CONNECTED"
                   /\ UNCHANGED <<link, ack_age, backoff_step, next_reconnect,
                                  sync_pending, sync_start, answers>>

PollConnected ==
  /\ link = "CONNECTED"
  /\ IF ack_age >= ACK_TIMEOUT THEN enter_disconnected
     ELSE UNCHANGED <<link, backoff_step, next_reconnect>>
  /\ UNCHANGED <<ack_age, sync_pending, sync_start, answers>>

(* The two times are compared as numbers, whatever the wrap did to them:   *)
(* the wait may end early, or go on until the clock is there once more.    *)
PollDisconnected ==
  /\ link = "DISCONNECTED"
  /\ IF clock >= next_reconnect THEN enter_reconnecting
     ELSE UNCHANGED <<link, backoff_step, next_reconnect>>
  /\ UNCHANGED <<ack_age, sync_pending, sync_start, answers>>

(* The wait is set anew but not looked at: the SYNC goes out at once.      *)
PollReconnecting ==
  /\ link = "RECONNECTING"
  /\ \/ /\ link' = "SYNCING" /\ sync_pending' = TRUE /\ answers' = peer
        /\ UNCHANGED <<backoff_step, next_reconnect>>
     \/ /\ next_reconnect' = In(Backoff[backoff_step]) /\ backoff_step' = Stepped(backoff_step)
        /\ UNCHANGED <<link, sync_pending, answers>>     \* send_fn failed
  /\ UNCHANGED <<ack_age, sync_start>>

(* Mutant: the answer does not end the state.                              *)
PollSyncing_m ==
  /\ link = "SYNCING"
  /\ sync_start' = IF sync_start = -1 THEN 0 ELSE sync_start
  /\ UNCHANGED <<link, ack_age, backoff_step, next_reconnect, sync_pending, answers>>

(* The time-out goes on to the test of the answer, in the same call; a     *)
(* start at clock 0 looks like none and is taken anew.                     *)
PollSyncing ==
  LET started == IF sync_start = -1 THEN 0 ELSE sync_start
      over == started > SYNC_TIMEOUT
  IN  /\ link = "SYNCING"
      /\ \/ ~sync_pending /\ enter_connected /\ sync_start' = -1
            /\ next_reconnect' = IF over THEN In(Backoff[backoff_step]) ELSE next_reconnect
         \/ sync_pending /\ over /\ enter_reconnecting /\ sync_start' = -1
            /\ UNCHANGED ack_age
         \/ /\ sync_pending /\ ~over
            /\ sync_start' = IF sync_start = -1 /\ clock = 0 THEN -1 ELSE started
            /\ UNCHANGED <<link, ack_age, backoff_step, next_reconnect>>
      /\ UNCHANGED <<sync_pending, answers>>

recon_poll ==
  /\ gap' = 0 /\ UNCHANGED <<clock, peer, silence>>
  /\ PollConnected \/ PollDisconnected \/ PollReconnecting \/ PollSyncing

Tick ==
  /\ gap < MaxGap /\ gap' = gap + 1
  /\ ack_age' = Older(ack_age) /\ silence' = Older(silence)
  /\ clock' = (clock + 1) % ClockMod
  /\ sync_start' = IF sync_start = -1 THEN -1 ELSE Older(sync_start)
  /\ UNCHANGED <<link, backoff_step, next_reconnect, sync_pending, answers, peer>>

Next == \/ recon_on_ack \/ recon_process_sync \/ recon_mark_disconnected \/ PeerChanges
        \/ recon_poll \/ Tick

(* The main loop polls, time passes; a line that is tried again and again  *)
(* takes a SYNC, and a peer that stays sometimes answers in time.          *)
Fairness == /\ WF_vars(recon_poll) /\ WF_vars(Tick)
            /\ SF_vars(link = "RECONNECTING" /\ recon_poll /\ link' = "SYNCING")
            /\ SF_vars(link = "SYNCING" /\ recon_process_sync)

Spec == Init /\ [][Next]_vars /\ Fairness
-----------------------------------------------------------------------------
TypeOK ==
  /\ link \in Links /\ ack_age \in 0..AgeMax /\ backoff_step \in DOMAIN Backoff
  /\ clock \in 0..ClockMod - 1 /\ next_reconnect \in 0..ClockMod - 1
  /\ sync_pending \in BOOLEAN /\ sync_start \in -1..AgeMax
  /\ answers \in BOOLEAN /\ peer \in BOOLEAN /\ silence \in 0..AgeMax /\ gap \in 0..MaxGap

(* A link that recon_is_connected reports had a sign of the peer not long  *)
(* ago: at most the time-out, the wait for the poll that notices it, and   *)
(* the wait for the poll that made an answer count.                        *)
ConnectedMeansHeard == link = "CONNECTED" => silence <= ACK_TIMEOUT + 2 * MaxGap

(* Once the peer stays and the transport no longer gives the link up, it   *)
(* is connected again and again, through time-outs of either side, answers *)
(* that come late and waits that the wrap of the clock makes longer; only  *)
(* the last tick before the wrap must not pass without a poll each time.   *)
LinkComesBack ==
  <>[][/\ peer' = peer /\ peer /\ ~recon_mark_disconnected
       /\ clock' < clock => gap = 0]_vars => []<>(link = "CONNECTED")
=============================================================================
