-------------------------------- MODULE Qos --------------------------------
(***************************************************************************)
(* The reliable layer over the UART, l2_rk3566/src/comm/qos_retransmit.c:  *)
(* two endpoints that run the same code over a line that loses frames.     *)
(* A frame is also lost when decode_frame rejects it; its CRC check reads  *)
(* two bytes encode_frame never wrote, so any frame may be rejected.       *)
(***************************************************************************)
EXTENDS Integers, Sequences, FiniteSets

CONSTANTS
  Node,        \* the two endpoints
  Sender,      \* those that call qos_send
  Window,      \* QOS_WINDOW_SIZE, also QOS_MAX_OUTSTANDING (4)
  SeqCount,    \* number of sequence numbers (2^16)
  MaxRetries,  \* QOS_MAX_RETRIES (5)
  Rto,         \* QOS_RTO_MS in ticks of the model's clock
  Setup,       \* what may surround the two, see Surroundings
  MaxSends     \* bound: calls of qos_send in any set-up

(* The line and the bounds of a set-up.                                    *)
Surroundings == [
  cap      : Nat \ {0}, \* frames the line holds; one that finds it full is lost
  sends    : 0..MaxSends, \* bound: calls of qos_send that take a number
  losses   : Nat,       \* bound: frames lost or rejected
  restarts : Nat,       \* bound: calls of qos_init after the first
  nomem    : Nat,       \* bound: failures of malloc in qos_send
  polls    : BOOLEAN]   \* a peer uses the POLL and RESEND frames

(* No end restarts or runs out of memory, and both run this code.          *)
IsCalm(s) == s.restarts = 0 /\ s.nomem = 0 /\ ~s.polls

(* The numbers do not wrap in a set-up that is not calm.                   *)
QosAssumption ==
  /\ \E c, d \in Node : c # d /\ Node = {c, d}
  /\ Sender \subseteq Node /\ Sender # {}
  /\ Window \in Nat \ {0} /\ SeqCount \in Nat /\ 4 * Window <= SeqCount
  /\ SeqCount % 2 = 0
  /\ MaxRetries \in Nat /\ Rto \in Nat \ {0} /\ MaxSends \in Nat
  /\ Setup \subseteq Surroundings
  /\ \A s \in Setup : IsCalm(s) \/ s.sends + s.nomem < SeqCount

ASSUME QosHolds == QosAssumption

Slots == 1..Window
Free  == [used |-> FALSE, seq |-> 0, data |-> 0, retries |-> 0, age |-> 0]

VARIABLES
  setup,                              \* the surroundings, chosen at the start
  initialized,                        \* between qos_init and qos_shutdown
  next_seq, window, outstanding,      \* send state of each endpoint
  expected_seq, last_acked_seq,       \* its receive state
  line,                               \* line[n]: frames on their way to n
  accepted, delivered,                \* history: payloads taken, handed over
  acked, dropped,                     \* history: payloads freed, and how
  losses, restarts, nomem             \* counted against the bounds

sendvars == <<initialized, next_seq, window, outstanding>>
recvvars == <<expected_seq, last_acked_seq>>
history  == <<accepted, delivered, acked, dropped>>
bounds   == <<losses, restarts, nomem>>
vars     == <<setup, sendvars, recvvars, line, history, bounds>>

Peer(n) == CHOOSE p \in Node : p # n

Init ==
  /\ setup \in Setup
  /\ initialized = [n \in Node |-> TRUE]
  /\ next_seq = [n \in Node |-> 0]
  /\ window = [n \in Node |-> [i \in Slots |-> Free]]
  /\ outstanding = [n \in Node |-> 0]
  /\ expected_seq = [n \in Node |-> 0]
  /\ last_acked_seq = [n \in Node |-> 0]
  /\ line = [n \in Node |-> <<>>]
  /\ accepted = [n \in Node |-> <<>>] /\ delivered = [n \in Node |-> <<>>]
  /\ acked = [n \in Node |-> {}] /\ dropped = [n \in Node |-> {}]
  /\ losses = 0 /\ restarts = 0 /\ nomem = 0

-----------------------------------------------------------------------------
(* Sequence numbers: the code compares (int16_t)(a - b) with 0.            *)

\* Mutant: a plain comparison, as if numbers never wrapped.
SeqLt_m(a, b) == a < b

SeqLt(a, b) == (a - b) % SeqCount >= SeqCount \div 2

SeqLeq(a, b) == a = b \/ SeqLt(a, b)

Frame(kind, seq, data) == [kind |-> kind, seq |-> seq, data |-> data]

(* send_raw: what fits on the line goes out, the rest is lost.             *)
Sent(n, frames) ==
  LET q == line[Peer(n)] \o frames
  IN  SubSeq(q, 1, IF Len(q) < setup.cap THEN Len(q) ELSE setup.cap)

send_raw(n, frames) == line' = [line EXCEPT ![Peer(n)] = Sent(n, frames)]

DataFrame(s) == Frame("data", s.seq, s.data)

-----------------------------------------------------------------------------
(* Sending.                                                                *)

FreeSlots(n) == {i \in Slots : ~window[n][i].used}
UsedSlots(n) == Slots \ FreeSlots(n)

\* Mutant: freed slots are not counted.
Remaining_m(n, freed) == outstanding[n]

(* window_free, for each of a set of slots.                                *)
Remaining(n, freed) == outstanding[n] - Cardinality(freed)

WindowFull(n) == outstanding[n] >= Window

qos_send(n) ==
  /\ initialized[n] /\ n \in Sender /\ Len(accepted[n]) < setup.sends
  /\ ~WindowFull(n) /\ FreeSlots(n) # {}
  /\ next_seq' = [next_seq EXCEPT ![n] = (@ + 1) % SeqCount]
  /\ UNCHANGED initialized
  /\ LET slot == CHOOSE i \in FreeSlots(n) : \A j \in FreeSlots(n) : i <= j
         s == [used |-> TRUE, seq |-> next_seq[n], data |-> Len(accepted[n]) + 1,
               retries |-> 0, age |-> 0]
     IN \/ /\ window' = [window EXCEPT ![n][slot] = s]
           /\ outstanding' = [outstanding EXCEPT ![n] = @ + 1]
           /\ accepted' = [accepted EXCEPT ![n] = Append(@, s.data)]
           /\ send_raw(n, <<DataFrame(s)>>)
           /\ UNCHANGED nomem
        \/ /\ nomem < setup.nomem           \* -ENOMEM: the number is gone
           /\ nomem' = nomem + 1
           /\ UNCHANGED <<window, outstanding, accepted, line>>
  /\ UNCHANGED <<recvvars, delivered, acked, dropped, losses, restarts>>

(* qos_poll: what is due is sent again or, out of retries, dropped.        *)
Due(n) == {i \in UsedSlots(n) : window[n][i].age >= Rto}

\* Mutant: one retry too many.
Exhausted_m(retries) == retries > MaxRetries + 1

Exhausted(retries) == retries > MaxRetries

\* Mutant: a frame sent again does not use up a retry.
Resent_m(s) == [s EXCEPT !.age = 0]

Resent(s) == [s EXCEPT !.retries = @ + 1, !.age = 0]

qos_poll(n) ==
  LET gone  == {i \in Due(n) : Exhausted(window[n][i].retries + 1)}
      again == Due(n) \ gone
  IN /\ initialized[n] /\ Due(n) # {}
     /\ window' = [window EXCEPT ![n] = [i \in Slots |->
          IF i \in gone THEN Free
          ELSE IF i \in again THEN Resent(@[i]) ELSE @[i]]]
     /\ outstanding' = [outstanding EXCEPT ![n] = Remaining(n, gone)]
     /\ dropped' = [dropped EXCEPT ![n] = @ \cup {window[n][i].data : i \in gone}]
     /\ \E order \in [1..Cardinality(again) -> again] :
          /\ \A j, k \in DOMAIN order : j < k => order[j] < order[k]
          /\ send_raw(n, [k \in DOMAIN order |-> DataFrame(window[n][order[k]])])
     /\ UNCHANGED <<initialized, next_seq, recvvars, accepted, delivered,
                    acked, bounds>>

(* Time passes for the retransmit timers.                                  *)
Tick ==
  /\ \E n \in Node : UsedSlots(n) \ Due(n) # {}
  /\ window' = [n \in Node |-> [i \in Slots |->
       IF window[n][i].used /\ window[n][i].age < Rto
       THEN [window[n][i] EXCEPT !.age = @ + 1] ELSE window[n][i]]]
  /\ UNCHANGED <<initialized, next_seq, outstanding, recvvars, line, history,
                 bounds>>

-----------------------------------------------------------------------------
(* Receiving: the branches of qos_recv on a frame that decodes.            *)

process_ack(n, seq) ==
  LET freed == {i \in UsedSlots(n) : SeqLeq(window[n][i].seq, seq)}
  IN /\ window' = [window EXCEPT ![n] = [i \in Slots |->
          IF i \in freed THEN Free ELSE @[i]]]
     /\ outstanding' = [outstanding EXCEPT ![n] = Remaining(n, freed)]
     /\ acked' = [acked EXCEPT ![n] = @ \cup {window[n][i].data : i \in freed}]
     /\ UNCHANGED <<initialized, next_seq, recvvars, accepted, delivered,
                    dropped>>

SlotsOf(n, seq) == {i \in UsedSlots(n) : window[n][i].seq = seq}

process_nack(n, seq) ==
  /\ \/ /\ SlotsOf(n, seq) = {}
        /\ UNCHANGED <<window, outstanding, dropped>>
     \/ \E i \in SlotsOf(n, seq) :
          IF Exhausted(window[n][i].retries + 1)
          THEN /\ window' = [window EXCEPT ![n][i] = Free]
               /\ outstanding' = [outstanding EXCEPT ![n] = Remaining(n, {i})]
               /\ dropped' = [dropped EXCEPT ![n] = @ \cup {window[n][i].data}]
          ELSE /\ window' = [window EXCEPT ![n][i] = Resent(@)]
               /\ UNCHANGED <<outstanding, dropped>>
  /\ UNCHANGED <<initialized, next_seq, recvvars, accepted, delivered, acked>>

(* Frames process_nack, POLL, RESEND and data frames are answered with.    *)
Duplicate(n, seq) == SeqLt(seq, expected_seq[n])

\* Mutant: whatever data arrives is acknowledged.
Answer_m(n, seq) == Frame("ack", seq, 0)

Answer(n, seq) ==
  IF seq = expected_seq[n] \/ Duplicate(n, seq)
  THEN Frame("ack", seq, 0)
  ELSE Frame("nack", expected_seq[n], 0)

Reply(n, f) ==
  CASE f.kind = "ack" -> <<>>
    [] f.kind \in {"nack", "resend"} ->
         LET live == {i \in SlotsOf(n, f.seq) :
                f.kind = "nack" => ~Exhausted(window[n][i].retries + 1)}
         IN  [k \in 1..Cardinality(live) |->
                DataFrame(window[n][CHOOSE i \in live : TRUE])]
    [] f.kind = "poll" -> <<Frame("ack", last_acked_seq[n], 0)>>
    [] f.kind = "data" -> <<Answer(n, f.seq)>>

\* Mutant: whatever is no duplicate is delivered.
InSequence_m(n, seq) == ~Duplicate(n, seq)

InSequence(n, seq) == seq = expected_seq[n]

recv_data(n, f) ==
  /\ IF InSequence(n, f.seq)
     THEN /\ expected_seq' = [expected_seq EXCEPT ![n] = (f.seq + 1) % SeqCount]
          /\ last_acked_seq' = [last_acked_seq EXCEPT ![n] = f.seq]
          /\ delivered' = [delivered EXCEPT ![n] = Append(@, f.data)]
     ELSE UNCHANGED <<recvvars, delivered>>
  /\ UNCHANGED <<sendvars, accepted, acked, dropped>>

qos_recv(n) ==
  /\ initialized[n] /\ line[n] # <<>>
  /\ LET f == Head(line[n])
     IN /\ line' = [line EXCEPT ![n] = Tail(@), ![Peer(n)] = Sent(n, Reply(n, f))]
        /\ CASE f.kind = "ack"  -> process_ack(n, f.seq)
             [] f.kind = "nack" -> process_nack(n, f.seq)
             [] f.kind \in {"poll", "resend"} -> UNCHANGED <<sendvars, recvvars, history>>
             [] f.kind = "data" -> recv_data(n, f)
  /\ UNCHANGED bounds

(* A frame lost on the line, or rejected by decode_frame.                  *)
Lose(n) ==
  /\ line[n] # <<>> /\ losses < setup.losses
  /\ line' = [line EXCEPT ![n] = Tail(@)]
  /\ losses' = losses + 1
  /\ UNCHANGED <<sendvars, recvvars, history, restarts, nomem>>

(* Frames only a peer with another implementation sends.                   *)
PeerRequest(n) ==
  /\ setup.polls /\ losses < setup.losses
  /\ \E f \in {Frame("poll", 0, 0)} \cup
             {Frame("resend", s, 0) : s \in 0..(SeqCount - 1)} :
       line' = [line EXCEPT ![n] = Sent(Peer(n), <<f>>)]
  /\ losses' = losses + 1
  /\ UNCHANGED <<sendvars, recvvars, history, restarts, nomem>>

(* qos_shutdown frees every slot, the unused ones too: outstanding falls   *)
(* below zero until the next qos_init.                                     *)
Freed(n) == {window[n][i].data : i \in UsedSlots(n)}

qos_shutdown(n) ==
  /\ initialized[n] /\ restarts < setup.restarts
  /\ initialized' = [initialized EXCEPT ![n] = FALSE]
  /\ window' = [window EXCEPT ![n] = [i \in Slots |-> Free]]
  /\ outstanding' = [outstanding EXCEPT ![n] = @ - Window]
  /\ dropped' = [dropped EXCEPT ![n] = @ \cup Freed(n)]
  /\ UNCHANGED <<next_seq, recvvars, line, accepted, delivered, acked, bounds>>

(* After a shutdown or a crash of the process.                             *)
qos_init(n) ==
  /\ restarts < setup.restarts
  /\ initialized' = [initialized EXCEPT ![n] = TRUE]
  /\ next_seq' = [next_seq EXCEPT ![n] = 0]
  /\ window' = [window EXCEPT ![n] = [i \in Slots |-> Free]]
  /\ outstanding' = [outstanding EXCEPT ![n] = 0]
  /\ expected_seq' = [expected_seq EXCEPT ![n] = 0]
  /\ last_acked_seq' = [last_acked_seq EXCEPT ![n] = 0]
  /\ dropped' = [dropped EXCEPT ![n] = @ \cup Freed(n)]
  /\ restarts' = restarts + 1
  /\ UNCHANGED <<line, accepted, delivered, acked, losses, nomem>>

Step(n) ==
  \/ qos_send(n) \/ qos_poll(n) \/ qos_recv(n)
  \/ Lose(n) \/ PeerRequest(n)
  \/ qos_shutdown(n) \/ qos_init(n)

Next == UNCHANGED setup /\ (Tick \/ \E n \in Node : Step(n))

(* qos_poll is called at least every 50 ms, the receiver keeps calling     *)
(* qos_recv and the line keeps moving.                                     *)
Fairness ==
  /\ WF_vars(UNCHANGED setup /\ Tick)
  /\ \A n \in Node : /\ WF_vars(UNCHANGED setup /\ qos_poll(n))
                     /\ WF_vars(UNCHANGED setup /\ qos_recv(n))

Spec == Init /\ [][Next]_vars /\ Fairness

(* Bound: a calm set-up in which the numbers come round ends when a frame  *)
(* is given up.                                                            *)
Wraps == 2 * setup.sends > SeqCount
NothingGivenUp == IsCalm(setup) /\ Wraps => \A n \in Node : dropped[n] = {}

-----------------------------------------------------------------------------
(* Properties.                                                             *)

(* Every variable stays in its type, and the line within its capacity.     *)
TypeOK ==
  /\ setup \in Setup
  /\ \A n \in Node :
       /\ next_seq[n] \in 0..(SeqCount - 1)
       /\ expected_seq[n] \in 0..(SeqCount - 1)
       /\ last_acked_seq[n] \in 0..(SeqCount - 1)
       /\ \A i \in Slots : /\ window[n][i].seq \in 0..(SeqCount - 1)
                           /\ window[n][i].retries \in 0..MaxRetries
                           /\ window[n][i].age \in 0..Rto
       /\ Len(line[n]) <= setup.cap

(* The counter qos_send tests and the slots it allocates never disagree,   *)
(* through acks, retries, drops and restarts, and no two slots hold the    *)
(* same sequence number.                                                   *)
WindowAccounting ==
  \A n \in Node :
    /\ initialized[n] => outstanding[n] = Cardinality(UsedSlots(n))
    /\ \A i, j \in UsedSlots(n) :
         window[n][i].seq = window[n][j].seq => i = j

(* A payload freed by an ACK has been handed over at the other end.        *)
HandedOver(n) == {delivered[n][i] : i \in DOMAIN delivered[n]}
AckedDelivered == \A n \in Node : acked[n] \subseteq HandedOver(Peer(n))

(* The counter qos_send tests and the used slots agree, in every set-up,   *)
(* through restarts and shutdowns, and no number is in use twice.  And a   *)
(* payload freed by an ACK has been handed over, also when the numbers     *)
(* wrap (after a restart, or with a peer that polls too early, this code   *)
(* does not keep that).                                                    *)
WindowIsSound == WindowAccounting /\ (IsCalm(setup) => AckedDelivered)

(* The window never stays occupied for ever: each frame is acknowledged or *)
(* dropped after its retries, so that qos_flush ends, whatever was lost,   *)
(* restarted or not allocated.                                             *)
Flushes == \A n \in Sender : []<>(outstanding[n] = 0 \/ ~initialized[n])

(* The layer implements the FIFO that qos_retransmit.c:3 promises, in      *)
(* order, nothing twice, nothing skipped, in every calm set-up.            *)
Client == CHOOSE n \in Sender : TRUE
Fifo == INSTANCE ReliableFifo
  WITH Message <- 1..MaxSends,
       accepted <- IF IsCalm(setup) THEN accepted[Client] ELSE <<>>,
       delivered <- IF IsCalm(setup) THEN delivered[Peer(Client)] ELSE <<>>
ImplementsFifo == Fifo!Spec
=============================================================================
