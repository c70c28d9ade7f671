----------------------------- MODULE Qos_proofs -----------------------------
(***************************************************************************)
(* Proofs about the reliable UART layer, for every window, every number of *)
(* sequence numbers that is four windows or more, every limit of retries   *)
(* and all surroundings of the assumption of Qos: its types, that the      *)
(* window is sound, and that calm ends implement ReliableFifo.             *)
(*                                                                         *)
(* The numbers are compared as signed differences, which says something    *)
(* only of numbers less than half of them apart.  Most of what follows is  *)
(* about how far apart those can be that the code compares: the window     *)
(* bounds it for what is in use, and because the line keeps its order, a   *)
(* frame still under way is less than a window behind what came after it.  *)
(***************************************************************************)
EXTENDS Qos, FiniteSetTheorems, WellFoundedInduction, TLAPS

(* Division of integers, as the rest of this module needs it: what a       *)
(* number is, and which quotient and remainder it has.                     *)
LEMMA DivMod ==
  ASSUME NEW M \in Nat \ {0}, NEW x \in Int
  PROVE  /\ x % M \in 0..M-1
         /\ x \div M \in Int
         /\ x = M * (x \div M) + (x % M)
  BY SMT

LEMMA Unique ==
  ASSUME NEW M \in Nat \ {0}, NEW q \in Int, NEW r \in 0..M-1, NEW x \in Int, x = M * q + r
  PROVE  x % M = r
<1> DEFINE p == x \div M
<1> DEFINE t == x % M
<1>1. p \in Int /\ t \in 0..M-1 /\ x = M * p + t
  BY DivMod
<1> HIDE DEF p, t
<1>2. M * (p - q) = r - t
  BY <1>1
<1>3. p = q
  <2>1. ASSUME p > q PROVE FALSE
    <3>1. p - q >= 1 BY <2>1, <1>1
    <3>2. M * (p - q) >= M BY <3>1, <1>1
    <3> QED BY <3>2, <1>2, <1>1
  <2>2. ASSUME p < q PROVE FALSE
    <3>1. q - p >= 1 BY <2>2, <1>1
    <3>2. M * (q - p) >= M BY <3>1, <1>1
    <3>3. M * (q - p) = t - r BY <1>2, <1>1
    <3> QED BY <3>2, <3>3, <1>1
  <2> QED BY <2>1, <2>2, <1>1
<1> QED BY <1>1, <1>2, <1>3 DEF t

(* A remainder of a number less than one turn away.                        *)
LEMMA Small ==
  ASSUME NEW M \in Nat \ {0}, NEW x \in Int
  PROVE  /\ 0 <= x /\ x < M => x % M = x
         /\ -M <= x /\ x < 0 => x % M = x + M
         /\ M <= x /\ x < 2 * M => x % M = x - M
<1>1. ASSUME 0 <= x, x < M PROVE x % M = x
  <2>1. x \in 0..M-1 /\ x = M * 0 + x BY <1>1
  <2> QED BY <2>1, Unique
<1>2. ASSUME -M <= x, x < 0 PROVE x % M = x + M
  <2>1. x + M \in 0..M-1 /\ x = M * (-1) + (x + M) BY <1>2
  <2> QED BY <2>1, Unique
<1>3. ASSUME M <= x, x < 2 * M PROVE x % M = x - M
  <2>1. x - M \in 0..M-1 /\ x = M * 1 + (x - M) BY <1>3
  <2> QED BY <2>1, Unique
<1> QED BY <1>1, <1>2, <1>3

(* The next number may be counted before or after the turn is taken off.   *)
LEMMA Succession ==
  ASSUME NEW M \in Nat \ {0}, NEW x \in Int
  PROVE  ((x % M) + 1) % M = (x + 1) % M
<1> DEFINE p == x \div M
<1> DEFINE t == x % M
<1>1. p \in Int /\ t \in 0..M-1 /\ x = M * p + t
  BY DivMod
<1> HIDE DEF p, t
<1>2. CASE t + 1 < M
  <2>0. t + 1 \in Int /\ 0 <= t + 1 BY <1>1
  <2>1. (t + 1) % M = t + 1 BY <2>0, <1>2, Small
  <2>2. t + 1 \in 0..M-1 /\ x + 1 = M * p + (t + 1) BY <1>1, <1>2
  <2>3. (x + 1) % M = t + 1 BY <2>2, <1>1, Unique
  <2> QED BY <2>1, <2>3 DEF t
<1>3. CASE t + 1 = M
  <2>1. (t + 1) % M = 0 BY <1>1, <1>3, Small
  <2>2. M * (p + 1) = M * p + M BY <1>1
  <2>3. p + 1 \in Int /\ 0 \in 0..M-1 /\ x + 1 = M * (p + 1) + 0 BY <2>2, <1>1, <1>3
  <2>4. (x + 1) % M = 0 BY <2>3, <1>1, Unique
  <2> QED BY <2>1, <2>4 DEF t
<1> QED BY <1>1, <1>2, <1>3

(* The types: of a slot, of a frame, and of all variables.                 *)
Slot == [used : BOOLEAN, seq : 0..SeqCount-1, data : Nat, retries : 0..MaxRetries, age : 0..Rto]
Frames == [kind : {"data", "ack", "nack", "poll", "resend"}, seq : 0..SeqCount-1, data : Nat]

Typed ==
  /\ setup \in Setup
  /\ initialized \in [Node -> BOOLEAN]
  /\ next_seq \in [Node -> 0..SeqCount-1]
  /\ expected_seq \in [Node -> 0..SeqCount-1]
  /\ last_acked_seq \in [Node -> 0..SeqCount-1]
  /\ window \in [Node -> [Slots -> Slot]]
  /\ outstanding \in [Node -> Int]
  /\ line \in [Node -> Seq(Frames)]
  /\ \A n \in Node : Len(line[n]) <= setup.cap
  /\ accepted \in [Node -> Seq(Nat)] /\ delivered \in [Node -> Seq(Nat)]
  /\ acked \in [Node -> SUBSET Nat] /\ dropped \in [Node -> SUBSET Nat]
  /\ losses \in Nat /\ restarts \in Nat /\ nomem \in Nat

(* What the assumptions say of the constants.                              *)
LEMMA Numbers ==
  /\ Window \in Nat \ {0} /\ SeqCount \in Nat \ {0} /\ 4 * Window <= SeqCount
  /\ SeqCount % 2 = 0 /\ MaxRetries \in Nat /\ Rto \in Nat \ {0} /\ MaxSends \in Nat
  BY QosHolds DEF QosAssumption

(* The signed comparison is right as long as its two numbers are less than *)
(* half a turn apart: a payload's number is its place modulo SeqCount.     *)
LEMMA Compare ==
  ASSUME NEW x \in Int, NEW y \in Int, 2 * (x - y) < SeqCount, 2 * (y - x) <= SeqCount
  PROVE  /\ SeqLeq(x % SeqCount, y % SeqCount) <=> x <= y
         /\ SeqLt(x % SeqCount, y % SeqCount) <=> x < y
         /\ x % SeqCount = y % SeqCount <=> x = y
<1> DEFINE M == SeqCount
<1>0. M \in Nat \ {0} /\ M % 2 = 0 /\ 2 * (x - y) < M /\ 2 * (y - x) <= M
  BY Numbers
<1> HIDE DEF M
<1> DEFINE p == x \div M
<1> DEFINE t == x % M
<1> DEFINE q == y \div M
<1> DEFINE u == y % M
<1>1. p \in Int /\ t \in 0..M-1 /\ x = M * p + t
  BY <1>0, DivMod
<1>2. q \in Int /\ u \in 0..M-1 /\ y = M * q + u
  BY <1>0, DivMod
<1> HIDE DEF p, t, q, u
<1>3. t - u = (x - y) + M * (q - p)
  BY <1>0, <1>1, <1>2
<1>4. q - p \in {-1, 0, 1}
  <2>1. ASSUME q - p >= 2 PROVE FALSE
    <3>1. M * (q - p) >= M * 2 BY <2>1, <1>0, <1>1, <1>2
    <3> QED BY <3>1, <1>3, <1>0, <1>1, <1>2
  <2>2. ASSUME p - q >= 2 PROVE FALSE
    <3>1. M * (p - q) >= M * 2 BY <2>2, <1>0, <1>1, <1>2
    <3>2. M * (q - p) = -(M * (p - q)) BY <1>0, <1>1, <1>2
    <3> QED BY <3>1, <3>2, <1>3, <1>0, <1>1, <1>2
  <2> QED BY <2>1, <2>2, <1>1, <1>2
<1>5. t - u \in {x - y - M, x - y, x - y + M}
  <2>1. CASE q - p = -1
    <3>1. M * (q - p) = -M BY <2>1, <1>0
    <3> QED BY <3>1, <1>3, <1>0, <1>1, <1>2
  <2>2. CASE q - p = 0
    <3>1. M * (q - p) = 0 BY <2>2, <1>0
    <3> QED BY <3>1, <1>3, <1>0, <1>1, <1>2
  <2>3. CASE q - p = 1
    <3>1. M * (q - p) = M BY <2>3, <1>0
    <3> QED BY <3>1, <1>3, <1>0, <1>1, <1>2
  <2> QED BY <2>1, <2>2, <2>3, <1>4
<1>6. (t - u) % M = IF x >= y THEN x - y ELSE x - y + M
  <2>1. t - u \in Int /\ -M <= t - u /\ t - u < M BY <1>0, <1>1, <1>2
  <2>2. (t - u) % M = IF t - u >= 0 THEN t - u ELSE t - u + M
    BY <1>0, <2>1, Small
  <2> QED BY <2>2, <1>5, <1>0, <1>1, <1>2
<1>7. M = 2 * (M \div 2) /\ M \div 2 \in Nat
  BY <1>0, DivMod
<1>8. (t - u) % M >= M \div 2 <=> x < y
  BY <1>0, <1>6, <1>7
<1>9. t = u <=> x = y
  BY <1>5, <1>0, <1>1, <1>2
<1>10. /\ SeqLt(t, u) <=> x < y
       /\ SeqLeq(t, u) <=> x <= y
  BY <1>8, <1>9 DEF SeqLt, SeqLeq, M
<1> QED BY <1>9, <1>10 DEF t, u, M

(* There are two ends.                                                     *)
LEMMA Ends ==
  ASSUME NEW n \in Node
  PROVE  /\ Peer(n) \in Node /\ Peer(n) # n /\ Peer(Peer(n)) = n
         /\ \A m \in Node : m = n \/ m = Peer(n)
<1>1. PICK c \in Node, d \in Node : c # d /\ Node = {c, d}
  BY QosHolds DEF QosAssumption
<1>2. \A m \in Node : Peer(m) \in Node /\ Peer(m) # m
  BY <1>1 DEF Peer
<1> QED BY <1>1, <1>2

(* The set-up is one of those the assumption describes.                    *)
LEMMA Surround ==
  ASSUME setup \in Setup
  PROVE  /\ setup.cap \in Nat \ {0} /\ setup.sends \in 0..MaxSends /\ setup.losses \in Nat
         /\ setup.restarts \in Nat /\ setup.nomem \in Nat /\ setup.polls \in BOOLEAN
         /\ IsCalm(setup) \/ setup.sends + setup.nomem < SeqCount
  BY QosHolds DEF QosAssumption, Surroundings

LEMMA FiniteSlots ==
  ASSUME NEW X \in SUBSET Slots
  PROVE  IsFiniteSet(X) /\ Cardinality(X) \in Nat
<1>1. IsFiniteSet(Slots)
  BY Numbers, FS_Interval DEF Slots
<1>2. IsFiniteSet(X)
  BY <1>1, FS_Subset
<1> QED
  BY <1>2, FS_CardinalityType

(* r is q with as many of the frames fs behind it as fit.                  *)
Grown(q, fs, r) ==
  /\ r \in Seq(Frames) /\ Len(q) <= Len(r)
  /\ \A k \in 1..Len(q) : r[k] = q[k]
  /\ \A k \in Len(q)+1..Len(r) : k - Len(q) \in 1..Len(fs) /\ r[k] = fs[k - Len(q)]

LEMMA Growth ==
  ASSUME NEW q \in Seq(Frames), NEW fs \in Seq(Frames), NEW cap \in Nat \ {0}, Len(q) <= cap,
         NEW r, r = SubSeq(q \o fs, 1, IF Len(q \o fs) < cap THEN Len(q \o fs) ELSE cap)
  PROVE  Grown(q, fs, r) /\ Len(r) <= cap
<1> DEFINE b == IF Len(q \o fs) < cap THEN Len(q \o fs) ELSE cap
<1>1. q \o fs \in Seq(Frames) /\ Len(q \o fs) = Len(q) + Len(fs)
  OBVIOUS
<1>2. \A k \in 1..Len(q) + Len(fs) : (q \o fs)[k] = IF k <= Len(q) THEN q[k] ELSE fs[k - Len(q)]
  OBVIOUS
<1>3. b \in Nat /\ Len(q) <= b /\ b <= Len(q) + Len(fs) /\ b <= cap
  BY <1>1
<1> HIDE DEF b
<1>4. r = SubSeq(q \o fs, 1, b)
  BY DEF b
<1>5. r \in Seq(Frames) /\ Len(r) = b /\ \A k \in 1..b : r[k] = (q \o fs)[k]
  BY <1>1, <1>3, <1>4
<1> QED
  BY <1>2, <1>3, <1>5 DEF Grown

LEMMA SentGrows ==
  ASSUME Typed, NEW n \in Node, NEW fs \in Seq(Frames)
  PROVE  Grown(line[Peer(n)], fs, Sent(n, fs)) /\ Len(Sent(n, fs)) <= setup.cap
<1>1. line[Peer(n)] \in Seq(Frames) /\ Len(line[Peer(n)]) <= setup.cap
  BY Ends DEF Typed
<1>2. setup.cap \in Nat \ {0}
  BY Surround DEF Typed
<1>3. Sent(n, fs) = SubSeq(line[Peer(n)] \o fs, 1, IF Len(line[Peer(n)] \o fs) < setup.cap
                                                   THEN Len(line[Peer(n)] \o fs) ELSE setup.cap)
  BY DEF Sent
<1> QED
  BY <1>1, <1>2, <1>3, Growth

LEMMA TailTyped ==
  ASSUME NEW q \in Seq(Frames), q # <<>>
  PROVE  /\ Tail(q) \in Seq(Frames) /\ Len(Tail(q)) = Len(q) - 1 /\ Len(q) >= 1
         /\ \A k \in 1..Len(q)-1 : Tail(q)[k] = q[k+1]
         /\ Head(q) = q[1] /\ Head(q) \in Frames
  OBVIOUS

(* The slots are finite, and qos_send takes the least free one.            *)
LEMMA Least ==
  ASSUME NEW X \in SUBSET Nat, X # {}
  PROVE  \E m \in X : \A j \in X : m <= j
<1> DEFINE R == {p \in Nat \X Nat : p[1] < p[2]}
<1>1. IsWellFoundedOn(R, Nat)
  BY NatLessThanWellFounded DEF OpToRel
<1>2. \A i, j \in Nat : i < j => <<i, j>> \in R
  OBVIOUS
<1> HIDE DEF R
<1>3. PICK m \in X : \A j \in X : ~(<<j, m>> \in R)
  BY <1>1, WFMin
<1>4. ASSUME NEW j \in X PROVE m <= j
  <2>1. j \in Nat /\ m \in Nat /\ ~(j < m)
    BY <1>2, <1>3
  <2> QED BY <2>1
<1> QED
  BY <1>4

LEMMA LeastSlot ==
  ASSUME NEW X \in SUBSET Slots, X # {}
  PROVE  (CHOOSE i \in X : \A j \in X : i <= j) \in X
<1>1. X \in SUBSET Nat
  BY Numbers DEF Slots
<1> QED
  BY <1>1, Least

(* The slots that the operators of the model make are slots.               *)
LEMMA DataFrameTyped ==
  ASSUME NEW s \in Slot
  PROVE  DataFrame(s) \in Frames /\ DataFrame(s).kind = "data" /\ DataFrame(s).seq = s.seq
         /\ DataFrame(s).data = s.data
  BY DEF DataFrame, Frame, Slot, Frames

LEMMA FreeTyped == Free \in Slot /\ ~Free.used
  BY Numbers DEF Free, Slot

LEMMA ResentTyped ==
  ASSUME NEW s \in Slot, ~Exhausted(s.retries + 1)
  PROVE  /\ Resent(s) \in Slot /\ Resent(s).used = s.used
         /\ Resent(s).seq = s.seq /\ Resent(s).data = s.data
<1> DEFINE x == s.retries + 1
<1> DEFINE y == 0
<1> DEFINE r == Resent(s)
<1>1. x \in 0..MaxRetries /\ y \in 0..Rto
  BY Numbers DEF Slot, Exhausted
<1>2. r = [s EXCEPT !.retries = x, !.age = y]
  BY DEF Resent
<1> HIDE DEF x, y, r
<1>3. r = [[s EXCEPT !.retries = x] EXCEPT !.age = y]
  BY <1>2
<1>4. [s EXCEPT !.retries = x] = [used |-> s.used, seq |-> s.seq, data |-> s.data,
                                  retries |-> x, age |-> s.age]
  BY DEF Slot
<1>5. r = [used |-> s.used, seq |-> s.seq, data |-> s.data, retries |-> x, age |-> y]
  BY <1>3, <1>4
<1>6. r \in Slot /\ r.used = s.used /\ r.seq = s.seq /\ r.data = s.data
  BY <1>1, <1>5 DEF Slot
<1> QED
  BY <1>6 DEF r

LEMMA Succ == ASSUME NEW x \in Int PROVE (x + 1) % SeqCount \in 0..SeqCount-1
<1>1. SeqCount \in Nat \ {0} /\ x + 1 \in Int
  BY Numbers
<1> QED
  BY <1>1, DivMod

(* The lines after send_raw.                                               *)
LEMMA SendTyped ==
  ASSUME Typed, NEW n \in Node, NEW fs \in Seq(Frames), send_raw(n, fs)
  PROVE  /\ line' \in [Node -> Seq(Frames)]
         /\ \A m \in Node : Len(line'[m]) <= setup.cap
<1>1. Sent(n, fs) \in Seq(Frames) /\ Len(Sent(n, fs)) <= setup.cap
  BY SentGrows DEF Grown
<1>2. line' = [line EXCEPT ![Peer(n)] = Sent(n, fs)]
  BY DEF send_raw
<1> HIDE DEF send_raw
<1> QED
  BY <1>1, <1>2, Ends DEF Typed

(* What qos_send writes, and where.                                        *)
NewSlot(n) == CHOOSE i \in FreeSlots(n) : \A j \in FreeSlots(n) : i <= j
NewEntry(n) == [used |-> TRUE, seq |-> next_seq[n], data |-> Len(accepted[n]) + 1,
                retries |-> 0, age |-> 0]

LEMMA NewTyped ==
  ASSUME Typed, NEW n \in Node, FreeSlots(n) # {}
  PROVE  /\ NewSlot(n) \in Slots /\ ~window[n][NewSlot(n)].used
         /\ NewEntry(n) \in Slot /\ NewEntry(n).used
         /\ NewEntry(n).seq = next_seq[n] /\ NewEntry(n).data = Len(accepted[n]) + 1
<1>1. FreeSlots(n) \in SUBSET Slots
  BY DEF FreeSlots
<1>2. NewSlot(n) \in FreeSlots(n)
  BY <1>1, LeastSlot DEF NewSlot
<1>3. next_seq[n] \in 0..SeqCount-1 /\ Len(accepted[n]) + 1 \in Nat
  BY DEF Typed
<1>4. NewEntry(n) \in Slot
  BY <1>3, Numbers DEF NewEntry, Slot
<1> QED
  BY <1>2, <1>4 DEF FreeSlots, NewEntry

(* A step frees the slots gone of end n, keeps the number and the payload  *)
(* of every other one, and counts what it freed.                           *)
Frees(n, gone) ==
  /\ gone \subseteq UsedSlots(n)
  /\ \A i \in Slots : window'[n][i].used <=> window[n][i].used /\ i \notin gone
  /\ \A i \in UsedSlots(n) \ gone : /\ window'[n][i].seq = window[n][i].seq
                                    /\ window'[n][i].data = window[n][i].data
  /\ outstanding'[n] = outstanding[n] - Cardinality(gone)

LEMMA Untouched ==
  ASSUME Typed, NEW n \in Node, window'[n] = window[n], outstanding'[n] = outstanding[n]
  PROVE  Frees(n, {})
<1>1. Cardinality({}) = 0
  BY FS_EmptySet
<1>2. outstanding[n] \in Int
  BY DEF Typed
<1> QED
  BY <1>1, <1>2 DEF Frees

(* The used slots, now and after a step.                                   *)
LEMMA UsedTyped == \A n \in Node : UsedSlots(n) = {i \in Slots : window[n][i].used}
  BY DEF UsedSlots, FreeSlots

LEMMA UsedTyped2 == \A n \in Node : UsedSlots(n)' = {i \in Slots : window'[n][i].used}
  BY DEF UsedSlots, FreeSlots

(* What qos_poll gives up, and what it sends again.                        *)
Gone(n) == {i \in Due(n) : Exhausted(window[n][i].retries + 1)}
Again(n) == Due(n) \ Gone(n)

(* Each operation that touches a window frees slots and changes nothing    *)
(* else that counts: qos_poll, an ACK, a NACK and the clock.               *)
LEMMA PollWindow ==
  ASSUME Typed, NEW n \in Node, qos_poll(n)
  PROVE  /\ window' \in [Node -> [Slots -> Slot]] /\ outstanding' \in [Node -> Int]
         /\ Frees(n, Gone(n))
         /\ \A m \in Node \ {n} : window'[m] = window[m] /\ outstanding'[m] = outstanding[m]
<1> DEFINE w == [i \in Slots |->
          IF i \in Gone(n) THEN Free
          ELSE IF i \in Again(n) THEN Resent(window[n][i]) ELSE window[n][i]]
<1>1. window' = [window EXCEPT ![n] = w] /\ outstanding' = [outstanding EXCEPT ![n] = Remaining(n, Gone(n))]
  BY DEF qos_poll, Gone, Again
<1>2. Gone(n) \subseteq UsedSlots(n) /\ Again(n) \subseteq UsedSlots(n)
  BY DEF Gone, Again, Due
<1>3. UsedSlots(n) \subseteq Slots /\ \A i \in Slots : i \in UsedSlots(n) <=> window[n][i].used
  BY UsedTyped
<1>4. \A i \in Slots : window[n][i] \in Slot
  BY DEF Typed
<1>5. ASSUME NEW i \in Again(n)
      PROVE  /\ Resent(window[n][i]) \in Slot /\ Resent(window[n][i]).used = window[n][i].used
             /\ Resent(window[n][i]).seq = window[n][i].seq /\ Resent(window[n][i]).data = window[n][i].data
  <2>1. ~Exhausted(window[n][i].retries + 1)
    BY DEF Again, Gone
  <2>2. window[n][i] \in Slot
    BY <1>2, <1>3, <1>4
  <2> QED BY <2>1, <2>2, ResentTyped
<1>6. \A i \in Slots : w[i] \in Slot
  BY <1>4, <1>5, FreeTyped
<1>7. \A i \in Slots : w[i].used <=> window[n][i].used /\ i \notin Gone(n)
  BY <1>2, <1>3, <1>5, FreeTyped
<1>8. \A i \in UsedSlots(n) \ Gone(n) : w[i].seq = window[n][i].seq /\ w[i].data = window[n][i].data
  BY <1>2, <1>3, <1>5
<1>9. w \in [Slots -> Slot]
  BY <1>6
<1>10. Gone(n) \in SUBSET Slots
  BY <1>2, <1>3
<1>11. Cardinality(Gone(n)) \in Nat
  BY <1>10, FiniteSlots
<1> HIDE DEF w
<1>12. window'[n] = w /\ window' \in [Node -> [Slots -> Slot]]
  BY <1>1, <1>9 DEF Typed
<1>13. outstanding'[n] = outstanding[n] - Cardinality(Gone(n)) /\ outstanding' \in [Node -> Int]
  BY <1>1, <1>11 DEF Typed, Remaining
<1>14. \A m \in Node \ {n} : window'[m] = window[m] /\ outstanding'[m] = outstanding[m]
  BY <1>1 DEF Typed
<1> QED
  BY <1>2, <1>7, <1>8, <1>12, <1>13, <1>14 DEF Frees

(* What an ACK of a number frees.                                          *)
Acked(n, seq) == {i \in UsedSlots(n) : SeqLeq(window[n][i].seq, seq)}

LEMMA AckWindow ==
  ASSUME Typed, NEW n \in Node, NEW seq, process_ack(n, seq)
  PROVE  /\ window' \in [Node -> [Slots -> Slot]] /\ outstanding' \in [Node -> Int]
         /\ Frees(n, Acked(n, seq))
         /\ \A m \in Node \ {n} : window'[m] = window[m] /\ outstanding'[m] = outstanding[m]
<1> DEFINE w == [i \in Slots |-> IF i \in Acked(n, seq) THEN Free ELSE window[n][i]]
<1>1. window' = [window EXCEPT ![n] = w] /\ outstanding' = [outstanding EXCEPT ![n] = Remaining(n, Acked(n, seq))]
  BY DEF process_ack, Acked
<1>2. Acked(n, seq) \subseteq UsedSlots(n)
  BY DEF Acked
<1>3. UsedSlots(n) \subseteq Slots /\ \A i \in Slots : i \in UsedSlots(n) <=> window[n][i].used
  BY UsedTyped
<1>4. \A i \in Slots : window[n][i] \in Slot
  BY DEF Typed
<1>5. w \in [Slots -> Slot]
  BY <1>4, FreeTyped
<1>6. \A i \in Slots : w[i].used <=> window[n][i].used /\ i \notin Acked(n, seq)
  BY <1>2, <1>3, FreeTyped
<1>7. \A i \in UsedSlots(n) \ Acked(n, seq) : w[i].seq = window[n][i].seq /\ w[i].data = window[n][i].data
  BY <1>2, <1>3
<1>8. Acked(n, seq) \in SUBSET Slots
  BY <1>2, <1>3
<1>9. Cardinality(Acked(n, seq)) \in Nat
  BY <1>8, FiniteSlots
<1> HIDE DEF w
<1>10. window'[n] = w /\ window' \in [Node -> [Slots -> Slot]]
  BY <1>1, <1>5 DEF Typed
<1>11. outstanding'[n] = outstanding[n] - Cardinality(Acked(n, seq)) /\ outstanding' \in [Node -> Int]
  BY <1>1, <1>9 DEF Typed, Remaining
<1>12. \A m \in Node \ {n} : window'[m] = window[m] /\ outstanding'[m] = outstanding[m]
  BY <1>1 DEF Typed
<1> QED
  BY <1>2, <1>6, <1>7, <1>10, <1>11, <1>12 DEF Frees

LEMMA NackWindow ==
  ASSUME Typed, NEW n \in Node, NEW seq, process_nack(n, seq)
  PROVE  /\ window' \in [Node -> [Slots -> Slot]] /\ outstanding' \in [Node -> Int]
         /\ \E gone \in SUBSET Slots :
              /\ Frees(n, gone)
              /\ dropped' = [dropped EXCEPT ![n] = @ \cup {window[n][i].data : i \in gone}]
         /\ \A m \in Node \ {n} : window'[m] = window[m] /\ outstanding'[m] = outstanding[m]
<1>1. UsedSlots(n) \subseteq Slots /\ \A i \in Slots : i \in UsedSlots(n) <=> window[n][i].used
  BY UsedTyped
<1>2. CASE UNCHANGED <<window, outstanding, dropped>>
  <2>1. Frees(n, {})
    BY <1>2, Untouched
  <2>2. dropped' = [dropped EXCEPT ![n] = @ \cup {window[n][i].data : i \in {}}]
    BY <1>2 DEF Typed
  <2> QED BY <1>2, <2>1, <2>2 DEF Typed
<1>3. ASSUME NEW i \in SlotsOf(n, seq), Exhausted(window[n][i].retries + 1),
             window' = [window EXCEPT ![n][i] = Free],
             outstanding' = [outstanding EXCEPT ![n] = Remaining(n, {i})],
             dropped' = [dropped EXCEPT ![n] = @ \cup {window[n][i].data}]
      PROVE  /\ window' \in [Node -> [Slots -> Slot]] /\ outstanding' \in [Node -> Int]
             /\ Frees(n, {i})
             /\ dropped' = [dropped EXCEPT ![n] = @ \cup {window[n][j].data : j \in {i}}]
             /\ \A m \in Node \ {n} : window'[m] = window[m] /\ outstanding'[m] = outstanding[m]
  <2>1. i \in UsedSlots(n) /\ i \in Slots
    BY <1>1 DEF SlotsOf
  <2>2. Cardinality({i}) = 1
    BY FS_Singleton
  <2>3. window' \in [Node -> [Slots -> Slot]] /\ window'[n] = [window[n] EXCEPT ![i] = Free]
    BY <1>3, <2>1, FreeTyped DEF Typed
  <2>4. window'[n][i] = Free /\ \A j \in Slots \ {i} : window'[n][j] = window[n][j]
    BY <2>1, <2>3 DEF Typed
  <2>5. outstanding'[n] = outstanding[n] - 1 /\ outstanding' \in [Node -> Int]
    BY <1>3, <2>2 DEF Typed, Remaining
  <2>6. \A m \in Node \ {n} : window'[m] = window[m] /\ outstanding'[m] = outstanding[m]
    BY <1>3 DEF Typed
  <2>7. Frees(n, {i})
    BY <2>1, <2>2, <2>4, <2>5, <1>1, FreeTyped DEF Frees
  <2>8. {window[n][i].data} = {window[n][j].data : j \in {i}}
    OBVIOUS
  <2> QED BY <1>3, <2>3, <2>5, <2>6, <2>7, <2>8
<1>4. ASSUME NEW i \in SlotsOf(n, seq), ~Exhausted(window[n][i].retries + 1),
             window' = [window EXCEPT ![n][i] = Resent(@)], UNCHANGED <<outstanding, dropped>>
      PROVE  /\ window' \in [Node -> [Slots -> Slot]] /\ outstanding' \in [Node -> Int]
             /\ Frees(n, {})
             /\ dropped' = [dropped EXCEPT ![n] = @ \cup {window[n][j].data : j \in {}}]
             /\ \A m \in Node \ {n} : window'[m] = window[m] /\ outstanding'[m] = outstanding[m]
  <2>1. i \in UsedSlots(n) /\ i \in Slots
    BY <1>1 DEF SlotsOf
  <2> DEFINE r == Resent(window[n][i])
  <2>2. window[n][i] \in Slot
    BY <2>1 DEF Typed
  <2>3. r \in Slot /\ r.used = window[n][i].used /\ r.seq = window[n][i].seq /\ r.data = window[n][i].data
    BY <2>2, <1>4, ResentTyped
  <2>4. window' = [window EXCEPT ![n][i] = r]
    BY <1>4
  <2> HIDE DEF r
  <2>5. window' \in [Node -> [Slots -> Slot]] /\ window'[n] = [window[n] EXCEPT ![i] = r]
    BY <2>1, <2>3, <2>4 DEF Typed
  <2>6. window'[n][i] = r /\ \A j \in Slots \ {i} : window'[n][j] = window[n][j]
    BY <2>1, <2>5 DEF Typed
  <2>7. Cardinality({}) = 0
    BY FS_EmptySet
  <2>8. Frees(n, {})
    BY <2>1, <2>3, <2>6, <2>7, <1>1, <1>4 DEF Frees, Typed
  <2>9. dropped' = [dropped EXCEPT ![n] = @ \cup {window[n][j].data : j \in {}}]
    BY <1>4 DEF Typed
  <2>10. \A m \in Node \ {n} : window'[m] = window[m] /\ outstanding'[m] = outstanding[m]
    BY <2>4, <1>4 DEF Typed
  <2> QED BY <1>4, <2>5, <2>8, <2>9, <2>10 DEF Typed
<1> QED
  <2>1. CASE UNCHANGED <<window, outstanding, dropped>>
    BY <2>1, <1>2
  <2>2. ASSUME NEW i \in SlotsOf(n, seq),
               IF Exhausted(window[n][i].retries + 1)
               THEN /\ window' = [window EXCEPT ![n][i] = Free]
                    /\ outstanding' = [outstanding EXCEPT ![n] = Remaining(n, {i})]
                    /\ dropped' = [dropped EXCEPT ![n] = @ \cup {window[n][i].data}]
               ELSE /\ window' = [window EXCEPT ![n][i] = Resent(@)]
                    /\ UNCHANGED <<outstanding, dropped>>
        PROVE  /\ window' \in [Node -> [Slots -> Slot]] /\ outstanding' \in [Node -> Int]
               /\ \E gone \in SUBSET Slots :
                    /\ Frees(n, gone)
                    /\ dropped' = [dropped EXCEPT ![n] = @ \cup {window[n][j].data : j \in gone}]
               /\ \A m \in Node \ {n} : window'[m] = window[m] /\ outstanding'[m] = outstanding[m]
    <3>1. i \in Slots
      BY <1>1 DEF SlotsOf
    <3>2. CASE Exhausted(window[n][i].retries + 1)
      <4>1. {i} \in SUBSET Slots
        BY <3>1
      <4> QED BY <2>2, <3>2, <4>1, <1>3
    <3>3. CASE ~Exhausted(window[n][i].retries + 1)
      <4>1. {} \in SUBSET Slots
        OBVIOUS
      <4> QED BY <2>2, <3>3, <4>1, <1>4
    <3> QED BY <3>2, <3>3
  <2> QED BY <2>1, <2>2 DEF process_nack

LEMMA TickWindow ==
  ASSUME Typed, Tick
  PROVE  /\ window' \in [Node -> [Slots -> Slot]]
         /\ \A n \in Node : Frees(n, {})
<1> DEFINE Older(s) == [s EXCEPT !.age = @ + 1]
<1>1. window' = [n \in Node |-> [i \in Slots |->
           IF window[n][i].used /\ window[n][i].age < Rto THEN Older(window[n][i]) ELSE window[n][i]]]
  BY DEF Tick
<1>2. ASSUME NEW s \in Slot, s.age < Rto
      PROVE  /\ Older(s) \in Slot /\ Older(s).used = s.used
             /\ Older(s).seq = s.seq /\ Older(s).data = s.data
  <2> DEFINE x == s.age + 1
  <2>1. x \in 0..Rto
    BY <1>2, Numbers DEF Slot
  <2>2. Older(s) = [s EXCEPT !.age = x]
    OBVIOUS
  <2> HIDE DEF x
  <2>3. Older(s) = [used |-> s.used, seq |-> s.seq, data |-> s.data, retries |-> s.retries, age |-> x]
    BY <2>2 DEF Slot
  <2> HIDE DEF Older
  <2> QED BY <2>1, <2>3 DEF Slot
<1>3. \A n \in Node : \A i \in Slots : window[n][i] \in Slot
  BY DEF Typed
<1> HIDE DEF Older
<1>4. ASSUME NEW n \in Node, NEW i \in Slots
      PROVE  /\ window'[n][i] \in Slot /\ window'[n][i].used = window[n][i].used
             /\ window'[n][i].seq = window[n][i].seq /\ window'[n][i].data = window[n][i].data
  <2>1. window'[n][i] = IF window[n][i].used /\ window[n][i].age < Rto THEN Older(window[n][i]) ELSE window[n][i]
    BY <1>1
  <2> QED BY <2>1, <1>2, <1>3
<1>5. window' \in [Node -> [Slots -> Slot]]
  BY <1>1, <1>4
<1>6. ASSUME NEW n \in Node PROVE Frees(n, {})
  <2>1. outstanding'[n] = outstanding[n] - Cardinality({})
    BY FS_EmptySet DEF Tick, Typed
  <2> QED BY <2>1, <1>4, UsedTyped DEF Frees
<1> QED
  BY <1>5, <1>6

(* The frames qos_poll sends are those of the window.                      *)
FromWindow(n, fs) ==
  \A k \in 1..Len(fs) : \E i \in UsedSlots(n) : fs[k] = DataFrame(window[n][i])

FramesIn(n, order) == [k \in DOMAIN order |-> DataFrame(window[n][order[k]])]

LEMMA PollFrames ==
  ASSUME Typed, NEW n \in Node, NEW order \in [1..Cardinality(Again(n)) -> Again(n)]
  PROVE  FramesIn(n, order) \in Seq(Frames) /\ FromWindow(n, FramesIn(n, order))
<1> DEFINE fs == FramesIn(n, order)
<1>1. Again(n) \in SUBSET Slots /\ Again(n) \subseteq UsedSlots(n)
  BY UsedTyped DEF Again, Due
<1>2. Cardinality(Again(n)) \in Nat
  BY <1>1, FiniteSlots
<1> DEFINE c == Cardinality(Again(n))
<1> HIDE DEF c
<1>3. c \in Nat /\ order \in [1..c -> Again(n)]
  BY <1>2 DEF c
<1>4. \A i \in Slots : window[n][i] \in Slot
  BY DEF Typed
<1>5. \A i \in Slots : DataFrame(window[n][i]) \in Frames
  BY <1>4, DataFrameTyped
<1>6. fs = [k \in 1..c |-> DataFrame(window[n][order[k]])]
  BY <1>3 DEF FramesIn
<1> HIDE DEF fs
<1>7. \A k \in 1..c : order[k] \in UsedSlots(n) /\ order[k] \in Slots
  BY <1>1, <1>3
<1>8. \A k \in 1..c : fs[k] \in Frames /\ fs[k] = DataFrame(window[n][order[k]])
  BY <1>5, <1>6, <1>7
<1>9. fs \in Seq(Frames) /\ Len(fs) = c
  <2>1. fs \in [1..c -> Frames]
    BY <1>6, <1>8
  <2> QED BY ONLY <1>3, <2>1
<1>10. FromWindow(n, fs)
  BY <1>7, <1>8, <1>9 DEF FromWindow
<1> QED
  BY <1>9, <1>10 DEF fs

(* The frames qos_recv answers with.                                       *)
LEMMA ReplyTyped ==
  ASSUME Typed, NEW n \in Node, NEW f \in Frames
  PROVE  /\ Reply(n, f) \in Seq(Frames)
         /\ f.kind = "ack" => Reply(n, f) = <<>>
         /\ f.kind = "data" => Reply(n, f) = <<Answer(n, f.seq)>>
         /\ f.kind \in {"nack", "resend"} =>
              \A k \in 1..Len(Reply(n, f)) : \E i \in UsedSlots(n) : Reply(n, f)[k] = DataFrame(window[n][i])
<1>1. f.kind \in {"data", "ack", "nack", "poll", "resend"} /\ f.seq \in 0..SeqCount-1
  BY DEF Frames
<1>2. CASE f.kind = "ack"
  <2>1. Reply(n, f) = <<>>
    BY <1>2 DEF Reply
  <2> QED BY <1>2, <2>1
<1>3. CASE f.kind \in {"nack", "resend"}
  <2> DEFINE live == {i \in SlotsOf(n, f.seq) : f.kind = "nack" => ~Exhausted(window[n][i].retries + 1)}
  <2> DEFINE c == Cardinality(live)
  <2> DEFINE d == DataFrame(window[n][CHOOSE i \in live : TRUE])
  <2>1. Reply(n, f) = [k \in 1..c |-> d]
    BY <1>3 DEF Reply
  <2>2. live \in SUBSET Slots /\ live \subseteq UsedSlots(n)
    BY UsedTyped DEF SlotsOf
  <2>3. c \in Nat
    BY <2>2, FiniteSlots
  <2>4. CASE live = {}
    <3>1. c = 0
      BY <2>4, FS_EmptySet
    <3> HIDE DEF c
    <3>2. Reply(n, f) = <<>>
      BY <2>1, <3>1
    <3> QED BY <3>2, <1>3
  <2>5. CASE live # {}
    <3>1. PICK j \in live : d = DataFrame(window[n][j])
      BY <2>5
    <3>2. j \in Slots /\ j \in UsedSlots(n)
      BY <2>2
    <3>3. window[n][j] \in Slot
      BY <3>2 DEF Typed
    <3>4. d \in Frames
      BY <3>1, <3>3, DataFrameTyped
    <3> HIDE DEF c, d
    <3>5. Reply(n, f) \in Seq(Frames) /\ \A k \in 1..Len(Reply(n, f)) : Reply(n, f)[k] = d
      BY <2>1, <2>3, <3>4
    <3> QED BY <3>1, <3>2, <3>5, <1>3
  <2> QED BY <2>4, <2>5
<1>4. CASE f.kind = "poll"
  <2>1. Reply(n, f) = <<Frame("ack", last_acked_seq[n], 0)>>
    BY <1>4 DEF Reply
  <2>2. Frame("ack", last_acked_seq[n], 0) \in Frames
    BY DEF Typed, Frame, Frames
  <2> QED BY <2>1, <2>2, <1>4
<1>5. CASE f.kind = "data"
  <2>1. Reply(n, f) = <<Answer(n, f.seq)>>
    BY <1>5 DEF Reply
  <2>2. Answer(n, f.seq) \in Frames
    BY <1>1 DEF Answer, Frame, Frames, Typed
  <2> QED BY <2>1, <2>2, <1>5
<1> QED
  BY <1>1, <1>2, <1>3, <1>4, <1>5

-----------------------------------------------------------------------------
(* Types.                                                                  *)

LEMMA RecvLines ==
  ASSUME Typed, NEW n \in Node, line[n] # <<>>,
         line' = [line EXCEPT ![n] = Tail(@), ![Peer(n)] = Sent(n, Reply(n, Head(line[n])))]
  PROVE  /\ Head(line[n]) \in Frames
         /\ line'[n] = Tail(line[n]) /\ line'[Peer(n)] = Sent(n, Reply(n, Head(line[n])))
         /\ line' \in [Node -> Seq(Frames)]
         /\ \A m \in Node : Len(line'[m]) <= setup.cap
<1> DEFINE r == Sent(n, Reply(n, Head(line[n])))
<1>1. line[n] \in Seq(Frames) /\ Len(line[n]) <= setup.cap
  BY DEF Typed
<1>2. Head(line[n]) \in Frames /\ Tail(line[n]) \in Seq(Frames) /\ Len(Tail(line[n])) <= setup.cap
  BY <1>1, TailTyped, Surround DEF Typed
<1>3. r \in Seq(Frames) /\ Len(r) <= setup.cap
  BY <1>2, ReplyTyped, SentGrows DEF Grown
<1>4. line' = [line EXCEPT ![n] = Tail(line[n]), ![Peer(n)] = r]
  OBVIOUS
<1> HIDE DEF r
<1>5. line'[n] = Tail(line[n]) /\ line'[Peer(n)] = r /\ DOMAIN line' = Node
  BY <1>4, Ends DEF Typed
<1>6. \A m \in Node : line'[m] \in Seq(Frames) /\ Len(line'[m]) <= setup.cap
  BY <1>2, <1>3, <1>5, Ends
<1>7. line' \in [Node -> Seq(Frames)]
  BY <1>4, <1>6 DEF Typed
<1> QED
  BY <1>2, <1>5, <1>6, <1>7 DEF r

(* Every action keeps the types.                                           *)
LEMMA SendTypes == ASSUME Typed, setup' = setup, NEW n \in Node, qos_send(n) PROVE Typed'
<1> DEFINE i == NewSlot(n)
<1> DEFINE s == NewEntry(n)
<1>1. FreeSlots(n) # {}
  BY DEF qos_send
<1>2. i \in Slots /\ s \in Slot /\ s.data \in Nat
  BY <1>1, NewTyped DEF Slot
<1>3. \/ /\ window' = [window EXCEPT ![n][i] = s]
         /\ outstanding' = [outstanding EXCEPT ![n] = @ + 1]
         /\ accepted' = [accepted EXCEPT ![n] = Append(@, s.data)]
         /\ send_raw(n, <<DataFrame(s)>>)
         /\ nomem' = nomem
      \/ /\ nomem' = nomem + 1
         /\ UNCHANGED <<window, outstanding, accepted, line>>
  BY DEF qos_send, NewSlot, NewEntry
<1>4. next_seq' \in [Node -> 0..SeqCount-1]
  <2>1. next_seq' = [next_seq EXCEPT ![n] = (@ + 1) % SeqCount] /\ next_seq[n] \in Int
    BY DEF qos_send, Typed
  <2>2. (next_seq[n] + 1) % SeqCount \in 0..SeqCount-1
    BY <2>1, Succ
  <2> QED BY <2>1, <2>2 DEF Typed
<1>5. UNCHANGED <<initialized, expected_seq, last_acked_seq, delivered, acked, dropped, losses, restarts>>
  BY DEF qos_send, recvvars
<1> HIDE DEF i, s
<1>6. CASE nomem' = nomem + 1 /\ UNCHANGED <<window, outstanding, accepted, line>>
  BY <1>4, <1>5, <1>6 DEF Typed
<1>7. CASE /\ window' = [window EXCEPT ![n][i] = s]
           /\ outstanding' = [outstanding EXCEPT ![n] = @ + 1]
           /\ accepted' = [accepted EXCEPT ![n] = Append(@, s.data)]
           /\ send_raw(n, <<DataFrame(s)>>)
           /\ nomem' = nomem
  <2>1. <<DataFrame(s)>> \in Seq(Frames)
    BY <1>2, DataFrameTyped
  <2>2. line' \in [Node -> Seq(Frames)] /\ \A m \in Node : Len(line'[m]) <= setup.cap
    BY <1>7, <2>1, SendTyped
  <2>3. window' \in [Node -> [Slots -> Slot]]
    BY <1>2, <1>7 DEF Typed
  <2>4. outstanding' \in [Node -> Int]
    BY <1>7 DEF Typed
  <2>5. accepted' \in [Node -> Seq(Nat)]
    BY <1>2, <1>7 DEF Typed
  <2> QED BY <1>4, <1>5, <1>7, <2>2, <2>3, <2>4, <2>5 DEF Typed
<1> QED
  BY <1>3, <1>6, <1>7

LEMMA PollTypes == ASSUME Typed, setup' = setup, NEW n \in Node, qos_poll(n) PROVE Typed'
<1>1. window' \in [Node -> [Slots -> Slot]] /\ outstanding' \in [Node -> Int]
  BY PollWindow
<1>2. PICK order \in [1..Cardinality(Again(n)) -> Again(n)] :
         send_raw(n, FramesIn(n, order))
  BY DEF qos_poll, Again, Gone, FramesIn
<1>3. line' \in [Node -> Seq(Frames)] /\ \A m \in Node : Len(line'[m]) <= setup.cap
  BY <1>2, PollFrames, SendTyped
<1>4. dropped' \in [Node -> SUBSET Nat]
  <2>1. Gone(n) \subseteq Slots
    BY UsedTyped DEF Gone, Due
  <2>2. \A i \in Slots : window[n][i].data \in Nat
    BY DEF Typed, Slot
  <2>3. {window[n][i].data : i \in Gone(n)} \subseteq Nat
    BY <2>1, <2>2
  <2>4. dropped' = [dropped EXCEPT ![n] = @ \cup {window[n][i].data : i \in Gone(n)}]
    BY DEF qos_poll, Gone
  <2> QED BY <2>3, <2>4 DEF Typed
<1>5. UNCHANGED <<initialized, next_seq, expected_seq, last_acked_seq, accepted, delivered, acked,
                  losses, restarts, nomem>>
  BY DEF qos_poll, recvvars, bounds
<1> QED
  BY <1>1, <1>3, <1>4, <1>5 DEF Typed

LEMMA TickTypes == ASSUME Typed, setup' = setup, Tick PROVE Typed'
<1>1. window' \in [Node -> [Slots -> Slot]]
  BY TickWindow
<1> QED
  BY <1>1 DEF Typed, Tick, recvvars, history, bounds

LEMMA RecvTypes == ASSUME Typed, setup' = setup, NEW n \in Node, qos_recv(n) PROVE Typed'
<1> DEFINE f == Head(line[n])
<1>1. f \in Frames /\ line' \in [Node -> Seq(Frames)] /\ \A m \in Node : Len(line'[m]) <= setup.cap
  BY RecvLines DEF qos_recv
<1>2. f.kind \in {"data", "ack", "nack", "poll", "resend"} /\ f.seq \in 0..SeqCount-1 /\ f.data \in Nat
  BY <1>1 DEF Frames
<1>3. UNCHANGED <<losses, restarts, nomem>>
  BY DEF qos_recv, bounds
<1>4. CASE f.kind = "ack"
  <2>1. process_ack(n, f.seq)
    BY <1>4 DEF qos_recv
  <2>2. window' \in [Node -> [Slots -> Slot]] /\ outstanding' \in [Node -> Int]
    BY <2>1, AckWindow
  <2>3. acked' \in [Node -> SUBSET Nat]
    <3>1. Acked(n, f.seq) \subseteq Slots
      BY UsedTyped DEF Acked
    <3>2. \A i \in Slots : window[n][i].data \in Nat
      BY DEF Typed, Slot
    <3>3. {window[n][i].data : i \in Acked(n, f.seq)} \subseteq Nat
      BY <3>1, <3>2
    <3>4. acked' = [acked EXCEPT ![n] = @ \cup {window[n][i].data : i \in Acked(n, f.seq)}]
      BY <2>1 DEF process_ack, Acked
    <3> QED BY <3>3, <3>4 DEF Typed
  <2>4. UNCHANGED <<initialized, next_seq, expected_seq, last_acked_seq, accepted, delivered, dropped>>
    BY <2>1 DEF process_ack, recvvars
  <2> QED BY <1>1, <1>3, <2>2, <2>3, <2>4 DEF Typed
<1>5. CASE f.kind = "nack"
  <2>1. process_nack(n, f.seq)
    BY <1>5 DEF qos_recv
  <2>2. window' \in [Node -> [Slots -> Slot]] /\ outstanding' \in [Node -> Int]
    BY <2>1, NackWindow
  <2>3. dropped' \in [Node -> SUBSET Nat]
    <3>1. PICK gone \in SUBSET Slots : dropped' = [dropped EXCEPT ![n] = @ \cup {window[n][i].data : i \in gone}]
      BY <2>1, NackWindow
    <3>2. \A i \in Slots : window[n][i].data \in Nat
      BY DEF Typed, Slot
    <3>3. {window[n][i].data : i \in gone} \subseteq Nat
      BY <3>2
    <3> QED BY <3>1, <3>3 DEF Typed
  <2>4. UNCHANGED <<initialized, next_seq, expected_seq, last_acked_seq, accepted, delivered, acked>>
    BY <2>1 DEF process_nack, recvvars
  <2> QED BY <1>1, <1>3, <2>2, <2>3, <2>4 DEF Typed
<1>6. CASE f.kind \in {"poll", "resend"}
  <2>1. UNCHANGED <<sendvars, recvvars, history>>
    BY <1>6 DEF qos_recv
  <2> QED BY <1>1, <1>3, <2>1 DEF Typed, sendvars, recvvars, history
<1>7. CASE f.kind = "data"
  <2>1. recv_data(n, f)
    BY <1>7 DEF qos_recv
  <2>2. UNCHANGED <<initialized, next_seq, window, outstanding, accepted, acked, dropped>>
    BY <2>1 DEF recv_data, sendvars
  <2>3. CASE UNCHANGED <<recvvars, delivered>>
    BY <1>1, <1>3, <2>2, <2>3 DEF Typed, recvvars
  <2>4. CASE /\ expected_seq' = [expected_seq EXCEPT ![n] = (f.seq + 1) % SeqCount]
             /\ last_acked_seq' = [last_acked_seq EXCEPT ![n] = f.seq]
             /\ delivered' = [delivered EXCEPT ![n] = Append(@, f.data)]
    <3> DEFINE d == f.data
    <3> DEFINE q == f.seq
    <3> DEFINE e == (f.seq + 1) % SeqCount
    <3>1. e \in 0..SeqCount-1 /\ d \in Nat /\ q \in 0..SeqCount-1
      BY <1>2, Succ
    <3>2. /\ expected_seq' = [expected_seq EXCEPT ![n] = e]
          /\ last_acked_seq' = [last_acked_seq EXCEPT ![n] = q]
          /\ delivered' = [delivered EXCEPT ![n] = Append(@, d)]
      BY <2>4
    <3> HIDE DEF d, q, e
    <3>3. expected_seq' \in [Node -> 0..SeqCount-1] /\ last_acked_seq' \in [Node -> 0..SeqCount-1]
      BY <3>1, <3>2 DEF Typed
    <3>4. delivered' \in [Node -> Seq(Nat)]
      BY <3>1, <3>2 DEF Typed
    <3> QED BY <1>1, <1>3, <2>2, <3>3, <3>4 DEF Typed
  <2> QED BY <2>1, <2>3, <2>4 DEF recv_data
<1> QED
  BY <1>2, <1>4, <1>5, <1>6, <1>7

LEMMA OtherTypes ==
  ASSUME Typed, setup' = setup, NEW n \in Node,
         Lose(n) \/ PeerRequest(n) \/ qos_shutdown(n) \/ qos_init(n)
  PROVE  Typed'
<1>1. setup.cap \in Nat \ {0}
  BY Surround DEF Typed
<1>2. CASE Lose(n)
  <2>1. line[n] \in Seq(Frames) /\ Len(line[n]) <= setup.cap
    BY DEF Typed
  <2>2. Tail(line[n]) \in Seq(Frames) /\ Len(Tail(line[n])) <= setup.cap
    BY <1>1, <1>2, <2>1, TailTyped DEF Lose
  <2>3. line' = [line EXCEPT ![n] = Tail(line[n])]
    BY <1>2 DEF Lose
  <2>4. line' \in [Node -> Seq(Frames)] /\ \A m \in Node : Len(line'[m]) <= setup.cap
    BY <2>2, <2>3 DEF Typed
  <2> QED BY <1>2, <2>4 DEF Typed, Lose, sendvars, recvvars, history
<1>3. CASE PeerRequest(n)
  <2>1. PICK f \in {Frame("poll", 0, 0)} \cup {Frame("resend", s, 0) : s \in 0..(SeqCount - 1)} :
           line' = [line EXCEPT ![n] = Sent(Peer(n), <<f>>)]
    BY <1>3 DEF PeerRequest
  <2>2. <<f>> \in Seq(Frames)
    BY Numbers DEF Frame, Frames
  <2>3. send_raw(Peer(n), <<f>>)
    BY <2>1, Ends DEF send_raw
  <2>4. line' \in [Node -> Seq(Frames)] /\ \A m \in Node : Len(line'[m]) <= setup.cap
    BY <2>2, <2>3, Ends, SendTyped
  <2>5. losses' \in Nat /\ UNCHANGED <<sendvars, recvvars, history, restarts, nomem>>
    BY <1>3 DEF Typed, PeerRequest
  <2> QED BY <2>4, <2>5 DEF Typed, sendvars, recvvars, history
<1>4. ASSUME dropped' = [dropped EXCEPT ![n] = @ \cup Freed(n)], window' = [window EXCEPT ![n] = [i \in Slots |-> Free]]
      PROVE  dropped' \in [Node -> SUBSET Nat] /\ window' \in [Node -> [Slots -> Slot]]
  <2>1. Freed(n) \subseteq Nat
    BY UsedTyped DEF Freed, Typed, Slot
  <2>2. [i \in Slots |-> Free] \in [Slots -> Slot]
    BY FreeTyped
  <2> QED BY <1>4, <2>1, <2>2 DEF Typed
<1>5. CASE qos_shutdown(n)
  <2>1. outstanding' \in [Node -> Int] /\ initialized' \in [Node -> BOOLEAN]
    BY <1>5, Numbers DEF qos_shutdown, Typed
  <2>2. UNCHANGED <<next_seq, expected_seq, last_acked_seq, line, accepted, delivered, acked,
                    losses, restarts, nomem>>
    BY <1>5 DEF qos_shutdown, recvvars, bounds
  <2>3. dropped' \in [Node -> SUBSET Nat] /\ window' \in [Node -> [Slots -> Slot]]
    BY <1>5, <1>4 DEF qos_shutdown
  <2> QED BY <2>1, <2>2, <2>3 DEF Typed
<1>6. CASE qos_init(n)
  <2>1. outstanding' \in [Node -> Int]
    BY <1>6 DEF qos_init, Typed
  <2>2. initialized' \in [Node -> BOOLEAN]
    BY <1>6 DEF qos_init, Typed
  <2>3. 0 \in 0..SeqCount-1
    BY Numbers
  <2>4. /\ next_seq' \in [Node -> 0..SeqCount-1]
        /\ expected_seq' \in [Node -> 0..SeqCount-1]
        /\ last_acked_seq' \in [Node -> 0..SeqCount-1]
    BY <1>6, <2>3 DEF qos_init, Typed
  <2>5. dropped' \in [Node -> SUBSET Nat] /\ window' \in [Node -> [Slots -> Slot]]
    BY <1>6, <1>4 DEF qos_init
  <2>6. UNCHANGED <<line, accepted, delivered, acked, losses, nomem>> /\ restarts' \in Nat
    BY <1>6 DEF qos_init, Typed
  <2> QED BY <2>1, <2>2, <2>4, <2>5, <2>6 DEF Typed
<1> QED
  BY <1>2, <1>3, <1>5, <1>6

LEMMA InitTyped == Init => Typed
<1> SUFFICES ASSUME Init PROVE Typed
  OBVIOUS
<1>1. setup.cap \in Nat \ {0}
  BY Surround DEF Init
<1>2. 0 \in 0..SeqCount-1
  BY Numbers
<1>3. \A n \in Node : line[n] = <<>>
  BY DEF Init
<1>4. line \in [Node -> Seq(Frames)] /\ \A n \in Node : Len(line[n]) <= setup.cap
  BY <1>1, <1>3 DEF Init
<1>5. window \in [Node -> [Slots -> Slot]]
  BY FreeTyped DEF Init
<1> QED
  BY <1>2, <1>4, <1>5 DEF Init, Typed

LEMMA NextTyped == Typed /\ [Next]_vars => Typed'
<1> SUFFICES ASSUME Typed, [Next]_vars PROVE Typed'
  OBVIOUS
<1>1. CASE Next
  <2>1. setup' = setup
    BY <1>1 DEF Next
  <2> QED BY <1>1, <2>1, SendTypes, PollTypes, TickTypes, RecvTypes, OtherTypes DEF Next, Step
<1>2. CASE UNCHANGED vars
  BY <1>2 DEF vars, sendvars, recvvars, history, bounds, Typed
<1> QED
  BY <1>1, <1>2

-----------------------------------------------------------------------------
(* The accounting of the window.                                           *)

Accepted(n) == Len(accepted[n])

(* The counter qos_send tests is the number of used slots.                 *)
Counted == \A n \in Node : initialized[n] => outstanding[n] = Cardinality(UsedSlots(n))

(* Where the numbers cannot come round, next_seq is over all in use. The   *)
(* counts are of a whole life: a restart begins again at 0, below them.    *)
Numbered ==
  setup.sends + setup.nomem < SeqCount =>
    /\ nomem <= setup.nomem
    /\ \A n \in Node :
         /\ Accepted(n) <= setup.sends
         /\ next_seq[n] <= Accepted(n) + nomem
         /\ \A i \in UsedSlots(n) : window[n][i].seq < next_seq[n]
         /\ \A i, j \in UsedSlots(n) : window[n][i].seq = window[n][j].seq => i = j

(* What neither takes a number nor restarts only frees slots.              *)
Steady == UNCHANGED <<initialized, next_seq, accepted, nomem>>

LEMMA SteadySteps ==
  ASSUME Typed, NEW n \in Node, Tick \/ qos_poll(n) \/ qos_recv(n) \/ Lose(n) \/ PeerRequest(n)
  PROVE  Steady /\ \A m \in Node : \E gone : Frees(m, gone)
<1>1. CASE Tick
  BY <1>1, TickWindow DEF Steady, Tick, history, bounds
<1>2. CASE qos_poll(n)
  <2>1. Frees(n, Gone(n)) /\ \A m \in Node \ {n} : Frees(m, {})
    BY <1>2, PollWindow, Untouched
  <2> QED BY <1>2, <2>1 DEF Steady, qos_poll, bounds
<1>3. CASE UNCHANGED <<window, outstanding>> /\ Steady
  <2>1. \A m \in Node : Frees(m, {})
    BY <1>3, Untouched
  <2> QED BY <1>3, <2>1
<1>4. CASE qos_recv(n)
  <2> DEFINE f == Head(line[n])
  <2>1. f.kind \in {"data", "ack", "nack", "poll", "resend"}
    BY <1>4, RecvLines DEF qos_recv, Frames
  <2>2. UNCHANGED nomem
    BY <1>4 DEF qos_recv, bounds
  <2>3. CASE f.kind = "ack"
    <3>1. process_ack(n, f.seq)
      BY <1>4, <2>3 DEF qos_recv
    <3>2. Frees(n, Acked(n, f.seq)) /\ \A m \in Node \ {n} : Frees(m, {})
      BY <3>1, AckWindow, Untouched
    <3> QED BY <2>2, <3>1, <3>2 DEF Steady, process_ack
  <2>4. CASE f.kind = "nack"
    <3>1. process_nack(n, f.seq)
      BY <1>4, <2>4 DEF qos_recv
    <3>2. (\E gone : Frees(n, gone)) /\ \A m \in Node \ {n} : Frees(m, {})
      BY <3>1, NackWindow, Untouched
    <3> QED BY <2>2, <3>1, <3>2 DEF Steady, process_nack
  <2>5. CASE f.kind \in {"poll", "resend"}
    <3>1. UNCHANGED <<sendvars, recvvars, history>>
      BY <1>4, <2>5 DEF qos_recv
    <3> QED BY <2>2, <3>1, <1>3 DEF Steady, sendvars, history
  <2>6. CASE f.kind = "data"
    <3>1. recv_data(n, f)
      BY <1>4, <2>6 DEF qos_recv
    <3> QED BY <2>2, <3>1, <1>3 DEF Steady, recv_data, sendvars
  <2> QED BY <2>1, <2>3, <2>4, <2>5, <2>6
<1>5. CASE Lose(n)
  BY <1>3, <1>5 DEF Lose, Steady, sendvars, history
<1>6. CASE PeerRequest(n)
  <2>1. UNCHANGED <<sendvars, history, nomem>>
    BY <1>6 DEF PeerRequest
  <2> QED BY <1>3, <2>1 DEF Steady, sendvars, history
<1> QED
  BY <1>1, <1>2, <1>4, <1>5, <1>6

(* A slot that is freed and a slot that is kept.                           *)
LEMMA FreesUsed ==
  ASSUME Typed, NEW n \in Node, NEW gone, Frees(n, gone)
  PROVE  /\ UsedSlots(n)' = UsedSlots(n) \ gone
         /\ outstanding[n] = Cardinality(UsedSlots(n)) => outstanding'[n] = Cardinality(UsedSlots(n)')
<1>1. UsedSlots(n) \in SUBSET Slots /\ gone \in SUBSET Slots /\ gone \subseteq UsedSlots(n)
  BY UsedTyped DEF Frees
<1>2. UsedSlots(n)' = UsedSlots(n) \ gone
  BY UsedTyped, UsedTyped2 DEF Frees
<1>3. IsFiniteSet(UsedSlots(n)) /\ IsFiniteSet(gone)
  BY <1>1, FiniteSlots
<1>4. Cardinality(UsedSlots(n) \ gone) = Cardinality(UsedSlots(n)) - Cardinality(UsedSlots(n) \cap gone)
  BY <1>3, FS_Difference
<1>5. UsedSlots(n) \cap gone = gone
  BY <1>1
<1>6. outstanding'[n] = outstanding[n] - Cardinality(gone)
  BY DEF Frees
<1> QED
  BY <1>2, <1>4, <1>5, <1>6

(* qos_send with memory uses one more slot, and without leaves the window. *)
LEMMA SendAdds ==
  ASSUME Typed, NEW n \in Node, qos_send(n), window' # window
  PROVE  \E i \in Slots \ UsedSlots(n) :
           /\ window'[n][i] = NewEntry(n) /\ \A j \in Slots \ {i} : window'[n][j] = window[n][j]
           /\ UsedSlots(n)' = UsedSlots(n) \cup {i}
           /\ outstanding'[n] = outstanding[n] + 1
           /\ Cardinality(UsedSlots(n)') = Cardinality(UsedSlots(n)) + 1
           /\ accepted'[n] = Append(accepted[n], Accepted(n) + 1)
           /\ send_raw(n, <<DataFrame(NewEntry(n))>>)
           /\ nomem' = nomem
           /\ accepted' = [accepted EXCEPT ![n] = Append(@, Accepted(n) + 1)]
           /\ \A m \in Node \ {n} : /\ window'[m] = window[m] /\ outstanding'[m] = outstanding[m]
                                    /\ accepted'[m] = accepted[m]
<1> DEFINE i == NewSlot(n)
<1> DEFINE s == NewEntry(n)
<1>1. FreeSlots(n) # {}
  BY DEF qos_send
<1>2. i \in Slots /\ s \in Slot /\ s.data = Accepted(n) + 1 /\ s.used /\ ~window[n][i].used
  BY <1>1, NewTyped DEF Accepted
<1>3. /\ window' = [window EXCEPT ![n][i] = s]
      /\ outstanding' = [outstanding EXCEPT ![n] = @ + 1]
      /\ accepted' = [accepted EXCEPT ![n] = Append(@, s.data)]
      /\ send_raw(n, <<DataFrame(s)>>)
      /\ nomem' = nomem
  BY DEF qos_send, NewSlot, NewEntry
<1> HIDE DEF i, s
<1>4. window'[n][i] = s /\ \A j \in Slots \ {i} : window'[n][j] = window[n][j]
  <2>1. window'[n] = [window[n] EXCEPT ![i] = s]
    BY <1>2, <1>3 DEF Typed
  <2> QED BY <2>1, <1>2 DEF Typed
<1>5. \A m \in Node \ {n} : /\ window'[m] = window[m] /\ outstanding'[m] = outstanding[m]
                            /\ accepted'[m] = accepted[m]
  BY <1>3 DEF Typed
<1>6. UsedSlots(n)' = UsedSlots(n) \cup {i} /\ i \notin UsedSlots(n)
  BY <1>2, <1>4, UsedTyped, UsedTyped2
<1>7. UsedSlots(n) \in SUBSET Slots
  BY UsedTyped
<1>8. Cardinality(UsedSlots(n)') = Cardinality(UsedSlots(n)) + 1
  BY <1>6, <1>7, FiniteSlots, FS_AddElement
<1>9. outstanding'[n] = outstanding[n] + 1 /\ accepted'[n] = Append(accepted[n], Accepted(n) + 1)
  BY <1>2, <1>3 DEF Typed
<1> QED
  BY <1>2, <1>3, <1>4, <1>5, <1>6, <1>8, <1>9 DEF s

LEMMA SendEither ==
  ASSUME Typed, NEW n \in Node, qos_send(n)
  PROVE  \/ window' # window
         \/ /\ nomem < setup.nomem /\ nomem' = nomem + 1
            /\ UNCHANGED <<window, outstanding, accepted, line>>
<1> DEFINE i == NewSlot(n)
<1> DEFINE s == NewEntry(n)
<1>1. FreeSlots(n) # {}
  BY DEF qos_send
<1>2. i \in Slots /\ s.used /\ ~window[n][i].used
  BY <1>1, NewTyped
<1>3. \/ window' = [window EXCEPT ![n][i] = s]
      \/ /\ nomem < setup.nomem /\ nomem' = nomem + 1
         /\ UNCHANGED <<window, outstanding, accepted, line>>
  BY DEF qos_send, NewSlot, NewEntry
<1> HIDE DEF i, s
<1>4. ASSUME window' = [window EXCEPT ![n][i] = s] PROVE window' # window
  <2>1. window'[n][i] = s
    BY <1>2, <1>4 DEF Typed
  <2> QED BY <1>2, <2>1
<1> QED
  BY <1>3, <1>4

LEMMA SendNext ==
  ASSUME Typed, NEW n \in Node, qos_send(n)
  PROVE  /\ Accepted(n) < setup.sends /\ outstanding[n] < Window /\ initialized[n]
         /\ next_seq'[n] = (next_seq[n] + 1) % SeqCount
         /\ \A m \in Node \ {n} : next_seq'[m] = next_seq[m]
         /\ UNCHANGED <<initialized, recvvars, delivered, acked, dropped>>
<1>1. /\ next_seq' = [next_seq EXCEPT ![n] = (@ + 1) % SeqCount]
      /\ UNCHANGED <<initialized, recvvars, delivered, acked, dropped>>
      /\ Len(accepted[n]) < setup.sends /\ initialized[n] /\ ~(outstanding[n] >= Window)
  BY DEF qos_send, WindowFull
<1>2. outstanding[n] < Window
  BY <1>1, Numbers DEF Typed
<1>3. next_seq'[n] = (next_seq[n] + 1) % SeqCount /\ \A m \in Node \ {n} : next_seq'[m] = next_seq[m]
  BY <1>1 DEF Typed
<1> QED
  BY <1>1, <1>2, <1>3 DEF Accepted

(* After a shutdown or a restart nothing is in use.                        *)
LEMMA ResetEffect ==
  ASSUME Typed, NEW n \in Node, qos_shutdown(n) \/ qos_init(n)
  PROVE  /\ UsedSlots(n)' = {}
         /\ initialized'[n] => outstanding'[n] = 0
         /\ \A m \in Node \ {n} : /\ window'[m] = window[m] /\ outstanding'[m] = outstanding[m]
                                  /\ initialized'[m] = initialized[m] /\ next_seq'[m] = next_seq[m]
         /\ next_seq'[n] = next_seq[n] \/ next_seq'[n] = 0
         /\ UNCHANGED <<accepted, nomem>>
<1>1. window' = [window EXCEPT ![n] = [i \in Slots |-> Free]]
  BY DEF qos_shutdown, qos_init
<1>2. window'[n] = [i \in Slots |-> Free] /\ \A m \in Node \ {n} : window'[m] = window[m]
  BY <1>1 DEF Typed
<1>3. UsedSlots(n)' = {}
  BY <1>2, UsedTyped2, FreeTyped
<1>4. UNCHANGED <<accepted, nomem>>
  BY DEF qos_shutdown, qos_init, bounds
<1>5. CASE qos_shutdown(n)
  BY <1>2, <1>3, <1>4, <1>5 DEF qos_shutdown, Typed
<1>6. CASE qos_init(n)
  BY <1>2, <1>3, <1>4, <1>6 DEF qos_init, Typed
<1> QED
  BY <1>5, <1>6

LEMMA Reached ==
  ASSUME Next
  PROVE  \E n \in Node : \/ qos_send(n)
                         \/ Tick \/ qos_poll(n) \/ qos_recv(n) \/ Lose(n) \/ PeerRequest(n)
                         \/ qos_shutdown(n) \/ qos_init(n)
<1>1. \E n \in Node : TRUE
  BY QosHolds DEF QosAssumption
<1> QED
  BY <1>1 DEF Next, Step

LEMMA SameUsed ==
  ASSUME NEW n \in Node, window'[n] = window[n]
  PROVE  UsedSlots(n)' = UsedSlots(n)
  BY UsedTyped, UsedTyped2

LEMMA CountedInit == Init => Counted
<1>1. Init => \A n \in Node : UsedSlots(n) = {} /\ outstanding[n] = 0
  BY UsedTyped, FreeTyped DEF Init
<1> QED
  BY <1>1, FS_EmptySet DEF Counted

LEMMA CountedNext ==
  ASSUME Typed, Counted, Next
  PROVE  Counted'
<1>1. PICK n \in Node : \/ qos_send(n)
                        \/ Tick \/ qos_poll(n) \/ qos_recv(n) \/ Lose(n) \/ PeerRequest(n)
                        \/ qos_shutdown(n) \/ qos_init(n)
  BY Reached
<1>2. ASSUME NEW m \in Node, window'[m] = window[m], outstanding'[m] = outstanding[m],
             initialized'[m] = initialized[m]
      PROVE  initialized'[m] => outstanding'[m] = Cardinality(UsedSlots(m)')
  BY <1>2, SameUsed DEF Counted
<1>3. CASE Tick \/ qos_poll(n) \/ qos_recv(n) \/ Lose(n) \/ PeerRequest(n)
  <2>1. Steady /\ \A m \in Node : \E gone : Frees(m, gone)
    BY <1>3, SteadySteps
  <2>2. ASSUME NEW m \in Node PROVE initialized'[m] => outstanding'[m] = Cardinality(UsedSlots(m)')
    BY <2>1, FreesUsed DEF Counted, Steady
  <2> QED BY <2>2 DEF Counted
<1>4. CASE qos_send(n) /\ UNCHANGED <<window, outstanding>>
  <2>1. UNCHANGED initialized
    BY <1>4, SendNext
  <2> QED BY <1>4, <2>1, <1>2 DEF Counted
<1>5. CASE qos_send(n) /\ window' # window
  <2>1. initialized' = initialized
    BY <1>5, SendNext
  <2>2. /\ outstanding'[n] = outstanding[n] + 1
        /\ Cardinality(UsedSlots(n)') = Cardinality(UsedSlots(n)) + 1
        /\ \A m \in Node \ {n} : window'[m] = window[m] /\ outstanding'[m] = outstanding[m]
    BY <1>5, SendAdds
  <2>3. ASSUME NEW m \in Node PROVE initialized'[m] => outstanding'[m] = Cardinality(UsedSlots(m)')
    <3>1. CASE m = n
      BY <3>1, <2>1, <2>2 DEF Counted
    <3>2. CASE m # n
      BY <3>2, <2>1, <2>2, <1>2
    <3> QED BY <3>1, <3>2
  <2> QED BY <2>3 DEF Counted
<1>6. CASE qos_shutdown(n) \/ qos_init(n)
  <2>1. ASSUME NEW m \in Node PROVE initialized'[m] => outstanding'[m] = Cardinality(UsedSlots(m)')
    <3>1. CASE m = n
      <4>1. UsedSlots(n)' = {} /\ (initialized'[n] => outstanding'[n] = 0)
        BY <1>6, ResetEffect
      <4> QED BY <3>1, <4>1, FS_EmptySet
    <3>2. CASE m # n
      BY <3>2, <1>6, ResetEffect, <1>2
    <3> QED BY <3>1, <3>2
  <2> QED BY <2>1 DEF Counted
<1> QED
  BY <1>1, <1>3, <1>4, <1>5, <1>6, SendEither

LEMMA NumberedInit == Init => Numbered
<1> SUFFICES ASSUME Init PROVE Numbered
  OBVIOUS
<1>1. \A n \in Node : UsedSlots(n) = {} /\ Accepted(n) = 0 /\ next_seq[n] = 0
  BY UsedTyped, FreeTyped DEF Init, Accepted
<1>2. nomem = 0 /\ setup \in Setup
  BY DEF Init
<1> QED
  BY <1>1, <1>2, Surround DEF Numbered

LEMMA NumberedNext ==
  ASSUME Typed, Numbered, Next
  PROVE  Numbered'
<1>1. PICK n \in Node : \/ qos_send(n)
                        \/ Tick \/ qos_poll(n) \/ qos_recv(n) \/ Lose(n) \/ PeerRequest(n)
                        \/ qos_shutdown(n) \/ qos_init(n)
  BY Reached
<1>2. setup' = setup /\ setup.sends \in Nat /\ setup.nomem \in Nat /\ nomem \in Nat
  BY Surround DEF Next, Typed
<1> SUFFICES ASSUME setup.sends + setup.nomem < SeqCount
             PROVE  /\ nomem' <= setup.nomem
                    /\ \A m \in Node :
                         /\ Accepted(m)' <= setup.sends
                         /\ next_seq'[m] <= Accepted(m)' + nomem'
                         /\ \A i \in UsedSlots(m)' : window'[m][i].seq < next_seq'[m]
                         /\ \A i, j \in UsedSlots(m)' : window'[m][i].seq = window'[m][j].seq => i = j
  BY <1>2 DEF Numbered
<1>3. /\ nomem <= setup.nomem
      /\ \A m \in Node :
           /\ Accepted(m) <= setup.sends
           /\ next_seq[m] <= Accepted(m) + nomem
           /\ \A i \in UsedSlots(m) : window[m][i].seq < next_seq[m]
           /\ \A i, j \in UsedSlots(m) : window[m][i].seq = window[m][j].seq => i = j
  BY DEF Numbered
<1>4. \A m \in Node : Accepted(m) \in Nat /\ next_seq[m] \in Nat /\ next_seq[m] < SeqCount
  <2>1. ASSUME NEW m \in Node PROVE Accepted(m) \in Nat /\ next_seq[m] \in Nat /\ next_seq[m] < SeqCount
    <3>1. accepted[m] \in Seq(Nat) /\ next_seq[m] \in 0..SeqCount-1
      BY DEF Typed
    <3>2. Len(accepted[m]) \in Nat
      BY <3>1
    <3>3. next_seq[m] \in Nat /\ next_seq[m] < SeqCount
      BY <3>1, Numbers
    <3> QED BY <3>2, <3>3 DEF Accepted
  <2> QED BY <2>1
<1>5. \A m \in Node : \A i \in UsedSlots(m) : window[m][i].seq \in Nat
  BY UsedTyped DEF Typed, Slot
<1>6. CASE Tick \/ qos_poll(n) \/ qos_recv(n) \/ Lose(n) \/ PeerRequest(n)
  <2>1. Steady /\ \A m \in Node : \E gone : Frees(m, gone)
    BY <1>6, SteadySteps
  <2>2. \A m \in Node : Accepted(m)' = Accepted(m) /\ next_seq'[m] = next_seq[m] /\ nomem' = nomem
    BY <2>1 DEF Steady, Accepted
  <2>3. ASSUME NEW m \in Node
        PROVE  /\ UsedSlots(m)' \subseteq UsedSlots(m)
               /\ \A i \in UsedSlots(m)' : window'[m][i].seq = window[m][i].seq
    BY <2>1, FreesUsed DEF Frees
  <2> QED BY <1>3, <2>2, <2>3
<1>7. CASE qos_send(n) /\ nomem < setup.nomem /\ nomem' = nomem + 1 /\ UNCHANGED <<window, accepted>>
  <2>1. next_seq'[n] = (next_seq[n] + 1) % SeqCount /\ \A m \in Node \ {n} : next_seq'[m] = next_seq[m]
    BY <1>7, SendNext
  <2>2. Accepted(n) < setup.sends
    BY <1>7, SendNext
  <2>3. (next_seq[n] + 1) % SeqCount = next_seq[n] + 1
    <3>1. 0 <= next_seq[n] + 1 /\ next_seq[n] + 1 < SeqCount
      BY <1>2, <1>3, <1>4, <1>7, <2>2, Numbers
    <3>2. next_seq[n] + 1 \in Int /\ SeqCount \in Nat \ {0}
      BY <1>4, Numbers
    <3> QED BY <3>1, <3>2, Small
  <2>4. \A m \in Node : Accepted(m)' = Accepted(m) /\ UsedSlots(m)' = UsedSlots(m)
    BY <1>7, SameUsed DEF Accepted
  <2>5. ASSUME NEW m \in Node
        PROVE  next_seq[m] <= next_seq'[m] /\ next_seq'[m] <= Accepted(m) + nomem + 1
    BY <1>2, <1>3, <1>4, <2>1, <2>3
  <2>6. ASSUME NEW m \in Node, NEW i \in UsedSlots(m)
        PROVE  window[m][i].seq < next_seq'[m]
    <3>1. next_seq'[m] \in Int
      BY <1>4, <2>1, <2>3
    <3> QED BY <1>3, <1>4, <1>5, <2>5, <3>1
  <2> QED BY <1>2, <1>3, <1>4, <1>7, <2>4, <2>5, <2>6
<1>8. CASE qos_send(n) /\ window' # window
  <2>1. next_seq'[n] = (next_seq[n] + 1) % SeqCount /\ \A m \in Node \ {n} : next_seq'[m] = next_seq[m]
    BY <1>8, SendNext
  <2>2. Accepted(n) < setup.sends
    BY <1>8, SendNext
  <2>3. (next_seq[n] + 1) % SeqCount = next_seq[n] + 1
    <3>1. 0 <= next_seq[n] + 1 /\ next_seq[n] + 1 < SeqCount
      BY <1>2, <1>3, <1>4, <1>8, <2>2, Numbers
    <3>2. next_seq[n] + 1 \in Int /\ SeqCount \in Nat \ {0}
      BY <1>4, Numbers
    <3> QED BY <3>1, <3>2, Small
  <2>4. PICK i \in Slots \ UsedSlots(n) :
           /\ window'[n][i] = NewEntry(n) /\ \A j \in Slots \ {i} : window'[n][j] = window[n][j]
           /\ UsedSlots(n)' = UsedSlots(n) \cup {i}
           /\ accepted'[n] = Append(accepted[n], Accepted(n) + 1)
           /\ nomem' = nomem
           /\ \A m \in Node \ {n} : window'[m] = window[m] /\ accepted'[m] = accepted[m]
    BY <1>8, SendAdds
  <2>5. Accepted(n)' = Accepted(n) + 1 /\ \A m \in Node \ {n} : Accepted(m)' = Accepted(m)
    <3>1. accepted[n] \in Seq(Nat) /\ accepted'[n] = Append(accepted[n], Accepted(n) + 1)
      BY <2>4 DEF Typed
    <3>2. Accepted(n)' = Accepted(n) + 1
      BY <3>1 DEF Accepted
    <3> QED BY <2>4, <3>2 DEF Accepted
  <2>6. window'[n][i].seq = next_seq[n]
    BY <2>4 DEF NewEntry
  <2>7. \A j \in UsedSlots(n) : window'[n][j] = window[n][j]
    BY <2>4, UsedTyped
  <2>8. /\ \A j \in UsedSlots(n)' : window'[n][j].seq < next_seq'[n]
        /\ \A j, k \in UsedSlots(n)' : window'[n][j].seq = window'[n][k].seq => j = k
    <3>1. next_seq'[n] = next_seq[n] + 1 /\ next_seq[n] \in Nat
      BY <1>4, <2>1, <2>3
    <3>2. \A j \in UsedSlots(n) : window'[n][j].seq \in Nat /\ window'[n][j].seq < next_seq[n]
      BY <1>3, <1>5, <2>7
    <3>3. ASSUME NEW j \in UsedSlots(n)' PROVE window'[n][j].seq < next_seq'[n]
      BY <2>4, <2>6, <3>1, <3>2, <3>3
    <3>4. ASSUME NEW j \in UsedSlots(n)', NEW k \in UsedSlots(n)', window'[n][j].seq = window'[n][k].seq
          PROVE  j = k
      <4>1. CASE j \in UsedSlots(n) /\ k \in UsedSlots(n)
        BY <1>3, <2>7, <3>4, <4>1
      <4>2. CASE j = i /\ k = i
        BY <4>2
      <4>3. CASE j = i /\ k \in UsedSlots(n)
        BY <2>6, <3>1, <3>2, <3>4, <4>3
      <4>4. CASE k = i /\ j \in UsedSlots(n)
        BY <2>6, <3>1, <3>2, <3>4, <4>4
      <4> QED BY <2>4, <4>1, <4>2, <4>3, <4>4
    <3> QED BY <3>3, <3>4
  <2>9. next_seq'[n] <= Accepted(n)' + nomem' /\ Accepted(n)' <= setup.sends
    BY <1>2, <1>3, <1>4, <2>1, <2>2, <2>3, <2>4, <2>5
  <2>10. ASSUME NEW m \in Node, m # n
         PROVE  /\ Accepted(m)' <= setup.sends
                /\ next_seq'[m] <= Accepted(m)' + nomem'
                /\ \A j \in UsedSlots(m)' : window'[m][j].seq < next_seq'[m]
                /\ \A j, k \in UsedSlots(m)' : window'[m][j].seq = window'[m][k].seq => j = k
    <3>1. UsedSlots(m)' = UsedSlots(m) /\ window'[m] = window[m]
      BY <2>4, <2>10, SameUsed
    <3> QED BY <1>3, <2>1, <2>4, <2>5, <2>10, <3>1
  <2> QED BY <1>3, <2>4, <2>8, <2>9, <2>10
<1>9. CASE qos_shutdown(n) \/ qos_init(n)
  <2>1. /\ UsedSlots(n)' = {}
        /\ \A m \in Node \ {n} : window'[m] = window[m] /\ next_seq'[m] = next_seq[m]
        /\ next_seq'[n] = next_seq[n] \/ next_seq'[n] = 0
        /\ UNCHANGED <<accepted, nomem>>
    BY <1>9, ResetEffect
  <2>2. ASSUME NEW m \in Node
        PROVE  /\ Accepted(m)' <= setup.sends
               /\ next_seq'[m] <= Accepted(m)' + nomem'
               /\ \A j \in UsedSlots(m)' : window'[m][j].seq < next_seq'[m]
               /\ \A j, k \in UsedSlots(m)' : window'[m][j].seq = window'[m][k].seq => j = k
    <3>1. CASE m = n
      BY <1>2, <1>3, <1>4, <2>1, <3>1 DEF Accepted
    <3>2. CASE m # n
      <4>1. UsedSlots(m)' = UsedSlots(m) /\ window'[m] = window[m]
        BY <2>1, <3>2, SameUsed
      <4> QED BY <1>3, <2>1, <3>2, <4>1 DEF Accepted
    <3> QED BY <3>1, <3>2
  <2> QED BY <1>3, <2>1, <2>2
<1> QED
  BY <1>1, <1>6, <1>7, <1>8, <1>9, SendEither

-----------------------------------------------------------------------------
(* Calm set-ups.  In direction n, endpoint n sends data and its peer       *)
(* answers with acknowledgements.                                          *)

(* Payloads handed over at the other end, and payloads no longer in the    *)
(* window: the window holds those in between and those behind.             *)
Delivered(n) == Len(delivered[Peer(n)])
Base(n) == Accepted(n) - outstanding[n]

(* seq is the number of the d-th payload.                                  *)
Holds(seq, d) == seq = (d - 1) % SeqCount

(* What is on the line is true: a data frame has the number of its         *)
(* payload, and an acknowledgement is of a payload that was handed over.   *)
(* The payload an acknowledgement is for, g, is not in the frame.          *)
DataHolds(q, A) ==
  \A k \in 1..Len(q) : q[k].kind = "data" => q[k].data \in 1..A /\ Holds(q[k].seq, q[k].data)

AckHolds(q, g, D) ==
  \A k \in 1..Len(q) : q[k].kind = "ack" => g[k] \in 1..D /\ Holds(q[k].seq, g[k])

(* No data frame is a window behind what was delivered, nor behind what is *)
(* in front of it; and the same of the acknowledgements.                   *)
DataSlides(q, D) ==
  \A k \in 1..Len(q) : q[k].kind = "data" =>
     /\ D < q[k].data + Window
     /\ \A j \in 1..Len(q) : j < k /\ q[j].kind = "data" => q[j].data < q[k].data + Window

AckSlides(q, g, B) ==
  \A k \in 1..Len(q) : q[k].kind = "ack" =>
     /\ B < g[k] + Window
     /\ \A j \in 1..Len(q) : j < k /\ q[j].kind = "ack" => g[j] < g[k] + Window

(* The frames that this code sends.                                        *)
Plain(q) == \A k \in 1..Len(q) : q[k].kind \in {"data", "ack", "nack"}

LEMMA LenNat == ASSUME NEW q \in Seq(Frames) PROVE Len(q) \in Nat /\ \A k \in 1..Len(q) : q[k] \in Frames
  OBVIOUS

LEMMA FrameData == ASSUME NEW f \in Frames PROVE f.data \in Nat /\ f.data \in Int
  BY DEF Frames

(* The statements about a line of data frames are kept when frames of the  *)
(* window are sent, and when the first one is taken.                       *)
LEMMA GrowData ==
  ASSUME NEW q \in Seq(Frames), NEW fs \in Seq(Frames), NEW r, Grown(q, fs, r), NEW A \in Nat, NEW D \in Nat,
         DataHolds(q, A),
         \A k \in 1..Len(fs) : fs[k].kind = "data" => fs[k].data \in 1..A /\ Holds(fs[k].seq, fs[k].data)
  PROVE  /\ DataHolds(r, A)
         /\ (/\ DataSlides(q, D) /\ D <= A
             /\ \A k \in 1..Len(fs) : fs[k].kind = "data" => A < fs[k].data + Window) => DataSlides(r, D)
<1>1. r \in Seq(Frames) /\ Len(q) \in Nat /\ Len(r) \in Nat /\ Len(fs) \in Nat /\ Window \in Nat
  BY LenNat, Numbers DEF Grown
<1>2. ASSUME NEW k \in 1..Len(r)
      PROVE  \/ k \in 1..Len(q) /\ r[k] = q[k]
             \/ k > Len(q) /\ k - Len(q) \in 1..Len(fs) /\ r[k] = fs[k - Len(q)]
  <2>1. CASE k <= Len(q)
    BY <1>1, <2>1 DEF Grown
  <2>2. CASE k > Len(q)
    <3>1. k \in Len(q)+1..Len(r)
      BY <1>1, <2>2
    <3> QED BY <3>1, <2>2 DEF Grown
  <2> QED BY <1>1, <2>1, <2>2
<1>3. DataHolds(r, A)
  <2>1. ASSUME NEW k \in 1..Len(r), r[k].kind = "data"
        PROVE  r[k].data \in 1..A /\ Holds(r[k].seq, r[k].data)
    BY <1>2, <2>1 DEF DataHolds
  <2> QED BY <2>1 DEF DataHolds
<1>4. ASSUME DataSlides(q, D), D <= A, \A k \in 1..Len(fs) : fs[k].kind = "data" => A < fs[k].data + Window
      PROVE  DataSlides(r, D)
  <2>1. ASSUME NEW k \in 1..Len(r), r[k].kind = "data"
        PROVE  /\ D < r[k].data + Window
               /\ \A j \in 1..Len(r) : j < k /\ r[j].kind = "data" => r[j].data < r[k].data + Window
    <3>1. r[k].data \in Nat
      BY <1>1, LenNat, FrameData
    <3>2. CASE k \in 1..Len(q) /\ r[k] = q[k]
      <4>1. D < r[k].data + Window
        BY <1>4, <2>1, <3>2 DEF DataSlides
      <4>2. ASSUME NEW j \in 1..Len(r), j < k, r[j].kind = "data" PROVE r[j].data < r[k].data + Window
        <5>1. j \in 1..Len(q) /\ r[j] = q[j]
          BY <1>1, <1>2, <3>2, <4>2
        <5> QED BY <1>4, <2>1, <3>2, <4>2, <5>1 DEF DataSlides
      <4> QED BY <4>1, <4>2
    <3>3. CASE k - Len(q) \in 1..Len(fs) /\ r[k] = fs[k - Len(q)]
      <4>1. A < r[k].data + Window
        BY <1>4, <2>1, <3>3
      <4>2. \A j \in 1..Len(r) : r[j].kind = "data" => r[j].data <= A /\ r[j].data \in Nat
        BY <1>3 DEF DataHolds
      <4> QED BY <1>1, <1>4, <3>1, <4>1, <4>2
    <3> QED BY <1>2, <3>2, <3>3
  <2> QED BY <2>1 DEF DataSlides
<1> QED
  BY <1>3, <1>4

LEMMA TailData ==
  ASSUME NEW q \in Seq(Frames), q # <<>>, NEW A \in Nat, NEW D \in Nat, NEW E \in Nat,
         E = D \/ (q[1].kind = "data" /\ E = q[1].data)
  PROVE  /\ DataHolds(q, A) => DataHolds(Tail(q), A)
         /\ DataSlides(q, D) => DataSlides(Tail(q), E)
<1>1. /\ Len(Tail(q)) = Len(q) - 1 /\ Len(q) \in Nat /\ Len(q) >= 1
      /\ \A k \in 1..Len(q)-1 : Tail(q)[k] = q[k+1]
  BY TailTyped, LenNat
<1>2. ASSUME NEW k \in 1..Len(Tail(q))
      PROVE  k + 1 \in 1..Len(q) /\ Tail(q)[k] = q[k+1] /\ 1 \in 1..Len(q) /\ 1 < k + 1
  BY <1>1
<1>3. ASSUME DataHolds(q, A) PROVE DataHolds(Tail(q), A)
  BY <1>2, <1>3 DEF DataHolds
<1>4. ASSUME DataSlides(q, D) PROVE DataSlides(Tail(q), E)
  <2>1. ASSUME NEW k \in 1..Len(Tail(q)), Tail(q)[k].kind = "data"
        PROVE  /\ E < Tail(q)[k].data + Window
               /\ \A j \in 1..Len(Tail(q)) : j < k /\ Tail(q)[j].kind = "data"
                     => Tail(q)[j].data < Tail(q)[k].data + Window
    <3>1. k + 1 \in 1..Len(q) /\ Tail(q)[k] = q[k+1] /\ 1 \in 1..Len(q) /\ 1 < k + 1
      BY <1>2
    <3>2. /\ D < q[k+1].data + Window
          /\ \A j \in 1..Len(q) : j < k+1 /\ q[j].kind = "data" => q[j].data < q[k+1].data + Window
      BY <1>4, <2>1, <3>1 DEF DataSlides
    <3>3. E < q[k+1].data + Window
      BY <3>1, <3>2
    <3>4. ASSUME NEW j \in 1..Len(Tail(q)), j < k, Tail(q)[j].kind = "data"
          PROVE  Tail(q)[j].data < Tail(q)[k].data + Window
      <4>1. j + 1 \in 1..Len(q) /\ Tail(q)[j] = q[j+1] /\ j + 1 < k + 1
        BY <1>2, <3>4
      <4> QED BY <3>1, <3>2, <3>4, <4>1
    <3> QED BY <3>1, <3>3, <3>4
  <2> QED BY <2>1 DEF DataSlides
<1> QED
  BY <1>3, <1>4

(* The acknowledgements among fs are of the v-th payload, of D.            *)
AnswersOf(fs, v, D) == \A k \in 1..Len(fs) : fs[k].kind = "ack" => v \in 1..D /\ Holds(fs[k].seq, v)
AnswersInTime(fs, v, D) == \A k \in 1..Len(fs) : fs[k].kind = "ack" => D < v + Window

(* The same for a line of acknowledgements.                                *)
LEMMA GrowAck ==
  ASSUME NEW q \in Seq(Frames), NEW fs \in Seq(Frames), NEW r, Grown(q, fs, r),
         NEW g \in [1..Len(q) -> Nat], NEW D \in Nat, NEW B \in Int, NEW v \in Nat,
         AckHolds(q, g, D), AnswersOf(fs, v, D)
  PROVE  \E h \in [1..Len(r) -> Nat] :
           /\ AckHolds(r, h, D)
           /\ AckSlides(q, g, B) /\ B <= D /\ AnswersInTime(fs, v, D) => AckSlides(r, h, B)
<1> DEFINE h == [k \in 1..Len(r) |-> IF k <= Len(q) THEN g[k] ELSE v]
<1>1. r \in Seq(Frames) /\ Len(q) \in Nat /\ Len(r) \in Nat /\ Len(fs) \in Nat /\ Window \in Nat
  BY LenNat, Numbers DEF Grown
<1>2. ASSUME NEW k \in 1..Len(r)
      PROVE  \/ k \in 1..Len(q) /\ r[k] = q[k] /\ h[k] = g[k] /\ h[k] \in Nat
             \/ /\ k > Len(q) /\ k - Len(q) \in 1..Len(fs) /\ r[k] = fs[k - Len(q)]
                /\ h[k] = v /\ h[k] \in Nat
  <2>1. CASE k <= Len(q)
    BY <1>1, <2>1 DEF Grown
  <2>2. CASE k > Len(q)
    <3>1. k \in Len(q)+1..Len(r)
      BY <1>1, <2>2
    <3> QED BY <3>1, <2>2 DEF Grown
  <2> QED BY <1>1, <2>1, <2>2
<1>3. h \in [1..Len(r) -> Nat]
  BY <1>2
<1> HIDE DEF h
<1>4. AckHolds(r, h, D)
  <2>1. ASSUME NEW k \in 1..Len(r), r[k].kind = "ack"
        PROVE  h[k] \in 1..D /\ Holds(r[k].seq, h[k])
    BY <1>2, <2>1 DEF AckHolds, AnswersOf
  <2> QED BY <2>1 DEF AckHolds
<1>5. ASSUME AckSlides(q, g, B), B <= D, AnswersInTime(fs, v, D)
      PROVE  AckSlides(r, h, B)
  <2>1. ASSUME NEW k \in 1..Len(r), r[k].kind = "ack"
        PROVE  /\ B < h[k] + Window
               /\ \A j \in 1..Len(r) : j < k /\ r[j].kind = "ack" => h[j] < h[k] + Window
    <3>1. CASE k \in 1..Len(q) /\ r[k] = q[k] /\ h[k] = g[k] /\ h[k] \in Nat
      <4>1. B < h[k] + Window
        BY <1>5, <2>1, <3>1 DEF AckSlides
      <4>2. ASSUME NEW j \in 1..Len(r), j < k, r[j].kind = "ack" PROVE h[j] < h[k] + Window
        <5>1. j \in 1..Len(q) /\ r[j] = q[j] /\ h[j] = g[j]
          BY <1>1, <1>2, <3>1, <4>2
        <5> QED BY <1>5, <2>1, <3>1, <4>2, <5>1 DEF AckSlides
      <4> QED BY <4>1, <4>2
    <3>2. CASE k - Len(q) \in 1..Len(fs) /\ r[k] = fs[k - Len(q)] /\ h[k] = v
      <4>1. D < h[k] + Window
        BY <1>5, <2>1, <3>2 DEF AnswersInTime
      <4>2. \A j \in 1..Len(r) : r[j].kind = "ack" => h[j] <= D /\ h[j] \in Nat
        BY <1>4 DEF AckHolds
      <4> QED BY <1>1, <1>5, <3>2, <4>1, <4>2
    <3> QED BY <1>2, <3>1, <3>2
  <2> QED BY <2>1 DEF AckSlides
<1> QED
  BY <1>3, <1>4, <1>5

LEMMA TailAck ==
  ASSUME NEW q \in Seq(Frames), q # <<>>, NEW g \in [1..Len(q) -> Nat], NEW D \in Nat, NEW B \in Int,
         NEW C \in Int, AckHolds(q, g, D), C <= B \/ (q[1].kind = "ack" /\ C <= g[1])
  PROVE  \E h \in [1..Len(Tail(q)) -> Nat] :
           AckHolds(Tail(q), h, D) /\ (AckSlides(q, g, B) => AckSlides(Tail(q), h, C))
<1> DEFINE h == [k \in 1..Len(Tail(q)) |-> g[k+1]]
<1>1. /\ Len(Tail(q)) = Len(q) - 1 /\ Len(q) \in Nat /\ Len(q) >= 1
      /\ \A k \in 1..Len(q)-1 : Tail(q)[k] = q[k+1]
  BY TailTyped, LenNat
<1>2. ASSUME NEW k \in 1..Len(Tail(q))
      PROVE  /\ k + 1 \in 1..Len(q) /\ Tail(q)[k] = q[k+1] /\ 1 \in 1..Len(q) /\ 1 < k + 1
             /\ h[k] = g[k+1] /\ h[k] \in Nat
  BY <1>1
<1>3. h \in [1..Len(Tail(q)) -> Nat]
  BY <1>2
<1> HIDE DEF h
<1>4. AckHolds(Tail(q), h, D)
  <2>1. ASSUME NEW k \in 1..Len(Tail(q)), Tail(q)[k].kind = "ack"
        PROVE  h[k] \in 1..D /\ Holds(Tail(q)[k].seq, h[k])
    BY <1>2, <2>1 DEF AckHolds
  <2> QED BY <2>1 DEF AckHolds
<1>5. ASSUME AckSlides(q, g, B) PROVE AckSlides(Tail(q), h, C)
  <2>1. ASSUME NEW k \in 1..Len(Tail(q)), Tail(q)[k].kind = "ack"
        PROVE  /\ C < h[k] + Window
               /\ \A j \in 1..Len(Tail(q)) : j < k /\ Tail(q)[j].kind = "ack" => h[j] < h[k] + Window
    <3>1. /\ k + 1 \in 1..Len(q) /\ Tail(q)[k] = q[k+1] /\ 1 \in 1..Len(q) /\ 1 < k + 1
          /\ h[k] = g[k+1] /\ h[k] \in Nat
      BY <1>2
    <3>2. /\ B < g[k+1] + Window
          /\ \A j \in 1..Len(q) : j < k+1 /\ q[j].kind = "ack" => g[j] < g[k+1] + Window
      BY <1>5, <2>1, <3>1 DEF AckSlides
    <3>3. C < g[k+1] + Window
      <4>1. g[1] \in Nat /\ Window \in Nat /\ g[k+1] \in Nat
        BY <3>1, Numbers
      <4>2. CASE C <= B
        BY <3>2, <4>1, <4>2
      <4>3. CASE q[1].kind = "ack" /\ C <= g[1]
        BY <3>1, <3>2, <4>1, <4>3
      <4> QED BY <4>2, <4>3
    <3>4. ASSUME NEW j \in 1..Len(Tail(q)), j < k, Tail(q)[j].kind = "ack" PROVE h[j] < h[k] + Window
      <4>1. j + 1 \in 1..Len(q) /\ Tail(q)[j] = q[j+1] /\ j + 1 < k + 1 /\ h[j] = g[j+1]
        BY <1>2, <3>4
      <4> QED BY <3>1, <3>2, <3>4, <4>1
    <3> QED BY <3>1, <3>3, <3>4
  <2> QED BY <2>1 DEF AckSlides
<1> QED
  BY <1>3, <1>4, <1>5

(* The sending end: payloads are numbered as they were accepted, and a     *)
(* slot has the number of its payload.                                     *)
Sends(n) ==
  /\ Accepted(n) <= setup.sends
  /\ \A k \in 1..Accepted(n) : accepted[n][k] = k
  /\ next_seq[n] = Accepted(n) % SeqCount
  /\ \A i \in UsedSlots(n) : /\ window[n][i].data \in 1..Accepted(n)
                             /\ Holds(window[n][i].seq, window[n][i].data)
  /\ \A i, j \in UsedSlots(n) : window[n][i].data = window[n][j].data => i = j

(* The receiving end has handed over a beginning of what was accepted, and *)
(* what an ACK freed is in it.                                             *)
Receives(n) ==
  /\ \A k \in 1..Delivered(n) : delivered[Peer(n)][k] = k
  /\ expected_seq[Peer(n)] = Delivered(n) % SeqCount
  /\ Delivered(n) <= Accepted(n)
  /\ acked[n] \subseteq 1..Delivered(n)

(* While nothing was given up, the window holds the payloads from Base + 1 *)
(* to the last one accepted, and what is below was delivered.              *)
Slides(n) ==
  /\ 0 <= Base(n) /\ Base(n) <= Delivered(n) /\ outstanding[n] <= Window
  /\ \A i \in UsedSlots(n) : window[n][i].data > Base(n)
  /\ \A d \in Base(n)+1..Accepted(n) : \E i \in UsedSlots(n) : window[n][i].data = d

NoneDropped == \A n \in Node : dropped[n] = {}

(* All of it, for the data of end n and the acknowledgements of its peer.  *)
Direction(n) ==
  /\ Sends(n) /\ Receives(n)
  /\ DataHolds(line[Peer(n)], Accepted(n))
  /\ NoneDropped => Slides(n) /\ DataSlides(line[Peer(n)], Delivered(n))
  /\ \E g \in [1..Len(line[n]) -> Nat] :
       /\ AckHolds(line[n], g, Delivered(n))
       /\ NoneDropped => AckSlides(line[n], g, Base(n))

LEMMA Counts ==
  ASSUME Typed, NEW n \in Node
  PROVE  /\ Accepted(n) \in Nat /\ Delivered(n) \in Nat /\ Base(n) \in Int /\ outstanding[n] \in Int
         /\ line[n] \in Seq(Frames) /\ line[Peer(n)] \in Seq(Frames)
         /\ accepted[n] \in Seq(Nat) /\ delivered[Peer(n)] \in Seq(Nat)
<1>1. /\ accepted[n] \in Seq(Nat) /\ delivered[Peer(n)] \in Seq(Nat) /\ outstanding[n] \in Int
      /\ line[n] \in Seq(Frames) /\ line[Peer(n)] \in Seq(Frames)
  BY Ends DEF Typed
<1>2. Len(accepted[n]) \in Nat /\ Len(delivered[Peer(n)]) \in Nat
  BY <1>1
<1> QED
  BY <1>1, <1>2 DEF Accepted, Delivered, Base

(* What a step that only frees slots, or frees none, leaves true.          *)
LEMMA KeepsSends ==
  ASSUME Typed, NEW n \in Node, Sends(n), NEW gone, Frees(n, gone), setup' = setup,
         accepted'[n] = accepted[n], next_seq'[n] = next_seq[n]
  PROVE  Sends(n)'
<1>1. Accepted(n)' = Accepted(n)
  BY DEF Accepted
<1>2. UsedSlots(n)' = UsedSlots(n) \ gone
  BY FreesUsed
<1>3. \A i \in UsedSlots(n)' : /\ i \in UsedSlots(n)
                               /\ window'[n][i].seq = window[n][i].seq
                               /\ window'[n][i].data = window[n][i].data
  BY <1>2 DEF Frees
<1>4. \A i \in UsedSlots(n)' : /\ window'[n][i].data \in 1..Accepted(n)
                               /\ Holds(window'[n][i].seq, window'[n][i].data)
  BY <1>3 DEF Sends
<1>5. \A i, j \in UsedSlots(n)' : window'[n][i].data = window'[n][j].data => i = j
  BY <1>3 DEF Sends
<1> QED
  BY <1>1, <1>4, <1>5 DEF Sends, Holds

LEMMA KeepsSlides ==
  ASSUME Typed, NEW n \in Node, Slides(n), Frees(n, {}), accepted'[n] = accepted[n],
         Delivered(n)' \in Int, Delivered(n) <= Delivered(n)'
  PROVE  Slides(n)' /\ Base(n)' = Base(n)
<1>1. Accepted(n)' = Accepted(n)
  BY DEF Accepted
<1>2. outstanding'[n] = outstanding[n]
  BY FS_EmptySet, Counts DEF Frees
<1>3. Base(n)' = Base(n)
  BY <1>1, <1>2 DEF Base
<1>4. UsedSlots(n)' = UsedSlots(n) /\ \A i \in UsedSlots(n) : window'[n][i].data = window[n][i].data
  <2>1. UsedSlots(n)' = UsedSlots(n) \ {}
    BY FreesUsed
  <2>2. \A i \in UsedSlots(n) \ {} : window'[n][i].data = window[n][i].data
    BY DEF Frees
  <2> QED BY <2>1, <2>2
<1>5. Base(n) <= Delivered(n)'
  BY Counts DEF Slides
<1> QED
  BY <1>1, <1>2, <1>3, <1>4, <1>5 DEF Slides

(* A line after a step that sends frames of the window, takes a frame or   *)
(* neither; and one on which no acknowledgement is sent.                   *)
DataMoves(n) ==
  \/ line'[Peer(n)] = line[Peer(n)]
  \/ line[Peer(n)] # <<>> /\ line'[Peer(n)] = Tail(line[Peer(n)])
  \/ \E fs \in Seq(Frames) :
       /\ Grown(line[Peer(n)], fs, line'[Peer(n)])
       /\ \A k \in 1..Len(fs) : fs[k].kind = "data" =>
             \E i \in UsedSlots(n) : fs[k] = DataFrame(window[n][i])

AckMoves(n) ==
  \/ line'[n] = line[n]
  \/ line[n] # <<>> /\ line'[n] = Tail(line[n])
  \/ \E fs \in Seq(Frames) :
       Grown(line[n], fs, line'[n]) /\ \A k \in 1..Len(fs) : fs[k].kind # "ack"

LEMMA DataMoved ==
  ASSUME Typed, NEW n \in Node, Sends(n), Receives(n), DataHolds(line[Peer(n)], Accepted(n)), DataMoves(n)
  PROVE  /\ DataHolds(line'[Peer(n)], Accepted(n))
         /\ Slides(n) /\ DataSlides(line[Peer(n)], Delivered(n)) => DataSlides(line'[Peer(n)], Delivered(n))
<1> DEFINE A == Accepted(n)
<1> DEFINE D == Delivered(n)
<1> DEFINE q == line[Peer(n)]
<1> DEFINE r == line'[Peer(n)]
<1>1. A \in Nat /\ D \in Nat /\ q \in Seq(Frames) /\ DataHolds(q, A) /\ D <= A
  BY Counts DEF Receives
<1>2. CASE r = q
  BY <1>1, <1>2
<1>3. CASE q # <<>> /\ r = Tail(q)
  <2> HIDE DEF A, D, q, r
  <2>1. DataHolds(Tail(q), A) /\ (DataSlides(q, D) => DataSlides(Tail(q), D))
    BY <1>1, <1>3, TailData
  <2>2. DataHolds(r, A) /\ (DataSlides(q, D) => DataSlides(r, D))
    BY <1>3, <2>1
  <2> QED BY <2>2 DEF A, D, q, r
<1>4. ASSUME NEW fs \in Seq(Frames), Grown(q, fs, r),
             \A k \in 1..Len(fs) : fs[k].kind = "data" => \E i \in UsedSlots(n) : fs[k] = DataFrame(window[n][i])
      PROVE  DataHolds(r, A) /\ (Slides(n) /\ DataSlides(q, D) => DataSlides(r, D))
  <2>1. ASSUME NEW k \in 1..Len(fs), fs[k].kind = "data"
        PROVE  /\ fs[k].data \in 1..A /\ Holds(fs[k].seq, fs[k].data)
               /\ Slides(n) => A < fs[k].data + Window
    <3>1. PICK i \in UsedSlots(n) : fs[k] = DataFrame(window[n][i])
      BY <1>4, <2>1
    <3>2. window[n][i] \in Slot
      BY UsedTyped DEF Typed
    <3>3. fs[k].data = window[n][i].data /\ fs[k].seq = window[n][i].seq
      BY <3>1, <3>2, DataFrameTyped
    <3>4. fs[k].data \in 1..A /\ Holds(fs[k].seq, fs[k].data)
      BY <3>3 DEF Sends
    <3>5. ASSUME Slides(n) PROVE A < fs[k].data + Window
      <4>1. fs[k].data > A - outstanding[n] /\ outstanding[n] <= Window
        BY <3>3, <3>5 DEF Slides, Base
      <4>2. A \in Nat /\ outstanding[n] \in Int /\ Window \in Nat /\ fs[k].data \in Int
        BY <3>4, Counts, Numbers
      <4> QED BY <4>1, <4>2
    <3> QED BY <3>4, <3>5
  <2> HIDE DEF A, D, q, r
  <2>2. /\ DataHolds(r, A)
        /\ (/\ DataSlides(q, D) /\ D <= A
            /\ \A k \in 1..Len(fs) : fs[k].kind = "data" => A < fs[k].data + Window) => DataSlides(r, D)
    BY <1>1, <1>4, <2>1, GrowData
  <2> QED BY <1>1, <2>1, <2>2
<1> QED
  BY <1>2, <1>3, <1>4 DEF DataMoves

LEMMA AckMoved ==
  ASSUME Typed, NEW n \in Node, NEW D \in Nat, NEW B \in Int, NEW g \in [1..Len(line[n]) -> Nat],
         AckHolds(line[n], g, D), AckMoves(n)
  PROVE  \E h \in [1..Len(line'[n]) -> Nat] :
           /\ AckHolds(line'[n], h, D)
           /\ AckSlides(line[n], g, B) /\ B <= D => AckSlides(line'[n], h, B)
<1> DEFINE q == line[n]
<1> DEFINE r == line'[n]
<1>1. q \in Seq(Frames) /\ g \in [1..Len(q) -> Nat] /\ AckHolds(q, g, D)
  BY Counts
<1>2. CASE r = q
  BY <1>1, <1>2
<1>3. CASE q # <<>> /\ r = Tail(q)
  <2> HIDE DEF q, r
  <2>1. B <= B
    OBVIOUS
  <2>2. \E h \in [1..Len(Tail(q)) -> Nat] :
          AckHolds(Tail(q), h, D) /\ (AckSlides(q, g, B) => AckSlides(Tail(q), h, B))
    BY <1>1, <1>3, <2>1, TailAck
  <2>3. \E h \in [1..Len(r) -> Nat] :
          AckHolds(r, h, D) /\ (AckSlides(q, g, B) => AckSlides(r, h, B))
    BY <1>3, <2>2
  <2> QED BY <2>3 DEF q, r
<1>4. ASSUME NEW fs \in Seq(Frames), Grown(q, fs, r), \A k \in 1..Len(fs) : fs[k].kind # "ack"
      PROVE  \E h \in [1..Len(r) -> Nat] :
               AckHolds(r, h, D) /\ (AckSlides(q, g, B) /\ B <= D => AckSlides(r, h, B))
  <2> DEFINE v == 0
  <2>0. v \in Nat
    OBVIOUS
  <2> HIDE DEF q, r, v
  <2>1. \E h \in [1..Len(r) -> Nat] :
           /\ AckHolds(r, h, D)
           /\ AckSlides(q, g, B) /\ B <= D /\ AnswersInTime(fs, v, D) => AckSlides(r, h, B)
    <3>1. AnswersOf(fs, v, D)
      BY <1>4 DEF AnswersOf
    <3>2. /\ q \in Seq(Frames) /\ fs \in Seq(Frames) /\ Grown(q, fs, r)
          /\ g \in [1..Len(q) -> Nat] /\ AckHolds(q, g, D)
          /\ v \in Nat /\ D \in Nat /\ B \in Int
      BY <1>1, <1>4, <2>0
    <3> QED BY ONLY <3>1, <3>2, GrowAck
  <2>2. AnswersInTime(fs, v, D)
    BY <1>4 DEF AnswersInTime
  <2> QED BY <2>1, <2>2
<1> QED
  BY <1>2, <1>3, <1>4 DEF AckMoves

(* What neither moves the data nor an acknowledgement of a direction.      *)
LEMMA DirectionKept ==
  ASSUME Typed, NEW n \in Node, Direction(n), setup' = setup,
         NEW gone, Frees(n, gone), NoneDropped' => NoneDropped /\ gone = {},
         accepted'[n] = accepted[n], next_seq'[n] = next_seq[n], acked'[n] = acked[n],
         delivered'[Peer(n)] = delivered[Peer(n)], expected_seq'[Peer(n)] = expected_seq[Peer(n)],
         DataMoves(n), AckMoves(n)
  PROVE  Direction(n)'
<1>1. Sends(n)'
  BY KeepsSends DEF Direction
<1>2. Accepted(n)' = Accepted(n) /\ Delivered(n)' = Delivered(n)
  BY DEF Accepted, Delivered
<1>3. Receives(n)'
  BY <1>2 DEF Direction, Receives
<1>4. ASSUME NoneDropped' PROVE Slides(n)' /\ Base(n)' = Base(n) /\ NoneDropped /\ Slides(n)
  <2>1. NoneDropped /\ Slides(n) /\ Frees(n, {})
    BY <1>4 DEF Direction
  <2> QED BY <2>1, <1>2, Counts, KeepsSlides
<1>5. DataHolds(line'[Peer(n)], Accepted(n))
  BY DataMoved DEF Direction
<1>6. ASSUME NoneDropped' PROVE DataSlides(line'[Peer(n)], Delivered(n))
  BY <1>4, <1>6, DataMoved DEF Direction
<1>7. PICK g \in [1..Len(line[n]) -> Nat] :
        AckHolds(line[n], g, Delivered(n)) /\ (NoneDropped => AckSlides(line[n], g, Base(n)))
  BY DEF Direction
<1>8. PICK h \in [1..Len(line'[n]) -> Nat] :
        /\ AckHolds(line'[n], h, Delivered(n))
        /\ AckSlides(line[n], g, Base(n)) /\ Base(n) <= Delivered(n) => AckSlides(line'[n], h, Base(n))
  BY <1>7, Counts, AckMoved
<1>9. ASSUME NoneDropped' PROVE AckSlides(line'[n], h, Base(n)')
  BY <1>4, <1>7, <1>8, <1>9 DEF Slides
<1>10. DataHolds(line[Peer(n)], Accepted(n))' /\ AckHolds(line'[n], h, Delivered(n)')
  BY <1>2, <1>5, <1>8 DEF DataHolds, Holds
<1>11. NoneDropped' => DataSlides(line[Peer(n)], Delivered(n))'
  BY <1>2, <1>6 DEF DataSlides
<1>12. \E x \in [1..Len(line'[n]) -> Nat] :
         AckHolds(line'[n], x, Delivered(n)') /\ (NoneDropped' => AckSlides(line'[n], x, Base(n)'))
  BY <1>9, <1>10
<1> QED
  BY <1>1, <1>3, <1>4, <1>10, <1>11, <1>12 DEF Direction

(* A send adds the next payload at the end of the window.                  *)
LEMMA SendDirection ==
  ASSUME Typed, NEW n \in Node, Direction(n), setup' = setup, qos_send(n), window' # window
  PROVE  Direction(n)'
<1> DEFINE A == Accepted(n)
<1> DEFINE D == Delivered(n)
<1> DEFINE fs == <<DataFrame(NewEntry(n))>>
<1>1. PICK i \in Slots \ UsedSlots(n) :
        /\ window'[n][i] = NewEntry(n) /\ \A j \in Slots \ {i} : window'[n][j] = window[n][j]
        /\ UsedSlots(n)' = UsedSlots(n) \cup {i}
        /\ outstanding'[n] = outstanding[n] + 1
        /\ accepted'[n] = Append(accepted[n], A + 1)
        /\ send_raw(n, fs)
  BY SendAdds
<1>2. /\ A < setup.sends /\ outstanding[n] < Window
      /\ next_seq'[n] = (next_seq[n] + 1) % SeqCount
      /\ UNCHANGED <<recvvars, delivered, acked, dropped>>
  BY SendNext
<1>3. /\ A \in Nat /\ D \in Nat /\ Base(n) \in Int /\ outstanding[n] \in Int /\ accepted[n] \in Seq(Nat)
      /\ setup.sends \in Nat /\ SeqCount \in Nat \ {0} /\ Window \in Nat
  <2>1. A \in Nat /\ D \in Nat /\ Base(n) \in Int /\ outstanding[n] \in Int /\ accepted[n] \in Seq(Nat)
    BY Counts
  <2>2. setup.sends \in 0..MaxSends
    BY Surround DEF Typed
  <2> QED BY <2>1, <2>2, Numbers
<1>4. Accepted(n)' = A + 1 /\ Delivered(n)' = D /\ \A k \in 1..A : accepted'[n][k] = accepted[n][k]
  BY <1>1, <1>2, <1>3 DEF Accepted, Delivered
<1>5. accepted'[n][A + 1] = A + 1
  BY <1>1, <1>3 DEF Accepted
<1>6. Base(n)' = Base(n)
  <2>1. Base(n)' = Accepted(n)' - outstanding'[n] /\ Base(n) = A - outstanding[n]
    BY DEF Base
  <2> DEFINE a == Accepted(n)'
  <2> DEFINE o == outstanding[n]
  <2> DEFINE p == outstanding'[n]
  <2>2. a = A + 1 /\ p = o + 1 /\ A \in Nat /\ o \in Int
    BY <1>1, <1>3, <1>4
  <2> HIDE DEF A, a, o, p
  <2>3. a - p = A - o
    BY <2>2
  <2> QED BY <2>1, <2>3 DEF a, o, p
<1>7. NewEntry(n).data = A + 1 /\ NewEntry(n).seq = next_seq[n] /\ next_seq[n] = A % SeqCount
  BY DEF NewEntry, Accepted, Direction, Sends
<1>8. Holds(next_seq[n], A + 1)
  BY <1>3, <1>7 DEF Holds
<1>9. \A j \in UsedSlots(n) : /\ window'[n][j] = window[n][j] /\ window[n][j].data \in 1..A
                              /\ Holds(window[n][j].seq, window[n][j].data)
  BY <1>1, UsedTyped DEF Direction, Sends
<1>10. Sends(n)'
  <2>1. Accepted(n)' <= setup'.sends
    BY <1>2, <1>3, <1>4
  <2>2. ASSUME NEW k \in 1..Accepted(n)' PROVE accepted'[n][k] = k
    <3>1. k \in 1..A \/ k = A + 1
      BY <1>3, <1>4
    <3> QED BY <3>1, <1>4, <1>5 DEF Direction, Sends
  <2>3. next_seq'[n] = Accepted(n)' % SeqCount
    BY <1>2, <1>3, <1>4, <1>7, Succession
  <2>4. ASSUME NEW j \in UsedSlots(n)'
        PROVE  window'[n][j].data \in 1..Accepted(n)' /\ Holds(window'[n][j].seq, window'[n][j].data)
    <3>1. CASE j \in UsedSlots(n)
      BY <1>3, <1>4, <1>9, <3>1
    <3>2. CASE j = i
      BY <1>1, <1>3, <1>4, <1>7, <1>8, <3>2
    <3> QED BY <1>1, <3>1, <3>2
  <2>5. ASSUME NEW j \in UsedSlots(n)', NEW k \in UsedSlots(n)', window'[n][j].data = window'[n][k].data
        PROVE  j = k
    <3>1. CASE j \in UsedSlots(n) /\ k \in UsedSlots(n)
      BY <1>9, <2>5, <3>1 DEF Direction, Sends
    <3>2. CASE j = i /\ k = i
      BY <3>2
    <3>3. CASE j = i /\ k \in UsedSlots(n)
      BY <1>1, <1>3, <1>7, <1>9, <2>5, <3>3
    <3>4. CASE k = i /\ j \in UsedSlots(n)
      <4>1. window'[n][k].data = A + 1 /\ window'[n][j].data \in 1..A
        BY <1>1, <1>7, <1>9, <3>4
      <4> QED BY <4>1, <1>3, <2>5
    <3> QED BY <1>1, <3>1, <3>2, <3>3, <3>4
  <2> QED BY <2>1, <2>2, <2>3, <2>4, <2>5 DEF Sends, Holds
<1>11. Receives(n)'
  <2>1. D <= Accepted(n)'
    BY <1>3, <1>4 DEF Direction, Receives
  <2> QED BY <1>2, <1>4, <2>1 DEF Direction, Receives, recvvars
<1>12. NoneDropped' <=> NoneDropped
  BY <1>2 DEF NoneDropped
<1>13. ASSUME NoneDropped PROVE Slides(n)'
  <2>1. Slides(n) /\ D <= A
    BY <1>13 DEF Direction, Receives
  <2>2. outstanding'[n] <= Window /\ 0 <= Base(n)' /\ Base(n)' <= Delivered(n)'
    BY <1>1, <1>2, <1>3, <1>4, <1>6, <2>1 DEF Slides
  <2>3. Base(n) < A + 1
    BY <1>3, <2>1 DEF Slides
  <2>4. \A j \in UsedSlots(n)' : window'[n][j].data > Base(n)'
    BY <1>1, <1>6, <1>7, <1>9, <2>1, <2>3 DEF Slides
  <2>5. ASSUME NEW d \in Base(n)'+1..Accepted(n)' PROVE \E j \in UsedSlots(n)' : window'[n][j].data = d
    <3>1. d \in Base(n)+1..A \/ d = A + 1
      BY <1>3, <1>4, <1>6
    <3>2. CASE d \in Base(n)+1..A
      BY <1>1, <1>9, <2>1, <3>2 DEF Slides
    <3>3. CASE d = A + 1
      BY <1>1, <1>7, <3>3
    <3> QED BY <3>1, <3>2, <3>3
  <2> QED BY <2>2, <2>4, <2>5 DEF Slides
<1>14. fs \in Seq(Frames) /\ Len(fs) = 1 /\ fs[1].kind = "data" /\ fs[1].data = A + 1 /\ fs[1].seq = next_seq[n]
  <2>1. NewEntry(n) \in Slot
    BY NewTyped DEF qos_send
  <2> QED BY <1>7, <2>1, DataFrameTyped
<1>15. line'[Peer(n)] = Sent(n, fs) /\ line'[n] = line[n]
  BY <1>1, Ends DEF send_raw, Typed
<1>16. Grown(line[Peer(n)], fs, line'[Peer(n)])
  BY <1>14, <1>15, SentGrows
<1>17. /\ DataHolds(line'[Peer(n)], A + 1)
       /\ NoneDropped => DataSlides(line'[Peer(n)], D)
  <2> DEFINE q == line[Peer(n)]
  <2> DEFINE r == line'[Peer(n)]
  <2> DEFINE AA == A + 1
  <2>1. DataHolds(q, AA)
    BY <1>3 DEF Direction, DataHolds
  <2>2. \A k \in 1..Len(fs) : fs[k].kind = "data" => fs[k].data \in 1..AA /\ Holds(fs[k].seq, fs[k].data)
    BY <1>3, <1>8, <1>14
  <2>3. \A k \in 1..Len(fs) : fs[k].kind = "data" => AA < fs[k].data + Window
    BY <1>3, <1>14, Numbers
  <2>4. q \in Seq(Frames) /\ AA \in Nat /\ D <= AA /\ Grown(q, fs, r)
    BY <1>3, <1>16, Counts DEF Direction, Receives
  <2>5. NoneDropped => DataSlides(q, D)
    BY DEF Direction
  <2> HIDE DEF q, r, AA, fs, D
  <2>6. DataHolds(r, AA) /\ (DataSlides(q, D) => DataSlides(r, D))
    BY <1>3, <1>14, <2>1, <2>2, <2>3, <2>4, GrowData
  <2> QED BY <2>5, <2>6 DEF r, AA
<1>18. /\ DataHolds(line[Peer(n)], Accepted(n))'
       /\ NoneDropped' => DataSlides(line[Peer(n)], Delivered(n))'
  BY <1>4, <1>12, <1>17 DEF DataHolds, DataSlides, Holds
<1>19. \E g \in [1..Len(line'[n]) -> Nat] :
         AckHolds(line'[n], g, Delivered(n)') /\ (NoneDropped' => AckSlides(line'[n], g, Base(n)'))
  BY <1>4, <1>6, <1>12, <1>15 DEF Direction
<1> QED
  BY <1>10, <1>11, <1>12, <1>13, <1>18, <1>19 DEF Direction

-----------------------------------------------------------------------------
(* An acknowledgement.                                                     *)

(* The payloads of the window up to C are as many as lie between the base  *)
(* and C.                                                                  *)
LEMMA WindowCard ==
  ASSUME Typed, NEW n \in Node, Sends(n), Slides(n), NEW C \in Int, Base(n) <= C, C <= Accepted(n)
  PROVE  Cardinality({i \in UsedSlots(n) : window[n][i].data <= C}) = C - Base(n)
<1> DEFINE X == {i \in UsedSlots(n) : window[n][i].data <= C}
<1> DEFINE B == Base(n)
<1> DEFINE T == B+1..C
<1> DEFINE F == [i \in X |-> window[n][i].data]
<1>1. B \in Int /\ Accepted(n) \in Nat
  BY Counts
<1>2. X \in SUBSET Slots
  BY UsedTyped
<1>3. IsFiniteSet(X)
  BY <1>2, FiniteSlots
<1>4. \A i \in X : window[n][i].data \in T
  BY <1>1 DEF Slides, Sends
<1>5. \A i, j \in X : window[n][i].data = window[n][j].data => i = j
  BY DEF Sends
<1>6. \A d \in T : \E i \in X : window[n][i].data = d
  <2>1. ASSUME NEW d \in T PROVE \E i \in X : window[n][i].data = d
    <3>1. d \in B+1..Accepted(n) /\ d <= C
      BY <1>1
    <3>2. PICK i \in UsedSlots(n) : window[n][i].data = d
      BY <3>1 DEF Slides
    <3> QED BY <3>1, <3>2
  <2> QED BY <2>1
<1> HIDE DEF X, T
<1>7. F \in [X -> T]
  BY <1>4
<1>8. F \in Bijection(X, T)
  BY <1>4, <1>5, <1>6, <1>7 DEF Bijection, Injection, Surjection, IsInjective
<1>9. Cardinality(T) = Cardinality(X)
  BY <1>3, <1>8, FS_Bijection DEF ExistsBijection
<1>10. Cardinality(T) = C - B
  <2> DEFINE b == B + 1
  <2>1. b \in Int /\ T = b..C
    BY <1>1 DEF T
  <2>2. C >= b - 1
    BY <1>1
  <2> HIDE DEF b
  <2>3. Cardinality(b..C) = IF b > C THEN 0 ELSE C - b + 1
    BY <2>1, FS_Interval
  <2>4. Cardinality(T) = C - b + 1
    BY <2>1, <2>2, <2>3
  <2> QED BY <2>4, <1>1 DEF b
<1> QED
  BY <1>9, <1>10 DEF X

(* No number is ambiguous: half of them are never sent, or nothing was     *)
(* given up and the windows are short.                                     *)
Apart == 2 * setup.sends <= SeqCount \/ NoneDropped

(* The number of an acknowledgement and that of a slot in use are less     *)
(* than half a turn apart.                                                 *)
LEMMA AckReach ==
  ASSUME Typed, NEW n \in Node, Direction(n), Apart, NEW v \in 1..Delivered(n),
         NoneDropped => Base(n) < v + Window, NEW i \in UsedSlots(n)
  PROVE  SeqLeq(window[n][i].seq, (v - 1) % SeqCount) <=> window[n][i].data <= v
<1> DEFINE d == window[n][i].data
<1> DEFINE A == Accepted(n)
<1> DEFINE D == Delivered(n)
<1> DEFINE B == Base(n)
<1> DEFINE o == outstanding[n]
<1> DEFINE s == setup.sends
<1>1. /\ A \in Nat /\ D \in Nat /\ B \in Int /\ o \in Int
      /\ B = A - o
  BY Counts DEF Base
<1>2. s \in 0..MaxSends
  BY Surround DEF Typed
<1>3. d \in 1..A /\ window[n][i].seq = (d - 1) % SeqCount
  BY DEF Direction, Sends, Holds
<1>4. D <= A /\ A <= s
  BY DEF Direction, Sends, Receives
<1>5. NoneDropped => 0 <= B /\ B <= D /\ o <= Window /\ d > B
  BY DEF Direction, Slides
<1>6. 2 * s <= SeqCount \/ NoneDropped
  BY DEF Apart
<1> HIDE DEF d, A, D, B, o, s
<1>7. v \in 1..D
  BY DEF D
<1>8. NoneDropped => B < v + Window
  BY DEF B
<1> DEFINE x == d - 1
<1> DEFINE y == v - 1
<1>9. x \in Int /\ y \in Int /\ 2 * (x - y) < SeqCount /\ 2 * (y - x) <= SeqCount
  <2>1. CASE 2 * s <= SeqCount
    BY <1>1, <1>2, <1>3, <1>4, <1>7, <2>1, Numbers
  <2>2. CASE NoneDropped
    <3>1. 0 <= B /\ B <= D /\ o <= Window /\ d > B /\ B < v + Window
      BY <1>5, <1>8, <2>2
    <3>2. d - v < 2 * Window /\ v - d < Window
      BY <3>1, <1>1, <1>3, <1>4, <1>7, Numbers
    <3>3. Window \in Nat \ {0} /\ SeqCount \in Nat /\ 4 * Window <= SeqCount
      BY Numbers
    <3> QED BY <3>2, <3>3, <1>1, <1>3, <1>7
  <2> QED BY <1>6, <2>1, <2>2
<1> HIDE DEF x, y
<1>11. SeqLeq(x % SeqCount, y % SeqCount) <=> x <= y
  BY <1>9, Compare
<1>12. x <= y <=> d <= v
  BY <1>3, <1>7, <1>1 DEF x, y
<1>13. window[n][i].seq = x % SeqCount /\ (v - 1) % SeqCount = y % SeqCount
  BY <1>3 DEF x, y
<1> QED
  BY <1>11, <1>12, <1>13 DEF d

(* An acknowledgement frees the payloads up to its own, which were handed  *)
(* over; nothing else changes.                                             *)
LEMMA AckDirection ==
  ASSUME Typed, NEW n \in Node, Direction(n), Apart, setup' = setup,
         qos_recv(n), Head(line[n]).kind = "ack"
  PROVE  Direction(n)'
<1> DEFINE q == line[n]
<1> DEFINE f == Head(line[n])
<1> DEFINE gone == Acked(n, f.seq)
<1> DEFINE A == Accepted(n)
<1> DEFINE D == Delivered(n)
<1> DEFINE B == Base(n)
<1>1. /\ q # <<>> /\ process_ack(n, f.seq)
      /\ line' = [line EXCEPT ![n] = Tail(@), ![Peer(n)] = Sent(n, Reply(n, f))]
  BY DEF qos_recv
<1>2. /\ f \in Frames /\ line'[n] = Tail(q) /\ line'[Peer(n)] = Sent(n, Reply(n, f))
  BY <1>1, RecvLines
<1>3. /\ acked' = [acked EXCEPT ![n] = @ \cup {window[n][i].data : i \in gone}]
      /\ UNCHANGED <<next_seq, recvvars, accepted, delivered, dropped>>
  BY <1>1 DEF process_ack, Acked
<1>4. Frees(n, gone)
  BY <1>1, AckWindow
<1>5. A \in Nat /\ D \in Nat /\ B \in Int /\ q \in Seq(Frames) /\ D <= A /\ outstanding[n] \in Int
  BY Counts DEF Direction, Receives
<1>6. Accepted(n)' = A /\ Delivered(n)' = D /\ (NoneDropped' <=> NoneDropped)
  BY <1>3 DEF Accepted, Delivered, NoneDropped
<1>7. Sends(n)'
  BY <1>3, <1>4, KeepsSends DEF Direction
<1>8. PICK g \in [1..Len(q) -> Nat] : AckHolds(q, g, D) /\ (NoneDropped => AckSlides(q, g, B))
  BY DEF Direction
<1> DEFINE v == g[1]
<1>9. /\ 1 \in 1..Len(q) /\ f = q[1] /\ f.kind = "ack"
  <2>1. Len(q) >= 1 /\ f = q[1] /\ Len(q) \in Nat
    BY <1>1, <1>5, TailTyped, LenNat
  <2> QED BY <2>1
<1>10. v \in 1..D /\ f.seq = (v - 1) % SeqCount /\ (NoneDropped => B < v + Window)
  BY <1>8, <1>9 DEF AckHolds, AckSlides, Holds
<1>11. gone = {i \in UsedSlots(n) : window[n][i].data <= v}
  <2>1. \A i \in UsedSlots(n) : SeqLeq(window[n][i].seq, (v - 1) % SeqCount) <=> window[n][i].data <= v
    BY <1>10, AckReach
  <2> QED BY <2>1, <1>10 DEF Acked
<1>12. Receives(n)'
  <2>1. \A i \in gone : window[n][i].data \in 1..D
    BY <1>5, <1>10, <1>11 DEF Direction, Sends
  <2>2. acked'[n] = acked[n] \cup {window[n][i].data : i \in gone}
    BY <1>3 DEF Typed
  <2>3. acked'[n] \subseteq 1..D
    BY <2>1, <2>2 DEF Direction, Receives
  <2> QED BY <1>3, <1>6, <2>3 DEF Direction, Receives, recvvars
<1> DEFINE C == IF v < B THEN B ELSE v
<1>13. ASSUME NoneDropped PROVE Slides(n)' /\ Base(n)' = C
  <2>1. Slides(n) /\ Sends(n)
    BY <1>13 DEF Direction
  <2>2. 0 <= B /\ B <= D /\ outstanding[n] <= Window /\ \A i \in UsedSlots(n) : window[n][i].data > B
    BY <2>1 DEF Slides
  <2>3. C \in Int /\ B <= C /\ C <= A /\ C <= D /\ v <= C
    BY <1>5, <1>10, <2>2
  <2>4. gone = {i \in UsedSlots(n) : window[n][i].data <= C}
    <3>1. \A i \in UsedSlots(n) : window[n][i].data <= C <=> window[n][i].data <= v
      BY <1>5, <1>10, <2>2 DEF Direction, Sends
    <3> QED BY <1>11, <3>1
  <2> HIDE DEF C, gone
  <2>5. Cardinality(gone) = C - B
    BY <2>1, <2>3, <2>4, WindowCard
  <2>6. outstanding'[n] = outstanding[n] - (C - B)
    BY <1>4, <2>5 DEF Frees
  <2>7. Base(n)' = C
    <3>1. Base(n)' = Accepted(n)' - outstanding'[n] /\ B = A - outstanding[n]
      BY DEF Base
    <3> HIDE DEF A, B
    <3> QED BY <3>1, <2>6, <1>5, <1>6, <2>3
  <2>8. outstanding'[n] <= Window
    BY <2>2, <2>3, <2>6, <1>5, Numbers
  <2>9. UsedSlots(n)' = UsedSlots(n) \ gone /\ \A i \in UsedSlots(n) \ gone : window'[n][i].data = window[n][i].data
    BY <1>4, FreesUsed DEF Frees
  <2>10. \A i \in UsedSlots(n) : window[n][i].data \in Nat
    BY <2>1 DEF Sends
  <2>11. \A i \in UsedSlots(n)' : window'[n][i].data > C
    BY <2>3, <2>4, <2>9, <2>10
  <2>12. ASSUME NEW d \in C+1..A PROVE \E i \in UsedSlots(n)' : window'[n][i].data = d
    <3>1. d \in B+1..A /\ ~(d <= C)
      BY <2>3, <1>5
    <3>2. PICK i \in UsedSlots(n) : window[n][i].data = d
      BY <2>1, <3>1 DEF Slides
    <3>3. i \in UsedSlots(n) \ gone
      BY <2>4, <3>1, <3>2
    <3> QED BY <2>9, <3>2, <3>3
  <2>13. 0 <= C
    BY <2>2, <2>3, <1>5
  <2> QED BY <2>3, <2>7, <2>8, <2>11, <2>12, <2>13, <1>6 DEF Slides
<1>14. DataMoves(n)
  <2>1. Reply(n, f) = <<>> /\ Reply(n, f) \in Seq(Frames)
    BY <1>2, ReplyTyped
  <2>2. Grown(line[Peer(n)], Reply(n, f), line'[Peer(n)])
    BY <1>2, <2>1, SentGrows
  <2>3. \A k \in 1..Len(Reply(n, f)) : FALSE
    BY <2>1
  <2> QED BY <2>1, <2>2, <2>3 DEF DataMoves
<1>15. /\ DataHolds(line'[Peer(n)], A)
       /\ Slides(n) /\ DataSlides(line[Peer(n)], D) => DataSlides(line'[Peer(n)], D)
  BY <1>14, DataMoved DEF Direction
<1>16. C \in Int /\ (C <= B \/ (q[1].kind = "ack" /\ C <= g[1]))
  BY <1>5, <1>9, <1>10
<1>17. \E h \in [1..Len(Tail(q)) -> Nat] :
         AckHolds(Tail(q), h, D) /\ (AckSlides(q, g, B) => AckSlides(Tail(q), h, C))
  <2> HIDE DEF q, D, B, C
  <2> QED BY <1>1, <1>5, <1>8, <1>16, TailAck
<1>18. \E h \in [1..Len(line'[n]) -> Nat] :
         AckHolds(line'[n], h, Delivered(n)') /\ (NoneDropped' => AckSlides(line'[n], h, Base(n)'))
  <2>1. PICK h \in [1..Len(Tail(q)) -> Nat] :
         AckHolds(Tail(q), h, D) /\ (AckSlides(q, g, B) => AckSlides(Tail(q), h, C))
    BY <1>17
  <2>2. NoneDropped' => AckSlides(Tail(q), h, Base(n)')
    BY <2>1, <1>6, <1>8, <1>13
  <2> QED BY <2>1, <2>2, <1>2, <1>6
<1>19. DataHolds(line[Peer(n)], Accepted(n))' /\ (NoneDropped' => DataSlides(line[Peer(n)], Delivered(n))')
  BY <1>6, <1>15 DEF Direction, DataHolds, DataSlides, Holds
<1> QED
  BY <1>6, <1>7, <1>12, <1>13, <1>18, <1>19 DEF Direction

-----------------------------------------------------------------------------
(* A data frame.                                                           *)

(* The number of a data frame and the one that is expected are less than   *)
(* half a turn apart, so that the frame is in sequence, a duplicate or too *)
(* early just as its payload is.                                           *)
LEMMA DataReach ==
  ASSUME Typed, NEW n \in Node, Direction(n), Apart, NEW u \in 1..Accepted(n),
         NoneDropped => Delivered(n) < u + Window
  PROVE  /\ (u - 1) % SeqCount = expected_seq[Peer(n)] <=> u = Delivered(n) + 1
         /\ SeqLt((u - 1) % SeqCount, expected_seq[Peer(n)]) <=> u <= Delivered(n)
<1> DEFINE A == Accepted(n)
<1> DEFINE D == Delivered(n)
<1> DEFINE B == Base(n)
<1> DEFINE o == outstanding[n]
<1> DEFINE s == setup.sends
<1>1. /\ A \in Nat /\ D \in Nat /\ B \in Int /\ o \in Int
      /\ B = A - o
  BY Counts DEF Base
<1>2. s \in 0..MaxSends
  BY Surround DEF Typed
<1>3. expected_seq[Peer(n)] = D % SeqCount
  BY DEF Direction, Receives
<1>4. D <= A /\ A <= s
  BY DEF Direction, Sends, Receives
<1>5. NoneDropped => 0 <= B /\ B <= D /\ o <= Window
  BY DEF Direction, Slides
<1>6. 2 * s <= SeqCount \/ NoneDropped
  BY DEF Apart
<1> HIDE DEF A, D, B, o, s
<1>7. u \in 1..A
  BY DEF A
<1>8. NoneDropped => D < u + Window
  BY DEF D
<1> DEFINE x == u - 1
<1>9. x \in Int /\ D \in Int /\ 2 * (x - D) < SeqCount /\ 2 * (D - x) <= SeqCount
  <2>1. CASE 2 * s <= SeqCount
    BY <1>1, <1>2, <1>4, <1>7, <2>1, Numbers
  <2>2. CASE NoneDropped
    <3>1. 0 <= B /\ B <= D /\ o <= Window /\ D < u + Window
      BY <1>5, <1>8, <2>2
    <3>2. x - D < Window /\ D - x <= Window
      BY <3>1, <1>1, <1>4, <1>7, Numbers
    <3>3. Window \in Nat \ {0} /\ SeqCount \in Nat /\ 4 * Window <= SeqCount
      BY Numbers
    <3> QED BY <3>2, <3>3, <1>1, <1>7
  <2> QED BY <1>6, <2>1, <2>2
<1> HIDE DEF x
<1>10. /\ SeqLt(x % SeqCount, D % SeqCount) <=> x < D
       /\ x % SeqCount = D % SeqCount <=> x = D
  BY <1>9, Compare
<1>11. (x < D <=> u <= D) /\ (x = D <=> u = D + 1)
  BY <1>1, <1>7 DEF x
<1> QED
  BY <1>3, <1>10, <1>11 DEF x, D

(* The frame Peer(n) finds at the head of its line: it is in sequence just *)
(* when it carries the payload that is expected.                           *)
LEMMA DataTaken ==
  ASSUME Typed, NEW n \in Node, Direction(n), Apart, line[Peer(n)] # <<>>,
         Head(line[Peer(n)]).kind = "data"
  PROVE  LET f == Head(line[Peer(n)])
         IN  /\ 1 \in 1..Len(line[Peer(n)]) /\ f = line[Peer(n)][1]
             /\ f.data \in 1..Accepted(n) /\ f.seq = (f.data - 1) % SeqCount
             /\ NoneDropped => Delivered(n) < f.data + Window
             /\ InSequence(Peer(n), f.seq) <=> f.data = Delivered(n) + 1
             /\ Duplicate(Peer(n), f.seq) <=> f.data <= Delivered(n)
<1> DEFINE q == line[Peer(n)]
<1> DEFINE f == Head(q)
<1>1. 1 \in 1..Len(q) /\ f = q[1] /\ f.kind = "data"
  <2>1. Len(q) >= 1 /\ f = q[1] /\ Len(q) \in Nat
    BY Counts, TailTyped, LenNat
  <2> QED BY <2>1
<1>2. f.data \in 1..Accepted(n) /\ f.seq = (f.data - 1) % SeqCount /\ (NoneDropped => Delivered(n) < f.data + Window)
  BY <1>1 DEF Direction, DataHolds, DataSlides, Holds
<1>3. /\ InSequence(Peer(n), f.seq) <=> f.data = Delivered(n) + 1
      /\ Duplicate(Peer(n), f.seq) <=> f.data <= Delivered(n)
  BY <1>2, DataReach DEF InSequence, Duplicate
<1> QED
  BY <1>1, <1>2, <1>3

(* A data frame is handed over when its turn has come, and is answered by  *)
(* an acknowledgement of a payload that was.                               *)
LEMMA DataDirection ==
  ASSUME Typed, NEW n \in Node, Direction(n), Apart, setup' = setup,
         qos_recv(Peer(n)), Head(line[Peer(n)]).kind = "data"
  PROVE  Direction(n)'
<1> DEFINE p == Peer(n)
<1> DEFINE q == line[p]
<1> DEFINE f == Head(q)
<1> DEFINE u == f.data
<1> DEFINE A == Accepted(n)
<1> DEFINE D == Delivered(n)
<1> DEFINE B == Base(n)
<1> DEFINE E == Delivered(n)'
<1> DEFINE fs == <<Answer(p, f.seq)>>
<1>0. p \in Node /\ Peer(p) = n /\ p # n
  BY Ends
<1>1. /\ q # <<>> /\ recv_data(p, f)
      /\ line' = [line EXCEPT ![p] = Tail(@), ![Peer(p)] = Sent(p, Reply(p, f))]
  BY DEF qos_recv
<1>2. f \in Frames /\ line'[p] = Tail(q) /\ line'[n] = Sent(p, fs) /\ fs \in Seq(Frames)
  <2>1. f \in Frames /\ line'[p] = Tail(line[p]) /\ line'[Peer(p)] = Sent(p, Reply(p, f))
    BY <1>0, <1>1, RecvLines
  <2>2. Reply(p, f) = fs /\ Reply(p, f) \in Seq(Frames)
    BY <1>0, <2>1, ReplyTyped
  <2> QED BY <2>1, <2>2, <1>0
<1>3. UNCHANGED <<sendvars, accepted, acked, dropped>>
  BY <1>1 DEF recv_data
<1>4. /\ A \in Nat /\ D \in Nat /\ B \in Int /\ q \in Seq(Frames) /\ line[n] \in Seq(Frames)
      /\ D <= A /\ delivered[p] \in Seq(Nat)
  BY Counts DEF Direction, Receives
<1>5. Accepted(n)' = A /\ (NoneDropped' <=> NoneDropped)
  BY <1>3 DEF Accepted, NoneDropped
<1>6. 1 \in 1..Len(q) /\ f = q[1] /\ f.kind = "data"
  BY <1>1, DataTaken
<1>7. u \in 1..A /\ f.seq = (u - 1) % SeqCount /\ (NoneDropped => D < u + Window)
  BY <1>1, DataTaken
<1>8. /\ InSequence(p, f.seq) <=> u = D + 1
      /\ Duplicate(p, f.seq) <=> u <= D
  BY <1>1, DataTaken
<1>10. /\ u = D + 1 => /\ delivered' = [delivered EXCEPT ![p] = Append(@, u)]
                       /\ expected_seq' = [expected_seq EXCEPT ![p] = (f.seq + 1) % SeqCount]
       /\ u # D + 1 => UNCHANGED <<expected_seq, delivered>>
  BY <1>1, <1>8 DEF recv_data, recvvars
<1>11. /\ u = D + 1 => E = u /\ delivered'[p] = Append(delivered[p], u) /\ expected_seq'[p] = u % SeqCount
       /\ u # D + 1 => E = D /\ delivered'[p] = delivered[p] /\ expected_seq'[p] = expected_seq[p]
  <2>1. CASE u = D + 1
    <3>1. delivered'[p] = Append(delivered[p], u) /\ expected_seq'[p] = (f.seq + 1) % SeqCount
      BY <1>0, <1>10, <2>1 DEF Typed
    <3>2. Len(delivered'[p]) = Len(delivered[p]) + 1
      BY <1>4, <3>1
    <3>3. E = u
      BY <2>1, <3>2 DEF Delivered
    <3>4. (f.seq + 1) % SeqCount = u % SeqCount
      <4> DEFINE x == u - 1
      <4>1. x \in Int /\ u = x + 1 /\ f.seq = x % SeqCount /\ SeqCount \in Nat \ {0}
        BY <1>7, Numbers
      <4> HIDE DEF x
      <4>2. ((x % SeqCount) + 1) % SeqCount = (x + 1) % SeqCount
        BY <4>1, Succession
      <4> QED BY <4>1, <4>2
    <3> QED BY <2>1, <3>1, <3>3, <3>4
  <2>2. CASE u # D + 1
    BY <1>10, <2>2 DEF Delivered
  <2> QED BY <2>1, <2>2
<1>12. E \in Nat /\ D <= E /\ E <= A /\ (E = D \/ E = u)
  BY <1>4, <1>7, <1>11
<1>13. Sends(n)' /\ (Slides(n) => Slides(n)' /\ Base(n)' = B)
  <2>1. window'[n] = window[n] /\ outstanding'[n] = outstanding[n] /\ next_seq'[n] = next_seq[n] /\ accepted'[n] = accepted[n]
    BY <1>3 DEF sendvars
  <2>2. Frees(n, {})
    BY <2>1, Untouched
  <2>3. Sends(n)'
    BY <2>1, <2>2, KeepsSends DEF Direction
  <2>4. ASSUME Slides(n) PROVE Slides(n)' /\ Base(n)' = B
    BY <1>12, <2>1, <2>2, <2>4, KeepsSlides
  <2> QED BY <2>3, <2>4
<1>14. Receives(n)'
  <2>1. ASSUME NEW k \in 1..E PROVE delivered'[p][k] = k
    <3>1. \A j \in 1..D : delivered[p][j] = j
      BY DEF Direction, Receives
    <3>2. CASE u = D + 1
      <4>1. delivered'[p] = Append(delivered[p], u) /\ Len(delivered[p]) = D
        BY <1>11, <3>2 DEF Delivered
      <4>2. k \in 1..D \/ k = D + 1
        BY <1>4, <1>11, <3>2
      <4> DEFINE z == delivered[p]
      <4>3. z \in Seq(Nat) /\ Len(z) = D /\ u \in Nat /\ \A j \in 1..D : z[j] = j
        BY <1>4, <1>7, <3>1, <4>1
      <4> HIDE DEF z, u, D
      <4>4. Append(z, u)[k] = k
        BY <3>2, <4>2, <4>3
      <4> QED BY <4>1, <4>4 DEF z
    <3>3. CASE u # D + 1
      BY <1>11, <3>1, <3>3
    <3> QED BY <3>2, <3>3
  <2>2. expected_seq'[p] = E % SeqCount
    BY <1>11 DEF Direction, Receives
  <2>3. acked'[n] \subseteq 1..E
    BY <1>3, <1>4, <1>12 DEF Direction, Receives
  <2> QED BY <1>5, <1>12, <2>1, <2>2, <2>3 DEF Receives
<1>15. DataHolds(line'[p], A) /\ (NoneDropped => DataSlides(line'[p], E))
  <2>1. DataHolds(q, A) /\ (NoneDropped => DataSlides(q, D))
    BY DEF Direction
  <2>2. E = D \/ (q[1].kind = "data" /\ E = q[1].data)
    BY <1>6, <1>12
  <2> HIDE DEF q, D, E, A
  <2>3. DataHolds(Tail(q), A) /\ (DataSlides(q, D) => DataSlides(Tail(q), E))
    BY <1>1, <1>4, <1>12, <2>1, <2>2, TailData
  <2> QED BY <1>2, <2>1, <2>3
<1>16. Grown(line[n], fs, line'[n])
  BY <1>0, <1>2, SentGrows
<1>17. AnswersOf(fs, u, E) /\ (NoneDropped => AnswersInTime(fs, u, E))
  <2>1. /\ u <= D \/ u = D + 1 => fs[1].seq = f.seq
        /\ fs[1].kind = "ack" => u <= D \/ u = D + 1
    BY <1>8 DEF Answer, Frame, InSequence
  <2>2. ASSUME NEW k \in 1..Len(fs), fs[k].kind = "ack"
        PROVE  u \in 1..E /\ Holds(fs[k].seq, u) /\ (NoneDropped => E < u + Window)
    <3>1. k = 1 /\ (u <= D \/ u = D + 1) /\ fs[k].seq = f.seq
      BY <2>1, <2>2
    <3>2. u \in 1..E
      BY <1>4, <1>7, <1>11, <3>1
    <3>3. NoneDropped => E < u + Window
      <4>1. CASE u = D + 1
        BY <1>7, <1>11, <4>1, Numbers
      <4>2. CASE u <= D
        <5>1. E = D
          BY <1>4, <1>7, <1>11, <4>2
        <5> QED BY <1>7, <5>1
      <4> QED BY <3>1, <4>1, <4>2
    <3> QED BY <1>7, <3>1, <3>2, <3>3 DEF Holds
  <2> QED BY <2>2 DEF AnswersOf, AnswersInTime
<1>18. PICK g \in [1..Len(line[n]) -> Nat] : AckHolds(line[n], g, D) /\ (NoneDropped => AckSlides(line[n], g, B))
  BY DEF Direction
<1>19. AckHolds(line[n], g, E)
  BY <1>4, <1>12, <1>18 DEF AckHolds
<1>20. PICK h \in [1..Len(line'[n]) -> Nat] :
         /\ AckHolds(line'[n], h, E)
         /\ AckSlides(line[n], g, B) /\ B <= E /\ AnswersInTime(fs, u, E) => AckSlides(line'[n], h, B)
  <2> DEFINE r == line'[n]
  <2> DEFINE z == line[n]
  <2>1. z \in Seq(Frames) /\ g \in [1..Len(z) -> Nat] /\ AckHolds(z, g, E) /\ AnswersOf(fs, u, E)
        /\ Grown(z, fs, r) /\ fs \in Seq(Frames) /\ E \in Nat /\ B \in Int /\ u \in Nat
    BY <1>2, <1>4, <1>7, <1>12, <1>16, <1>17, <1>19
  <2> HIDE DEF r, z, fs, E, B, u
  <2>2. \E h \in [1..Len(r) -> Nat] :
         /\ AckHolds(r, h, E)
         /\ AckSlides(z, g, B) /\ B <= E /\ AnswersInTime(fs, u, E) => AckSlides(r, h, B)
    BY <2>1, GrowAck
  <2> QED BY <2>2 DEF r, z
<1>21. ASSUME NoneDropped PROVE Slides(n)' /\ AckSlides(line'[n], h, Base(n)')
  <2>1. Slides(n) /\ B <= D
    BY <1>21 DEF Direction, Slides
  <2>2. B <= E
    BY <2>1, <1>4, <1>12
  <2> QED BY <1>13, <1>17, <1>18, <1>20, <1>21, <2>1, <2>2
<1>22. DataHolds(line[Peer(n)], Accepted(n))' /\ (NoneDropped' => DataSlides(line[Peer(n)], Delivered(n))')
  BY <1>5, <1>15 DEF DataHolds, DataSlides, Holds
<1>23. \E x \in [1..Len(line'[n]) -> Nat] :
         AckHolds(line'[n], x, Delivered(n)') /\ (NoneDropped' => AckSlides(line'[n], x, Base(n)'))
  BY <1>5, <1>20, <1>21
<1> QED
  BY <1>5, <1>13, <1>14, <1>21, <1>22, <1>23 DEF Direction

-----------------------------------------------------------------------------
(* Both directions, through every step of two calm ends.                   *)

(* While nothing is dropped, nothing was.                                  *)
LEMMA DropGrows ==
  ASSUME Typed, NEW n \in Node, NEW X, dropped' = [dropped EXCEPT ![n] = @ \cup X], NoneDropped'
  PROVE  NoneDropped /\ X = {}
<1>1. dropped'[n] = dropped[n] \cup X /\ \A m \in Node \ {n} : dropped'[m] = dropped[m]
  BY DEF Typed
<1> QED
  BY <1>1 DEF NoneDropped

(* The direction whose data a step does not touch.                         *)
Bystander(m) ==
  /\ window'[m] = window[m] /\ outstanding'[m] = outstanding[m]
  /\ accepted'[m] = accepted[m] /\ next_seq'[m] = next_seq[m] /\ acked'[m] = acked[m]
  /\ delivered'[Peer(m)] = delivered[Peer(m)] /\ expected_seq'[Peer(m)] = expected_seq[Peer(m)]

LEMMA Passed ==
  ASSUME Typed, setup' = setup, NEW m \in Node, Direction(m), Bystander(m),
         NoneDropped' => NoneDropped, DataMoves(m), AckMoves(m)
  PROVE  Direction(m)'
<1>1. Frees(m, {})
  BY Untouched DEF Bystander
<1> QED
  BY <1>1, DirectionKept DEF Bystander

(* What n sends of its window is no acknowledgement.                       *)
LEMMA WindowData ==
  ASSUME Typed, NEW n \in Node, NEW fs, FromWindow(n, fs), NEW k \in 1..Len(fs)
  PROVE  fs[k].kind = "data"
<1>1. PICK i \in UsedSlots(n) : fs[k] = DataFrame(window[n][i])
  BY DEF FromWindow
<1>2. window[n][i] \in Slot
  BY UsedTyped DEF Typed
<1> QED
  BY <1>1, <1>2, DataFrameTyped

(* Every step keeps both directions.                                       *)
LEMMA PollDirections ==
  ASSUME Typed, setup' = setup, \A m \in Node : Direction(m), NEW n \in Node, qos_poll(n)
  PROVE  \A m \in Node : Direction(m)'
<1> DEFINE p == Peer(n)
<1>0. p \in Node /\ p # n /\ Peer(p) = n /\ \A m \in Node : m = n \/ m = p
  BY Ends
<1>1. PICK order \in [1..Cardinality(Again(n)) -> Again(n)] : send_raw(n, FramesIn(n, order))
  BY DEF qos_poll, Gone, Again, FramesIn
<1> DEFINE fs == FramesIn(n, order)
<1>2. fs \in Seq(Frames) /\ FromWindow(n, fs)
  BY PollFrames
<1>3. send_raw(n, fs)
  BY <1>1
<1> HIDE DEF fs
<1>4. line'[p] = Sent(n, fs) /\ line'[n] = line[n]
  BY <1>0, <1>3 DEF send_raw, Typed
<1>5. Grown(line[p], fs, line'[p])
  BY <1>2, <1>4, SentGrows
<1>6. dropped' = [dropped EXCEPT ![n] = @ \cup {window[n][i].data : i \in Gone(n)}]
  BY DEF qos_poll, Gone
<1>7. NoneDropped' => NoneDropped /\ Gone(n) = {}
  <2>1. ASSUME NoneDropped' PROVE NoneDropped /\ {window[n][i].data : i \in Gone(n)} = {}
    BY <1>6, <2>1, DropGrows
  <2> QED BY <2>1
<1>8. UNCHANGED <<next_seq, recvvars, accepted, delivered, acked>>
  BY DEF qos_poll
<1>9. Direction(n)'
  <2>1. Frees(n, Gone(n))
    BY PollWindow
  <2>2. DataMoves(n)
    BY <1>2, <1>5 DEF DataMoves, FromWindow
  <2>3. AckMoves(n)
    BY <1>4 DEF AckMoves
  <2> QED BY <1>7, <1>8, <2>1, <2>2, <2>3, DirectionKept DEF recvvars
<1>10. Direction(p)'
  <2>1. Bystander(p)
    BY <1>0, <1>8, PollWindow DEF Bystander, recvvars
  <2>2. DataMoves(p)
    BY <1>0, <1>4 DEF DataMoves
  <2>3. \A k \in 1..Len(fs) : fs[k].kind # "ack"
    BY <1>2, WindowData
  <2>4. AckMoves(p)
    BY <1>2, <1>5, <2>3 DEF AckMoves
  <2> QED BY <1>0, <1>7, <2>1, <2>2, <2>4, Passed
<1> QED
  BY <1>0, <1>9, <1>10

LEMMA TickDirections ==
  ASSUME Typed, setup' = setup, \A m \in Node : Direction(m), Tick
  PROVE  \A m \in Node : Direction(m)'
<1>1. UNCHANGED <<next_seq, recvvars, line, history>>
  BY DEF Tick
<1>2. ASSUME NEW m \in Node PROVE Direction(m)'
  <2>1. Frees(m, {})
    BY TickWindow
  <2>2. DataMoves(m) /\ AckMoves(m)
    BY <1>1 DEF DataMoves, AckMoves
  <2>3. NoneDropped' => NoneDropped
    BY <1>1 DEF NoneDropped, history
  <2> QED BY <1>1, <2>1, <2>2, <2>3, DirectionKept DEF recvvars, history
<1> QED
  BY <1>2

LEMMA LoseDirections ==
  ASSUME Typed, setup' = setup, \A m \in Node : Direction(m), NEW n \in Node, Lose(n)
  PROVE  \A m \in Node : Direction(m)'
<1> DEFINE p == Peer(n)
<1>0. p \in Node /\ p # n /\ Peer(p) = n /\ \A m \in Node : m = n \/ m = p
  BY Ends
<1>1. line[n] # <<>> /\ line'[n] = Tail(line[n]) /\ line'[p] = line[p]
  BY <1>0 DEF Lose, Typed
<1>2. UNCHANGED <<sendvars, recvvars, history>>
  BY DEF Lose
<1>3. \A m \in Node : Bystander(m) /\ (NoneDropped' => NoneDropped)
  BY <1>2 DEF Bystander, sendvars, recvvars, history, NoneDropped
<1>4. DataMoves(n) /\ AckMoves(n) /\ DataMoves(p) /\ AckMoves(p)
  BY <1>0, <1>1 DEF DataMoves, AckMoves
<1> QED
  BY <1>0, <1>3, <1>4, Passed

LEMMA SendDirections ==
  ASSUME Typed, setup' = setup, \A m \in Node : Direction(m), NEW n \in Node, qos_send(n), window' # window
  PROVE  \A m \in Node : Direction(m)'
<1> DEFINE p == Peer(n)
<1> DEFINE s == NewEntry(n)
<1> DEFINE fs == <<DataFrame(s)>>
<1>0. p \in Node /\ p # n /\ Peer(p) = n /\ \A m \in Node : m = n \/ m = p
  BY Ends
<1>1. /\ send_raw(n, fs)
      /\ \A m \in Node \ {n} : window'[m] = window[m] /\ outstanding'[m] = outstanding[m] /\ accepted'[m] = accepted[m]
  BY SendAdds
<1>2. /\ \A m \in Node \ {n} : next_seq'[m] = next_seq[m]
      /\ UNCHANGED <<recvvars, delivered, acked, dropped>>
  BY SendNext
<1>3. Bystander(p) /\ (NoneDropped' => NoneDropped)
  BY <1>0, <1>1, <1>2 DEF Bystander, recvvars, NoneDropped
<1>4. fs \in Seq(Frames) /\ \A k \in 1..Len(fs) : fs[k].kind # "ack"
  <2>1. s \in Slot
    BY NewTyped DEF qos_send
  <2>2. DataFrame(s) \in Frames /\ DataFrame(s).kind = "data"
    BY <2>1, DataFrameTyped
  <2> QED BY <2>2
<1>5. line'[p] = Sent(n, fs) /\ line'[n] = line[n]
  BY <1>0, <1>1 DEF send_raw, Typed
<1>6. Grown(line[p], fs, line'[p])
  BY <1>4, <1>5, SentGrows
<1>7. DataMoves(p) /\ AckMoves(p)
  BY <1>0, <1>4, <1>5, <1>6 DEF DataMoves, AckMoves
<1>8. Direction(p)'
  BY <1>0, <1>3, <1>7, Passed
<1>9. Direction(n)'
  BY SendDirection
<1> QED
  BY <1>0, <1>8, <1>9

LEMMA AckDirections ==
  ASSUME Typed, setup' = setup, Apart, \A m \in Node : Direction(m), NEW n \in Node,
         qos_recv(n), Head(line[n]).kind = "ack"
  PROVE  \A m \in Node : Direction(m)'
<1> DEFINE p == Peer(n)
<1> DEFINE f == Head(line[n])
<1>0. p \in Node /\ p # n /\ Peer(p) = n /\ \A m \in Node : m = n \/ m = p
  BY Ends
<1>1. /\ line[n] # <<>> /\ process_ack(n, f.seq)
      /\ line' = [line EXCEPT ![n] = Tail(@), ![p] = Sent(n, Reply(n, f))]
  BY DEF qos_recv
<1>2. /\ f \in Frames /\ line'[n] = Tail(line[n]) /\ line'[p] = Sent(n, Reply(n, f))
  BY <1>1, RecvLines
<1>3. /\ acked' = [acked EXCEPT ![n] = @ \cup {window[n][i].data : i \in Acked(n, f.seq)}]
      /\ UNCHANGED <<next_seq, recvvars, accepted, delivered, dropped>>
  BY <1>1 DEF process_ack, Acked
<1>4. window'[p] = window[p] /\ outstanding'[p] = outstanding[p]
  BY <1>0, <1>1, AckWindow
<1>5. Bystander(p) /\ (NoneDropped' => NoneDropped)
  BY <1>0, <1>3, <1>4 DEF Bystander, recvvars, NoneDropped, Typed
<1>6. DataMoves(p)
  BY <1>0, <1>1, <1>2 DEF DataMoves
<1>7. AckMoves(p)
  <2>1. Reply(n, f) = <<>> /\ Reply(n, f) \in Seq(Frames)
    BY <1>2, ReplyTyped
  <2>2. Grown(line[p], Reply(n, f), line'[p])
    BY <1>2, <2>1, SentGrows
  <2>3. \A k \in 1..Len(Reply(n, f)) : FALSE
    BY <2>1
  <2> QED BY <2>1, <2>2, <2>3 DEF AckMoves
<1>8. Direction(p)'
  BY <1>0, <1>5, <1>6, <1>7, Passed
<1>9. Direction(n)'
  BY AckDirection
<1> QED
  BY <1>0, <1>8, <1>9

LEMMA NackDirections ==
  ASSUME Typed, setup' = setup, \A m \in Node : Direction(m), NEW n \in Node,
         qos_recv(n), Head(line[n]).kind = "nack"
  PROVE  \A m \in Node : Direction(m)'
<1> DEFINE p == Peer(n)
<1> DEFINE f == Head(line[n])
<1> DEFINE fs == Reply(n, f)
<1>0. p \in Node /\ p # n /\ Peer(p) = n /\ \A m \in Node : m = n \/ m = p
  BY Ends
<1>1. /\ line[n] # <<>> /\ process_nack(n, f.seq)
      /\ line' = [line EXCEPT ![n] = Tail(@), ![p] = Sent(n, fs)]
  BY DEF qos_recv
<1>2. /\ f \in Frames /\ line'[n] = Tail(line[n]) /\ line'[p] = Sent(n, fs)
  BY <1>1, RecvLines
<1>3. UNCHANGED <<next_seq, recvvars, accepted, delivered, acked>>
  BY <1>1 DEF process_nack
<1>4. fs \in Seq(Frames) /\ FromWindow(n, fs)
  BY <1>2, ReplyTyped DEF FromWindow
<1>5. Grown(line[p], fs, line'[p])
  BY <1>2, <1>4, SentGrows
<1>6. PICK gone \in SUBSET Slots :
        /\ Frees(n, gone)
        /\ dropped' = [dropped EXCEPT ![n] = @ \cup {window[n][i].data : i \in gone}]
  BY <1>1, NackWindow
<1>7. NoneDropped' => NoneDropped /\ gone = {}
  <2>1. ASSUME NoneDropped' PROVE NoneDropped /\ {window[n][i].data : i \in gone} = {}
    BY <1>6, <2>1, DropGrows
  <2> QED BY <2>1
<1>8. Direction(n)'
  <2>1. DataMoves(n)
    BY <1>4, <1>5 DEF DataMoves, FromWindow
  <2>2. AckMoves(n)
    BY <1>1, <1>2 DEF AckMoves
  <2> QED BY <1>3, <1>6, <1>7, <2>1, <2>2, DirectionKept DEF recvvars
<1>9. Direction(p)'
  <2>1. Bystander(p)
    BY <1>0, <1>1, <1>3, NackWindow DEF Bystander, recvvars
  <2>2. DataMoves(p)
    BY <1>0, <1>1, <1>2 DEF DataMoves
  <2>3. \A k \in 1..Len(fs) : fs[k].kind # "ack"
    BY <1>4, WindowData
  <2>4. AckMoves(p)
    BY <1>4, <1>5, <2>3 DEF AckMoves
  <2> QED BY <1>0, <1>7, <2>1, <2>2, <2>4, Passed
<1> QED
  BY <1>0, <1>8, <1>9

LEMMA DataDirections ==
  ASSUME Typed, setup' = setup, Apart, \A m \in Node : Direction(m), NEW n \in Node,
         qos_recv(n), Head(line[n]).kind = "data"
  PROVE  \A m \in Node : Direction(m)'
<1> DEFINE p == Peer(n)
<1> DEFINE f == Head(line[n])
<1> DEFINE fs == <<Answer(n, f.seq)>>
<1>0. p \in Node /\ p # n /\ Peer(p) = n /\ \A m \in Node : m = n \/ m = p
  BY Ends
<1>1. /\ line[n] # <<>> /\ recv_data(n, f)
      /\ line' = [line EXCEPT ![n] = Tail(@), ![p] = Sent(n, Reply(n, f))]
  BY DEF qos_recv
<1>2. /\ f \in Frames /\ line'[n] = Tail(line[n]) /\ line'[p] = Sent(n, fs) /\ fs \in Seq(Frames)
  <2>1. f \in Frames /\ line'[n] = Tail(line[n]) /\ line'[p] = Sent(n, Reply(n, f))
    BY <1>1, RecvLines
  <2>2. Reply(n, f) = fs /\ Reply(n, f) \in Seq(Frames)
    BY <2>1, ReplyTyped
  <2> QED BY <2>1, <2>2
<1>3. /\ UNCHANGED <<sendvars, accepted, acked, dropped>>
      /\ delivered'[p] = delivered[p] /\ expected_seq'[p] = expected_seq[p]
  BY <1>0, <1>1 DEF recv_data, recvvars, Typed
<1>4. Bystander(n) /\ (NoneDropped' => NoneDropped)
  BY <1>3 DEF Bystander, sendvars, NoneDropped
<1>5. Grown(line[p], fs, line'[p])
  BY <1>2, SentGrows
<1>6. \A k \in 1..Len(fs) : fs[k].kind # "data"
  BY DEF Answer, Frame
<1>7. DataMoves(n)
  BY <1>2, <1>5, <1>6 DEF DataMoves
<1>8. AckMoves(n)
  BY <1>1, <1>2 DEF AckMoves
<1>9. Direction(n)'
  BY <1>4, <1>7, <1>8, Passed
<1>10. Direction(p)'
  <2>1. Direction(p) /\ qos_recv(Peer(p)) /\ Head(line[Peer(p)]).kind = "data"
    BY <1>0
  <2> QED BY <1>0, <2>1, DataDirection
<1> QED
  BY <1>0, <1>9, <1>10

LEMMA PlainGrows ==
  ASSUME NEW q \in Seq(Frames), NEW fs \in Seq(Frames), NEW r, Grown(q, fs, r), Plain(q), Plain(fs)
  PROVE  Plain(r)
<1>1. Len(q) \in Nat /\ Len(r) \in Nat
  BY LenNat DEF Grown
<1>2. ASSUME NEW k \in 1..Len(r) PROVE r[k].kind \in {"data", "ack", "nack"}
  <2>1. CASE k <= Len(q)
    <3>1. k \in 1..Len(q)
      BY <1>1, <2>1
    <3> QED BY <3>1 DEF Grown, Plain
  <2>2. CASE k > Len(q)
    <3>1. k \in Len(q)+1..Len(r)
      BY <1>1, <2>2
    <3> QED BY <3>1 DEF Grown, Plain
  <2> QED BY <1>1, <2>1, <2>2
<1> QED
  BY <1>2 DEF Plain

LEMMA PlainTail ==
  ASSUME NEW q \in Seq(Frames), q # <<>>, Plain(q)
  PROVE  Plain(Tail(q))
<1>1. /\ Len(Tail(q)) = Len(q) - 1 /\ Len(q) \in Nat
      /\ \A k \in 1..Len(q)-1 : Tail(q)[k] = q[k+1]
  BY TailTyped, LenNat
<1>2. \A k \in 1..Len(Tail(q)) : k + 1 \in 1..Len(q) /\ Tail(q)[k] = q[k+1]
  BY <1>1
<1> QED
  BY <1>2 DEF Plain

(* Calm ends run all the time, and only data, ACK and NACK are on the      *)
(* lines.                                                                  *)
Undisturbed == nomem = 0 /\ \A n \in Node : initialized[n] /\ Plain(line[n])

(* What can happen to two calm ends.                                       *)
LEMMA CalmSteps ==
  ASSUME Typed, setup' = setup, IsCalm(setup), nomem = 0, NEW n \in Node,
         \/ qos_send(n)
         \/ Tick \/ qos_poll(n) \/ qos_recv(n) \/ Lose(n) \/ PeerRequest(n)
         \/ qos_shutdown(n) \/ qos_init(n)
  PROVE  (qos_send(n) /\ window' # window) \/ Tick \/ qos_poll(n) \/ qos_recv(n) \/ Lose(n)
<1>1. setup.restarts = 0 /\ setup.nomem = 0 /\ ~setup.polls /\ restarts \in Nat
  BY DEF IsCalm, Typed
<1>2. ~qos_shutdown(n) /\ ~qos_init(n) /\ ~PeerRequest(n)
  BY <1>1 DEF qos_shutdown, qos_init, PeerRequest
<1>3. qos_send(n) => window' # window
  BY <1>1, SendEither
<1> QED
  BY <1>2, <1>3

LEMMA CalmLines ==
  ASSUME Typed, setup' = setup, Undisturbed, NEW n \in Node,
         (qos_send(n) /\ window' # window) \/ Tick \/ qos_poll(n) \/ qos_recv(n) \/ Lose(n)
  PROVE  Undisturbed'
<1> DEFINE p == Peer(n)
<1>0. p \in Node /\ p # n /\ Peer(p) = n /\ \A m \in Node : m = n \/ m = p
  BY Ends
<1>1. /\ line[n] \in Seq(Frames) /\ line[p] \in Seq(Frames)
      /\ Plain(line[n]) /\ Plain(line[p]) /\ nomem = 0 /\ \A m \in Node : initialized[m]
  BY <1>0 DEF Typed, Undisturbed
<1>2. nomem' = 0 /\ \A m \in Node : initialized'[m]
  <2>1. CASE qos_send(n) /\ window' # window
    BY <1>1, <2>1, SendAdds, SendNext
  <2>2. CASE Tick \/ qos_poll(n) \/ qos_recv(n) \/ Lose(n)
    BY <1>1, <2>2, SteadySteps DEF Steady
  <2> QED BY <2>1, <2>2
<1>3. ASSUME NEW fs \in Seq(Frames), Plain(fs), send_raw(n, fs) PROVE Plain(line'[n]) /\ Plain(line'[p])
  <2>1. line'[p] = Sent(n, fs) /\ line'[n] = line[n]
    BY <1>0, <1>3 DEF send_raw, Typed
  <2>2. Grown(line[p], fs, line'[p])
    BY <1>3, <2>1, SentGrows
  <2> QED BY <1>1, <1>3, <2>1, <2>2, PlainGrows
<1>4. ASSUME NEW fs, FromWindow(n, fs) PROVE Plain(fs)
  BY <1>4, WindowData DEF Plain
<1>5. ASSUME qos_send(n), window' # window PROVE Plain(line'[n]) /\ Plain(line'[p])
  <2> DEFINE s == NewEntry(n)
  <2>1. send_raw(n, <<DataFrame(s)>>)
    BY <1>5, SendAdds
  <2>2. s \in Slot
    BY <1>5, NewTyped DEF qos_send
  <2>3. DataFrame(s) \in Frames /\ DataFrame(s).kind = "data"
    BY <2>2, DataFrameTyped
  <2>4. <<DataFrame(s)>> \in Seq(Frames) /\ Plain(<<DataFrame(s)>>)
    BY <2>3 DEF Plain
  <2> QED BY <1>3, <2>1, <2>4
<1>6. ASSUME Tick PROVE Plain(line'[n]) /\ Plain(line'[p])
  BY <1>1, <1>6 DEF Tick
<1>7. ASSUME qos_poll(n) PROVE Plain(line'[n]) /\ Plain(line'[p])
  <2>1. PICK order \in [1..Cardinality(Again(n)) -> Again(n)] : send_raw(n, FramesIn(n, order))
    BY <1>7 DEF qos_poll, Gone, Again, FramesIn
  <2> QED BY <2>1, PollFrames, <1>3, <1>4
<1>8. ASSUME qos_recv(n) PROVE Plain(line'[n]) /\ Plain(line'[p])
  <2> DEFINE f == Head(line[n])
  <2>1. line[n] # <<>> /\ line' = [line EXCEPT ![n] = Tail(@), ![p] = Sent(n, Reply(n, f))]
    BY <1>8 DEF qos_recv
  <2>2. f \in Frames /\ line'[n] = Tail(line[n]) /\ line'[p] = Sent(n, Reply(n, f))
    BY <2>1, RecvLines
  <2>3. f.kind \in {"data", "ack", "nack"}
    <3>1. 1 \in 1..Len(line[n]) /\ f = line[n][1]
      <4>1. Len(line[n]) >= 1 /\ f = line[n][1] /\ Len(line[n]) \in Nat
        BY <1>1, <2>1, TailTyped, LenNat
      <4> QED BY <4>1
    <3> QED BY <1>1, <3>1 DEF Plain
  <2>4. Reply(n, f) \in Seq(Frames)
    BY <2>2, ReplyTyped
  <2>5. Plain(Reply(n, f))
    <3>1. CASE f.kind = "ack"
      <4>1. Reply(n, f) = <<>>
        BY <2>2, <3>1, ReplyTyped
      <4> QED BY <4>1 DEF Plain
    <3>2. CASE f.kind = "nack"
      <4>1. FromWindow(n, Reply(n, f))
        BY <2>2, <3>2, ReplyTyped DEF FromWindow
      <4> QED BY <4>1, <1>4
    <3>3. CASE f.kind = "data"
      <4>1. Reply(n, f) = <<Answer(n, f.seq)>>
        BY <2>2, <3>3, ReplyTyped
      <4>2. Answer(n, f.seq).kind \in {"ack", "nack"}
        BY DEF Answer, Frame
      <4> QED BY <4>1, <4>2 DEF Plain
    <3> QED BY <2>3, <3>1, <3>2, <3>3
  <2>6. Grown(line[p], Reply(n, f), line'[p])
    BY <2>2, <2>4, SentGrows
  <2> QED BY <1>1, <2>1, <2>2, <2>4, <2>5, <2>6, PlainGrows, PlainTail
<1>9. ASSUME Lose(n) PROVE Plain(line'[n]) /\ Plain(line'[p])
  <2>1. line[n] # <<>> /\ line'[n] = Tail(line[n]) /\ line'[p] = line[p]
    BY <1>0, <1>9 DEF Lose, Typed
  <2> QED BY <1>1, <2>1, PlainTail
<1>10. Plain(line'[n]) /\ Plain(line'[p])
  BY <1>5, <1>6, <1>7, <1>8, <1>9
<1> QED
  BY <1>0, <1>2, <1>10 DEF Undisturbed, Plain

LEMMA DropsStay ==
  ASSUME Typed, NEW n \in Node, NEW m \in Node,
         \/ qos_send(n)
         \/ Tick \/ qos_poll(n) \/ qos_recv(n) \/ Lose(n) \/ PeerRequest(n)
         \/ qos_shutdown(n) \/ qos_init(n)
  PROVE  dropped[m] \subseteq dropped'[m]
<1>1. ASSUME NEW X, dropped' = [dropped EXCEPT ![n] = @ \cup X] PROVE dropped[m] \subseteq dropped'[m]
  BY <1>1 DEF Typed
<1>2. CASE dropped' = dropped
  BY <1>2
<1>3. CASE qos_send(n) \/ Tick \/ Lose(n) \/ PeerRequest(n)
  BY <1>2, <1>3 DEF qos_send, Tick, Lose, PeerRequest, history
<1>4. CASE qos_poll(n)
  <2>1. dropped' = [dropped EXCEPT ![n] = @ \cup {window[n][i].data : i \in Gone(n)}]
    BY <1>4 DEF qos_poll, Gone
  <2> QED BY <1>1, <2>1
<1>5. CASE qos_shutdown(n) \/ qos_init(n)
  <2>1. dropped' = [dropped EXCEPT ![n] = @ \cup Freed(n)]
    BY <1>5 DEF qos_shutdown, qos_init
  <2> QED BY <1>1, <2>1
<1>6. CASE qos_recv(n)
  <2> DEFINE f == Head(line[n])
  <2>1. \/ process_ack(n, f.seq) \/ process_nack(n, f.seq) \/ recv_data(n, f)
        \/ UNCHANGED <<sendvars, recvvars, history>>
    <3>1. f.kind \in {"data", "ack", "nack", "poll", "resend"}
      BY <1>6, TailTyped DEF qos_recv, Typed, Frames
    <3> QED BY <1>6, <3>1 DEF qos_recv
  <2>2. ASSUME process_nack(n, f.seq) PROVE dropped[m] \subseteq dropped'[m]
    <3>1. \E gone : dropped' = [dropped EXCEPT ![n] = @ \cup {window[n][i].data : i \in gone}]
      BY <2>2, NackWindow
    <3> QED BY <1>1, <3>1
  <2> QED BY <1>2, <2>1, <2>2 DEF process_ack, recv_data, history
<1> QED
  BY <1>3, <1>4, <1>5, <1>6

(* The invariant of calm set-ups, as long as no number is ambiguous.       *)
Calm == IsCalm(setup) /\ Apart => Undisturbed /\ \A n \in Node : Direction(n)

LEMMA CalmInit == Init => Calm
<1> SUFFICES ASSUME Init PROVE Undisturbed /\ \A n \in Node : Direction(n)
  BY DEF Calm
<1>1. Undisturbed
  BY DEF Init, Undisturbed, Plain
<1>2. ASSUME NEW n \in Node PROVE Direction(n)
  <2> DEFINE p == Peer(n)
  <2>1. p \in Node
    BY Ends
  <2>2. /\ accepted[n] = <<>> /\ delivered[p] = <<>> /\ outstanding[n] = 0 /\ next_seq[n] = 0
        /\ expected_seq[p] = 0 /\ line[n] = <<>> /\ line[p] = <<>> /\ acked[n] = {}
    BY <2>1 DEF Init
  <2>3. UsedSlots(n) = {}
    BY UsedTyped, FreeTyped DEF Init
  <2>4. Accepted(n) = 0 /\ Delivered(n) = 0 /\ Base(n) = 0
    BY <2>2 DEF Accepted, Delivered, Base
  <2>5. setup.sends \in 0..MaxSends /\ 0 % SeqCount = 0
    BY Surround, Numbers, Small DEF Init
  <2>6. Sends(n)
    BY <2>2, <2>3, <2>4, <2>5, Numbers DEF Sends
  <2>7. Receives(n)
    BY <2>2, <2>4, <2>5 DEF Receives
  <2>8. Slides(n)
    BY <2>2, <2>3, <2>4, Numbers DEF Slides
  <2>9. DataHolds(line[p], Accepted(n)) /\ DataSlides(line[p], Delivered(n))
    BY <2>2 DEF DataHolds, DataSlides
  <2>10. \E g \in [1..Len(line[n]) -> Nat] : AckHolds(line[n], g, Delivered(n)) /\ AckSlides(line[n], g, Base(n))
    <3> DEFINE g == [k \in 1..Len(line[n]) |-> 0]
    <3>1. g \in [1..Len(line[n]) -> Nat]
      OBVIOUS
    <3>2. AckHolds(line[n], g, Delivered(n)) /\ AckSlides(line[n], g, Base(n))
      BY <2>2 DEF AckHolds, AckSlides
    <3> QED BY <3>1, <3>2
  <2> QED BY <2>6, <2>7, <2>8, <2>9, <2>10 DEF Direction
<1> QED
  BY <1>1, <1>2

LEMMA CalmNext == Typed /\ Calm /\ [Next]_vars => Calm'
<1> SUFFICES ASSUME Typed, Calm, [Next]_vars, IsCalm(setup)', Apart'
             PROVE  Undisturbed' /\ \A m \in Node : Direction(m)'
  BY DEF Calm
<1>1. CASE UNCHANGED vars
  <2>1. UNCHANGED <<setup, sendvars, recvvars, line, history, nomem>>
    BY <1>1 DEF vars, bounds
  <2>2. IsCalm(setup) /\ Apart /\ (NoneDropped' => NoneDropped)
    BY <2>1 DEF IsCalm, Apart, NoneDropped, history
  <2>3. Undisturbed /\ \A m \in Node : Direction(m)
    BY <2>2 DEF Calm
  <2>4. Undisturbed'
    BY <2>1, <2>3 DEF Undisturbed, Plain, sendvars
  <2>5. ASSUME NEW m \in Node PROVE Direction(m)'
    <3>1. Bystander(m) /\ DataMoves(m) /\ AckMoves(m)
      BY <2>1 DEF Bystander, DataMoves, AckMoves, sendvars, recvvars, history
    <3> QED BY <2>1, <2>2, <2>3, <3>1, Passed
  <2> QED BY <2>4, <2>5
<1>2. CASE Next
  <2>1. setup' = setup /\ IsCalm(setup)
    BY <1>2 DEF Next, IsCalm
  <2>2. PICK n \in Node : \/ qos_send(n)
                          \/ Tick \/ qos_poll(n) \/ qos_recv(n) \/ Lose(n) \/ PeerRequest(n)
                          \/ qos_shutdown(n) \/ qos_init(n)
    BY <1>2, Reached
  <2>3. NoneDropped' => NoneDropped
    <3>1. ASSUME NEW m \in Node PROVE dropped[m] \subseteq dropped'[m]
      BY <2>2, DropsStay
    <3> QED BY <3>1 DEF NoneDropped
  <2>4. Apart
    BY <2>1, <2>3 DEF Apart
  <2>5. Undisturbed /\ \A m \in Node : Direction(m)
    BY <2>1, <2>4 DEF Calm
  <2>6. (qos_send(n) /\ window' # window) \/ Tick \/ qos_poll(n) \/ qos_recv(n) \/ Lose(n)
    <3>1. nomem = 0
      BY <2>5 DEF Undisturbed
    <3> QED BY <2>1, <2>2, <3>1, CalmSteps
  <2>7. Undisturbed'
    BY <2>1, <2>5, <2>6, CalmLines
  <2>8. \A m \in Node : Direction(m)'
    <3>1. CASE qos_send(n) /\ window' # window
      BY <2>1, <2>5, <3>1, SendDirections
    <3>2. CASE Tick
      BY <2>1, <2>5, <3>2, TickDirections
    <3>3. CASE qos_poll(n)
      BY <2>1, <2>5, <3>3, PollDirections
    <3>4. CASE Lose(n)
      BY <2>1, <2>5, <3>4, LoseDirections
    <3>5. CASE qos_recv(n)
      <4>1. Head(line[n]).kind \in {"data", "ack", "nack"}
        <5>1. line[n] \in Seq(Frames) /\ line[n] # <<>> /\ Plain(line[n])
          BY <2>5, <3>5 DEF qos_recv, Typed, Undisturbed
        <5>2. Len(line[n]) >= 1 /\ Head(line[n]) = line[n][1] /\ Len(line[n]) \in Nat
          BY <5>1, TailTyped, LenNat
        <5> QED BY <5>1, <5>2 DEF Plain
      <4> QED BY <2>1, <2>4, <2>5, <3>5, <4>1, AckDirections, NackDirections, DataDirections
    <3> QED BY <2>6, <3>1, <3>2, <3>3, <3>4, <3>5
  <2> QED BY <2>7, <2>8
<1> QED
  BY <1>1, <1>2

-----------------------------------------------------------------------------
(* What the invariants say of the window.                                  *)

(* The bound of the property is the hypothesis of the invariant.           *)
LEMMA CalmApart ==
  ASSUME Typed, Calm, NothingGivenUp, IsCalm(setup)
  PROVE  Apart /\ Undisturbed /\ \A n \in Node : Direction(n)
<1>1. setup.sends \in 0..MaxSends
  BY Surround DEF Typed
<1>2. Apart
  BY <1>1, Numbers DEF NothingGivenUp, Wraps, Apart, NoneDropped
<1> QED
  BY <1>2 DEF Calm

LEMMA Accounted == Typed /\ Counted /\ Numbered /\ Calm /\ NothingGivenUp => WindowIsSound
<1> SUFFICES ASSUME Typed, Counted, Numbered, Calm, NothingGivenUp
             PROVE  WindowIsSound
  OBVIOUS
<1>1. ASSUME IsCalm(setup) PROVE Apart /\ \A n \in Node : Direction(n)
  BY <1>1, CalmApart
<1>2. ASSUME IsCalm(setup) PROVE AckedDelivered
  <2>1. ASSUME NEW n \in Node, NEW x \in acked[n] PROVE x \in HandedOver(Peer(n))
    <3>1. /\ \A k \in 1..Delivered(n) : delivered[Peer(n)][k] = k
          /\ acked[n] \subseteq 1..Delivered(n)
      BY <1>1, <1>2 DEF Direction, Receives
    <3>2. delivered[Peer(n)] \in Seq(Nat)
      BY Counts
    <3>3. DOMAIN delivered[Peer(n)] = 1..Delivered(n)
      BY <3>2 DEF Delivered
    <3>4. x \in DOMAIN delivered[Peer(n)] /\ delivered[Peer(n)][x] = x
      BY <2>1, <3>1, <3>3
    <3> QED BY <3>4 DEF HandedOver
  <2> QED BY <2>1 DEF AckedDelivered
<1>3. ASSUME NEW n \in Node, NEW i \in UsedSlots(n), NEW j \in UsedSlots(n), window[n][i].seq = window[n][j].seq
      PROVE  i = j
  <2>1. CASE setup.sends + setup.nomem < SeqCount
    BY <1>3, <2>1 DEF Numbered
  <2>2. CASE IsCalm(setup)
    <3> DEFINE x == window[n][i].data - 1
    <3> DEFINE y == window[n][j].data - 1
    <3> DEFINE A == Accepted(n)
    <3> DEFINE B == Base(n)
    <3> DEFINE o == outstanding[n]
    <3> DEFINE s == setup.sends
    <3>1. Direction(n) /\ Apart
      BY <1>1, <2>2
    <3>2. /\ window[n][i].data \in 1..A /\ window[n][j].data \in 1..A /\ A <= s
          /\ window[n][i].seq = x % SeqCount /\ window[n][j].seq = y % SeqCount
          /\ window[n][i].data = window[n][j].data => i = j
      BY <3>1 DEF Direction, Sends, Holds
    <3>3. A \in Nat /\ o \in Int /\ B = A - o
      BY Counts DEF Base
    <3>4. s \in 0..MaxSends
      BY Surround DEF Typed
    <3>5. NoneDropped => 0 <= B /\ o <= Window /\ window[n][i].data > B /\ window[n][j].data > B
      BY <3>1 DEF Direction, Slides
    <3>6. 2 * s <= SeqCount \/ NoneDropped
      BY <3>1 DEF Apart
    <3>7. x \in Int /\ y \in Int /\ (window[n][i].data = window[n][j].data <=> x = y)
          /\ 0 <= x /\ x < A /\ 0 <= y /\ y < A /\ (NoneDropped => x >= B /\ y >= B)
      BY <3>2, <3>3, <3>5
    <3> HIDE DEF x, y, A, B, o, s
    <3>8. 2 * (x - y) < SeqCount /\ 2 * (y - x) <= SeqCount
      <4>1. CASE 2 * s <= SeqCount
        BY <4>1, <3>2, <3>3, <3>4, <3>7, Numbers
      <4>2. CASE NoneDropped
        BY <4>2, <3>3, <3>5, <3>7, Numbers
      <4> QED BY <3>6, <4>1, <4>2
    <3>9. x % SeqCount = y % SeqCount <=> x = y
      BY <3>7, <3>8, Compare
    <3> QED BY <1>3, <3>2, <3>7, <3>9
  <2> QED BY <2>1, <2>2, Surround DEF Typed
<1>4. WindowAccounting
  BY <1>3 DEF WindowAccounting, Counted
<1> QED
  BY <1>2, <1>4 DEF WindowIsSound

-----------------------------------------------------------------------------
(* The FIFO.                                                               *)

LEMMA ClientEnd == Client \in Sender /\ Client \in Node /\ Peer(Client) \in Node /\ Peer(Peer(Client)) = Client
  BY Ends, QosHolds DEF QosAssumption, Client

(* A step of the FIFO of end n: nothing, one payload accepted, or the next *)
(* one handed over.                                                        *)
FifoStep(n) ==
  \/ accepted'[n] = accepted[n] /\ delivered'[Peer(n)] = delivered[Peer(n)]
  \/ /\ \E d \in 1..MaxSends : accepted'[n] = Append(accepted[n], d)
     /\ delivered'[Peer(n)] = delivered[Peer(n)]
  \/ /\ Delivered(n) < Accepted(n)
     /\ delivered'[Peer(n)] = Append(delivered[Peer(n)], accepted[n][Delivered(n) + 1])
     /\ accepted'[n] = accepted[n]

LEMMA FifoSteps ==
  ASSUME Typed, Calm, NothingGivenUp, IsCalm(setup), Next, NEW n \in Node
  PROVE  FifoStep(n)
<1> DEFINE p == Peer(n)
<1>0. p \in Node /\ Peer(p) = n /\ p # n
  BY Ends
<1>1. Apart /\ Undisturbed /\ Direction(n) /\ setup' = setup
  BY CalmApart DEF Next
<1>2. PICK m \in Node : (qos_send(m) /\ window' # window) \/ Tick \/ qos_poll(m) \/ qos_recv(m) \/ Lose(m)
  BY <1>1, Reached, CalmSteps DEF Undisturbed
<1>3. CASE qos_send(m) /\ window' # window
  <2>1. UNCHANGED delivered /\ Accepted(m) < setup.sends
    BY <1>3, SendNext
  <2>2. accepted' = [accepted EXCEPT ![m] = Append(@, Accepted(m) + 1)]
    BY <1>3, SendAdds
  <2>3. Accepted(m) + 1 \in 1..MaxSends
    <3>1. Accepted(m) \in Nat /\ setup.sends \in 0..MaxSends
      BY Counts, Surround DEF Typed
    <3> QED BY <2>1, <3>1, Numbers
  <2> QED BY <2>1, <2>2, <2>3 DEF FifoStep, Typed
<1>4. CASE Tick \/ qos_poll(m) \/ Lose(m)
  BY <1>4 DEF Tick, qos_poll, Lose, history, FifoStep
<1>5. CASE qos_recv(m)
  <2> DEFINE f == Head(line[m])
  <2>1. UNCHANGED accepted
    BY <1>5, SteadySteps DEF Steady
  <2>2. line[m] # <<>> /\ f.kind \in {"data", "ack", "nack"}
    <3>1. line[m] \in Seq(Frames) /\ line[m] # <<>> /\ Plain(line[m])
      BY <1>1, <1>5 DEF qos_recv, Typed, Undisturbed
    <3>2. Len(line[m]) >= 1 /\ f = line[m][1] /\ Len(line[m]) \in Nat
      BY <3>1, TailTyped, LenNat
    <3> QED BY <3>1, <3>2 DEF Plain
  <2>3. CASE delivered' = delivered
    BY <2>1, <2>3 DEF FifoStep
  <2>4. CASE f.kind \in {"ack", "nack"}
    BY <1>5, <2>3, <2>4 DEF qos_recv, process_ack, process_nack
  <2>5. CASE f.kind = "data"
    <3>1. recv_data(m, f)
      BY <1>5, <2>5 DEF qos_recv
    <3>2. CASE ~InSequence(m, f.seq)
      BY <2>3, <3>1, <3>2 DEF recv_data
    <3>3. CASE InSequence(m, f.seq)
      <4>1. delivered' = [delivered EXCEPT ![m] = Append(@, f.data)]
        BY <3>1, <3>3 DEF recv_data
      <4>2. CASE m # p
        BY <1>0, <2>1, <4>1, <4>2 DEF FifoStep, Typed
      <4>3. CASE m = p
        <5>1. f.data \in 1..Accepted(n) /\ f.data = Delivered(n) + 1
          BY <1>1, <2>2, <2>5, <3>3, <4>3, DataTaken
        <5>2. accepted[n][f.data] = f.data
          BY <1>1, <5>1 DEF Direction, Sends
        <5>3. Delivered(n) < Accepted(n)
          BY <5>1, Counts
        <5>4. delivered'[p] = Append(delivered[p], f.data)
          BY <1>0, <4>1, <4>3 DEF Typed
        <5> QED BY <2>1, <5>1, <5>2, <5>3, <5>4 DEF FifoStep
      <4> QED BY <4>2, <4>3
    <3> QED BY <3>2, <3>3
  <2> QED BY <2>2, <2>4, <2>5
<1> QED
  BY <1>2, <1>3, <1>4, <1>5

(* The refinement: the initial states, and every step.                     *)
LEMMA FifoInit == Init => Fifo!Init
<1> SUFFICES ASSUME Init PROVE Fifo!Init
  OBVIOUS
<1>1. accepted[Client] = <<>> /\ delivered[Peer(Client)] = <<>>
  BY ClientEnd DEF Init
<1> QED
  BY <1>1 DEF Fifo!Init

LEMMA FifoNext ==
  ASSUME Typed, Calm, NothingGivenUp, [Next]_vars
  PROVE  [Fifo!Next]_<<IF IsCalm(setup) THEN accepted[Client] ELSE <<>>,
                       IF IsCalm(setup) THEN delivered[Peer(Client)] ELSE <<>>>>
<1> DEFINE a == accepted[Client]
<1> DEFINE d == delivered[Peer(Client)]
<1>1. setup' = setup
  BY DEF Next, vars
<1>2. CASE ~IsCalm(setup)
  BY <1>1, <1>2
<1>3. CASE UNCHANGED vars
  BY <1>3 DEF vars, history
<1>4. CASE IsCalm(setup) /\ Next
  <2>1. FifoStep(Client)
    BY <1>4, ClientEnd, FifoSteps
  <2>2. IsCalm(setup) /\ IsCalm(setup')
    BY <1>1, <1>4
  <2>3. Accepted(Client) = Len(a) /\ Delivered(Client) = Len(d)
    BY DEF Accepted, Delivered
  <2> QED BY <2>1, <2>2, <2>3 DEF FifoStep, Fifo!Next, Fifo!Accept, Fifo!Deliver
<1> QED
  BY <1>2, <1>3, <1>4

(* The invariants of the layer.                                            *)
Inv == Typed /\ Counted /\ Numbered /\ Calm

LEMMA Always == Spec => []Inv
<1>1. Init => Inv
  BY InitTyped, CountedInit, NumberedInit, CalmInit DEF Inv
<1>2. Inv /\ [Next]_vars => Inv'
  <2> SUFFICES ASSUME Inv, [Next]_vars PROVE Inv'
    OBVIOUS
  <2>1. Typed' /\ Calm'
    BY NextTyped, CalmNext DEF Inv
  <2>2. Counted' /\ Numbered'
    <3>1. CASE Next
      BY <3>1, CountedNext, NumberedNext DEF Inv
    <3>2. CASE UNCHANGED vars
      BY <3>2 DEF vars, sendvars, history, bounds, Inv, Counted, Numbered, Accepted, UsedSlots, FreeSlots
    <3> QED BY <3>1, <3>2
  <2> QED BY <2>1, <2>2 DEF Inv
<1> QED
  BY <1>1, <1>2, PTL DEF Spec

(* The counter that qos_send tests and the used slots agree and no number  *)
(* is in use twice, through restarts, failed allocations and shutdowns;    *)
(* and between calm ends an ACK frees only payloads that were handed over. *)
THEOREM QosSound == Spec => [](NothingGivenUp => WindowIsSound)
<1>1. Inv => (NothingGivenUp => WindowIsSound)
  BY Accounted DEF Inv
<1> QED
  BY <1>1, Always, PTL

(* Every step of two calm ends is a step of the abstract FIFO or none:     *)
(* what is handed over is what was accepted, in order, once, without a     *)
(* gap. Numbers that come round are told apart as long as no frame was     *)
(* given up.                                                               *)
THEOREM QosImplementsFifo == Spec /\ []NothingGivenUp => ImplementsFifo
<1>1. Inv /\ NothingGivenUp /\ [Next]_vars
        => [Fifo!Next]_<<IF IsCalm(setup) THEN accepted[Client] ELSE <<>>,
                         IF IsCalm(setup) THEN delivered[Peer(Client)] ELSE <<>>>>
  BY FifoNext DEF Inv
<1> QED
  BY <1>1, FifoInit, Always, PTL DEF Spec, ImplementsFifo, Fifo!Spec

(* The windows, the numbers and the lines stay in their types.             *)
THEOREM QosTyped == Spec => []TypeOK
<1>1. Typed => TypeOK
  BY DEF Typed, TypeOK, Slot
<1> QED
  BY <1>1, InitTyped, NextTyped, PTL DEF Spec
====
