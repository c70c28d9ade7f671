---------------------------- MODULE ReliableFifo ----------------------------
(***************************************************************************)
(* What qos_retransmit.c promises ("sequenced delivery"): messages are     *)
(* handed over at the other end in the order in which they were accepted,  *)
(* none twice and none skipped.                                            *)
(***************************************************************************)
EXTENDS Naturals, Sequences

CONSTANT Message

VARIABLES accepted, delivered

Init == accepted = <<>> /\ delivered = <<>>

Accept(m) ==
  /\ accepted' = Append(accepted, m)
  /\ UNCHANGED delivered

Deliver ==
  /\ Len(delivered) < Len(accepted)
  /\ delivered' = Append(delivered, accepted[Len(delivered) + 1])
  /\ UNCHANGED accepted

Next == Deliver \/ \E m \in Message : Accept(m)

Spec == Init /\ [][Next]_<<accepted, delivered>>
=============================================================================
