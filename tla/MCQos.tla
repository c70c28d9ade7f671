------------------------------- MODULE MCQos -------------------------------
(***************************************************************************)
(* The reliable UART layer in three set-ups: a line that loses frames,     *)
(* with retries and given-up frames; more frames than sequence numbers;    *)
(* and restarts, failing allocations and a peer that polls.                *)
(***************************************************************************)
EXTENDS Qos

CONSTANTS a, b

Lossy == [cap |-> 3, sends |-> 4, losses |-> 2, restarts |-> 0, nomem |-> 0, polls |-> FALSE]

Wrap == [Lossy EXCEPT !.sends = MaxSends]

Faulty == [cap |-> 1, sends |-> 2, losses |-> 1, restarts |-> 1, nomem |-> 1, polls |-> TRUE]

Setups == {Lossy, Wrap, Faulty}
=============================================================================
