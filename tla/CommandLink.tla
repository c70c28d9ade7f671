---------------------------- MODULE CommandLink -----------------------------
(***************************************************************************)
(* What a transport between the RK3566 and the motor core promises for     *)
(* velocity commands: a command may be lost, but the motor core never      *)
(* applies one twice, nor an old one after a newer one.                    *)
(***************************************************************************)
EXTENDS Integers

VARIABLES
  issued,   \* commands that the RK3566 has sent, numbered from 1
  applied,  \* the last one that was given to the motor control; 0: none
  given     \* how many times one was given to the motor control

vars == <<issued, applied, given>>

Init == issued = 0 /\ applied = 0 /\ given = 0

Issue == issued' = issued + 1 /\ UNCHANGED <<applied, given>>

Apply == applied' \in applied + 1 .. issued /\ given' = given + 1 /\ UNCHANGED issued

Next == Issue \/ Apply

Spec == Init /\ [][Next]_vars
=============================================================================
