---------------------------- MODULE MCInterrupts ----------------------------
(***************************************************************************)
(* The instance of Interrupts for TLC.                                     *)
(***************************************************************************)
EXTENDS Interrupts

\* Every frequency, and words beside them that are refused.
SomeWords == {0, 1, 3} \cup {2^n : n \in 1..11}
=============================================================================
