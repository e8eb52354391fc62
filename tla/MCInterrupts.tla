---------------------------- MODULE MCInterrupts ----------------------------
(* Exceptions with and without an error code. *)
EXTENDS Interrupts

MCFaults == {0, 8, 14, 21, 31}
=============================================================================
