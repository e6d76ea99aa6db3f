----------------------------- MODULE MCInterrupts -----------------------------
(* Model-checking instance of Interrupts. *)
EXTENDS Interrupts

\* Numbers on both sides of the bounds of isr_interrupt.
MCIntArgs == {-1, 0, 31, 32, 33}
=============================================================================
