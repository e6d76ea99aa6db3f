------------------------------- MODULE MCTty -------------------------------
(* Model-checking instances of Tty. *)
EXTENDS Tty

=============================================================================
