-------------------------------- MODULE MCVga --------------------------------
(* Model-checking instances of Vga. *)
EXTENDS Vga

=============================================================================
