---------------------------- MODULE MCMessageLog ----------------------------
(* Model-checking instance of MessageLog. *)
EXTENDS MessageLog

=============================================================================
