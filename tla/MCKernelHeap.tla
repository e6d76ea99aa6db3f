---------------------------- MODULE MCKernelHeap ----------------------------
(* Model-checking instances of KernelHeap. *)
EXTENDS KernelHeap

=============================================================================
