-------------------------------- MODULE MCAta --------------------------------
(* Model-checking instance of Ata. *)
EXTENDS Ata

\* A drive that the address space is large enough for, and one that it is not.
MCSectors == [d \in Drive |-> IF d = 0 THEN 2 ELSE 5]

\* Addresses and sizes around the boundaries of sectors, of the drives and of
\* the word.
MCRequests == {0, 1, 2, 3, 4, 8, 10} \X {0, 1, 2, 3, 4, 11}
=============================================================================
