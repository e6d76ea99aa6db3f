-------------------------------- MODULE MCPci --------------------------------
(* Model-checking instance of Pci. *)
EXTENDS Pci

\* Positions with slots of one and of two digits.
MCPositions == {<<0, 2>>, <<0, 12>>}

MCDevice == {<<"video", 0, 0>>, <<"keyboard", 0, 0>>, <<"storage", 0, 0>>}
                \cup {Machine(p, f) : p \in MCPositions, f \in Funcs}

\* Registers for ports, one with the upper bits wired to 0 and one at an address
\* io_port cannot hold, and for memory, with and without flags, of 32 and of 64
\* bits, and none; at the last and behind the last index, and of another kind of
\* header.
MCBars ==
    {[index |-> 0, header |-> 0, address |-> r[1], size |-> r[2], flags |-> r[3], top |-> r[4]] :
        r \in {<<32, 8, 1, 256>>, <<32, 8, 1, 64>>, <<192, 8, 1, 256>>,
               <<128, 128, 0, 256>>, <<64, 32, 8, 256>>, <<64, 32, 4, 256>>, <<64, 32, 2, 256>>,
               <<0, 0, 0, 256>>}}
    \cup
    {[index |-> x[1], header |-> x[2], address |-> 64, size |-> 32, flags |-> 0, top |-> 256] :
        x \in {<<5, 0>>, <<6, 0>>, <<0, 1>>}}
=============================================================================
