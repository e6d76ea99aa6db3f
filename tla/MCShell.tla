-------------------------------- MODULE MCShell --------------------------------
(* Model-checking instance of Shell. *)
EXTENDS Shell

MCWords == {"help", "ataread", "atawrite", "int", "8", "40000000", "-2"}

\* Every line of at most five blanks and words.
MCLines ==
    {l \in UNION {[1 .. n -> MCWords \cup {Blank}] : n \in 0 .. 5} :
        \A i \in 1 .. Len(l) - 1 : l[i] = Blank \/ l[i + 1] = Blank}

\* 40000000 bytes are more than the heap, -2 is almost 2^32; 8 is the double
\* fault; what is not a number is 0.
MCLarge == {"40000000"}
MCWrapping == {"-2"}
MCZero == MCWords \ {"8", "40000000", "-2"}
MCNoReturn == {"8"}
=============================================================================
