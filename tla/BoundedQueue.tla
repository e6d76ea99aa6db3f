----------------------------- MODULE BoundedQueue -----------------------------
(***************************************************************************)
(* What a keyboard queue promises: characters come out in the order they   *)
(* went in, none twice, and one is refused only when the queue is full.    *)
(***************************************************************************)
EXTENDS Naturals, Sequences

CONSTANTS Char, Capacity

VARIABLES
    queue,     \* the characters waiting
    taken      \* the characters handed to the reader, in order

Init == queue = <<>> /\ taken = <<>>

Put(c) ==
    /\ Len(queue) < Capacity
    /\ queue' = Append(queue, c)
    /\ UNCHANGED taken

Take ==
    /\ queue # <<>>
    /\ queue' = Tail(queue)
    /\ taken' = Append(taken, Head(queue))

Next == Take \/ \E c \in Char : Put(c)

Spec == Init /\ [][Next]_<<queue, taken>>
=============================================================================
