---------------------------- MODULE CircularBuffer ----------------------------
(***************************************************************************)
(* The circular buffer of kernel/src/utils/circular_buffer.c, as operators *)
(* on the structure circular_buffer_t.  An element is one value, so        *)
(* element_size and the byte offsets drop out.  The two users compose it:  *)
(* MessageLog (the kernel log, calls are atomic) and Tty (the keyboard     *)
(* queue, where an interrupt may arrive between any two memory accesses of *)
(* circular_buffer_dequeue, so Tty takes that call apart).                 *)
(***************************************************************************)
EXTENDS Integers, Sequences

\* memset leaves the value zero in every slot.
circular_buffer_init(capacity, zero) ==
    [buffer |-> [i \in 0 .. capacity - 1 |-> zero],
     capacity |-> capacity, head |-> 0, tail |-> 0, size |-> 0]

circular_buffer_full(cb) == cb.size = cb.capacity
circular_buffer_empty(cb) == cb.size = 0

\* The slot after slot i.
NextSlot(cb, i) == (i + 1) % cb.capacity

\* Defect: a full buffer overwrites its oldest slot.
EnqueueUnchecked(cb, element) ==
    [cb EXCEPT !.buffer[cb.tail] = element, !.size = @ + 1, !.tail = NextSlot(cb, @)]

circular_buffer_enqueue(cb, element) ==
    IF circular_buffer_full(cb) THEN cb
    ELSE [cb EXCEPT !.buffer[cb.tail] = element,
                    !.size = @ + 1,
                    !.tail = NextSlot(cb, @)]

circular_buffer_dequeue(cb) ==
    IF circular_buffer_empty(cb) THEN cb
    ELSE [cb EXCEPT !.size = @ - 1, !.head = NextSlot(cb, @)]

circular_buffer_get(cb, index) == cb.buffer[(index + cb.head) % cb.capacity]

\* What circular_buffer_foreach visits, in its order.
Contents(cb) == [i \in 1 .. cb.size |-> circular_buffer_get(cb, i - 1)]

-----------------------------------------------------------------------------
(* Consistent buffers *)

Buffer(capacity, Element) ==
    [buffer : [0 .. capacity - 1 -> Element], capacity : {capacity},
     head : 0 .. capacity - 1, tail : 0 .. capacity - 1, size : 0 .. capacity]

\* Slots from head on hold the elements; tail is the slot behind the last.
TailFollows(cb) == cb.tail = (cb.head + cb.size) % cb.capacity
=============================================================================
