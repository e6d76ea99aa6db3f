---------------------------------- MODULE Tty ----------------------------------
(***************************************************************************)
(* Keyboard input, from the PS/2 interrupt to the line the shell executes: *)
(*   kernel/src/drivers/input/ps2/keyboard.c   the interrupt handler,      *)
(*   kernel/src/device/keyboard.c              scan code to character,     *)
(*   kernel/src/io/tty.c                       the queue and tty_gets,     *)
(*   kernel/src/shell/shell.c                  the loop that calls it.     *)
(*                                                                         *)
(* Two actors share the buffer tty->input, without a lock.  The handler    *)
(* runs behind an interrupt gate with interrupts off: it is one action,    *)
(* Key.  The mainline polls the buffer in tty_gets with interrupts on, so  *)
(* Key may come between any two of its accesses to the buffer, and pc says *)
(* where it is.                                                            *)
(*                                                                         *)
(* "cb->size -= 1" is a data race.  A build may do it in one instruction,  *)
(* which an interrupt cannot cut, or load, decrement and store; the C      *)
(* source allows both, and SplitUpdate selects one.                        *)
(*                                                                         *)
(* A character is named by the scan code of its key.                       *)
(***************************************************************************)
EXTENDS CircularBuffer

CONSTANTS
    Capacity,      \* TTY_BUFFER_SIZE
    Scancodes,     \* the scan codes the keyboard sends
    SplitUpdate,   \* TRUE: cb->size is loaded and stored by two instructions
    HeapMayFail,   \* TRUE: the heap may run out of memory
    MaxKeys        \* bound: how many characters are accepted

ASSUME TtyAssumption ==
    /\ Capacity \in Nat \ {0}
    /\ Scancodes \subseteq 0 .. 255
    /\ SplitUpdate \in BOOLEAN /\ HeapMayFail \in BOOLEAN
    /\ MaxKeys \in Nat

ASCII_CTRL_NUL == 0
ASCII_CTRL_BS == 14       \* 0x0E
ASCII_CTRL_CR == 28       \* 0x1C
ASCII_SPACE == 57         \* 0x39

Char == 0 .. 88

\* 0x00, Ctrl, Shift, Alt, Caps, function keys, locks, 0x54 .. 0x58
NoAscii == {0, 29, 42, 54, 56} \cup 58 .. 70 \cup 84 .. 88

\* Digits, letters, and the digits of the keypad
AlNum ==
    (2 .. 11) \cup (16 .. 25) \cup (30 .. 38) \cup (44 .. 50)
        \cup {71, 72, 73, 75, 76, 77, 79, 80, 81, 82}

VARIABLES
    stdterm,    \* tty_stdterm is set
    listener,   \* ps2_keyboard_listener is set
    input,      \* tty->input
    pc,         \* where the mainline is
    c,          \* the character tty_getchar returns
    reg,        \* the register that holds cb->size in a split update
    line,       \* the characters in buf[0 .. buf_idx - 1]
    buf_size,   \* buf_size
    room,       \* the bytes buf points to; 0 when buf is NULL
    accepted,   \* the characters put into input, in order
    taken,      \* the characters taken out of input, in order
    returned    \* the lines tty_gets has returned, in order

queueVars == <<stdterm, listener, input, accepted>>
lineVars == <<line, buf_size, room, returned>>
vars == <<stdterm, listener, input, pc, c, reg, lineVars, accepted, taken>>

-----------------------------------------------------------------------------
(* The interrupt handler *)

(***************************************************************************)
(* keyboard_transfer_scancode.  The release of a key indexes the map 0x80  *)
(* beyond its 0x59 entries: the keycode may be any byte.                   *)
(***************************************************************************)
keyboard_transfer_scancode(scancode) ==
    IF scancode <= 88
    THEN {[keycode |-> IF scancode \in NoAscii THEN ASCII_CTRL_NUL ELSE scancode,
           pressed |-> TRUE]}
    ELSE IF scancode \in 128 .. 216
    THEN [keycode : Char, pressed : {FALSE}]
    ELSE {[keycode |-> ASCII_CTRL_NUL, pressed |-> FALSE]}

\* Defect: the release of a key is taken for a key press.
ListenToReleases(event) ==
    IF stdterm /\ event.keycode # ASCII_CTRL_NUL /\ ~circular_buffer_full(input)
    THEN /\ input' = circular_buffer_enqueue(input, event.keycode)
         /\ accepted' = IF event.pressed THEN Append(accepted, event.keycode) ELSE accepted
    ELSE UNCHANGED <<input, accepted>>

tty_keyboard_listener(event) ==
    LET heard == stdterm /\ event.keycode # ASCII_CTRL_NUL /\ event.pressed
    IN  /\ input' = IF heard THEN circular_buffer_enqueue(input, event.keycode)
                    ELSE input
        /\ accepted' = IF heard /\ ~circular_buffer_full(input)
                       THEN Append(accepted, event.keycode) ELSE accepted

\* ps2_keyboard_interrupt_handler, for an interrupt of a key; it is served even
\* while the mainline spins in kpanic.
Key ==
    /\ pc \notin {"fault", "wild"}
    /\ Len(accepted) < MaxKeys
    /\ \E scancode \in Scancodes :
         \/ ~listener /\ UNCHANGED <<input, accepted>>
         \/ /\ listener
            /\ \E event \in keyboard_transfer_scancode(scancode) :
                 tty_keyboard_listener(event)
    /\ UNCHANGED <<stdterm, listener, pc, c, reg, lineVars, taken>>

-----------------------------------------------------------------------------
(* The mainline: tty_create, then the loop of shell_execute *)

Goto(l) == pc' = l

(***************************************************************************)
(* tty_create: the buffers, then stdterm.  A failed kmalloc panics, except *)
(* that circular_buffer_create initializes the structure it could not      *)
(* allocate, through NULL: the model stops there ("fault").                *)
(***************************************************************************)
CreateTerminal ==
    /\ pc = "create"
    /\ \/ /\ input' = circular_buffer_init(Capacity, ASCII_CTRL_NUL)
          /\ stdterm' = TRUE
          /\ Goto("register")
       \/ /\ HeapMayFail
          /\ Goto("panic") \/ Goto("fault")
          /\ UNCHANGED <<stdterm, input>>
    /\ UNCHANGED <<listener, c, reg, lineVars, accepted, taken>>

\* Then the listener; an interrupt in between finds no listener.
RegisterListener ==
    /\ pc = "register"
    /\ listener' = TRUE
    /\ Goto("gets")
    /\ UNCHANGED <<stdterm, input, c, reg, lineVars, accepted, taken>>

\* tty_gets allocates the line, or panics.
StartLine ==
    /\ pc = "gets"
    /\ \/ /\ line' = <<>> /\ buf_size' = 2 /\ room' = 2
          /\ Goto("poll")
       \/ /\ HeapMayFail
          /\ Goto("panic")
          /\ UNCHANGED <<line, buf_size, room>>
    /\ UNCHANGED <<queueVars, c, reg, returned, taken>>

\* Defect: a character alone in the buffer is taken for an empty buffer.
PollMissingLast ==
    /\ pc = "poll"
    /\ \/ input.size <= 1 /\ UNCHANGED pc
       \/ input.size > 1 /\ Goto("copy")
    /\ UNCHANGED <<queueVars, c, reg, lineVars, taken>>

\* tty_getchar: an empty buffer gives -1, and tty_gets polls on.
Poll ==
    /\ pc = "poll"
    /\ \/ circular_buffer_empty(input) /\ UNCHANGED pc
       \/ ~circular_buffer_empty(input) /\ Goto("copy")
    /\ UNCHANGED <<queueVars, c, reg, lineVars, taken>>

(***************************************************************************)
(* circular_buffer_dequeue: its own test, then memcpy from the head.  The  *)
(* test never fails: the handler only adds characters (SizeInv).           *)
(***************************************************************************)
Copy ==
    /\ pc = "copy"
    /\ ~circular_buffer_empty(input)
    /\ c' = input.buffer[input.head]
    /\ Goto("size")
    /\ UNCHANGED <<queueVars, reg, lineVars, taken>>

\* cb->size -= 1 in one instruction.
DecrementSize ==
    /\ pc = "size" /\ ~SplitUpdate
    /\ input' = [input EXCEPT !.size = @ - 1]
    /\ taken' = Append(taken, c)
    /\ Goto("head")
    /\ UNCHANGED <<stdterm, listener, c, reg, lineVars, accepted>>

\* cb->size -= 1 in a load and a store.
LoadSize ==
    /\ pc = "size" /\ SplitUpdate
    /\ reg' = input.size
    /\ Goto("store")
    /\ UNCHANGED <<queueVars, c, lineVars, taken>>

\* Defect: the register is stored back as it was loaded.
StoreUndecremented ==
    /\ pc = "store"
    /\ input' = [input EXCEPT !.size = reg]
    /\ taken' = Append(taken, c)
    /\ Goto("head")
    /\ UNCHANGED <<stdterm, listener, c, reg, lineVars, accepted>>

StoreSize ==
    /\ pc = "store"
    /\ input' = [input EXCEPT !.size = reg - 1]
    /\ taken' = Append(taken, c)
    /\ Goto("head")
    /\ UNCHANGED <<stdterm, listener, c, reg, lineVars, accepted>>

\* Defect: the head runs past the last slot instead of wrapping around.
AdvanceHeadLateWrap ==
    /\ pc = "head"
    /\ input' = [input EXCEPT !.head = IF @ < Capacity THEN @ + 1 ELSE 0]
    /\ Goto("handle")
    /\ UNCHANGED <<stdterm, listener, c, reg, lineVars, accepted, taken>>

\* cb->head = (cb->head + 1) % cb->capacity
AdvanceHead ==
    /\ pc = "head"
    /\ input' = [input EXCEPT !.head = NextSlot(input, @)]
    /\ Goto("handle")
    /\ UNCHANGED <<stdterm, listener, c, reg, lineVars, accepted, taken>>

(***************************************************************************)
(* The body of the loop of tty_gets, for the character c.  What the echo   *)
(* writes goes through tty->output, which only the mainline uses, and is   *)
(* left out.                                                               *)
(***************************************************************************)
EndLine ==
    /\ c = ASCII_CTRL_CR
    /\ returned' = Append(returned, line)
    /\ Goto("execute")
    /\ UNCHANGED <<line, buf_size, room>>

\* Defect: Backspace in an empty line is not told from one in a line.
EraseAlways ==
    /\ c = ASCII_CTRL_BS
    /\ line' = IF line = <<>> THEN <<ASCII_CTRL_BS>> ELSE SubSeq(line, 1, Len(line) - 1)
    /\ Goto("poll")
    /\ UNCHANGED <<buf_size, room, returned>>

(***************************************************************************)
(* The echo of Backspace is the one that can fail to come back: its loop   *)
(* in vga.c tests the same cell in every round (module Vga says when it    *)
(* ends).  The mainline then hangs, with interrupts on.                    *)
(***************************************************************************)
EraseLast ==
    /\ c = ASCII_CTRL_BS /\ line # <<>>
    /\ line' = SubSeq(line, 1, Len(line) - 1)
    /\ Goto("poll") \/ Goto("hang")
    /\ UNCHANGED <<buf_size, room, returned>>

\* Defect: the line grows only when it is full, not one byte before.
StoreCharLate ==
    /\ c \in AlNum \cup {ASCII_SPACE}
    /\ \/ Len(line) < buf_size /\ UNCHANGED <<buf_size, room>>
       \/ Len(line) = buf_size /\ buf_size' = buf_size * 2 /\ room' = buf_size * 2
    /\ line' = Append(line, c)
    /\ Goto("poll")
    /\ UNCHANGED returned

(***************************************************************************)
(* krealloc may return NULL, and the store goes through it unchecked: what *)
(* the kernel does from there is undefined, and the model stops ("wild").  *)
(***************************************************************************)
StoreChar ==
    /\ c \in AlNum \cup {ASCII_SPACE}
    /\ \/ /\ Len(line) # buf_size - 1
          /\ Goto("poll")
          /\ UNCHANGED <<buf_size, room>>
       \/ /\ Len(line) = buf_size - 1
          /\ buf_size' = buf_size * 2
          /\ \/ room' = buf_size * 2 /\ Goto("poll")
             \/ HeapMayFail /\ room' = 0 /\ Goto("wild")
    /\ line' = Append(line, c)
    /\ UNCHANGED returned

IgnoreChar ==
    /\ c \notin AlNum \cup {ASCII_SPACE, ASCII_CTRL_CR}
    /\ c = ASCII_CTRL_BS => line = <<>>
    /\ Goto("poll")
    /\ UNCHANGED lineVars

HandleChar ==
    /\ pc = "handle"
    /\ EndLine \/ EraseLast \/ StoreChar \/ IgnoreChar
    /\ UNCHANGED <<queueVars, c, reg, taken>>

(***************************************************************************)
(* shell_execute_command and kfree; the shell then asks for the next line. *)
(* A command need not come back: int with the number of an exception that  *)
(* has an error code, an ATA command without a drive, or a store through   *)
(* the NULL of a failed kmalloc (modules Shell and Interrupts).            *)
(***************************************************************************)
Execute ==
    /\ pc = "execute"
    /\ Goto("gets") \/ Goto("fault")
    /\ UNCHANGED <<queueVars, c, reg, lineVars, taken>>

\* kpanic spins forever, and so does "hang", interrupts still on; for "fault" and
\* "wild" see above.
Stopped == pc \in {"panic", "hang", "fault", "wild"} /\ UNCHANGED vars

Init ==
    /\ stdterm = FALSE /\ listener = FALSE
    /\ input = circular_buffer_init(Capacity, ASCII_CTRL_NUL)
    /\ pc = "create"
    /\ c = ASCII_CTRL_NUL /\ reg = 0
    /\ line = <<>> /\ buf_size = 2 /\ room = 0
    /\ accepted = <<>> /\ taken = <<>> /\ returned = <<>>

Mainline ==
    \/ CreateTerminal \/ RegisterListener
    \/ StartLine \/ Poll \/ Copy
    \/ DecrementSize \/ LoadSize \/ StoreSize \/ AdvanceHead
    \/ HandleChar \/ Execute

Next == Key \/ Mainline \/ Stopped

(***************************************************************************)
(* The processor runs the mainline whenever no interrupt is being served;  *)
(* nobody has to press a key.                                              *)
(***************************************************************************)
Spec == Init /\ [][Next]_vars /\ WF_vars(Mainline)

-----------------------------------------------------------------------------
(* Properties *)

\* Every variable keeps to its type.
TypeOK ==
    /\ stdterm \in BOOLEAN /\ listener \in BOOLEAN
    /\ input \in Buffer(Capacity, Char)
    /\ pc \in {"create", "register", "gets", "poll", "copy", "size", "store",
               "head", "handle", "execute", "panic", "hang", "fault", "wild"}
    /\ c \in Char /\ reg \in 0 .. Capacity
    /\ line \in Seq(Char) /\ buf_size \in Nat /\ room \in Nat
    /\ accepted \in Seq(Char) /\ taken \in Seq(Char)
    /\ returned \in Seq(Seq(Char))

\* The buffer cb as it is once the mainline, at p, has advanced the head, which
\* it does one step after it has decremented the size.
Settle(cb, p) ==
    IF p = "head" THEN [cb EXCEPT !.head = NextSlot(cb, @)] ELSE cb

Settled == Settle(input, pc)

\* The characters waiting, from the oldest to the newest.
Waiting == Contents(Settled)

(***************************************************************************)
(* Every character the handler accepted is waiting or has been taken, once *)
(* and in the order of the key presses, wherever the interrupts fell       *)
(* between the steps of circular_buffer_dequeue.                           *)
(***************************************************************************)
InputInOrder == accepted = taken \o Waiting

(***************************************************************************)
(* tty_gets never stores beyond its buffer: there is always a byte left    *)
(* for the terminator, so the next store is inside too.                    *)
(***************************************************************************)
InLine == pc \notin {"create", "register", "gets", "panic", "fault"}
LineInBounds == InLine => Len(line) < room

(***************************************************************************)
(* The buffer never claims a character it does not hold: a lost update of  *)
(* cb->size can hide characters, but tty_gets never reads one that no key  *)
(* press put there.                                                        *)
(***************************************************************************)
SizeNeverOver == input.size <= Len(accepted) - Len(taken)

\* The keyboard queue keeps the promise of a bounded queue.
Queue == INSTANCE BoundedQueue WITH queue <- Waiting
ImplementsQueue == Queue!Spec

(***************************************************************************)
(* What one key does to the lines entered so far and the line being typed: *)
(* Enter ends the line, Backspace erases, letters, digits and space are    *)
(* added, and other keys do nothing.                                       *)
(***************************************************************************)
Edit(text, key) ==
    CASE key = ASCII_CTRL_CR -> [done |-> Append(text.done, text.now), now |-> <<>>]
      [] key = ASCII_CTRL_BS /\ text.now # <<>> ->
           [done |-> text.done, now |-> SubSeq(text.now, 1, Len(text.now) - 1)]
      [] key \in AlNum \cup {ASCII_SPACE} ->
           [done |-> text.done, now |-> Append(text.now, key)]
      [] OTHER -> text

\* The text after the first k keys, for every k, and after all of them.
EditedUpTo(keys) ==
    LET upTo[k \in 0 .. Len(keys)] ==
            IF k = 0 THEN [done |-> <<>>, now |-> <<>>]
            ELSE Edit(upTo[k - 1], keys[k])
    IN upTo

Edited(keys) == EditedUpTo(keys)[Len(keys)]

(***************************************************************************)
(* The lines tty_gets returns are exactly what was typed, edited: typing   *)
(* ahead while a command runs, erasing an empty line and growing the       *)
(* buffer change nothing.                                                  *)
(***************************************************************************)
LinesAsTyped ==
    pc \in {"gets", "poll", "copy", "execute"} => returned = Edited(taken).done

\* How many lines the characters in s end.
Enters(s) == Len(SelectSeq(s, LAMBDA x : x = ASCII_CTRL_CR))

(***************************************************************************)
(* Press Enter and the line is executed: every Enter that was accepted is  *)
(* followed by a return of tty_gets, without any further key press, unless *)
(* a Backspace before it hangs in the driver of the screen, or the command *)
(* of a line before it does not come back.                                 *)
(***************************************************************************)
EnterReturnsLine ==
    \A n \in 1 .. MaxKeys :
        Enters(accepted) >= n ~> Len(returned) >= n \/ pc \in {"hang", "fault"}

-----------------------------------------------------------------------------
(* Inductive invariants *)

(***************************************************************************)
(* In any build: behind the tests for an empty buffer there is a character *)
(* to take, and a loaded size is no larger than what is in the buffer.     *)
(***************************************************************************)
SizeInv ==
    /\ TypeOK
    /\ SizeNeverOver
    /\ pc \in {"copy", "size"} => input.size >= 1
    /\ pc = "store" => reg >= 1 /\ reg <= Len(accepted) - Len(taken)
    /\ pc \in {"create", "register"} => ~listener

(***************************************************************************)
(* When the size is decremented by one instruction: the buffer is in order *)
(* and the character copied is still the oldest.                           *)
(***************************************************************************)
QueueInv ==
    /\ SizeInv
    /\ pc # "store"
    /\ TailFollows(Settled)
    /\ InputInOrder
    /\ pc = "size" => Waiting # <<>> /\ c = Head(Waiting)
    /\ pc = "create" => input.size = 0

\* The line being typed, while memory lasts.
LineInv ==
    /\ line \in Seq(Char) /\ buf_size \in Nat
    /\ pc # "wild"
    /\ InLine => room = buf_size /\ Len(line) < buf_size

(***************************************************************************)
(* The line is what was typed since the last Enter.  Between the removal   *)
(* of a character from the buffer and its turn in tty_gets, the text lacks *)
(* that character, c.                                                      *)
(***************************************************************************)
TypedInv ==
    /\ pc \in {"create", "register"} => taken = <<>> /\ returned = <<>>
    /\ pc \in {"gets", "execute"} => Edited(taken) = [done |-> returned, now |-> <<>>]
    /\ pc \in {"poll", "copy", "size", "store"} =>
          Edited(taken) = [done |-> returned, now |-> line]
    /\ pc \in {"head", "handle"} =>
          Edited(taken) = Edit([done |-> returned, now |-> line], c)
=============================================================================
