------------------------------ MODULE Interrupts ------------------------------
(***************************************************************************)
(* How interrupts reach the kernel: the descriptor table (idt.c), the      *)
(* entry code (isr_stage1.asm), the dispatch to the listeners              *)
(* (isr_stage2.c), the `int` instruction behind the shell command of that  *)
(* name (isr.c), the 8259 pair (pic.c) and the PS/2 keyboard's handler,    *)
(* from kmain (main.c) on.                                                 *)
(*                                                                         *)
(* The processor and the two controllers are external.  A controller       *)
(* latches an edge of a line in irr, hands the processor the most urgent   *)
(* line that is not masked and more urgent than every line in service, and *)
(* clears the most urgent line in service when it gets an EOI.  Line 2 of  *)
(* the master is the output of the slave, whose lines are 8 .. 15.         *)
(*                                                                         *)
(* The stack is the sequence of the words an interrupt pushes, the top     *)
(* last: <<"code", v>> is the interrupt number, <<"eflags", b>> the saved  *)
(* interrupt flag.                                                         *)
(***************************************************************************)
EXTENDS Integers, Sequences, FiniteSetsExt

CONSTANTS
    Lines,       \* the interrupt lines that have a device
    IntArgs,     \* the numbers given to the command `int`
    Faults       \* the exceptions the code of the kernel may raise

Master == 0 .. 7
Slave == 8 .. 15
Cascade == 2
Timer == 0
Keyboard == 1
KEYBOARD_INTERRUPT == 33

ASSUME InterruptsAssumption ==
    /\ Lines \subseteq (Master \cup Slave) \ {Cascade}
    /\ IntArgs \subseteq Int
    /\ Faults \subseteq 0 .. 31

VARIABLES
    pc,
    iflag,       \* the interrupt flag
    stack,
    entry,       \* the gate the processor went through
    idt,         \* the gates that are present
    listeners,   \* the interrupts that have a listener
    base,        \* the first vector of the master and of the slave
    imr,         \* the masked lines
    irr,         \* the requested lines
    inService,
    obf,         \* the keyboard controller holds a byte
    early,       \* history: a byte came before pic_8259_init
    faulting     \* the exception the next instruction raises

vars == <<pc, iflag, stack, entry, idt, listeners, base, imr, irr, inService, obf, early, faulting>>
cpuVars == <<pc, iflag, stack, entry>>
picVars == <<base, imr, irr, inService>>
bootVars == <<idt, listeners>>

NoFault == -1

-----------------------------------------------------------------------------
(* The controllers *)

\* The lines of a controller's side that outrank everything in service there.
Urgent(requested, side) ==
    {l \in requested : \A k \in inService \cap side : l < k}

SlaveRequests == Urgent((irr \ imr) \cap Slave, Slave)

MasterRequests ==
    Urgent(((irr \ imr) \cap Master)
            \cup (IF SlaveRequests # {} /\ Cascade \notin imr THEN {Cascade} ELSE {}),
           Master)

\* The line the pair offers the processor is l.
Offered(l) ==
    /\ MasterRequests # {}
    /\ l = IF Min(MasterRequests) = Cascade THEN Min(SlaveRequests) ELSE Min(MasterRequests)

Vector(l) == IF l \in Master THEN base.master + l ELSE base.slave + (l - 8)

EoiTo(side) == inService' = inService \ {l \in inService \cap side : \A k \in inService \cap side : l <= k}

-----------------------------------------------------------------------------
(* pic.c *)

pic_8259_unmask_irq(masked, i) == masked \ {i}

\* ICW1 forgets what was requested, ICW2 moves the vectors, the masks are
\* restored and then opened one by one.
pic_8259_init ==
    /\ base' = [master |-> 32, slave |-> 40]
    /\ irr' = {}
    /\ inService' = {}
    /\ imr' = {l \in imr : \A i \in 0 .. 15 : l \in pic_8259_unmask_irq(imr, i)}

\* Defect: the controllers are swapped.
SendEoiSwapped(irq) == EoiTo(IF irq < 8 THEN Slave ELSE Master)

pic_8259_send_eoi(irq) == EoiTo(IF irq >= 8 THEN Slave ELSE Master)

-----------------------------------------------------------------------------
(* The boot *)

Init ==
    /\ pc = "cli" /\ iflag = FALSE /\ stack = <<>> /\ entry = 0
    /\ idt = {} /\ listeners = {}
    /\ base = [master |-> 8, slave |-> 112]
    /\ imr \in SUBSET Lines /\ irr = {} /\ inService = {}
    /\ obf = FALSE /\ early = FALSE /\ faulting = NoFault

\* The first statement of kmain.
clear_interrupt_flag ==
    /\ pc = "cli" /\ pc' = "idt"
    /\ iflag' = FALSE
    /\ UNCHANGED <<stack, entry, bootVars, picVars, obf, early, faulting>>

\* Gates for the exceptions, the lines and the system call.
idt_init ==
    /\ pc = "idt" /\ pc' = "pic"
    /\ idt' = (0 .. 47) \cup {128}
    /\ UNCHANGED <<iflag, stack, entry, listeners, picVars, obf, early, faulting>>

PicInit ==
    /\ pc = "pic" /\ pc' = "keyboard"
    /\ pic_8259_init
    /\ early' = obf
    /\ UNCHANGED <<iflag, stack, entry, bootVars, obf, faulting>>

\* Defect: registered by line instead of vector.
RegisterByLine(selector) == listeners' = listeners \cup {selector - 32}

isr_register_listener(selector) ==
    listeners' = IF selector < 256 THEN listeners \cup {selector} ELSE listeners

\* The listener first, then the command that starts the keyboard, which
\* answers it with a byte.
ps2_keyboard_init ==
    /\ pc = "keyboard" /\ pc' = "sti"
    /\ isr_register_listener(KEYBOARD_INTERRUPT)
    /\ obf' = TRUE
    /\ irr' = IF obf THEN irr ELSE irr \cup {Keyboard}
    /\ UNCHANGED <<iflag, stack, entry, idt, base, imr, inService, early, faulting>>

set_interrupt_flag ==
    /\ pc = "sti" /\ pc' = "main"
    /\ iflag' = TRUE
    /\ UNCHANGED <<stack, entry, bootVars, picVars, obf, early, faulting>>

-----------------------------------------------------------------------------
(* The entry and the return *)

EXC_CODE == {8} \cup (10 .. 14)

\* The exceptions for which the processor pushes an error code.
ErrorCode == EXC_CODE \cup {17}

\* The processor goes through gate v.
Enter(v, code) ==
    /\ pc' = IF v \in idt THEN "stage1" ELSE "wild"
    /\ iflag' = FALSE
    /\ entry' = v
    /\ stack' = stack \o <<<<"eflags", iflag>>, <<"cs", 0>>, <<"eip", 0>>>>
                      \o (IF code THEN <<<<"error", 0>>>> ELSE <<>>)

\* Defect: every stub pushes a dummy error code.
StubAlwaysDummy(v) == <<<<"error", 0>>, <<"code", v>>>>

\* The words exc, irq and syscall push for gate v.
Stub(v) ==
    (IF v \in EXC_CODE THEN <<>> ELSE <<<<"error", 0>>>>) \o <<<<"code", v>>>>

\* The gate's stub, and the registers saved.
isr_stage1 ==
    /\ pc = "stage1" /\ pc' = "stage2"
    /\ stack' = stack \o Stub(entry) \o <<<<"pusha", 0>>, <<"ds", 0>>>>
    /\ UNCHANGED <<iflag, entry, bootVars, picVars, obf, early, faulting>>

\* state->interrupt_code: below ds and the eight registers.
interrupt_code == stack[Len(stack) - 2][2]

\* The handler reads the data register, and the keyboard may send again.
ps2_keyboard_interrupt_handler == obf' = FALSE

\* The listener is called.
isr_stage2 ==
    /\ pc = "stage2" /\ pc' = "eoi"
    /\ IF interrupt_code \in listeners THEN ps2_keyboard_interrupt_handler ELSE UNCHANGED obf
    /\ UNCHANGED <<iflag, stack, entry, bootVars, picVars, early, faulting>>

\* Defect: the first line is not acknowledged.
AcknowledgeOffByOne ==
    /\ pc = "eoi" /\ pc' = "return"
    /\ IF 32 < interrupt_code /\ interrupt_code < 48
       THEN pic_8259_send_eoi(interrupt_code - 32)
       ELSE UNCHANGED inService
    /\ UNCHANGED <<iflag, stack, entry, bootVars, base, imr, irr, obf, early, faulting>>

\* The lines, and only they, are acknowledged.
Acknowledge ==
    /\ pc = "eoi" /\ pc' = "return"
    /\ IF 32 <= interrupt_code /\ interrupt_code < 48
       THEN pic_8259_send_eoi(interrupt_code - 32)
       ELSE UNCHANGED inService
    /\ UNCHANGED <<iflag, stack, entry, bootVars, base, imr, irr, obf, early, faulting>>

\* ds and the registers are popped, two words are dropped, and iret takes
\* three.  What it takes for an address need not be one.
Return ==
    LET n == Len(stack) - 4
        pops == [i \in 1 .. 3 |-> IF n - 3 + i >= 1 THEN stack[n - 3 + i] ELSE <<"none", 0>>]
        exact == pops[3][1] = "eip" /\ pops[2][1] = "cs" /\ pops[1][1] = "eflags"
    IN /\ pc = "return"
       /\ pc' = IF exact THEN "main" ELSE "wild"
       /\ iflag' = IF exact THEN pops[1][2] ELSE TRUE
       /\ stack' = IF exact THEN SubSeq(stack, 1, n - 3) ELSE stack
       /\ UNCHANGED <<entry, bootVars, picVars, obf, early, faulting>>

-----------------------------------------------------------------------------
(* What makes the processor enter *)

\* Between two instructions the processor takes what the controllers offer.
Deliver(l) ==
    /\ pc = "main" /\ iflag /\ Offered(l)
    /\ irr' = irr \ {l}
    /\ inService' = inService \cup {l} \cup (IF l \in Slave THEN {Cascade} ELSE {})
    /\ Enter(Vector(l), FALSE)
    /\ UNCHANGED <<bootVars, base, imr, obf, early, faulting>>

\* The device withdrew the line it had raised just before: the controller
\* answers with its last line, and has nothing in service for it.
Spurious(l) ==
    /\ pc = "main" /\ iflag /\ Offered(l) /\ l \notin {Timer, Keyboard}
    /\ irr' = irr \ {l}
    /\ inService' = inService \cup (IF l \in Slave THEN {Cascade} ELSE {})
    /\ Enter(Vector(IF l \in Slave THEN 15 ELSE 7), FALSE)
    /\ UNCHANGED <<bootVars, base, imr, obf, early, faulting>>

\* An instruction is executed when no interrupt is to be taken first.
Executes == pc = "main" /\ ~(iflag /\ MasterRequests # {})

\* The command `int`: numbers that have no case are ignored.  The instruction
\* pushes no error code.
isr_interrupt(i) ==
    /\ Executes /\ faulting = NoFault
    /\ i \in 0 .. 31
    /\ Enter(i, FALSE)
    /\ UNCHANGED <<bootVars, picVars, obf, early, faulting>>

\* An exception.  No listener repairs its cause, so the instruction to which
\* the handler returns raises it again.
Exception(v) ==
    /\ Executes /\ faulting \in {NoFault, v}
    /\ faulting' = v
    /\ Enter(v, v \in ErrorCode)
    /\ UNCHANGED <<bootVars, picVars, obf, early>>

-----------------------------------------------------------------------------
(* The devices *)

\* The keyboard sends one byte at a time; the line rises with it.
KeyPress ==
    /\ ~obf
    /\ obf' = TRUE
    /\ irr' = irr \cup {Keyboard}
    /\ UNCHANGED <<cpuVars, bootVars, base, imr, inService, early, faulting>>

Raise(l) ==
    /\ l # Keyboard /\ l \notin irr
    /\ irr' = irr \cup {l}
    /\ UNCHANGED <<cpuVars, bootVars, base, imr, inService, obf, early, faulting>>

-----------------------------------------------------------------------------
Boot == clear_interrupt_flag \/ idt_init \/ PicInit \/ ps2_keyboard_init \/ set_interrupt_flag

Handler == isr_stage1 \/ isr_stage2 \/ Acknowledge \/ Return

Next ==
    \/ Boot
    \/ Handler
    \/ KeyPress
    \/ \E l \in Lines : Raise(l) \/ Deliver(l) \/ Spurious(l)
    \/ \E i \in IntArgs : isr_interrupt(i)
    \/ \E v \in Faults : Exception(v)

\* The processor runs, and takes an interrupt that is offered time and again.
Spec ==
    /\ Init /\ [][Next]_vars
    /\ WF_vars(Boot \/ Handler)
    /\ \A l \in Lines : SF_vars(Deliver(l))

-----------------------------------------------------------------------------
(* Properties *)

\* The words on the stack.
Word ==
    {"eflags"} \X BOOLEAN \cup {"error", "cs", "eip", "pusha", "ds"} \X {0} \cup {"code"} \X (0 .. 255)

\* Every variable keeps to its type: the gates and listeners are those of the
\* tables of 256 places, and only lines that have a device are in service.
TypeOK ==
    /\ pc \in {"cli", "idt", "pic", "keyboard", "sti", "main", "stage1", "stage2", "eoi", "return", "wild"}
    /\ iflag \in BOOLEAN /\ obf \in BOOLEAN /\ early \in BOOLEAN
    /\ stack \in Seq(Word)
    /\ entry \in 0 .. 255 /\ idt \subseteq 0 .. 255 /\ listeners \subseteq 0 .. 255
    /\ base \in [master : 0 .. 248, slave : 0 .. 248]
    /\ imr \subseteq Lines /\ irr \subseteq Lines \cup {Keyboard}
    /\ inService \subseteq Lines \cup {Cascade}
    /\ faulting \in Faults \cup {NoFault}

\* Every interrupt returns to where it was taken with the stack as it was and
\* interrupts enabled, whichever of the stubs, with or without an error code,
\* and whichever device it came through (isr_stage1.asm, pic_8259_init).
ReturnsExact ==
    /\ pc # "wild"
    /\ pc = "main" => stack = <<>> /\ iflag

\* Between interrupts the slave has nothing in service and the master at most
\* the cascade: every other line has been acknowledged, once and at the right
\* controller, spurious interrupts and `int` commands in between included
\* (isr_stage2, pic_8259_send_eoi).
OnlyCascadeLeft ==
    pc = "main" => inService \subseteq {Cascade}

\* A byte in the keyboard controller has its interrupt on the way, requested
\* or at the handler, unless it came before pic_8259_init, which forgets
\* the request while nothing reads the byte.
KeyNotForgotten ==
    obf /\ ~early => Keyboard \in irr \/ (Keyboard \in inService /\ pc \in {"stage1", "stage2"})

\* The processor is time and again at the code of the kernel with nothing more
\* urgent than line l requested: the devices above l leave it some time.
QuietAbove(l) == []<>(pc = "main" /\ \A k \in irr : k >= l)

\* Every byte of the keyboard is read in the end, whatever the other devices,
\* exceptions and `int` commands do: not even the cascade, left in service for
\* ever by the slave's interrupts, shuts the keyboard out (isr_stage2,
\* pic_8259_send_eoi, pic_8259_init).
KeyboardServed == QuietAbove(Keyboard) => (obf ~> ~obf \/ early)

\* Any other line of the master is served as well, or waits behind the
\* cascade, which no interrupt of the slave acknowledges (pic_8259_send_eoi).
MasterServed ==
    \A l \in Lines \cap Master :
        QuietAbove(l) => (pc = "main" /\ l \in irr ~> l \notin irr \/ Cascade \in inService)

\* No acknowledgement that is missing, early or at the wrong controller starves
\* a line but those behind the cascade (isr_stage2, pic_8259_send_eoi).
LinesServed == KeyboardServed /\ MasterServed
=============================================================================
