--------------------------- MODULE InterruptsProofs ---------------------------
(***************************************************************************)
(* Proofs about Interrupts: every entry is undone exactly, every line but  *)
(* the cascade is acknowledged, and no byte of the keyboard is forgotten,  *)
(* for every set of devices, exceptions and `int` commands whose entries   *)
(* push what their stubs count on.                                         *)
(***************************************************************************)
EXTENDS Interrupts, WellFoundedInduction, TLAPS

\* The `int` command is not given the number of an exception with an error
\* code, and exception 17, whose stub takes no error code, is not raised.
PlainEntries == IntArgs \cap EXC_CODE = {} /\ 17 \notin Faults

Booting == {"cli", "idt", "pic", "keyboard", "sti"}
Handling == {"stage1", "stage2", "eoi", "return"}

\* What the processor pushed for the interrupt in progress.
Entered(n) ==
    /\ Len(stack) = n
    /\ stack[1] = <<"eflags", TRUE>> /\ stack[2] = <<"cs", 0>> /\ stack[3] = <<"eip", 0>>

StackInv ==
    /\ pc \in Booting \cup {"main"} => stack = <<>>
    /\ pc = "stage1" => /\ Entered(IF entry \in EXC_CODE THEN 4 ELSE 3)
                        /\ entry \in EXC_CODE => stack[4] = <<"error", 0>>
    /\ pc \in {"stage2", "eoi", "return"} => Entered(7) /\ stack[5] = <<"code", entry>>

BootInv ==
    /\ pc \in Booting \cup {"main"} \cup Handling
    /\ pc = "main" => iflag
    /\ pc \notin {"cli", "idt"} => idt = (0 .. 47) \cup {128}
    /\ pc \notin {"cli", "idt", "pic"} => base = [master |-> 32, slave |-> 40]
    /\ listeners = IF pc \in {"cli", "idt", "pic", "keyboard"} THEN {} ELSE {KEYBOARD_INTERRUPT}
    /\ pc \in Handling => entry \in 0 .. 47

\* Besides the cascade at most the line of the gate is in service, and it is
\* more urgent than the cascade when that is in service on the same side.
ServiceInv ==
    /\ pc \in Booting => inService = {}
    /\ pc \in {"main", "return"} => inService \subseteq {Cascade}
    /\ pc \in {"stage1", "stage2", "eoi"} =>
         /\ inService \subseteq {Cascade, entry - 32}
         /\ entry < 32 => inService \subseteq {Cascade}
         /\ entry \in 32 .. 39 /\ Cascade \in inService /\ entry - 32 \in inService => entry - 32 <= Cascade

Inv == TypeOK /\ StackInv /\ BootInv /\ ServiceInv /\ KeyNotForgotten

-----------------------------------------------------------------------------

\* A set of numbers that is not empty has a least one.
LEMMA LeastExists ==
  ASSUME NEW S \in SUBSET Nat, S # {}
  PROVE  \E x \in S : \A y \in S : x <= y
<1>1. PICK x \in S : \A y \in S : <<y, x>> \notin OpToRel(<, Nat)
  BY NatLessThanWellFounded, WFMin
<1>2. ASSUME NEW y \in S PROVE x <= y
  <2>1. ~(y < x)
    BY <1>1 DEF OpToRel
  <2> QED BY <2>1
<1> QED BY <1>2

\* ... and Min is that one.
LEMMA MinInSet ==
  ASSUME NEW S \in SUBSET (0 .. 15), S # {}
  PROVE  Min(S) \in S
<1>1. S \in SUBSET Nat
  OBVIOUS
<1>2. \E x \in S : \A y \in S : x <= y
  BY <1>1, LeastExists
<1> QED BY <1>2 DEF Min

\* What the pair offers is a line of the master that outranks those in service,
\* or a line of the slave while the cascade is not in service.
LEMMA OfferedLine ==
  ASSUME TypeOK, NEW l \in Lines, Offered(l)
  PROVE  \/ l \in Master /\ \A k \in inService \cap Master : l < k
         \/ l \in Slave /\ Cascade \notin inService
<1>1. /\ Lines \subseteq 0 .. 15 /\ Cascade \notin Lines
      /\ irr \subseteq 0 .. 15 /\ Cascade \notin irr
  BY InterruptsAssumption DEF TypeOK, Master, Slave, Cascade, Keyboard
<1>2. SlaveRequests \in SUBSET (0 .. 15) /\ SlaveRequests \subseteq Slave
  BY <1>1 DEF SlaveRequests, Urgent, Slave
<1>3. MasterRequests \in SUBSET (0 .. 15) /\ MasterRequests \subseteq Master
  BY <1>1 DEF MasterRequests, Urgent, Master, Cascade
<1>4. Min(MasterRequests) \in MasterRequests
  BY <1>3, MinInSet DEF Offered
<1>5. CASE Min(MasterRequests) = Cascade
  <2>1. Cascade \in MasterRequests
    BY <1>4, <1>5
  <2>2. SlaveRequests # {} /\ \A k \in inService \cap Master : Cascade < k
    BY <2>1, <1>1 DEF MasterRequests, Urgent
  <2>3. Min(SlaveRequests) \in SlaveRequests
    BY <2>2, <1>2, MinInSet
  <2>4. l \in Slave
    BY <2>3, <1>2, <1>5 DEF Offered
  <2>5. Cascade \notin inService
    BY <2>2 DEF Cascade, Master
  <2> QED BY <2>4, <2>5
<1>6. CASE Min(MasterRequests) # Cascade
  <2>1. l \in MasterRequests
    BY <1>4, <1>6 DEF Offered
  <2> QED BY <2>1, <1>3 DEF MasterRequests, Urgent
<1> QED BY <1>5, <1>6

\* The vectors of the lines once pic_8259_init has moved them.
LEMMA LineVector ==
  ASSUME base = [master |-> 32, slave |-> 40], NEW l \in 0 .. 15
  PROVE  Vector(l) = 32 + l
BY DEF Vector, Master

\* The words that are pushed.
LEMMA Words ==
  /\ <<"eflags", TRUE>> \in Word /\ <<"eflags", FALSE>> \in Word
  /\ <<"cs", 0>> \in Word /\ <<"eip", 0>> \in Word /\ <<"error", 0>> \in Word
  /\ <<"pusha", 0>> \in Word /\ <<"ds", 0>> \in Word
  /\ \A v \in 0 .. 255 : <<"code", v>> \in Word
<1>1. <<"eflags", TRUE>> \in Word /\ <<"eflags", FALSE>> \in Word
  BY Zenon DEF Word
<1>2. <<"cs", 0>> \in Word /\ <<"eip", 0>> \in Word /\ <<"error", 0>> \in Word
  BY DEF Word
<1>3. <<"pusha", 0>> \in Word /\ <<"ds", 0>> \in Word
  BY DEF Word
<1>4. \A v \in 0 .. 255 : <<"code", v>> \in Word
  BY DEF Word
<1> QED BY <1>1, <1>2, <1>3, <1>4

\* What is pushed lies behind what was there.
LEMMA Appended ==
  ASSUME NEW s \in Seq(Word), NEW t \in Seq(Word)
  PROVE  /\ s \o t \in Seq(Word) /\ Len(s \o t) = Len(s) + Len(t)
         /\ \A i \in 1 .. Len(s) : (s \o t)[i] = s[i]
         /\ \A i \in 1 .. Len(t) : (s \o t)[Len(s) + i] = t[i]
OBVIOUS

\* What the processor pushes from the code of the kernel.
LEMMA EnterFrame ==
  ASSUME stack = <<>>, iflag = TRUE, NEW v \in 0 .. 47, NEW code \in BOOLEAN,
         idt = (0 .. 47) \cup {128}, Enter(v, code)
  PROVE  /\ pc' = "stage1" /\ iflag' = FALSE /\ entry' = v
         /\ stack' \in Seq(Word)
         /\ Entered(IF code THEN 4 ELSE 3)'
         /\ code => stack'[4] = <<"error", 0>>
<1>1. pc' = "stage1" /\ iflag' = FALSE /\ entry' = v
  BY DEF Enter
<1> DEFINE f == <<<<"eflags", TRUE>>, <<"cs", 0>>, <<"eip", 0>>>>
           g == <<<<"error", 0>>>>
<1>2. f \in Seq(Word) /\ g \in Seq(Word)
  BY Words
<1>3. CASE code
  <2>1. stack' = <<>> \o f \o g
    BY <1>3 DEF Enter
  <2>2. /\ Len(f) = 3 /\ f[1] = <<"eflags", TRUE>> /\ f[2] = <<"cs", 0>> /\ f[3] = <<"eip", 0>>
        /\ Len(g) = 1 /\ g[1] = <<"error", 0>>
    OBVIOUS
  <2>3. <<>> \o f = f
    BY <1>2
  <2> HIDE DEF f, g
  <2>4. stack' = f \o g
    BY <2>1, <2>3
  <2>5. /\ stack' \in Seq(Word) /\ Len(stack') = 3 + 1
        /\ \A i \in 1 .. 3 : stack'[i] = f[i]
        /\ \A i \in 1 .. 1 : stack'[3 + i] = g[i]
    <3>1. /\ f \o g \in Seq(Word) /\ Len(f \o g) = Len(f) + Len(g)
          /\ \A i \in 1 .. Len(f) : (f \o g)[i] = f[i]
          /\ \A i \in 1 .. Len(g) : (f \o g)[Len(f) + i] = g[i]
      BY <1>2, Appended
    <3> QED BY <3>1, <2>2, <2>4, Zenon
  <2>6. /\ Len(stack') = 4 /\ stack'[1] = f[1] /\ stack'[2] = f[2] /\ stack'[3] = f[3]
        /\ stack'[4] = g[1]
    BY <2>5
  <2> QED BY <1>1, <1>3, <2>2, <2>5, <2>6 DEF Entered
<1>4. CASE ~code
  <2>1. stack' = <<>> \o f \o <<>>
    BY <1>4 DEF Enter
  <2>2. stack' = f
    BY <2>1, <1>2
  <2> QED BY <1>1, <1>2, <1>4, <2>2 DEF Entered
<1> QED BY <1>3, <1>4

\* Two sequences pushed one after the other.
LEMMA AppendedTwice ==
  ASSUME NEW s \in Seq(Word), NEW t \in Seq(Word), NEW u \in Seq(Word)
  PROVE  /\ s \o t \o u \in Seq(Word)
         /\ Len(s \o t \o u) = Len(s) + Len(t) + Len(u)
         /\ \A i \in 1 .. Len(s) : (s \o t \o u)[i] = s[i]
         /\ \A i \in 1 .. Len(t) : (s \o t \o u)[Len(s) + i] = t[i]
<1>1. /\ s \o t \in Seq(Word) /\ Len(s \o t) = Len(s) + Len(t)
      /\ \A i \in 1 .. Len(s) : (s \o t)[i] = s[i]
      /\ \A i \in 1 .. Len(t) : (s \o t)[Len(s) + i] = t[i]
  BY Appended
<1> DEFINE r == s \o t
<1> HIDE DEF r
<1>2. /\ r \in Seq(Word) /\ Len(r) = Len(s) + Len(t)
      /\ \A i \in 1 .. Len(s) : r[i] = s[i]
      /\ \A i \in 1 .. Len(t) : r[Len(s) + i] = t[i]
  BY <1>1 DEF r
<1>3. /\ r \o u \in Seq(Word) /\ Len(r \o u) = Len(r) + Len(u)
      /\ \A i \in 1 .. Len(r) : (r \o u)[i] = r[i]
  BY <1>2, Appended
<1>4. /\ \A i \in 1 .. Len(s) : i \in 1 .. Len(r)
      /\ \A i \in 1 .. Len(t) : Len(s) + i \in 1 .. Len(r)
      /\ Len(s) \in Nat /\ Len(t) \in Nat /\ Len(u) \in Nat
  BY <1>2
<1>5. /\ \A i \in 1 .. Len(s) : (r \o u)[i] = s[i]
      /\ \A i \in 1 .. Len(t) : (r \o u)[Len(s) + i] = t[i]
  BY <1>2, <1>3, <1>4, Zenon
<1>6. /\ r \o u \in Seq(Word) /\ Len(r \o u) = Len(s) + Len(t) + Len(u)
  BY <1>2, <1>3
<1> QED BY <1>5, <1>6 DEF r

\* What the stub of the gate and the common entry push.
LEMMA StubWords ==
  ASSUME NEW v \in 0 .. 47
  PROVE  /\ Stub(v) \in Seq(Word)
         /\ v \in EXC_CODE => Len(Stub(v)) = 1 /\ Stub(v)[1] = <<"code", v>>
         /\ v \notin EXC_CODE => Len(Stub(v)) = 2 /\ Stub(v)[2] = <<"code", v>>
<1> DEFINE e == <<<<"error", 0>>>>
           c == <<<<"code", v>>>>
<1>1. e \in Seq(Word) /\ c \in Seq(Word) /\ Len(e) = 1 /\ Len(c) = 1 /\ c[1] = <<"code", v>>
  <2>1. v \in 0 .. 255
    OBVIOUS
  <2>2. <<"code", v>> \in Word /\ <<"error", 0>> \in Word
    BY <2>1, Words, Zenon
  <2> QED BY <2>2
<1>2. CASE v \in EXC_CODE
  <2>1. Stub(v) = <<>> \o c
    BY <1>2 DEF Stub
  <2>2. <<>> \o c = c
    BY <1>1
  <2> QED BY <1>1, <1>2, <2>1, <2>2
<1>3. CASE v \notin EXC_CODE
  <2>1. Stub(v) = e \o c
    BY <1>3 DEF Stub
  <2> HIDE DEF e, c
  <2>2. /\ e \o c \in Seq(Word) /\ Len(e \o c) = 1 + 1
        /\ \A i \in 1 .. 1 : (e \o c)[1 + i] = c[i]
    <3>1. /\ e \o c \in Seq(Word) /\ Len(e \o c) = Len(e) + Len(c)
          /\ \A i \in 1 .. Len(c) : (e \o c)[Len(e) + i] = c[i]
      BY <1>1, Appended
    <3> QED BY <1>1, <3>1, Zenon
  <2>3. (e \o c)[2] = c[1]
    BY <2>2
  <2> QED BY <1>1, <1>3, <2>1, <2>2, <2>3
<1> QED BY <1>2, <1>3

\* With the stub's words and the registers the frame has seven words, whether or
\* not the processor pushed an error code.
LEMMA StageOneFrame ==
  ASSUME stack \in Seq(Word), entry \in 0 .. 47, isr_stage1,
         Entered(IF entry \in EXC_CODE THEN 4 ELSE 3)
  PROVE  stack' \in Seq(Word) /\ Entered(7)' /\ stack'[5] = <<"code", entry>>
<1> DEFINE u == Stub(entry)
           w == <<<<"pusha", 0>>, <<"ds", 0>>>>
<1>1. w \in Seq(Word) /\ Len(w) = 2
  BY Words
<1>2. stack' = stack \o u \o w
  BY DEF isr_stage1
<1>3. /\ u \in Seq(Word)
      /\ entry \in EXC_CODE => Len(u) = 1 /\ u[1] = <<"code", entry>>
      /\ entry \notin EXC_CODE => Len(u) = 2 /\ u[2] = <<"code", entry>>
  BY StubWords
<1> HIDE DEF u, w
<1>4. /\ stack' \in Seq(Word)
      /\ Len(stack') = Len(stack) + Len(u) + Len(w)
      /\ \A i \in 1 .. Len(stack) : stack'[i] = stack[i]
      /\ \A i \in 1 .. Len(u) : stack'[Len(stack) + i] = u[i]
  <2>1. /\ stack \o u \o w \in Seq(Word)
        /\ Len(stack \o u \o w) = Len(stack) + Len(u) + Len(w)
        /\ \A i \in 1 .. Len(stack) : (stack \o u \o w)[i] = stack[i]
        /\ \A i \in 1 .. Len(u) : (stack \o u \o w)[Len(stack) + i] = u[i]
    BY <1>1, <1>3, AppendedTwice
  <2> QED BY <1>2, <2>1, Zenon
<1>5. Len(stack') = 7 /\ stack'[5] = <<"code", entry>>
  <2>1. CASE entry \in EXC_CODE
    <3>1. Len(stack) = 4 /\ Len(u) = 1 /\ Len(w) = 2
      BY <1>1, <1>3, <2>1 DEF Entered
    <3>2. Len(stack') = 4 + 1 + 2 /\ \A i \in 1 .. 1 : stack'[4 + i] = u[i]
      BY <1>4, <3>1, Zenon
    <3>3. Len(stack') = 7 /\ stack'[5] = u[1]
      BY <3>2
    <3> QED BY <1>3, <2>1, <3>3
  <2>2. CASE entry \notin EXC_CODE
    <3>1. Len(stack) = 3 /\ Len(u) = 2 /\ Len(w) = 2
      BY <1>1, <1>3, <2>2 DEF Entered
    <3>2. Len(stack') = 3 + 2 + 2 /\ \A i \in 1 .. 2 : stack'[3 + i] = u[i]
      BY <1>4, <3>1, Zenon
    <3>3. Len(stack') = 7 /\ stack'[5] = u[2]
      BY <3>2
    <3> QED BY <1>3, <2>2, <3>3
  <2> QED BY <2>1, <2>2
<1>6. stack'[1] = stack[1] /\ stack'[2] = stack[2] /\ stack'[3] = stack[3]
  <2>1. Len(stack) \in {3, 4}
    BY DEF Entered
  <2> QED BY <1>4, <2>1
<1> QED BY <1>4, <1>5, <1>6 DEF Entered

\* iret takes the three words the processor pushed.
LEMMA ReturnFrame ==
  ASSUME stack \in Seq(Word), Entered(7), Return
  PROVE  pc' = "main" /\ iflag' = TRUE /\ stack' = <<>>
<1> DEFINE n == Len(stack) - 4
           pops == [i \in 1 .. 3 |-> IF n - 3 + i >= 1 THEN stack[n - 3 + i] ELSE <<"none", 0>>]
           exact == pops[3][1] = "eip" /\ pops[2][1] = "cs" /\ pops[1][1] = "eflags"
<1>1. n = 3
  BY DEF Entered
<1>4. /\ pc' = IF exact THEN "main" ELSE "wild"
      /\ iflag' = IF exact THEN pops[1][2] ELSE TRUE
      /\ stack' = IF exact THEN SubSeq(stack, 1, n - 3) ELSE stack
  BY DEF Return
<1> HIDE DEF n
<1>2. pops[1] = stack[1] /\ pops[2] = stack[2] /\ pops[3] = stack[3]
  BY <1>1
<1> HIDE DEF pops
<1>3. exact /\ pops[1][2] = TRUE
  BY <1>2 DEF Entered
<1>5. SubSeq(stack, 1, 0) = <<>>
  OBVIOUS
<1>6. n - 3 = 0
  BY <1>1
<1> QED BY <1>3, <1>4, <1>5, <1>6, Zenon

-----------------------------------------------------------------------------
(* The invariant is inductive *)

\* The code read from the frame is the number of the gate.
LEMMA CodeIsEntry ==
  ASSUME Entered(7), stack[5] = <<"code", entry>>
  PROVE  interrupt_code = entry
BY DEF Entered, interrupt_code

\* The first state.
LEMMA InitInv == Init => Inv
<1> SUFFICES ASSUME Init PROVE Inv
  OBVIOUS
<1>1. BootInv
  BY DEF Init, BootInv, Booting, Handling
<1>2. ServiceInv /\ StackInv
  BY DEF Init, ServiceInv, StackInv, Booting
<1>3. KeyNotForgotten
  BY DEF Init, KeyNotForgotten
<1>4. stack \in Seq(Word)
  BY DEF Init
<1>5. iflag \in BOOLEAN /\ obf \in BOOLEAN /\ early \in BOOLEAN
  BY Zenon DEF Init
<1>6. TypeOK
  BY <1>4, <1>5 DEF Init, TypeOK
<1> QED BY <1>1, <1>2, <1>3, <1>6 DEF Inv

\* The steps of the boot.
LEMMA BootStep == Inv /\ Boot => Inv'
<1> SUFFICES ASSUME Inv, Boot PROVE Inv'
  OBVIOUS
<1> USE DEF Inv
<1>1. CASE clear_interrupt_flag
  <2> USE <1>1 DEF clear_interrupt_flag, bootVars, picVars
  <2>1. TypeOK'
    BY DEF TypeOK
  <2>2. BootInv' /\ ServiceInv'
    BY DEF BootInv, ServiceInv, Booting, Handling
  <2>3. StackInv' /\ KeyNotForgotten'
    BY DEF StackInv, KeyNotForgotten, Booting
  <2> QED BY <2>1, <2>2, <2>3
<1>2. CASE idt_init
  <2> USE <1>2 DEF idt_init, picVars
  <2>1. TypeOK'
    BY DEF TypeOK
  <2>2. BootInv' /\ ServiceInv'
    BY DEF BootInv, ServiceInv, Booting, Handling
  <2>3. StackInv' /\ KeyNotForgotten'
    BY DEF StackInv, KeyNotForgotten, Booting
  <2> QED BY <2>1, <2>2, <2>3
<1>3. CASE PicInit
  <2> USE <1>3 DEF PicInit, pic_8259_init, bootVars
  <2>1. TypeOK'
    BY DEF TypeOK
  <2>2. BootInv' /\ ServiceInv'
    BY DEF BootInv, ServiceInv, Booting, Handling
  <2>3. StackInv'
    BY DEF StackInv, Booting
  <2>4. KeyNotForgotten'
    BY DEF KeyNotForgotten
  <2> QED BY <2>1, <2>2, <2>3, <2>4
<1>4. CASE ps2_keyboard_init
  <2> USE <1>4 DEF ps2_keyboard_init, isr_register_listener, KEYBOARD_INTERRUPT
  <2>1. TypeOK'
    BY DEF TypeOK
  <2>2. BootInv'
    BY DEF BootInv, Booting, Handling
  <2>3. ServiceInv'
    BY DEF ServiceInv, Booting
  <2>4. StackInv'
    BY DEF StackInv, Booting
  <2>5. KeyNotForgotten'
    BY DEF KeyNotForgotten, TypeOK
  <2> QED BY <2>1, <2>2, <2>3, <2>4, <2>5
<1>5. CASE set_interrupt_flag
  <2> USE <1>5 DEF set_interrupt_flag, bootVars, picVars
  <2>1. TypeOK'
    BY DEF TypeOK
  <2>2. BootInv' /\ ServiceInv'
    BY DEF BootInv, ServiceInv, Booting, Handling
  <2>3. StackInv' /\ KeyNotForgotten'
    BY DEF StackInv, KeyNotForgotten, Booting
  <2> QED BY <2>1, <2>2, <2>3
<1> QED BY <1>1, <1>2, <1>3, <1>4, <1>5 DEF Boot

\* The steps of a handler.
LEMMA HandlerStep == Inv /\ Handler => Inv'
<1> SUFFICES ASSUME Inv, Handler PROVE Inv'
  OBVIOUS
<1> USE DEF Inv
<1>1. CASE isr_stage1
  <2> USE <1>1
  <2>0. pc = "stage1" /\ pc' = "stage2" /\ UNCHANGED <<iflag, entry, idt, listeners, base, imr, irr, inService, obf, early, faulting>>
    BY DEF isr_stage1, bootVars, picVars
  <2>1. stack' \in Seq(Word) /\ Entered(7)' /\ stack'[5] = <<"code", entry>>
    <3>1. stack \in Seq(Word) /\ entry \in 0 .. 47
      BY <2>0 DEF TypeOK, BootInv, Handling
    <3>2. Entered(IF entry \in EXC_CODE THEN 4 ELSE 3)
      BY <2>0 DEF StackInv
    <3> QED BY <3>1, <3>2, StageOneFrame
  <2>2. TypeOK'
    BY <2>0, <2>1 DEF TypeOK
  <2>3. BootInv' /\ ServiceInv'
    BY <2>0 DEF BootInv, ServiceInv, Booting, Handling
  <2>4. StackInv'
    BY <2>0, <2>1 DEF StackInv, Booting
  <2>5. KeyNotForgotten'
    BY <2>0 DEF KeyNotForgotten
  <2> QED BY <2>2, <2>3, <2>4, <2>5
<1>2. CASE isr_stage2
  <2>0. pc = "stage2" /\ pc' = "eoi" /\ UNCHANGED <<iflag, stack, entry, idt, listeners, base, imr, irr, inService, early, faulting>>
    BY <1>2 DEF isr_stage2, bootVars, picVars
  <2>1. interrupt_code = entry
    BY <2>0, CodeIsEntry DEF StackInv
  <2>2. obf' = IF entry = KEYBOARD_INTERRUPT THEN FALSE ELSE obf
    BY <1>2, <2>0, <2>1 DEF isr_stage2, ps2_keyboard_interrupt_handler, BootInv
  <2>3. TypeOK'
    BY <2>0, <2>2 DEF TypeOK
  <2>4. BootInv' /\ ServiceInv'
    BY <2>0 DEF BootInv, ServiceInv, Booting, Handling
  <2>5. StackInv'
    BY <2>0 DEF StackInv, Booting, Entered
  <2>6. KeyNotForgotten'
    <3>1. CASE entry = KEYBOARD_INTERRUPT
      BY <2>2, <3>1 DEF KeyNotForgotten
    <3>2. CASE entry # KEYBOARD_INTERRUPT
      <4>1. Keyboard \notin inService
        BY <2>0, <3>2 DEF ServiceInv, TypeOK, Keyboard, Cascade, KEYBOARD_INTERRUPT
      <4> QED BY <2>0, <2>2, <3>2, <4>1 DEF KeyNotForgotten
    <3> QED BY <3>1, <3>2
  <2> QED BY <2>3, <2>4, <2>5, <2>6
<1>3. CASE Acknowledge
  <2>0. pc = "eoi" /\ pc' = "return" /\ UNCHANGED <<iflag, stack, entry, idt, listeners, base, imr, irr, obf, early, faulting>>
    BY <1>3 DEF Acknowledge, bootVars
  <2>1. interrupt_code = entry /\ entry \in 0 .. 47
    BY <2>0, CodeIsEntry DEF StackInv, BootInv, Handling
  <2>2. inService' \subseteq {Cascade} /\ inService' \subseteq inService
    <3>1. CASE entry < 32
      BY <1>3, <2>0, <2>1, <3>1 DEF Acknowledge, ServiceInv
    <3>2. CASE entry \in 32 .. 39
      <4>1. EoiTo(Master)
        BY <1>3, <2>1, <3>2 DEF Acknowledge, pic_8259_send_eoi
      <4> QED BY <2>0, <3>2, <4>1 DEF EoiTo, ServiceInv, Master, Cascade
    <3>3. CASE entry \in 40 .. 47
      <4>1. EoiTo(Slave)
        BY <1>3, <2>1, <3>3 DEF Acknowledge, pic_8259_send_eoi
      <4> QED BY <2>0, <3>3, <4>1 DEF EoiTo, ServiceInv, Slave, Cascade
    <3> QED BY <2>1, <3>1, <3>2, <3>3
  <2>3. TypeOK'
    BY <2>0, <2>2 DEF TypeOK
  <2>4. BootInv'
    BY <2>0 DEF BootInv, Booting, Handling
  <2>5. ServiceInv'
    BY <2>0, <2>2 DEF ServiceInv, Booting
  <2>6. StackInv'
    BY <2>0 DEF StackInv, Booting, Entered
  <2>7. KeyNotForgotten'
    BY <2>0 DEF KeyNotForgotten
  <2> QED BY <2>3, <2>4, <2>5, <2>6, <2>7
<1>4. CASE Return
  <2>0. pc = "return" /\ UNCHANGED <<entry, idt, listeners, base, imr, irr, inService, obf, early, faulting>>
    BY <1>4 DEF Return, bootVars, picVars
  <2>1. pc' = "main" /\ iflag' = TRUE /\ stack' = <<>>
    BY <1>4, <2>0, ReturnFrame DEF StackInv, TypeOK
  <2>2. stack' \in Seq(Word)
    BY <2>1
  <2>3. TypeOK'
    BY <2>0, <2>1, <2>2 DEF TypeOK
  <2>4. BootInv' /\ ServiceInv'
    BY <2>0, <2>1 DEF BootInv, ServiceInv, Booting, Handling
  <2>5. StackInv' /\ KeyNotForgotten'
    BY <2>0, <2>1 DEF StackInv, KeyNotForgotten, Booting
  <2> QED BY <2>3, <2>4, <2>5
<1> QED BY <1>1, <1>2, <1>3, <1>4 DEF Handler

\* The processor enters through a gate, for a line or an instruction: what is
\* in service and requested afterwards decides about the rest.
LEMMA EnterStep ==
  ASSUME Inv, pc = "main", NEW v \in 0 .. 47, NEW code \in BOOLEAN, Enter(v, code),
         code <=> v \in EXC_CODE,
         UNCHANGED <<idt, listeners, base, imr, obf, early>>,
         faulting' \in Faults \cup {NoFault},
         irr' \subseteq irr, inService' \subseteq Lines \cup {Cascade},
         inService' \subseteq {Cascade, v - 32},
         v < 32 => inService' \subseteq {Cascade},
         v \in 32 .. 39 /\ Cascade \in inService' /\ v - 32 \in inService' => v - 32 <= Cascade,
         Keyboard \in irr => Keyboard \in irr' \cup inService'
  PROVE  Inv'
<1> USE DEF Inv
<1>1. stack = <<>> /\ iflag = TRUE /\ idt = (0 .. 47) \cup {128}
  BY DEF StackInv, BootInv, TypeOK
<1>2. /\ pc' = "stage1" /\ iflag' = FALSE /\ entry' = v
      /\ stack' \in Seq(Word)
      /\ Entered(IF code THEN 4 ELSE 3)'
      /\ code => stack'[4] = <<"error", 0>>
  BY <1>1, EnterFrame
<1>3. TypeOK'
  <2>1. iflag' \in BOOLEAN /\ obf' \in BOOLEAN /\ early' \in BOOLEAN
    BY <1>2, Zenon DEF TypeOK
  <2>2. entry' \in 0 .. 255 /\ irr' \subseteq Lines \cup {Keyboard}
    BY <1>2 DEF TypeOK
  <2> QED BY <1>2, <2>1, <2>2 DEF TypeOK
<1>4. BootInv'
  BY <1>2 DEF BootInv, Booting, Handling
<1>5. ServiceInv'
  BY <1>2 DEF ServiceInv, Booting
<1>6. StackInv'
  BY <1>2 DEF StackInv, Booting, Entered
<1>7. KeyNotForgotten'
  BY <1>2 DEF KeyNotForgotten
<1> QED BY <1>3, <1>4, <1>5, <1>6, <1>7

\* A line is delivered.
LEMMA DeliverStep ==
  ASSUME Inv, NEW l \in Lines, Deliver(l)
  PROVE  Inv'
<1>1. l \in 0 .. 15 /\ l # Cascade
  BY InterruptsAssumption DEF Master, Slave, Cascade
<1>2. pc = "main" /\ inService \subseteq {Cascade} /\ base = [master |-> 32, slave |-> 40] /\ TypeOK
  BY DEF Deliver, Inv, ServiceInv, BootInv
<1>3. Vector(l) = 32 + l
  BY <1>1, <1>2, LineVector
<1>4. Enter(32 + l, FALSE) /\ irr' = irr \ {l}
  BY <1>3 DEF Deliver
<1>5. inService' = inService \cup {l} \cup (IF l \in Slave THEN {Cascade} ELSE {})
  BY DEF Deliver
<1>6. \/ l \in Master /\ \A k \in inService \cap Master : l < k
      \/ l \in Slave /\ Cascade \notin inService
  BY <1>2, OfferedLine DEF Deliver
<1>7. UNCHANGED <<idt, listeners, base, imr, obf, early>> /\ faulting' \in Faults \cup {NoFault}
  BY <1>2 DEF Deliver, bootVars, TypeOK
<1>8. 32 + l \in 0 .. 47 /\ 32 + l \notin EXC_CODE /\ (32 + l) - 32 = l /\ ~(32 + l < 32)
  BY <1>1 DEF EXC_CODE
<1>9. /\ inService' \subseteq Lines \cup {Cascade} /\ inService' \subseteq {Cascade, l}
      /\ Keyboard \in irr => Keyboard \in irr' \cup inService'
  BY <1>2, <1>4, <1>5
<1>10. 32 + l \in 32 .. 39 /\ Cascade \in inService' /\ l \in inService' => l <= Cascade
  BY <1>1, <1>5, <1>6 DEF Master, Slave, Cascade
<1>11. irr' \subseteq irr
  BY <1>4
<1> QED BY <1>2, <1>4, <1>7, <1>8, <1>9, <1>10, <1>11, EnterStep

\* A line is withdrawn, and the last line of its controller delivered instead.
LEMMA SpuriousStep ==
  ASSUME Inv, NEW l \in Lines, Spurious(l)
  PROVE  Inv'
<1> DEFINE k == IF l \in Slave THEN 15 ELSE 7
<1>1. pc = "main" /\ inService \subseteq {Cascade} /\ base = [master |-> 32, slave |-> 40] /\ TypeOK
  BY DEF Spurious, Inv, ServiceInv, BootInv
<1>2. k \in {7, 15}
  OBVIOUS
<1>3. Enter(Vector(k), FALSE)
  BY DEF Spurious
<1> HIDE DEF k
<1>4. Enter(32 + k, FALSE)
  <2>1. k \in 0 .. 15
    BY <1>2
  <2>2. Vector(k) = 32 + k
    BY <1>1, <2>1, LineVector
  <2> QED BY <1>3, <2>2
<1>5. /\ inService' \subseteq {Cascade} /\ irr' = irr \ {l} /\ l # Keyboard
      /\ UNCHANGED <<idt, listeners, base, imr, obf, early>> /\ faulting' \in Faults \cup {NoFault}
  BY <1>1 DEF Spurious, bootVars, TypeOK
<1>6. 32 + k \in 0 .. 47 /\ 32 + k \notin EXC_CODE /\ (32 + k) - 32 = k /\ k # Cascade
  BY <1>2 DEF EXC_CODE, Cascade
<1>7. /\ inService' \subseteq Lines \cup {Cascade} /\ inService' \subseteq {Cascade, k} /\ k \notin inService'
      /\ irr' \subseteq irr /\ (Keyboard \in irr => Keyboard \in irr' \cup inService')
  BY <1>5, <1>6
<1> QED BY <1>1, <1>4, <1>5, <1>6, <1>7, EnterStep

\* The command `int`, with a number whose stub pushes the dummy error code.
LEMMA IntStep ==
  ASSUME Inv, PlainEntries, NEW i \in IntArgs, isr_interrupt(i)
  PROVE  Inv'
<1>1. pc = "main" /\ inService \subseteq {Cascade} /\ TypeOK
  BY DEF isr_interrupt, Executes, Inv, ServiceInv
<1>2. i \in 0 .. 31 /\ i \notin EXC_CODE /\ Enter(i, FALSE)
  BY DEF isr_interrupt, PlainEntries
<1>3. UNCHANGED <<idt, listeners, base, imr, irr, inService, obf, early>> /\ faulting' \in Faults \cup {NoFault}
  BY <1>1 DEF isr_interrupt, bootVars, picVars, TypeOK
<1>4. i \in 0 .. 47 /\ i < 32 /\ ~(i \in 32 .. 39)
  BY <1>2
<1>5. /\ irr' \subseteq irr /\ inService' \subseteq Lines \cup {Cascade} /\ inService' \subseteq {Cascade, i - 32}
      /\ inService' \subseteq {Cascade} /\ (Keyboard \in irr => Keyboard \in irr' \cup inService')
  BY <1>1, <1>3
<1> QED BY <1>1, <1>2, <1>3, <1>4, <1>5, EnterStep

\* An exception, whose error code its stub counts on.
LEMMA ExceptionStep ==
  ASSUME Inv, PlainEntries, NEW v \in Faults, Exception(v)
  PROVE  Inv'
<1>1. pc = "main" /\ inService \subseteq {Cascade} /\ TypeOK
  BY DEF Exception, Executes, Inv, ServiceInv
<1>2. v \in 0 .. 31 /\ (v \in ErrorCode <=> v \in EXC_CODE)
  BY InterruptsAssumption DEF PlainEntries, ErrorCode
<1> DEFINE code == v \in ErrorCode
<1>3. code \in BOOLEAN /\ Enter(v, code) /\ (code <=> v \in EXC_CODE)
  BY <1>2 DEF Exception
<1>4. UNCHANGED <<idt, listeners, base, imr, irr, inService, obf, early>> /\ faulting' \in Faults \cup {NoFault}
  BY DEF Exception, bootVars, picVars
<1>5. v \in 0 .. 47 /\ v < 32 /\ ~(v \in 32 .. 39)
  BY <1>2
<1>6. /\ irr' \subseteq irr /\ inService' \subseteq Lines \cup {Cascade} /\ inService' \subseteq {Cascade, v - 32}
      /\ inService' \subseteq {Cascade} /\ (Keyboard \in irr => Keyboard \in irr' \cup inService')
  BY <1>1, <1>4
<1> HIDE DEF code
<1> QED BY <1>1, <1>3, <1>4, <1>5, <1>6, EnterStep

\* The devices raise their lines.
LEMMA DeviceStep == Inv /\ (KeyPress \/ \E l \in Lines : Raise(l)) => Inv'
<1> SUFFICES ASSUME Inv, KeyPress \/ \E l \in Lines : Raise(l) PROVE Inv'
  OBVIOUS
<1> USE DEF Inv
<1>1. /\ UNCHANGED <<pc, iflag, stack, entry, idt, listeners, base, imr, inService, early, faulting>>
      /\ irr \subseteq irr' /\ irr' \subseteq Lines \cup {Keyboard}
      /\ obf' \in BOOLEAN /\ (obf' # obf => Keyboard \in irr')
  BY DEF KeyPress, Raise, cpuVars, bootVars, TypeOK
<1>2. TypeOK'
  BY <1>1 DEF TypeOK
<1>3. BootInv' /\ ServiceInv'
  BY <1>1 DEF BootInv, ServiceInv
<1>4. StackInv' /\ KeyNotForgotten'
  BY <1>1 DEF StackInv, KeyNotForgotten, Entered
<1> QED BY <1>2, <1>3, <1>4

\* Every step keeps the invariant.
LEMMA NextInv == PlainEntries /\ Inv /\ [Next]_vars => Inv'
<1> SUFFICES ASSUME PlainEntries, Inv, [Next]_vars PROVE Inv'
  OBVIOUS
<1>1. CASE Boot
  BY <1>1, BootStep
<1>2. CASE Handler
  BY <1>2, HandlerStep
<1>3. CASE KeyPress \/ \E l \in Lines : Raise(l)
  BY <1>3, DeviceStep
<1>4. CASE \E l \in Lines : Deliver(l)
  BY <1>4, DeliverStep
<1>5. CASE \E l \in Lines : Spurious(l)
  BY <1>5, SpuriousStep
<1>6. CASE \E i \in IntArgs : isr_interrupt(i)
  BY <1>6, IntStep
<1>7. CASE \E v \in Faults : Exception(v)
  BY <1>7, ExceptionStep
<1>8. CASE UNCHANGED vars
  <2>1. UNCHANGED <<pc, iflag, stack, entry, idt, listeners, base, imr, irr, inService, obf, early, faulting>>
    BY <1>8 DEF vars
  <2>2. TypeOK'
    BY <2>1 DEF Inv, TypeOK
  <2>3. BootInv' /\ ServiceInv'
    BY <2>1 DEF Inv, BootInv, ServiceInv
  <2>4. StackInv' /\ KeyNotForgotten'
    BY <2>1 DEF Inv, StackInv, KeyNotForgotten, Entered
  <2> QED BY <2>2, <2>3, <2>4 DEF Inv
<1> QED BY <1>1, <1>2, <1>3, <1>4, <1>5, <1>6, <1>7, <1>8 DEF Next

\* Inv holds in every reachable state.
LEMMA InvHolds == PlainEntries => (Spec => []Inv)
<1> SUFFICES ASSUME PlainEntries PROVE Spec => []Inv
  OBVIOUS
<1>1. Init => Inv
  BY InitInv
<1>2. Inv /\ [Next]_vars => Inv'
  BY NextInv
<1> QED BY <1>1, <1>2, PTL DEF Spec

-----------------------------------------------------------------------------
(* The theorems *)

\* For every set of devices and exceptions, every variable keeps its type.
THEOREM InterruptsTypeCorrect == PlainEntries => (Spec => []TypeOK)
<1>1. Inv => TypeOK
  BY DEF Inv
<1> QED BY <1>1, InvHolds, PTL

\* For every set of devices and exceptions, each interrupt returns to where it
\* was taken, with the stack as it was and interrupts enabled, if the entries
\* push what the stubs count on (isr_stage1.asm).
THEOREM EveryEntryUndone == PlainEntries => (Spec => []ReturnsExact)
<1>1. Inv => ReturnsExact
  BY DEF Inv, ReturnsExact, BootInv, StackInv, Booting, Handling
<1> QED BY <1>1, InvHolds, PTL

\* For every set of devices, between interrupts every line but the cascade has
\* been acknowledged (isr_stage2, pic_8259_send_eoi).
THEOREM LinesAcknowledged == PlainEntries => (Spec => []OnlyCascadeLeft)
<1>1. Inv => OnlyCascadeLeft
  BY DEF Inv, OnlyCascadeLeft, ServiceInv
<1> QED BY <1>1, InvHolds, PTL

\* For every set of devices, a byte of the keyboard has its interrupt on the
\* way, unless it came before pic_8259_init (ps2_keyboard_interrupt_handler).
THEOREM NoKeyForgotten == PlainEntries => (Spec => []KeyNotForgotten)
<1>1. Inv => KeyNotForgotten
  BY DEF Inv
<1> QED BY <1>1, InvHolds, PTL
=============================================================================
