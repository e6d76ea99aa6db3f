---------------------------------- MODULE Pci ----------------------------------
(***************************************************************************)
(* The devices of the machine: from device_init on, init_kernel (main.c)   *)
(* registers the video device, the keyboard, what pci_init finds on the    *)
(* buses (drivers/pci/pci.c) and the ATA drives; then drivers use the      *)
(* registry, sata_init among them.                                         *)
(*                                                                         *)
(* The machine is external: a position, a pair of a bus and a slot, is     *)
(* empty, or has a device with one function, which answers at every        *)
(* function number, or one with several functions, which answers at those. *)
(***************************************************************************)
EXTENDS Devices

CONSTANTS
    Positions,      \* pairs <<bus, slot>> that may be occupied
    NumFuncs,       \* PCI_FUNCTIONS_PER_DEVICE
    BarWord,        \* 2^32: the width of a base address register
    PortWord,       \* 2^16: the width of io_port
    Bars            \* the base address registers a driver asks for

Funcs == 0 .. NumFuncs - 1

Machine(p, f) == <<"pci", (p[1] * 32) + p[2], f>>

ASSUME PciAssumption ==
    /\ Positions \subseteq (0 .. 255) \X (0 .. 31) /\ NumFuncs \in 1 .. 8
    /\ {Machine(p, f) : p \in Positions, f \in Funcs} \subseteq Device
    /\ {<<"video", 0, 0>>, <<"keyboard", 0, 0>>, <<"storage", 0, 0>>} \subseteq Device

\* A register decodes a range that is aligned to its size; flags are in the bits
\* below it, bit 0 for ports, and the bits from top up are wired to 0, as the
\* upper half of a register of ports may be.
ASSUME BarsAssumption ==
    /\ BarWord \in Nat \ {0} /\ PortWord \in Nat \ {0}
    /\ \A b \in Bars :
          /\ b.index \in Nat /\ b.header \in Nat
          /\ b.address \in Nat /\ b.size \in Nat /\ b.top \in Nat /\ b.flags \in 0 .. 15
          /\ IF b.size = 0 THEN b.address = 0 /\ b.flags = 0
             ELSE /\ b.address < b.top /\ b.size < b.top /\ b.top <= BarWord
                  /\ BarWord % b.top = 0 /\ b.top % b.size = 0 /\ b.address % b.size = 0
                  /\ \/ b.flags = 1 /\ b.size % 4 = 0
                     \/ b.flags % 2 = 0 /\ b.size % 16 = 0

VARIABLES
    pc,
    machine,        \* the functions at each position, and whether it has several
    at,             \* bus, slot and func of the loops of pci_init
    slot_device,
    info,           \* the pci_device_t of each PCI device
    overrun,        \* history: a message was longer than kernel_message
    loaded          \* what pci_load_bar_info did last, for which register

vars == <<mem, used, root, list, orphans, calls, pc, machine, at, slot_device, info, overrun, loaded>>
scanVars == <<at, slot_device, info, overrun>>

-----------------------------------------------------------------------------
(* The configuration space *)

\* The byte at an offset of a function's registers: 0 and 1 are the vendor,
\* 14 has the header type.  Every byte of every function is different.
Register(p, f, offset) ==
    LET here == p \in Positions /\ IF machine[p].multi THEN f \in machine[p].funcs ELSE machine[p].funcs # {}
    IN CASE ~here -> 255
         [] here /\ offset = 14 -> IF machine[p].multi THEN 128 ELSE 0
         [] OTHER -> 128 + (16 * (IF machine[p].multi THEN f ELSE 0)) + offset

\* The address, without the enable bit: the bus is shifted by 16 bits, the slot
\* by 11 and the function by 8.
pci_config_get_address(bus, slot, func, offset) ==
    (bus * 65536) + ((slot % 32) * 2048) + ((func % 8) * 256) + (offset - (offset % 4))

\* The four bytes the data port gives for an address.
DataPort(address) ==
    [i \in 0 .. 3 |->
        Register(<<(address \div 65536) % 256, (address \div 2048) % 32>>,
                 (address \div 256) % 8, (address % 256) + i)]

pci_config_read_byte(q, offset) ==
    DataPort(pci_config_get_address(q[1], q[2], q[3], offset))[offset % 4]

pci_config_read_word(q, offset) ==
    LET data == DataPort(pci_config_get_address(q[1], q[2], q[3], offset))
        low == (offset % 4) - (offset % 2)
    IN data[low] + (256 * data[low + 1])

-----------------------------------------------------------------------------
(* pci_init *)

pci_probe_device(q) ==
    [vendor_id |-> pci_config_read_word(q, 0), device_id |-> pci_config_read_word(q, 2),
     classcode |-> pci_config_read_byte(q, 11), subclass |-> pci_config_read_byte(q, 10),
     prog_if |-> pci_config_read_byte(q, 9), header_type |-> pci_config_read_byte(q, 14)]

Answers(q) == pci_config_read_word(q, 0) # 65535

\* The positions in the order of the loops; no other position answers.
Before(p, q) == p[1] < q[1] \/ (p[1] = q[1] /\ p[2] < q[2])
NextPositions(p) == {q \in Positions : Before(p, q)}

\* The loop goes to function 0 of the next position, or ends.
NextSlot ==
    LET rest == NextPositions(<<at[1], at[2]>>)
    IN /\ slot_device' = NoDevice
       /\ IF rest = {} THEN pc' = "ata" /\ at' = at
          ELSE LET q == CHOOSE q \in rest : \A r \in rest : r = q \/ Before(q, r)
               IN pc' = pc /\ at' = <<q[1], q[2], 0>>

NextFunc(slot) ==
    IF at[3] + 1 < NumFuncs
    THEN at' = [at EXCEPT ![3] = @ + 1] /\ slot_device' = slot /\ pc' = pc
    ELSE NextSlot

\* The characters of "pci: Found device ...", its end included.
Hex == <<16, 256, 4096, 65536>>
Decimal == <<10, 100, 1000>>
Digits(n, powers) == Min({k \in DOMAIN powers : n < powers[k]})

MessageLength(q) ==
    48 + (2 + Digits(pci_config_read_word(q, 0), Hex)) + (2 + Digits(pci_config_read_word(q, 2), Hex))
       + Digits(q[1], Decimal) + Digits(q[2], Decimal) + Digits(q[3], Decimal) + 1

\* One turn of the innermost loop.
pci_init ==
    LET d == Machine(<<at[1], at[2]>>, at[3])
        slot == IF slot_device = NoDevice THEN d ELSE slot_device
        multifunction == pci_probe_device(at).header_type >= 128
    IN /\ pc = "pci"
       /\ IF ~Answers(at)
          THEN NextFunc(slot_device) /\ UNCHANGED <<deviceVars, info, overrun>>
          ELSE /\ IF slot_device = NoDevice THEN device_register(d) ELSE device_register_at(d, slot_device)
               /\ info' = [info EXCEPT ![d] = pci_probe_device(at)]
               /\ overrun' = (overrun \/ MessageLength(at) > 64)
               /\ IF at[3] = 0 /\ ~multifunction THEN NextSlot ELSE NextFunc(slot)
               /\ UNCHANGED calls
       /\ UNCHANGED <<machine, loaded>>

-----------------------------------------------------------------------------
(* The boot *)

NoInfo == [vendor_id |-> 65535]
NotLoaded == [bar |-> <<>>]

Contents == [multi : {TRUE}, funcs : SUBSET Funcs \ {{}}] \cup {[multi |-> FALSE, funcs |-> f] : f \in {{}, {0}}}

Init ==
    /\ DevicesInit
    /\ pc = "device_init"
    /\ machine \in [Positions -> Contents]
    /\ at = <<0, 0, 0>> /\ slot_device = NoDevice
    /\ info = [d \in Device |-> NoInfo]
    /\ overrun = FALSE /\ loaded = NotLoaded

Boot(from, to) == pc = from /\ pc' = to /\ UNCHANGED <<machine, scanVars, loaded>>

InitDevices == Boot("device_init", "vga_init") /\ device_init
vga_init == Boot("vga_init", "ps2_keyboard_init") /\ device_register(<<"video", 0, 0>>) /\ UNCHANGED calls
ps2_keyboard_init == Boot("ps2_keyboard_init", "pci") /\ device_register(<<"keyboard", 0, 0>>) /\ UNCHANGED calls

\* The drive is found or not.
ata_init ==
    /\ Boot("ata", "up")
    /\ device_register(<<"storage", 0, 0>>) \/ UNCHANGED <<mem, used, root, list, orphans>>
    /\ UNCHANGED calls

\* Without memory the kernel panics, but pci_init does not look at what it
\* got for the device.
OutOfMemory ==
    /\ \/ pc \in {"device_init", "vga_init", "ps2_keyboard_init", "ata"} /\ pc' = "panic"
       \/ pc = "pci" /\ Answers(at) /\ pc' \in {"panic", "fault"}
    /\ UNCHANGED <<deviceVars, machine, scanVars, loaded>>

\* The kernel has stopped.
Stopped == pc \in {"panic", "fault"} /\ UNCHANGED vars

-----------------------------------------------------------------------------
(* Base address registers *)

\* A register has the low bits hard-wired to its flags, and the bits below its
\* size and from its top up to 0.  What it holds when v is written:
Held(b, v) == IF b.size = 0 THEN 0 ELSE (v % b.top) - (v % b.size) + b.flags

\* ~x + 1 in a word.
Negated(x) == (BarWord - x) % BarWord

\* Defect: the register is left with all bits set.
LoadBarNotRestored(b) ==
    LET bar_address == Held(b, b.address)
        mask == Held(b, BarWord - 1)
    IN [result |-> 0, size |-> Negated(mask - (mask % 16)), base |-> bar_address,
        flags |-> bar_address % 16, after |-> mask]

\* The size is what is left of all ones; then the address is written back.  The
\* two bits tested do not tell a register of 64 bits from one of 32, and io_port
\* has 16 bits.
pci_general_load_bar_info(b) ==
    LET bar_address == Held(b, b.address)
        mask == Held(b, BarWord - 1)
        after == Held(b, bar_address)
    IN CASE b.index > 5 -> [result |-> -1, after |-> bar_address]
         [] b.index <= 5 /\ bar_address % 2 = 1 ->
              [result |-> 0, size |-> Negated(mask - (mask % 4)),
               base |-> (bar_address - (bar_address % 4)) % PortWord,
               flags |-> bar_address % 4, after |-> after]
         [] b.index <= 5 /\ bar_address % 2 = 0 /\ bar_address % 4 # 0 -> [result |-> -1, after |-> bar_address]
         [] OTHER ->
              [result |-> 0, size |-> Negated(mask - (mask % 16)), base |-> bar_address,
               flags |-> bar_address % 16, after |-> after]

pci_load_bar_info(b) ==
    IF b.header = 0 THEN pci_general_load_bar_info(b) ELSE [result |-> -1, after |-> Held(b, b.address)]

-----------------------------------------------------------------------------
(* The drivers *)

CallThat(loads) ==
    /\ pc = "up" /\ calls < MaxCalls /\ calls' = calls + 1
    /\ loaded' = loads
    /\ UNCHANGED <<pc, machine, scanVars>>

Call == CallThat(NotLoaded)

LoadBar(b) ==
    /\ CallThat([bar |-> b, did |-> pci_load_bar_info(b)])
    /\ UNCHANGED <<mem, used, root, list, orphans>>

Unregister(d) == Call /\ device_unregister(d)

RegisterAt(d, parent) == Call /\ device_register_at(d, parent)

FindAll ==
    /\ Call
    /\ \/ \E t \in Types : device_find_all_by_type(t)
       \/ \E b \in Buses : device_find_all_by_bustype(b)

UseList ==
    /\ Call
    /\ \/ list # NoList /\ \E n \in Range(Forward(mem, list.head)) : Drop(n)
       \/ Drop(linked_list_pop_head(list))
       \/ Drop(linked_list_pop_tail(list))
       \/ linked_list_destroy

SortList == Call /\ Sort

\* Every PCI device is looked at, and the list given back.
sata_init ==
    LET wanted == {d \in Device : Bus(d) = "pci"}
        found == FoundList(wanted)
    IN /\ Call /\ RoomFor(wanted)
       /\ mem' = found.mem
       /\ used' = found.used \ Range(Forward(found.mem, found.list.head))
       /\ UNCHANGED <<root, list, orphans>>

Idle == pc = "up" /\ UNCHANGED vars

Next ==
    \/ InitDevices \/ vga_init \/ ps2_keyboard_init \/ pci_init \/ ata_init
    \/ OutOfMemory \/ Stopped \/ Idle
    \/ \E d \in Device : Unregister(d)
    \/ \E d \in Device \ InTree, parent \in Device \cup {Computer} : RegisterAt(d, parent)
    \/ FindAll \/ UseList \/ SortList \/ sata_init
    \/ \E b \in Bars : LoadBar(b)

Spec == Init /\ [][Next]_vars

-----------------------------------------------------------------------------
(* Properties *)

\* Every variable keeps to its type: the counters of pci_init stay within the
\* buses, slots and functions.
TypeOK ==
    /\ DevicesTypeOK
    /\ pc \in {"device_init", "vga_init", "ps2_keyboard_init", "pci", "ata", "up", "panic", "fault"}
    /\ machine \in [Positions -> Contents]
    /\ at \in (0 .. 255) \X (0 .. 31) \X Funcs
    /\ slot_device \in Device \cup {NoDevice}
    /\ DOMAIN info = Device /\ overrun \in BOOLEAN

\* The registered devices and what each is below: the abstract registry.
UnderBar == [d \in InTree \ {Computer} |-> mem[mem[NodeOf(d)].parent].data]

Registry == INSTANCE DeviceRegistry WITH under <- UnderBar

\* The tree with its pointers is the abstract registry: each call registers
\* one device below the right one or takes one out with all below it, and no
\* search, list or scan changes what is registered (device.c).
ImplementsRegistry == Registry!Spec

\* When the boot is over every function of every PCI device is registered
\* exactly once, with the fields of its registers, the first of a slot below
\* the computer and the others below that one: no function of a device with
\* a single one is taken for several (pci_init).
PciFound ==
    pc = "up" /\ calls = 0 =>
        \A p \in Positions :
            /\ {f \in Funcs : Machine(p, f) \in InTree} = machine[p].funcs
            /\ \A f \in machine[p].funcs : LET d == Machine(p, f)
                                              first == Min(machine[p].funcs) IN
                  /\ UnderBar[d] = IF f = first THEN Computer ELSE Machine(p, first)
                  /\ info[d].vendor_id = Register(p, f, 0) + (256 * Register(p, f, 1))
                  /\ info[d].device_id = Register(p, f, 2) + (256 * Register(p, f, 3))
                  /\ info[d].classcode = Register(p, f, 11) /\ info[d].subclass = Register(p, f, 10)

\* The message of a device fits kernel_message as long as its bus and its slot
\* have one digit (pci_init).
MessageFits == overrun => \E p \in Positions : machine[p].funcs # {} /\ (p[1] >= 10 \/ p[2] >= 10)

\* The scan registers every function once and as it is, and its messages fit
\* (pci_init).
ScanExact == PciFound /\ MessageFits

\* The tree and the list handed out are sound, and the searches find what is
\* registered, whatever was registered, removed, sorted and given back before
\* (device.c, generic_tree.c, linked_list.c).
RegistrySound == TypeOK /\ TreeSound /\ FoundByType /\ ListSound

\* Registers of ports, and of memory with an address of 32 bits.
Decoded(b) == b.flags = 1 \/ b.flags % 8 = 0

\* Probing a base address register leaves it as it was, whatever its kind, and is
\* refused for another header or index.  For ports and memory of 32 bits it finds
\* the flags; the address, of ports in its last 16 bits only and of memory with
\* the flags still in it; and the size, too large by what the bits wired to 0 at
\* the top stand for: exact when there are none, and 0 when there is no register.
\* What it tells of a register of 64 bits, which it does not refuse, is left open
\* (pci_general_load_bar_info).
BarProbed ==
    "did" \in DOMAIN loaded =>
        LET b == loaded.bar
            did == loaded.did
            valid == b.index \in 0 .. 5 /\ b.header = 0
        IN /\ did.after = Held(b, b.address)
           /\ did.result = 0 => valid
           /\ valid /\ Decoded(b) =>
                 /\ did.result = 0 /\ did.flags = b.flags
                 /\ did.base = IF b.flags = 1 THEN b.address % PortWord ELSE b.address + b.flags
                 /\ did.size = IF b.size = 0 THEN 0 ELSE b.size + (BarWord - b.top)
=============================================================================
