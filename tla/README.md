# A verification project for SakanaOS

SakanaOS is a small i386 kernel (C and assembly, `src/kernel`). This directory
holds TLA+ models of its core, the TLC runs that check them on small instances,
and TLAPS proofs that hold for every instance. `PROJECT.json` lists the runs,
the source lines behind each definition, the hazards and the theorems.

## The system

`kmain` brings the parts up in a fixed order with interrupts off, enables
interrupts, and enters the shell, which never returns. There is one thread of
control (the mainline) and interrupt handlers that interrupt it; no scheduler,
no locks, no second processor.

| Part | State | Operations | What makes it correct |
| --- | --- | --- | --- |
| kernel heap (`memory/heap.c`) | placement array and its head; block headers in the heap; `kheap_tail` | `kheap_init`, `kmalloc`, `krealloc`, `kfree` | the list is a tiling, held memory stays apart, nothing is lost, a free or absorbed block is not freed again |
| circular buffer (`utils/circular_buffer.c`) | slots, head, tail, size | init, enqueue, dequeue, get, foreach | first in first out at every position |
| kernel log (`system/message.c`) | a circular buffer of records | `kmessage_init`, `kmessage` | holds the newest records |
| keyboard (`drivers/input/ps2`, `device/keyboard.c`) | the listener | interrupt handler, `keyboard_transfer_scancode` | only key presses become input |
| terminal (`io/tty.c`) | input and output buffers, the line in `tty_gets` | `tty_create`, listener, `tty_gets`, `tty_putchar` | typed lines arrive complete, in order, in bounds |
| VGA console | cursor, cells | `vga_putchar`, scroll, clean | the cursor stays on the screen; every call ends |
| physical / virtual memory | frame bitmap; page tables | init, find, map, unmap | a frame backs one page; failure rolls back |
| ATA driver | drive registers, sector buffer | init, read, write, sector transfers | bytes land where they were addressed |
| device registry, tree, list | the device tree, the lists handed out | register, unregister, find, sort, destroy | the tree is a tree; found devices are registered devices; nothing but a dropped subtree is lost |
| PCI, SATA | loop counters, `slot_device`, the `pci_device_t`s | scan, probe, base address registers | each function is registered once, with its own registers; a probed register is restored |
| shell | command list, the line, `argv`, `strtok`'s pointer | creation, the loop, seven commands | the words of a line are its arguments; one command runs; the heap is given back |
| interrupts and PIC | gates, listeners, interrupt frames, masks, requests, in-service bits | boot, stubs, dispatch, end of interrupt, `int` | each interrupt returns exactly and is acknowledged; no key is forgotten |
| panic | none | `kpanic` | the reason is shown |

Interactions: everything allocates from the heap, but no interrupt handler
does, so a heap call is atomic. The keyboard handler and the mainline share
`tty->input` without a lock: that is the only data two actors write. Failures
reach a caller as NULL (some callers test it and panic, some do not). Nothing is
persisted, so there is no crash recovery; there are no timeouts.

## Modules

**`KernelHeap`** models `heap.c`. Memory is `hdr`, the header stored at each
heap address; `owned[ptr]` is a history variable, the bytes the holder of `ptr`
was promised. One call is one action: `Malloc`, `MallocAligned`, `Realloc`,
`Free`, `EnableHeap`; the pointers passed back include stale ones, ones into the
placement array and ones outside the heap, so the panics of `kfree` and
`krealloc` are part of the model. The caller of the two is the holder of the
pointer or has a stale one (`Callers`), which the code cannot tell apart when the
block was handed out again, and does not try to in `krealloc`. A stale caller that
is served ends the behaviour in `shared`: from then on somebody writes into memory
that is free or another's. The steps inside a call are operators on
header memory with the names of what they do (`PadBlock`, `TakeBlock`, `Absorb`,
`FreeBlock`). Sizes and addresses wrap at `Word` exactly where an unchecked
request can make them wrap. The pointer arithmetic at `heap.c:279`, which
advances by headers instead of bytes, is kept.

**`CircularBuffer`** holds the buffer operations as operators on the structure;
**`MessageLog`** composes them into the kernel log (calls are atomic, only the
mainline logs); the message texts become lengths, cut as the code cuts them.
`kmessage_init` is the first allocation of the kernel and always succeeds.

**`Tty`** models keyboard input. The handler is one action (`Key`): it runs
behind an interrupt gate. The mainline is taken apart at every access to the
shared buffer: `Poll`, `Copy`, `DecrementSize` (or `LoadSize`, `StoreSize`),
`AdvanceHead`, `HandleChar`. `cb->size -= 1` races with the handler's increment;
C allows the compiler one read-modify-write instruction or a load and a store,
and the constant `SplitUpdate` selects which. `HeapMayFail` lets `kmalloc` and
`krealloc` return NULL. A release code reads the scan code map behind its end,
so its keycode is any character. A character is named by the scan code of its
key. `accepted`, `taken` and `returned` are history variables; `Edited` is the
reference for editing, a function of the characters taken.

**`BoundedQueue`** is the abstract specification of the keyboard queue.
`ImplementsQueue` states that `Tty` implements it under the mapping
`queue <- Waiting`, the buffer's contents once the head has caught up.
In `Tty` the echo of Backspace may never come back (`hang`; `Vga` says when), and neither
may a command (`fault`; `Shell` and `Interrupts` say which).

**`Vga`** models the text console: `cells` is video memory, `pos` the cursor as
a cell index. The mainline is a loop of prompt, reading (`EchoGlyph`,
`EchoBackspace`, `EchoEnter`), command output and `clear`; the cleaning loop
goes through `vga_putchar` cell by cell, as in the code, and its last character
scrolls. Every character goes through `MoveCursor`, the end of `vga_putchar`.

**`Vmm`** models physical and virtual memory during the boot, one loop round per
step: `pmm_init` and `MarkRegion` (regions in bytes, truncated to the word; only
the first `MaxRegions` in the order of `pmm_memory_region_compare` are `Recorded`),
`vmm_init` and `MapLinear`, `EnablePaging`, then `vmm_map_memory` as
`kheap_init`, its only caller, calls it: the search for pages, `MapHeapPage`, and
`vmm_unmap_page` for the rollback. `used` is the set of bits set in the bitmap,
`pages[p]` the frame in the entry of page `p`, `tables` the page tables that
exist. A failed `kmalloc` ends in `panic`, a NULL from `vmm_map_memory` in
`refused` (the panic of `kheap_init`), a read through NULL in `fault`.

**`Ata`** models the ATA driver: `ata_init_device` for each drive, then calls of
`ata_read` and `ata_write` taken apart at every wait for the drive
(`ReadCommand`, `ReadData`, `WriteCommand`, `WriteData`, one round of the loop
per sector). The drives are external: `busy[d]` is BSY, `cmd[d]` the command at
work, and `DriveReady` clears BSY at any time. A drive ignores a command that
reaches it while busy, and is busy again while it stores the data of a write,
for which the driver does not wait; `lost` records that this happened in a call.
A byte is named by the call and the position it came from, so `WriteExact` and
`ReadExact` compare every byte of every drive with a flat array. The steps of
`ata_read` and `ata_write` that are the same code are the same action. A drive has
any number of sectors; the driver knows its size modulo `Word`. A copy that leaves
the sector buffer or the caller's (`Beyond`) ends in `wild`.

**`Interrupts`** models how an interrupt reaches the kernel, from `kmain` on:
`idt_init`, `pic_8259_init`, `ps2_keyboard_init`, `sti`, and then `isr_stage1`,
`isr_stage2`, `Acknowledge`, `Return` for each entry. `stack` is the sequence of
the words pushed, so an entry and its exit can disagree; an exit through other
words than a return address ends in `wild`. Handlers run behind interrupt gates
with `iret` right after `sti`, so one entry is undone before the next. The
processor and the 8259 pair are external: requests are latched, a line is offered
when it outranks all in service, an EOI clears the most urgent line in service,
and a line withdrawn too late gives a spurious interrupt. An exception returns to
the instruction that raised it, which raises it again. The keyboard sends one
byte at a time; `early` records a byte from before `pic_8259_init`. Exception 17,
whose stub also takes no error code, cannot be raised in ring 0 and is not among
`Faults`.

**`GenericTree`** and **`LinkedList`** hold the operations on pointers as
operators on a memory. Loops and recursions over the pointers (`Chain` along the
siblings or a list, `Visit` over the tree, with the nodes still to be visited in
place of the stack) repeat one step as often as there are cells, which is enough
where nothing is met twice. **`Devices`** is the registry on top of them, with cells
from `kmalloc` that keep their content when freed. **`DeviceRegistry`** is its
abstract specification: a function from each registered device to the one it is
below. **`Pci`** drives it: `device_init`, `vga_init`, `ps2_keyboard_init`, the
loops of `pci_init` one function per step, with addresses and registers computed
as in the code, `ata_init`, and then any calls of drivers: registration and
removal, searches, use and sorting of the lists, `sata_init`, `pci_load_bar_info`.
`sata_init`, `device_unregister`, the sort and the base address registers have no
caller in the kernel yet; they are called here as their declarations allow. An
allocation that fails ends in `panic`, or in `fault` where `pci_init` does not
test it. `ImplementsRegistry` uses `under <- UnderBar`, read off the pointers.

**`Shell`** models `shell_create` and `shell_execute`: a line is a sequence of
blanks and words; `strtok` with its static pointer works on it in place; the list
of commands is searched and the command called. `live` counts the blocks the
shell holds of each kind on a heap with room for `HeapBlocks`. `taken` is whether
the driver accepted an ATA request: it keeps a sector buffer for each. Numbers
matter in four ways, each a set of words: sizes `kmalloc` may refuse on any heap
(`Large`), sizes that wrap an address around (`Wrapping`), those that are 0 (`Zero`),
and exceptions with an error code (`NoReturn`). Commands that store through NULL end
in `fault`, those that destroy the heap or do not come back in `wild`. The
words that the arguments must be are defined on their own, from the line
(`Words`). The reading of the line is `Tty`, its echo `Vga`, the ATA transfer `Ata`, the `int`
instruction `Interrupts`.

`MCKernelHeap`, `MCMessageLog`, `MCTty`, `MCVga`, `MCVmm`, `MCAta`,
`MCInterrupts`, `MCPci`, `MCShell` are the model-checking instances; `MCVmm` adds
the memory maps, `MCAta` the requests, `MCPci` the devices and registers,
`MCShell` the lines, `MCTty` the keys.

Definitions marked `Defect:` are faulty variants of the definition below them.
The specifications do not use them; substituting one must violate the property
it is paired with in `PROJECT.json`.

## Runs

| Run | Shows | Bounds |
| --- | --- | --- |
| `heap` | tiling; until a stale pointer is served: separation, no leak, in use exactly when held, held blocks stable | heap of 24 bytes with 2-byte headers: up to six blocks; sizes that fit exactly, leave less than, exactly and more than a header, and zero |
| `heap_aligned` | placement allocations, and aligned allocation without `kfree`, give separate memory | array of 14 bytes not starting at a page boundary, heap of four pages |
| `message_log` | the log holds the newest records | 3 records, 7 messages: wraps twice |
| `tty` | order, bounds, editing, the queue, every Enter returns a line unless a Backspace or a command before it hangs | 2 slots, 5 accepted keys: the buffer fills and wraps, the line buffer grows twice |
| `tty_race` | what survives a split decrement and a failing heap | as `tty` |
| `vga` | the cursor stays on the screen, nothing is left behind it, the line shown is the line typed, Backspace returns where the prompt is in the corner | 3 x 2 cells, lines of 6: wraps, scrolls inside a line |
| `vmm` | frames not shared, kernel stays mapped, free frames are memory of recorded regions; `FramesAccounted`: exact count, refusal only when full, rollback complete | 18 pages of 4 bytes, tables of 3 pages, a heap of 5 pages over two tables; memory of every size around the heap, with and without a hole; maps of up to six regions with room for five records |
| `ata` | exact reads and writes; `InBounds`: no use beyond the caller's buffer but for the two kinds of request known to; every call ends | two drives of every kind, of 2 and of 5 sectors of 3 bytes with a word of 12, so that the size of the second is truncated to 3; two calls; ranges at every position in a sector, over all sectors, behind the drive, up to the end of the word, around it, and around it into the same sector, and empty ones |
| `interrupts` | exact return, acknowledgement, no key forgotten; `LinesServed`: the keyboard is served, and every line of the master while the cascade is not stuck | lines 0, 1, 4, 7 of the master and 14 of the slave, every set of masks at the start; exceptions with and without an error code; `int` on both sides of its bounds |
| `int_command` | **violation**: `int 8` and `int 13` do not come back | as `interrupts` |
| `devices` | `RegistrySound`: tree and lists sound, searches right; only orphans lost; `ScanExact`: PCI functions registered once, messages in their buffer; base address registers restored, and what is told of them; refinement of the registry | positions 0:2 and 0:12, two functions, every occupation; 12 cells, so that the boot fits and the calls after it run out of memory; two calls after the boot; registers for ports and memory, of every kind, with and without upper bits wired to 0, and at the bounds of the index |
| `shell` | `CommandExact`: arguments, one command, no stale pointer; `ResourcesExplained`: only known leaks, faults and ways astray | all lines of up to five words and blanks over seven words; room for five blocks, so that leaks exhaust it |

The heap, `vga` and `vmm` runs are exhaustive: their state is finite and needs
no bound on the number of calls. `MaxKeys` and `MaxMessages` bound the history
variables only, `MaxCalls` the calls of the driver (the second meets the drive as
the first left it, storing or not), `MaxLine` the line typed, which is longer than a row. `MaxCalls` in `devices` lets a removal follow a registration and a list outlive a removal. `interrupts` and `shell` need no bound on their length.
The scan codes stand for Enter, Backspace, a letter, punctuation that the line
ignores, a key without a character, a release, and a code without meaning.

Fairness: `WF_vars(Mainline)` in `Tty`, nothing else there. The processor keeps executing the
mainline between interrupts, and the interrupt handler is finite; nobody has to
press a key. `EnterReturnsLine` needs no more. `Ata` has `WF_vars(Driver)`, the
same processor, and weak fairness of `DriveReady`: a drive clears BSY in the
end. The driver polls without a timeout, so it depends on that; nobody has to
call it. `Interrupts` has weak fairness of the boot and the handlers (the
processor runs) and strong fairness of `Deliver` (it looks for interrupts before
every instruction, and the line may be outranked in between); the properties
assume `QuietAbove`: the more urgent lines leave some time. The rest has none:
`Shell` has no liveness property, because a command need not come back.

A property that joins several parts (`FramesAccounted`, `InBounds`, `LinesServed`,
`RegistrySound`, `ScanExact`, `CommandExact`, `ResourcesExplained`) is a
conjunction of named ones, each with its own comment in the module.

Deadlock is checked everywhere except `message_log`, which ends when its
messages are used up.

### Findings

`int_command` is a disagreement between the code and its documentation: the
command `int`, offered for testing the interrupt table, executes an instruction
that pushes no error code, while the stubs of 8 and 10 to 14 count on one.

Weaknesses of the code that the models show, and that the properties work
around by a condition, a bound or a constant:

- A request near 2^32 passes the fit test of the heap by wrapping around
  (`SmallRequests` excludes it; `ataread` can make one, `Wrapping`).
- `krealloc` returns a block that is large enough without a look at its free flag
  (`heap.c:205`), and neither it nor `kfree` can tell a stale pointer from the new
  holder's when the memory was handed out again (`shared`).
- If the compiler splits `cb->size -= 1`, a key press at the wrong moment is lost
  from the count, and the last character typed waits for another key
  (`EnterReturnsLine` does not hold with `SplitUpdate`).
- Backspace tests the second cell of the screen instead of the one it erases:
  once that cell is empty, it never returns (`hang`; `TopLineErasable` says where
  it does return).
- When memory runs out under the heap, the rollback visits pages without a page
  table and reads their entry through NULL (`fault` in `Vmm`).
- An aligned allocation that takes the rest of a block whole leaves the block
  behind it with a stale `prev`; freeing that block then cuts the allocation off
  the list (add `"kfree"` to `Workload` in `KernelHeapAligned.cfg`). Today only
  the boot code allocates aligned, from the placement array.
- `pmm_init` computes the number of frames from the last byte, so the last frame
  is in the bitmap and not in the counter; memory there would make the counter
  wrong by one (`TopReserved` excludes it).
- Memory regions are truncated to 32 bits, so one behind 4 GB frees frames that
  are not memory, and the frame a region ends inside is freed whole. The maps of
  `vmm` have neither, except in real mode memory, which is reserved again, and
  `FreeMemoryIsRam` assumes it (`PlainMaps`).
- `pmm.c:62` allocates `region_size * region_size` bytes for the regions, 12
  records. Those of a longer map overrun into the bitmap, allocated next, and are
  destroyed when it is filled: their memory is never used (`Recorded`). What is
  then read in their place are bytes of the bitmap, which are no available region
  unless the recorded regions leave frame 64 in use and 65 to 95 free.
- `ata_read` and `ata_write` compute `address + size` in 32 bits. A request that
  ends exactly at 2^32 passes the test and reaches sectors that are not there. One
  of size 0 at address 0 loops over the whole word, and one that wraps around into
  the sector it begins in copies almost 2^32 bytes; both leave the buffers (`wild`,
  which `InBounds` allows for these two). `ataread` passes on the numbers typed.
- The size of a drive is a product of 32 bits (`ata.c:194`): of a drive of 4 GB or
  more only the first bytes, as many as the remainder, can be read or written.
- After a write the driver does not wait for the drive to store the data: a command
  sent too early is lost, and the bytes read then are not those of the sector
  (`lost`).
- `tty_gets` checks its first allocation and not the later ones: with
  `HeapMayFail` the store through NULL ends the behaviour in `fault`. So do the
  unchecked allocations of `pci_init`, of `argv` and of the buffer of `ataread`,
  and an ATA command without a drive. An `ataread` larger than the heap gets NULL
  on any heap, and so does one of size -1, for which `read_size + 1` is 0.
- Commands need not come back: `int` with the number of an exception with an error
  code, `ataread 0 0`, and the faults just named. A line typed after one of them,
  or after a Backspace that hangs, is never returned (`EnterReturnsLine` says so).
- A blank line leaks its `argv`, an accepted ATA request its sector buffer
  (`OnlyKnownLeaks` counts them): in the end the heap is exhausted.
- An interrupt of the slave is acknowledged at the slave only. The cascade stays
  in service, and the lines of the slave and those below the cascade are never
  delivered again; the timer and the keyboard are (`OnlyCascadeLeft`,
  `MasterServed`).
- A key pressed before `pic_8259_init` blocks the keyboard (`early`).
- `device_unregister` forgets the devices below the one it removes.
- The message of `pci_init` is longer than its buffer when a device with
  four-digit identifiers is at a bus or slot with two digits (`MessageFits`).
- `pci.c:170` masks the type of a base address register with `0x3` and so accepts
  those of 64 bits, which `pci.h:43` gives as `0x04`. The size of a port register
  whose upper bits are wired to 0 comes out too large, its address is cut to the 16
  bits of `io_port` (`pci.h:73`), and the address of a memory register keeps the
  flags. `BarProbed` says exactly this, and nothing of registers of 64 bits.
- `linked_list_pop_tail` takes out and returns the head, not the tail
  (`linked_list.c:116`); it has no caller.

## Proofs

`KernelHeapProofs`, `BufferProofs` (circular buffer, kernel log, keyboard input),
`VgaProofs`, `VmmProofs`, `InterruptsProofs`, `AtaProofs`, `ShellProofs`,
`PciProofs` (tree, list, registry, scan). Every safety property that a run checks
is stated by a theorem. Recursive functions appear in some of them; that they
satisfy their equations is shown in each module by a least counterexample, since
the library's induction theorems cannot be used with the installed provers.

*Heap.* For every geometry with non-empty headers and a heap below the end of
the address space (`GeometryAssumption`, `AddressSpaceAssumption`), and under two
hypotheses that are needed, as just said (`SmallRequests`: no request wraps;
no aligned request after `kheap_init`), `HeapInv` is inductive: types, tiling,
coalescing, and, until a stale pointer is served (`Unshared`), a block is in use
exactly when its pointer is held and promises fit their blocks. The model goes no
further than the call that serves a stale pointer, so `Unshared` is a condition on
the callers: that they pass only pointers they hold, or ones the code refuses. Tiling alone is not inductive: that a held pointer's block is
there and in use is what makes `kfree` join only free memory. From it follow
`HeapAlwaysTiled`, `UseIsOwnership`, `AllocationsSeparate`,
`FreedHeapIsWhole` (a free heap that is tiled and coalesced is one block),
`WalkMeetsAllBlocks` and `HeldBlocksKept`. `PlacementsSeparate` uses
`PlacementInv`: allocations lie below the head, and the head and the free bytes
add up to the end of the array.

*Circular buffer.* Enqueue appends to the contents and dequeue drops the first,
for every capacity, given `TailFollows` (the tail is head plus size, modulo the
capacity). `LogHoldsNewest` follows with `LogInv`.

*Keyboard input.* `SizeInv` is inductive in every build: behind the two tests
for an empty buffer there is a character, and a size already loaded is no larger
than what is there. Hence `TtyTypeCorrect` and `SizeIsNeverOver`, split decrement
or not. `QueueInv` is inductive when the decrement is one instruction: the
character copied is still the oldest although the handler may have added others;
it gives `InputStaysInOrder` and the refinement `TtyImplementsQueue`.
`LinesStayInBounds` rests on `LineInv` and assumes that `krealloc` succeeds.
`LinesReturnedAsTyped` holds in every build and with a failing heap. Its
invariant `TypedInv` adds the line in progress: the characters in `text` are what
`Edited` has after the keys taken, so that a return of `tty_gets` adds the right
line; one more key is one more `Edit`.

*Console.* For every screen of more than one cell, `VgaInv` is inductive: besides
the three properties it says how far the cleaning loop is (cells before `n` are
empty) and that a prompt starts with an empty line. All movements go through
`CursorMoved`: screen and cursor move up together, by nothing or by a row;
`NextRow` is the arithmetic of a new line. `CursorOnScreen`, `ScreenBlankAhead`
and `TypedLineShown` follow. `TopLineStaysErasable` adds `PromptShown` to it: the
space of the prompt stays in front of the line while that much of it is on the
screen. When the prompt is in the corner, that space is the cell Backspace looks
at; without `PromptShown` nothing says that the cell is not empty.

*Memory.* For every layout that has room for the heap in kernel space
(`VmmAssumption`) `VmmInv` is inductive: linear pages map to their frames, which
stay reserved; what is mapped is reserved until a failure; the pages found for
the heap are not linear. `NoFrameShared` and `KernelStaysMapped` follow.
`FreeMemoryIsRam` adds `RamInv` and assumes `PlainMaps`: no available memory
behind 4 GB, no empty available region, and regions at page boundaries except in
real mode memory. All are needed, and the code ensures none. Maps may have any
length; memory means the regions recorded, so a map with more of them than records
only has less of it.
`FramesStayAccounted` assumes `TopReserved` as well: no available memory in the
last frame of the address space (where a PC has its firmware), because `pmm_init`
leaves that frame out of its counter but not out of its bitmap. It is inductive
with two more parts. `CountInv` says that the counter is the number of counted
frames in use and that pages only use counted frames, so that giving a frame back
counts down. `AccountInv` follows the memory through the boot: in use as long as
its region has not been looked at, free until the heap is mapped, then exactly the
frames of the pages mapped so far, and in the rollback at most those of the pages
not yet unmapped. A refusal needs the further fact that no memory is left behind
`from`, where the search for the next frame begins: the frames found so far are
then all the memory there is, one page each, and fewer than the heap needs.

*Interrupts.* For every set of devices and exceptions, and under `PlainEntries` (no
`int` with the number of an exception with an error code, which `int_command`
shows to be needed, and no exception 17), `Inv` is inductive. `StackInv` gives the
words on the stack at each stage, so that after the stub the frame has seven
words whether or not the processor pushed an error code. `ServiceInv` says that
besides the cascade at most the line of the gate is in service, and that it is
the one an EOI clears: without it an EOI could clear the cascade instead and
`OnlyCascadeLeft` is not inductive. `OfferedLine` gets that from the priorities of
the controllers. `EveryEntryUndone`, `LinesAcknowledged` and `NoKeyForgotten`
follow; the last needs that the line in service is the keyboard's exactly when
the gate is, so the listener that reads the byte is the one called.

*ATA.* For every number of drives, every size of each, and every request
(`AtaAssumption`: the sector size divides the word), `AtaInv` is inductive. `LoopInv` says that what the loop has
transferred is what lies before the first byte of its next sector, and that a
request which is accepted and not `Served` has wrapped around and has no sector
after its first, or is `Astray`: for it the first copy is `Beyond` (`AstrayBeyond`)
and the call never returns. `CommandInv` says that between its two commands the driver has
the sector as it will be, although the drive may meanwhile change BSY at any
time, and that the drive is at the command the driver waits for. `ContentInv` and
`OutInv` say which bytes have reached the drive, counting the sector it is still
storing (`Settled`), and the caller. The last three hold while no command was
lost; the bounds hold without that. The arithmetic of a round is in
`Round`, `SectorCount` and `RequestRange`. `CopiesInBounds`, `WritesExact` and
`ReadsExact` follow: the loops over sectors implement a flat array of bytes.

*Shell.* For every set of lines in which words are apart and every size of the
heap (`ShellAssumption`), `ShellInv` is inductive. `ParseInv` says how far the
line is split: behind `strtok`'s pointer it is untouched, the arguments so far
are the words so far, each at its first place, and `num_ws`, by which `argv` is
sized, is the number of blanks, so that there is a place for each argument.
`LookupInv` follows the search: before it nothing ran, and once a command ran it
was the one with the name, and the cursor is behind it, so that no second one
can match (`SevenNames`: the names differ). `BlocksInv` counts the blocks held at
each stage, the `argv` of blank lines and the sector buffers included.
`LinesTakenExactly` and `LeaksExplained` follow.

*Devices and PCI.* For every machine, number of functions, cells and calls
(`DevicesAssumption`: the root is not a device; `PciAssumption`: positions are
addressable and the boot's devices are devices; `BarsAssumption`: a register
decodes an aligned range, has its flags below it, and has the bits from `top`
up wired to 0), `PciInv` is inductive.

- `TreeRep` says that the pointers are a tree: there is a function from each node
  to the nodes reached from it along `child` and `slide`, and for each node what
  is reached from the child, what is reached from the slide and the node itself
  are apart and together that; and the children of a node have it as parent. This
  takes the place of an induction over the tree: `VisitWalk` shows that each step
  of a visit keeps what is met, what is still to be met from the nodes on the
  stack, and nothing twice, so the visit is over after as many steps as there are
  nodes. `ChainWalk` and `ChainOf` do the same for siblings and lists.
- `InsertTree` and `RemoveTree` show that `generic_tree_insert` hangs a leaf at
  the only free pointer there (`GrownTree`), and that `generic_tree_remove` takes
  out a node and all below it, and nothing else (`CutTree`, with `PointedOnce`:
  only one pointer leads to a node). `AppendToList`, `RemoveFromList` and
  `SortOfList` are the operations on lists; sorting exchanges data and changes no
  pointer, whatever the comparison does. `FoundListIs` is the traversal with the
  callback that builds a list.
- `Shaped` joins them: the cells in use are the tree, the list handed out and the
  orphans, apart from each other; data in the tree are distinct; the root holds
  the computer. A leaf operation on one leaves the others alone (`TreeFrame`,
  `ListFrame`).
- `ScanInv` says what is registered at each stage of the boot: in the scan, all
  functions of the positions before the one at hand, those of this one up to the
  function at hand, none behind; and `slot_device` is the first of the slot.
  `AddressOf` is the arithmetic of the configuration addresses, for every bus,
  slot and function.

`PciStep` shows for each action that it keeps `PciInv` and registers one device,
takes one out with all below it, or leaves the registered devices alone; the
refinement `TreeImplementsRegistry` is that and no more. `RegistryIsSound`,
`LostOnlyBelowUnregistered` and `ScanFindsAll` follow from `PciInv`.
`RegistersProbed` is the arithmetic of probing (`ProbeGives`): what a register
holds after all ones are written, negated, is its size and what the bits wired to 0
at the top stand for.

Only model-checked:

- liveness (`EnterReturnsLine`, `CallReturns`, `LinesServed`), which is
  out of the prover's reach;
- aligned allocation from the heap, after `kheap_init` and without `kfree`: the
  theorems about the heap assume that there is none.

## Not modelled

Payload bytes, message texts, output formatting, the hardware cursor; what `kpanic` prints
and allocates (a panic ends the model's run); undefined behaviour after a write
through NULL (the model stops). The segment table, the task state segment, port
I/O, random numbers, UUIDs and the remaining string helpers keep no state worth a
property. `generic_tree_destroy`, `isr_unregister_listener`, `pic_8259_mask_irq`,
`circular_buffer_destroy` and the array type have no caller. `shell_destroy` and
`tty_destroy` stand behind an endless loop.

## Plan

The components with state are modelled, and every safety property that a run
checks is proved for every instance. Left for later: an inductive invariant for
aligned allocation from the heap, once the code repairs the stale `prev`.
