---------------------------------- MODULE Vmm ----------------------------------
(***************************************************************************)
(* Physical and virtual memory while the kernel boots: pmm_init, vmm_init  *)
(* and vmm_map_memory as kheap_init, its only caller, calls it             *)
(* (kernel/src/memory/pmm.c, vmm.c, heap.c).                               *)
(*                                                                         *)
(* Interrupts are off, so the only order is the order of the code; a step  *)
(* is one round of a loop.  Addresses and sizes in the memory map of the   *)
(* boot loader are bytes; pages and frames are counted by their index.     *)
(* Page entries carry the flags present and used, which are only ever set  *)
(* together, so an entry is the frame or Absent.                           *)
(***************************************************************************)
EXTENDS Integers, FiniteSets

CONSTANTS
    PageSize,     \* bytes in a page
    NumPages,     \* pages, and frames, of the address space
    TableSize,    \* pages of one page table
    KernelBase,   \* the first page of kernel space
    RealPages,    \* pages of real mode memory
    KernelSize,   \* bytes between kernel_virtual_start and kernel_virtual_end
    HeapSize,     \* KHEAP_HEAP_SIZE
    MaxRegions,   \* records pmm_memory.regions has room for
    MemoryMaps    \* what the boot loader may report, a set of regions each

\* Defect: the last, partly filled page is left out.
DivDown(a, b) == a \div b

div_up(a, b) == (a + b - 1) \div b

Word == PageSize * NumPages                          \* 2^32
Page == 0 .. NumPages - 1
Frame == Page
num_memory_frames == (Word - 1) \div PageSize        \* PMM_PAS_SIZE is 2^32 - 1
Absent == NumPages

Region == [base : Nat, length : Nat, available : BOOLEAN]
KernelPages == div_up(KernelSize, PageSize)
LinearPages == KernelBase .. KernelBase + RealPages + KernelPages - 1
HeapPages == div_up(HeapSize, PageSize)

ASSUME VmmAssumption ==
    /\ PageSize \in Nat \ {0, 1} /\ NumPages \in Nat /\ TableSize \in Nat \ {0}
    /\ KernelBase \in Nat \ {0} /\ RealPages \in Nat \ {0}
    /\ KernelSize \in Nat \ {0} /\ HeapSize \in Nat \ {0}
    /\ KernelBase + RealPages + KernelPages + HeapPages <= NumPages
    /\ MaxRegions \in Nat /\ MemoryMaps \subseteq SUBSET Region
    /\ \A m \in MemoryMaps :
          IsFiniteSet(m) /\ \A r, s \in m : r.base = s.base => r = s

VARIABLES
    mmap,      \* the memory map of this machine
    pc,        \* where the boot has got to
    todo,      \* the regions pmm_init has not looked at yet
    used,      \* the frames whose bit is set in the bitmap
    num_used,  \* num_memory_frames_used
    pages,     \* the page entries
    tables,    \* the page tables that exist
    i,         \* loop variable, in pages
    heap,      \* the page vmm_find_free_memory found
    from       \* physical_address, the frame the search for frames starts at

vars == <<mmap, pc, todo, used, num_used, pages, tables, i, heap, from>>
frameVars == <<used, num_used>>
pageVars == <<pages, tables>>
callVars == <<heap, from>>

-----------------------------------------------------------------------------
(* Frames *)

\* Defect: the frame behind the region belongs to it.
RegionFramesThroughEnd(r) ==
    ((r.base % Word) \div PageSize)
        .. ((((r.base % Word) + (r.length % Word)) % Word) \div PageSize)

\* uint32_t base, length: what is left of 64 bits.
RegionFrames(r) ==
    ((r.base % Word) \div PageSize)
        .. ((((r.base % Word) + (r.length % Word) - 1) % Word) \div PageSize)

pmm_mark_frame_reserved(f) ==
    /\ used' = used \cup {f}
    /\ num_used' = IF f \in used THEN num_used ELSE num_used + 1

pmm_mark_frame_available(f) ==
    /\ used' = used \ {f}
    /\ num_used' = IF f \in used THEN num_used - 1 ELSE num_used

FreeFrames(start) == {f \in start .. num_memory_frames - 1 : f \notin used}

\* The address of frame 0 is NULL: a caller takes it for a failure.
FindsFrame(start, f) ==
    /\ f \in FreeFrames(start) \ {0}
    /\ \A g \in FreeFrames(start) : f <= g

FindsNoFrame(start) == FreeFrames(start) = {} \/ 0 \in FreeFrames(start)

\* The order the regions are sorted in, by what is left of 64 bits.
pmm_memory_region_compare(r, s) ==
    \/ r.base % Word < s.base % Word
    \/ /\ r.base % Word = s.base % Word
       /\ \/ r.length % Word < s.length % Word
          \/ r.length % Word = s.length % Word /\ r.base < s.base

(***************************************************************************)
(* The regions pmm_init sees.  The code allocates sizeof(record) records,  *)
(* whatever the length of the map; the records behind them lie in the      *)
(* bitmap, which is allocated next, and are gone when it is filled.  What  *)
(* is read there instead is no available region, unless the map leaves     *)
(* frame 64 used and all of 65 to 95 free, a case left out.                *)
(***************************************************************************)
Recorded ==
    {r \in mmap : Cardinality({s \in mmap : pmm_memory_region_compare(s, r)}) < MaxRegions}

\* pmm_init: the bitmap is filled ...
pmm_init ==
    /\ pc = "pmm"
    /\ used' = Frame /\ num_used' = num_memory_frames
    /\ todo' = {r \in Recorded : r.available}
    /\ pc' = "regions"
    /\ UNCHANGED <<mmap, pageVars, i, callVars>>

\* kmalloc has no room for the regions, the bitmap or the page directory.
AllocationFails ==
    /\ pc = "pmm" \/ (pc = "regions" /\ todo = {})
    /\ pc' = "panic"
    /\ UNCHANGED <<mmap, todo, frameVars, pageVars, i, callVars>>

\* ... and the frames of the available regions are cleared.  The code sorts
\* the regions first; the result does not depend on the order.
MarkRegion ==
    /\ pc = "regions"
    /\ \E r \in todo :
          /\ used' = used \ RegionFrames(r)
          /\ num_used' = (num_used - Cardinality(used \cap RegionFrames(r))) % Word
          /\ todo' = todo \ {r}
    /\ UNCHANGED <<mmap, pc, pageVars, i, callVars>>

-----------------------------------------------------------------------------
(* Pages *)

TableOf(p) == p \div TableSize

vmm_map_page(p, f) ==
    /\ tables' = tables \cup {TableOf(p)}
    /\ pages' = [pages EXCEPT ![p] = f]

\* kmalloc finds no room for a page table.
NoTable(p) ==
    /\ TableOf(p) \notin tables
    /\ pc' = "panic"
    /\ UNCHANGED <<mmap, todo, frameVars, pageVars, i, callVars>>

vmm_init ==
    /\ pc = "regions" /\ todo = {}
    /\ pages' = [p \in Page |-> Absent] /\ tables' = {}
    /\ i' = 0
    /\ pc' = "linear"
    /\ UNCHANGED <<mmap, todo, frameVars, callVars>>

\* Real mode memory, and the kernel right behind it, are mapped linearly.
MapLinear ==
    LET p == KernelBase + i
    IN  /\ pc = "linear" /\ i < RealPages + KernelPages
        /\ \/ /\ vmm_map_page(p, p - KernelBase)
              /\ pmm_mark_frame_reserved(p - KernelBase)
              /\ i' = i + 1
              /\ UNCHANGED <<mmap, pc, todo, callVars>>
           \/ NoTable(p)

\* The processor starts to use the new directory.
EnablePaging ==
    /\ pc = "linear" /\ i = RealPages + KernelPages
    /\ pc' = "paging"
    /\ UNCHANGED <<mmap, todo, frameVars, pageVars, i, callVars>>

vmm_is_page_used(p) == pages[p] # Absent

\* Addresses wrap around at the end of the address space.
PageAt(base, offset) == (base + offset) % NumPages

FitsAt(p) ==
    \A o \in 0 .. HeapPages - 1 :
        /\ PageAt(p, o) * PageSize < Word - 1
        /\ ~vmm_is_page_used(PageAt(p, o))

\* The search succeeds, as kernel space has room for the heap (VmmAssumption).
vmm_find_free_memory ==
    /\ pc = "paging"
    /\ \E p \in KernelBase .. NumPages - 1 :
          /\ FitsAt(p) /\ \A q \in KernelBase .. p - 1 : ~FitsAt(q)
          /\ heap' = p
    /\ pc' = "find"
    /\ UNCHANGED <<mmap, todo, frameVars, pageVars, i, from>>

FindFirstFrame ==
    /\ pc = "find"
    /\ \/ \E f \in Frame : FindsFrame(0, f) /\ from' = f /\ pc' = "map"
       \/ FindsNoFrame(0) /\ pc' = "refused" /\ UNCHANGED from
    /\ i' = 0
    /\ UNCHANGED <<mmap, todo, frameVars, pageVars, heap>>

\* Defect: the frame is not reserved.
MapUnreserved ==
    /\ pc = "map" /\ i < HeapPages
    /\ \E f \in Frame : FindsFrame(from, f) /\ vmm_map_page(PageAt(heap, i), f)
    /\ i' = i + 1
    /\ UNCHANGED <<mmap, pc, todo, frameVars, callVars>>

\* One round of the loop of vmm_map_memory.
MapHeapPage ==
    LET p == PageAt(heap, i)
    IN  /\ pc = "map" /\ i < HeapPages
        /\ \/ /\ \E f \in Frame :
                    /\ FindsFrame(from, f)
                    /\ vmm_map_page(p, f)
                    /\ pmm_mark_frame_reserved(f)
              /\ i' = i + 1
              /\ UNCHANGED <<mmap, pc, todo, callVars>>
           \/ (\E f \in Frame : FindsFrame(from, f)) /\ NoTable(p)
           \/ /\ FindsNoFrame(from)
              /\ i' = 0 /\ pc' = "rollback"
              /\ UNCHANGED <<mmap, todo, frameVars, pageVars, callVars>>

HeapMapped ==
    /\ pc = "map" /\ i = HeapPages
    /\ pc' = "ready"
    /\ UNCHANGED <<mmap, todo, frameVars, pageVars, i, callVars>>

\* Defect: the frame is not given back.
UnmapKeepingFrame ==
    /\ pc = "rollback" /\ i < HeapPages
    /\ i' = i + 1
    /\ UNCHANGED <<mmap, todo, pc, frameVars, pageVars, callVars>>

\* vmm_unmap_memory visits every page of the heap, mapped or not.  The entry
\* of a page without a table is read through NULL.
vmm_unmap_page ==
    LET p == PageAt(heap, i)
    IN  /\ pc = "rollback" /\ i < HeapPages
        /\ \/ /\ TableOf(p) \in tables
              /\ IF pages[p] \in {Absent, 0}
                 THEN UNCHANGED frameVars
                 ELSE pmm_mark_frame_available(pages[p])
              /\ i' = i + 1 /\ UNCHANGED pc
           \/ /\ TableOf(p) \notin tables
              /\ pc' = "fault"
              /\ UNCHANGED <<frameVars, i>>
        /\ UNCHANGED <<mmap, todo, pageVars, callVars>>

\* vmm_map_memory returns NULL and kheap_init panics.
RolledBack ==
    /\ pc = "rollback" /\ i = HeapPages
    /\ pc' = "refused"
    /\ UNCHANGED <<mmap, todo, frameVars, pageVars, i, callVars>>

Ended == pc \in {"ready", "refused", "panic", "fault"} /\ UNCHANGED vars

Init ==
    /\ mmap \in MemoryMaps
    /\ pc = "pmm" /\ todo = {}
    /\ used = {} /\ num_used = 0
    /\ pages = [p \in Page |-> Absent] /\ tables = {}
    /\ i = 0 /\ heap = 0 /\ from = 0

Next ==
    \/ pmm_init \/ MarkRegion \/ AllocationFails
    \/ vmm_init \/ MapLinear \/ EnablePaging
    \/ vmm_find_free_memory \/ FindFirstFrame
    \/ MapHeapPage \/ HeapMapped
    \/ vmm_unmap_page \/ RolledBack
    \/ Ended

Spec == Init /\ [][Next]_vars

-----------------------------------------------------------------------------
(* Properties *)

Booting == {"pmm", "regions", "linear"}

\* Every variable keeps to its type.
TypeOK ==
    /\ mmap \in MemoryMaps
    /\ pc \in Booting \cup {"paging", "find", "map", "rollback", "ready", "refused", "panic", "fault"}
    /\ todo \subseteq mmap
    /\ used \subseteq Frame
    /\ num_used \in 0 .. Word - 1
    /\ pages \in [Page -> Frame \cup {Absent}]
    /\ tables \subseteq {TableOf(p) : p \in Page}
    /\ i \in 0 .. NumPages
    /\ heap \in Page /\ from \in Frame

Mapped == {p \in Page : pages[p] # Absent}
LinearFrames == {p - KernelBase : p \in LinearPages}

\* The bytes of frame f lie in one available region of the machine, among those
\* the kernel has a record of.
IsRam(f) ==
    \E r \in Recorded :
        /\ r.available
        /\ r.base <= f * PageSize
        /\ (f + 1) * PageSize <= r.base + r.length

\* What the heap may be put on: memory in regions without a record is never used.
Ram == {f \in Frame : f < num_memory_frames /\ IsRam(f)} \ LinearFrames

\* No two pages share a frame: what vmm_map_memory maps is neither real mode
\* memory nor the kernel's own.
FramesNotShared ==
    \A p, q \in Mapped : pages[p] = pages[q] => p = q

(***************************************************************************)
(* Once paging is on, real mode memory and the kernel are where they were  *)
(* before: the code, its stack and the page tables vmm_map_page looks up   *)
(* stay reachable.                                                         *)
(***************************************************************************)
KernelMapped ==
    pc \notin Booting \cup {"panic"} =>
        \A b \in 0 .. (RealPages * PageSize) + KernelSize - 1 :
            pages[KernelBase + (b \div PageSize)] = b \div PageSize

(***************************************************************************)
(* When the boot code is done with the map, a free frame is memory that    *)
(* the boot loader reported as available, and only that.  Frames at the    *)
(* edge of a region in real mode memory are reserved again by vmm_init.    *)
(***************************************************************************)
FreeFramesAreRam ==
    pc \notin Booting \cup {"panic"} =>
        \A f \in Frame \ used : IsRam(f)

\* num_memory_frames_used is the number of frames marked as used.
UsedCountExact ==
    pc # "pmm" => num_used = Cardinality({f \in used : f < num_memory_frames})

\* The heap is refused only when there is too little memory for it.
RefusedOnlyWhenFull ==
    pc \in {"rollback", "refused", "fault"} => Cardinality(Ram) < HeapPages

(***************************************************************************)
(* A heap that was mapped has every byte on available memory, and nothing  *)
(* else was taken; a heap that was refused keeps nothing.                  *)
(***************************************************************************)
FramesGivenBack ==
    /\ pc = "ready" =>
           Ram \cap used = {pages[heap + (b \div PageSize)] : b \in 0 .. HeapSize - 1}
    /\ pc = "refused" => Ram \cap used = {}

(***************************************************************************)
(* Frames are accounted for: the counter of the bitmap is exact, the heap  *)
(* is refused only for lack of memory, and is mapped whole or given back   *)
(* whole (pmm.c, vmm_map_memory, vmm_unmap_memory).                        *)
(***************************************************************************)
FramesAccounted ==
    TypeOK /\ UsedCountExact /\ RefusedOnlyWhenFull /\ FramesGivenBack
=============================================================================
