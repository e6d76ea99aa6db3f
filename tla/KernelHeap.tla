------------------------------ MODULE KernelHeap ------------------------------
(***************************************************************************)
(* The kernel allocator (kernel/src/memory/heap.c).                        *)
(*                                                                         *)
(* Until kheap_init has run, kmalloc bumps a pointer through the static    *)
(* array kheap_placement_memory.  Afterwards it serves requests from the   *)
(* kernel heap: one mapped region tiled by blocks, each a header           *)
(* (kheap_block_head_t) followed by its payload.  Headers form a doubly    *)
(* linked list in address order.                                           *)
(*                                                                         *)
(* Memory is modelled by the headers that have been written into it: hdr   *)
(* maps every address of the heap to the header fields stored there, or to *)
(* NoHeader where no header carries the magic.  Clearing the magic erases  *)
(* the header: what is left of it lies in the payload of the block that    *)
(* absorbed it, and an intact list never leads there.  Payload bytes are   *)
(* not modelled; owned[ptr] records how many bytes the holder of ptr was   *)
(* promised, 0 when nobody holds ptr.                                      *)
(*                                                                         *)
(* A caller need not hold the pointer it passes.  The code panics when the *)
(* block is found to be gone, but it cannot tell callers apart: a stale    *)
(* pointer to memory that was handed out again, or one given to krealloc   *)
(* that nobody holds, is served.  The model makes such a step and stops    *)
(* there as "shared": from then on somebody writes into memory that is     *)
(* free or another's, and may destroy any header.                          *)
(*                                                                         *)
(* The allocator has no lock and needs none: interrupt handlers neither    *)
(* allocate nor free, so one call is one action.                           *)
(***************************************************************************)
EXTENDS Integers, FiniteSets

CONSTANTS
    Word,            \* 2^32: addresses and sizes are taken modulo Word
    HeaderSize,      \* sizeof(kheap_block_head_t)
    PageSize,        \* PAGE_SIZE
    HeapBase,        \* what vmm_map_memory returns to kheap_init
    HeapSize,        \* KHEAP_HEAP_SIZE
    PlacementBase,   \* address of kheap_placement_memory
    PlacementSize,   \* KHEAP_PLACEMENT_SIZE
    Sizes,           \* the request sizes of the callers
    Workload         \* the operations the callers use once the heap is on

NULL == 0
KHEAP_MAGIC == 1   \* any value that is not 0
HeapEnd == HeapBase + HeapSize
PlacementEnd == PlacementBase + PlacementSize
HeapAddr == HeapBase .. HeapEnd - 1
PtrAddr == HeapBase .. HeapEnd     \* where the payload of a block can start
Operations == {"kmalloc", "kmalloc_align", "krealloc", "kfree"}

ASSUME GeometryAssumption ==
    /\ HeaderSize \in Nat \ {0} /\ PageSize \in Nat \ {0}
    /\ HeapBase \in Nat /\ HeapSize \in Nat /\ PlacementBase \in Nat \ {0}
    /\ PlacementSize \in Nat \ {0}
    /\ HeaderSize < HeapSize
    /\ PlacementEnd < HeapBase
    /\ HeapBase % PageSize = 0

(***************************************************************************)
(* The heap lies far enough below the end of the address space for the     *)
(* addresses of the heap itself not to wrap; only a request size can.      *)
(***************************************************************************)
ASSUME AddressSpaceAssumption ==
    /\ Word \in Nat
    /\ HeapEnd + HeaderSize * HeaderSize + HeaderSize + PageSize < Word

ASSUME RequestAssumption ==
    /\ Sizes \subseteq 0 .. Word - 1
    /\ Workload \subseteq Operations

Header == [magic : {0, KHEAP_MAGIC}, size : 0 .. Word - 1, free : BOOLEAN,
           prev : 0 .. Word - 1, next : 0 .. Word - 1]

\* Heap memory that holds no header.
NoHeader ==
    [magic |-> 0, size |-> 0, free |-> FALSE, prev |-> NULL, next |-> NULL]

VARIABLES
    placement_head,  \* kheap_placement_memory_head
    placement_free,  \* kheap_placement_memory_free_memory
    placed,          \* the <<pointer, size>> pairs handed out of the array
    kheap_enabled,   \* kheap_enabled
    hdr,             \* the headers in heap memory
    kheap_tail,      \* kheap_tail
    owned,           \* owned[ptr]: bytes the holder of ptr may use
    panic            \* "none", the KPANIC the kernel stopped with, or "shared"

placementVars == <<placement_head, placement_free, placed>>
heapVars == <<hdr, kheap_tail, owned>>
vars == <<placementVars, kheap_enabled, heapVars, panic>>

-----------------------------------------------------------------------------
(* 32-bit arithmetic and alignment *)

Add32(x, y) == IF x + y < Word THEN x + y ELSE x + y - Word
Sub32(x, y) == IF y <= x THEN x - y ELSE Word + x - y

paging_is_aligned_address(a) == a % PageSize = 0

paging_align_address_up(a) ==
    LET x == a + PageSize - 1 IN x - (x % PageSize)

-----------------------------------------------------------------------------
(* The placement array *)

kheap_is_placement_memory(ptr) == PlacementBase <= ptr /\ ptr < PlacementEnd

PlacementPadding(align) ==
    IF align THEN paging_align_address_up(placement_head) - placement_head ELSE 0

\* Defect: the padding is added to the address but not to the head.
PlacementWithoutPadding(size, align) ==
    /\ \/ size > placement_free /\ UNCHANGED placementVars
       \/ /\ size <= placement_free
          /\ placement_head' = placement_head + size
          /\ placement_free' = placement_free - size
          /\ placed' = placed \cup {<<placement_head + PlacementPadding(align), size>>}
    /\ UNCHANGED <<kheap_enabled, heapVars, panic>>

kmalloc_placement_base(size, align) ==
    LET padding == PlacementPadding(align)
        real_alloc_size == Add32(size, padding)
    IN  /\ \/ /\ real_alloc_size > placement_free
              /\ UNCHANGED placementVars
           \/ /\ real_alloc_size <= placement_free
              /\ placement_head' = placement_head + real_alloc_size
              /\ placement_free' = placement_free - real_alloc_size
              /\ placed' = placed \cup {<<placement_head + padding, size>>}
        /\ UNCHANGED <<kheap_enabled, heapVars, panic>>

-----------------------------------------------------------------------------
(* The block list.  h is a header memory, t a value of kheap_tail. *)

Blocks(h) == {b \in HeapAddr : h[b].magic = KHEAP_MAGIC}
kheap_base == IF kheap_enabled THEN HeapBase ELSE NULL

(***************************************************************************)
(* The blocks the loop of kheap_find_best_fit visits: the least set that   *)
(* holds kheap_head (which is kheap_base for good) and follows next.       *)
(***************************************************************************)
Listed(h) ==
    LET closed == {S \in SUBSET Blocks(h) :
                     /\ HeapBase \in S
                     /\ \A b \in S : h[b].next \in S \cup {NULL}}
    IN  {b \in Blocks(h) : \A S \in closed : b \in S}

\* Defect: the header of the block is counted as payload.
FitsWithHeader(h, b, size, align) == size <= h[b].size + HeaderSize

(***************************************************************************)
(* The test of the search loop.  "current + sizeof(kheap_block_head_t)" is *)
(* pointer arithmetic on headers, so it advances by HeaderSize headers.    *)
(***************************************************************************)
Fits(h, b, size, align) ==
    LET data_addr == b + HeaderSize * HeaderSize
        end_addr  == Add32(data_addr, h[b].size)
        start     == IF align /\ ~paging_is_aligned_address(data_addr)
                     THEN paging_align_address_up(data_addr + HeaderSize)
                     ELSE data_addr
    IN  Add32(start, size) <= end_addr

(***************************************************************************)
(* What kheap_find_best_fit returns: the smallest free block that fits,    *)
(* the first of the list (the list ascends) among equals; empty for NULL.  *)
(***************************************************************************)
kheap_find_best_fit(h, size, align) ==
    LET fits == {b \in Listed(h) : h[b].free /\ Fits(h, b, size, align)}
    IN  {b \in fits : \A c \in fits : \/ h[b].size < h[c].size
                                      \/ h[b].size = h[c].size /\ b <= c}

(***************************************************************************)
(* An aligned request in a block whose payload is not aligned: the front   *)
(* of the block becomes a free padding block and the request is served     *)
(* from the new block behind it.                                           *)
(***************************************************************************)
AlignedData(b) == paging_align_address_up(b + HeaderSize + HeaderSize)
Padding(b) == AlignedData(b) - (b + HeaderSize)
NeedsPadding(b, align) == align /\ ~paging_is_aligned_address(b + HeaderSize)

\* Defect: the new block keeps the size of the block it was cut from.
PadWithoutShrinking(h, b) ==
    LET new == AlignedData(b) - HeaderSize
    IN  [h EXCEPT ![new] = [magic |-> KHEAP_MAGIC, size |-> h[b].size,
                            free |-> TRUE, prev |-> b, next |-> h[b].next],
                  ![b].size = Padding(b) - HeaderSize,
                  ![b].next = new]

\* Defect: the padding block is not linked to the block cut off behind it.
PadWithoutLink(h, b) ==
    [h EXCEPT ![AlignedData(b) - HeaderSize] =
                  [magic |-> KHEAP_MAGIC, size |-> h[b].size - Padding(b),
                   free |-> TRUE, prev |-> b, next |-> h[b].next],
              ![b].size = Padding(b) - HeaderSize]

PadBlock(h, b) ==
    LET new == AlignedData(b) - HeaderSize
    IN  [h EXCEPT ![new] = [magic |-> KHEAP_MAGIC, size |-> h[b].size - Padding(b),
                            free |-> TRUE, prev |-> b, next |-> h[b].next],
                  ![b].free = TRUE,
                  ![b].size = Padding(b) - HeaderSize,
                  ![b].next = new]

\* next->prev = b, where there is a next.
SetPrev(h, n, b) == IF n = NULL THEN h ELSE [h EXCEPT ![n].prev = b]

(***************************************************************************)
(* Block b is taken for size bytes; what is left becomes a block of its    *)
(* own when it is larger than a header.  A header written outside the heap *)
(* (after a wrapped size) is not part of hdr.                              *)
(***************************************************************************)
MarkUsed(h, b) == [h EXCEPT ![b].free = FALSE]
MarkFree(h, b) == [h EXCEPT ![b].free = TRUE]
Remaining(h, b, size) == Sub32(h[b].size, size)
Splits(h, b, size) == Remaining(h, b, size) > HeaderSize
RemainderAt(b, size) == Add32(b + HeaderSize, size)

\* Defect: the block behind the remainder still names b as its predecessor.
TakeWithoutPrev(h, b, size) ==
    LET r == RemainderAt(b, size)
    IN  IF Splits(h, b, size)
        THEN [h EXCEPT ![r] = [magic |-> KHEAP_MAGIC, free |-> TRUE,
                               size |-> Remaining(h, b, size) - HeaderSize,
                               prev |-> b, next |-> h[b].next],
                       ![b].free = FALSE, ![b].size = size, ![b].next = r]
        ELSE MarkUsed(h, b)

\* Defect: a block taken whole is not marked as in use.
TakeUnmarked(h, b, size) ==
    IF Splits(h, b, size) THEN TakeWithoutPrev(h, b, size) ELSE h

TakeBlock(h, b, size) ==
    LET r == RemainderAt(b, size)
    IN  IF Splits(h, b, size)
        THEN [SetPrev(h, h[b].next, r) EXCEPT
                ![r] = [magic |-> KHEAP_MAGIC, free |-> TRUE,
                        size |-> Remaining(h, b, size) - HeaderSize,
                        prev |-> b, next |-> h[b].next],
                ![b].free = FALSE,
                ![b].size = size,
                ![b].next = r]
        ELSE MarkUsed(h, b)

TailAfterTake(h, t, b, size) ==
    IF Splits(h, b, size) /\ h[b].next = NULL THEN RemainderAt(b, size) ELSE t

(***************************************************************************)
(* Block n, a neighbour of the free block b, is absorbed by b.             *)
(***************************************************************************)
Absorb(h, b, n) ==
    [SetPrev(h, h[n].next, b) EXCEPT
        ![b].next = h[n].next,
        ![b].size = @ + h[n].size + HeaderSize,
        ![n] = NoHeader]

TailAfterAbsorb(h, t, b, n) == IF h[n].next = NULL THEN b ELSE t

\* Defect: a predecessor in use is joined as well.
JoinsAnyPrev(h, f) == h[f].prev # NULL

(***************************************************************************)
(* The part of kfree behind its checks: block f is freed, absorbed by its  *)
(* predecessor if that is free, and its successor absorbed if that is.     *)
(***************************************************************************)
JoinsPrev(h, f) == h[f].prev # NULL /\ h[h[f].prev].free
JoinsNext(h, f) == h[f].next # NULL /\ h[h[f].next].free
Survivor(h, f) == IF JoinsPrev(h, f) THEN h[f].prev ELSE f
JoinPrev(h, f) == IF JoinsPrev(h, f) THEN Absorb(h, h[f].prev, f) ELSE h
JoinNext(h, g, n) == IF n # NULL /\ h[n].free THEN Absorb(h, g, n) ELSE h

FreeBlock(h, f) ==
    JoinNext(JoinPrev(MarkFree(h, f), f), Survivor(h, f), h[f].next)

TailAfterFree(h, t, f) ==
    LET t1 == IF JoinsPrev(h, f) THEN TailAfterAbsorb(h, t, h[f].prev, f) ELSE t
    IN  IF JoinsNext(h, f) THEN TailAfterAbsorb(h, t1, Survivor(h, f), h[f].next)
        ELSE t1

-----------------------------------------------------------------------------
(* Operations *)

(***************************************************************************)
(* The allocations kmalloc_heap_base can make for a request, each with the *)
(* block it takes and the memory it takes it from; empty when it returns   *)
(* NULL (size 0, no block found, or no room for the padding).              *)
(***************************************************************************)
kmalloc_heap_base(h, size, align) ==
    IF size = 0 THEN {}
    ELSE {[block |-> IF NeedsPadding(b, align) THEN AlignedData(b) - HeaderSize
                     ELSE b,
           mem   |-> IF NeedsPadding(b, align) THEN PadBlock(h, b) ELSE h] :
            b \in {c \in kheap_find_best_fit(h, size, align) :
                     NeedsPadding(c, align) =>
                        h[c].size >= Add32(size, Padding(c))}}

HeapAllocate(size, align) ==
    LET found == kmalloc_heap_base(hdr, size, align)
    IN  /\ \/ /\ found = {}
              /\ UNCHANGED heapVars
           \/ \E m \in found :
                /\ hdr' = TakeBlock(m.mem, m.block, size)
                /\ kheap_tail' = TailAfterTake(m.mem, kheap_tail, m.block, size)
                /\ owned' = [owned EXCEPT ![m.block + HeaderSize] = size]
        /\ UNCHANGED <<placementVars, kheap_enabled, panic>>

\* kmalloc and kmalloc_flag, by the stage the kernel has reached.
kmalloc_base(size, align) ==
    \/ kheap_enabled /\ HeapAllocate(size, align)
    \/ ~kheap_enabled /\ kmalloc_placement_base(size, align)

InHeapRange(ptr) == kheap_base <= ptr /\ ptr < kheap_base + HeapSize
HasMagic(ptr) == hdr[ptr - HeaderSize].magic = KHEAP_MAGIC

\* KPANIC never returns; what it prints, and allocates to print, is left out.
Panic(reason) ==
    /\ panic' = reason
    /\ UNCHANGED <<placementVars, kheap_enabled>>

\* The checks krealloc and kfree share on a pointer that is not NULL.
BadPointer(ptr) ==
    /\ ~kheap_is_placement_memory(ptr)
    /\ \/ ~InHeapRange(ptr) /\ Panic("range")
       \/ InHeapRange(ptr) /\ ~HasMagic(ptr) /\ Panic("magic")
    /\ UNCHANGED heapVars

GoodPointer(ptr) ==
    /\ ptr # NULL
    /\ ~kheap_is_placement_memory(ptr)
    /\ InHeapRange(ptr) /\ HasMagic(ptr)

\* The caller holds the block of ptr, or has a pointer that is not its own.
Callers == {"holder", "stale"}
MayBe(caller, ptr) == caller = "holder" => owned[ptr] # 0

\* A call that is served; served to a stale caller, memory is shared.
Served(caller, ptr) ==
    /\ MayBe(caller, ptr)
    /\ panic' = IF caller = "stale" THEN "shared" ELSE panic
    /\ UNCHANGED <<placementVars, kheap_enabled>>

\* The promise to the holder of ptr ends when it is the holder that gives it up.
GivesUp(caller, ptr, o) == IF caller = "stale" THEN o ELSE [o EXCEPT ![ptr] = 0]

kfree(ptr, caller) ==
    LET f == ptr - HeaderSize
    IN  \/ ptr = NULL /\ Panic("null") /\ UNCHANGED heapVars
        \/ kheap_is_placement_memory(ptr) /\ UNCHANGED vars
        \/ ptr # NULL /\ BadPointer(ptr)
        \/ GoodPointer(ptr) /\ hdr[f].free /\ Panic("double") /\ UNCHANGED heapVars
        \/ /\ GoodPointer(ptr) /\ ~hdr[f].free
           /\ hdr' = FreeBlock(hdr, f)
           /\ kheap_tail' = TailAfterFree(hdr, kheap_tail, f)
           /\ owned' = GivesUp(caller, ptr, owned)
           /\ Served(caller, ptr)

\* Defect: the old block is not freed after the copy.
GrowWithoutFree(ptr, size, caller) ==
    \E m \in kmalloc_heap_base(hdr, size, FALSE) :
        /\ hdr' = TakeBlock(hdr, m.block, size)
        /\ kheap_tail' = TailAfterTake(hdr, kheap_tail, m.block, size)
        /\ owned' = GivesUp(caller, ptr, [owned EXCEPT ![m.block + HeaderSize] = size])
        /\ Served(caller, ptr)

(***************************************************************************)
(* krealloc of a block that is too small: kmalloc, memcpy, kfree.  Given a *)
(* block that is already free, kfree panics after the allocation was made. *)
(***************************************************************************)
Grow(ptr, size, caller) ==
    LET f == ptr - HeaderSize
        found == kmalloc_heap_base(hdr, size, FALSE)
    IN  \/ found = {} /\ UNCHANGED vars
        \/ \E m \in found :
             LET h == TakeBlock(hdr, m.block, size)
                 t == TailAfterTake(hdr, kheap_tail, m.block, size)
             IN  \/ /\ h[f].free
                    /\ hdr' = h /\ kheap_tail' = t
                    /\ owned' = [owned EXCEPT ![m.block + HeaderSize] = size]
                    /\ Panic("double")
                 \/ /\ ~h[f].free
                    /\ hdr' = FreeBlock(h, f)
                    /\ kheap_tail' = TailAfterFree(h, t, f)
                    /\ owned' = GivesUp(caller, ptr,
                                    [owned EXCEPT ![m.block + HeaderSize] = size])
                    /\ Served(caller, ptr)

(***************************************************************************)
(* A block that is large enough is handed back as it is, without a look at *)
(* its free flag: a stale caller is given memory that is free, or that     *)
(* somebody else holds.  Who asks for less keeps what was promised before. *)
(***************************************************************************)
KeepInPlace(ptr, size, caller) ==
    /\ owned' = [owned EXCEPT ![ptr] = IF size > @ THEN size ELSE @]
    /\ Served(caller, ptr)
    /\ UNCHANGED <<hdr, kheap_tail>>

\* ptr = NULL is kmalloc; a placement pointer yields NULL.
krealloc(ptr, size, caller) ==
    \/ ptr = NULL /\ kmalloc_base(size, FALSE)
    \/ kheap_is_placement_memory(ptr) /\ UNCHANGED vars
    \/ ptr # NULL /\ BadPointer(ptr)
    \/ GoodPointer(ptr) /\ hdr[ptr - HeaderSize].size >= size
                        /\ KeepInPlace(ptr, size, caller)
    \/ GoodPointer(ptr) /\ hdr[ptr - HeaderSize].size < size
                        /\ Grow(ptr, size, caller)

\* vmm_map_memory may find no memory for the heap.
kheap_init ==
    /\ ~kheap_enabled
    /\ \/ Panic("oom") /\ UNCHANGED heapVars
       \/ /\ kheap_enabled' = TRUE
          /\ hdr' = [hdr EXCEPT ![HeapBase] =
                       [magic |-> KHEAP_MAGIC, size |-> HeapSize - HeaderSize,
                        free |-> TRUE, prev |-> NULL, next |-> NULL]]
          /\ kheap_tail' = HeapBase
          /\ UNCHANGED <<placementVars, owned, panic>>

(***************************************************************************)
(* The pointers a caller may pass back: NULL, one into the placement       *)
(* array, one past the heap, and any pointer into the heap that has room   *)
(* for a header before it.  Those include every pointer ever returned,     *)
(* freed since or not; the code panics on the ones behind no header.       *)
(***************************************************************************)
Pointers ==
    {NULL, PlacementBase, HeapEnd} \cup (HeapBase + HeaderSize .. HeapEnd - 1)

Init ==
    /\ placement_head = PlacementBase
    /\ placement_free = PlacementSize
    /\ placed = {}
    /\ kheap_enabled = FALSE
    /\ hdr = [a \in HeapAddr |-> NoHeader]
    /\ kheap_tail = NULL
    /\ owned = [p \in PtrAddr |-> 0]
    /\ panic = "none"

Running == panic = "none"

EnableHeap == Running /\ kheap_init

Malloc ==
    Running /\ "kmalloc" \in Workload /\ \E size \in Sizes : kmalloc_base(size, FALSE)

MallocAligned ==
    /\ Running /\ (kheap_enabled => "kmalloc_align" \in Workload)
    /\ \E size \in Sizes : kmalloc_base(size, TRUE)

Realloc ==
    /\ Running /\ "krealloc" \in Workload
    /\ \E ptr \in Pointers, size \in Sizes, caller \in Callers :
            krealloc(ptr, size, caller)

Free ==
    /\ Running /\ "kfree" \in Workload
    /\ \E ptr \in Pointers, caller \in Callers : kfree(ptr, caller)

\* kpanic ends in an endless loop; "shared" is where the model ends.
Halted == ~Running /\ UNCHANGED vars

Next ==
    \/ EnableHeap
    \/ Malloc \/ MallocAligned \/ Realloc \/ Free
    \/ Halted

Spec == Init /\ [][Next]_vars

-----------------------------------------------------------------------------
(* Properties *)

PlacementTypeOK ==
    /\ placement_head \in Nat /\ placement_free \in Nat
    /\ placed \subseteq Nat \X Sizes

(***************************************************************************)
(* Every request is small enough for the address arithmetic not to wrap.   *)
(* Nothing in heap.c checks it; the theorems assume it.                    *)
(***************************************************************************)
SmallRequests ==
    \A size \in Sizes :
        HeapEnd + HeaderSize * HeaderSize + HeaderSize + PageSize + size < Word

\* Every variable keeps to its type (the static variables of heap.c).
TypeOK ==
    /\ PlacementTypeOK
    /\ kheap_enabled \in BOOLEAN
    /\ hdr \in [HeapAddr -> Header]
    /\ kheap_tail \in HeapAddr \cup {NULL}
    /\ owned \in [PtrAddr -> 0 .. Word - 1]
    /\ panic \in {"none", "oom", "null", "range", "magic", "double", "shared"}

\* Every call so far that was served came from a holder.
Unshared == panic # "shared"

BlockEnd(h, b) == b + HeaderSize + h[b].size

\* next leads to the block that starts where b ends, or b ends the heap.
NextOK(h, t, b) ==
    \/ h[b].next = NULL /\ BlockEnd(h, b) = HeapEnd /\ t = b
    \/ /\ h[b].next = BlockEnd(h, b) /\ h[b].next \in Blocks(h)
       /\ h[h[b].next].prev = b

\* prev leads to the block whose next is b; only the first block has none.
PrevOK(h, b) ==
    \/ b = HeapBase /\ h[b].prev = NULL
    \/ b # HeapBase /\ h[b].prev \in Blocks(h) /\ h[h[b].prev].next = b

\* No header lies inside another block.
Disjoint(h) ==
    \A b, c \in Blocks(h) : b < c => BlockEnd(h, b) <= c

(***************************************************************************)
(* The headers with a magic tile the heap, without gap or overlap, and the *)
(* list through next and prev is exactly that tiling.                      *)
(***************************************************************************)
Tiled(h, t) ==
    /\ HeapBase \in Blocks(h)
    /\ \A b \in Blocks(h) : NextOK(h, t, b) /\ PrevOK(h, b)
    /\ Disjoint(h)

(***************************************************************************)
(* The block list always is the tiling of the heap: what kmalloc splits    *)
(* and kfree joins leaves no gap, no stale prev, next or kheap_tail.       *)
(***************************************************************************)
HeapTiled == kheap_enabled => Tiled(hdr, kheap_tail)

\* b and the block behind it are not both free.
NotBothFree(h, b) ==
    h[b].free /\ h[b].next # NULL => ~h[h[b].next].free

(***************************************************************************)
(* kfree leaves no two free blocks next to each other, so a heap that is   *)
(* free in one piece can serve a request in one piece.                     *)
(***************************************************************************)
Coalesced == \A b \in Blocks(hdr) : NotBothFree(hdr, b)

(***************************************************************************)
(* The bytes promised to the holders of two pointers never overlap each    *)
(* other, nor a block header, and they lie inside the heap, as long as no  *)
(* stale pointer has been served.                                          *)
(***************************************************************************)
PayloadsSeparate ==
    Unshared => \A p \in PtrAddr : owned[p] # 0 =>
        /\ p + owned[p] <= HeapEnd
        /\ \A q \in PtrAddr : owned[q] # 0 /\ p < q => p + owned[p] <= q
        /\ \A b \in Blocks(hdr) : b + HeaderSize <= p \/ p + owned[p] <= b

(***************************************************************************)
(* A block is in use exactly when somebody holds its pointer, for as long  *)
(* as no stale pointer has been served.  Hence kmalloc gives out no memory *)
(* that is held, and kfree of a pointer whose block is free or has been    *)
(* joined with another since panics; only a block handed out again, and    *)
(* any block given to krealloc, is mistaken for the caller's own.          *)
(***************************************************************************)
InUseIffOwned ==
    Unshared => \A p \in PtrAddr :
        owned[p] # 0 <=> /\ p - HeaderSize \in Blocks(hdr)
                         /\ ~hdr[p - HeaderSize].free

(***************************************************************************)
(* The holder of a pointer has the bytes it asked kmalloc or krealloc for, *)
(* as long as no stale pointer has been served.                            *)
(***************************************************************************)
PromisesKept ==
    Unshared => \A p \in PtrAddr :
        owned[p] # 0 => owned[p] <= hdr[p - HeaderSize].size

(***************************************************************************)
(* When every pointer has been freed the heap is one free block again, the *)
(* one kheap_init made: no sequence of calls in which no stale pointer is  *)
(* served leaks or fragments it.                                           *)
(***************************************************************************)
NothingLost ==
    Unshared /\ kheap_enabled /\ (\A p \in PtrAddr : owned[p] = 0) =>
        hdr[HeapBase].free /\ hdr[HeapBase].size = HeapSize - HeaderSize

(***************************************************************************)
(* The walk of kheap_find_best_fit, and of the memory command of the       *)
(* shell, meets every block.                                               *)
(***************************************************************************)
AllBlocksListed == kheap_enabled => Listed(hdr) = Blocks(hdr)

(***************************************************************************)
(* No call moves, shrinks or frees a block whose holder keeps the pointer, *)
(* but one with a stale pointer to that very memory.                       *)
(***************************************************************************)
HeldBlocksStable ==
    [][Unshared' => \A p \in PtrAddr : owned[p] # 0 /\ owned'[p] # 0 =>
          hdr'[p - HeaderSize].size = hdr[p - HeaderSize].size]_vars

(***************************************************************************)
(* Placement allocations are disjoint and inside the array, whatever their *)
(* alignment padding.                                                      *)
(***************************************************************************)
PlacementSeparate ==
    \A x \in placed :
        /\ PlacementBase <= x[1] /\ x[1] + x[2] <= PlacementEnd
        /\ \A y \in placed : \/ x = y \/ x[2] = 0 \/ y[2] = 0
                             \/ x[1] + x[2] <= y[1] \/ y[1] + y[2] <= x[1]

(***************************************************************************)
(* The inductive invariant of the heap: the safety properties above        *)
(* support each other, and memory holds no block before kheap_init.        *)
(***************************************************************************)
HeapInv ==
    /\ TypeOK
    /\ HeapTiled
    /\ ~kheap_enabled => Blocks(hdr) = {}
    /\ Coalesced
    /\ InUseIffOwned
    /\ PromisesKept

\* The same for the placement array: allocations lie below its head.
PlacementInv ==
    /\ PlacementTypeOK
    /\ placement_head + placement_free = PlacementEnd
    /\ PlacementBase <= placement_head
    /\ \A x \in placed : x[1] + x[2] <= placement_head
    /\ PlacementSeparate
=============================================================================
