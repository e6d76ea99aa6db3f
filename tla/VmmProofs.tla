------------------------------- MODULE VmmProofs -------------------------------
(***************************************************************************)
(* Proofs about Vmm, for every layout and memory map: frames are not       *)
(* shared, the kernel stays mapped, free frames are memory, and the frames *)
(* of the heap are counted, found and given back.                          *)
(***************************************************************************)
EXTENDS Vmm, FiniteSetTheorems, TLAPS

Linear == RealPages + KernelPages

-----------------------------------------------------------------------------
(* Pages and bytes *)

\* The quotient and what it leaves.
LEMMA Quotient ==
    ASSUME NEW x \in Nat
    PROVE  /\ x \div PageSize \in Nat
           /\ PageSize * (x \div PageSize) <= x
           /\ x < (PageSize * (x \div PageSize)) + PageSize
BY VmmAssumption

\* A quotient is compared by comparing products.
LEMMA Products ==
    ASSUME NEW a \in Nat, NEW b \in Nat
    PROVE  /\ PageSize * a \in Nat
           /\ a <= b => PageSize * a <= PageSize * b
           /\ PageSize * a < PageSize * b => a < b
           /\ PageSize * (a + 1) = (PageSize * a) + PageSize
           /\ PageSize * (a + b) = (PageSize * a) + (PageSize * b)
           /\ a * PageSize = PageSize * a
<1> USE VmmAssumption
<1>1. PageSize * a \in Nat /\ PageSize * b \in Nat
  OBVIOUS
<1>2. ASSUME NEW c \in Nat, NEW d \in Nat, c <= d
      PROVE  PageSize * c <= PageSize * d
  <2> DEFINE e == d - c
  <2>1. e \in Nat /\ d = c + e
    BY <1>2
  <2> HIDE DEF e
  <2>2. PageSize * d = (PageSize * c) + (PageSize * e) /\ PageSize * e \in Nat
    BY <2>1
  <2> QED
    BY <2>2
<1>3. a <= b => PageSize * a <= PageSize * b
  BY <1>2
<1>4. PageSize * a < PageSize * b => a < b
  <2>1. b <= a => PageSize * b <= PageSize * a
    BY <1>2
  <2> QED
    BY <1>1, <2>1
<1>5. /\ PageSize * (a + 1) = (PageSize * a) + PageSize
      /\ PageSize * (a + b) = (PageSize * a) + (PageSize * b)
      /\ a * PageSize = PageSize * a
  OBVIOUS
<1> QED
  BY <1>1, <1>3, <1>4, <1>5

\* A size rounded up to pages covers the size.
LEMMA RoundedUp ==
    ASSUME NEW x \in Nat
    PROVE  div_up(x, PageSize) \in Nat /\ x <= PageSize * div_up(x, PageSize)
<1>1. PageSize \in Nat /\ PageSize > 1 /\ x + PageSize - 1 \in Nat
  BY VmmAssumption
<1> DEFINE q == (x + PageSize - 1) \div PageSize
<1>2. q \in Nat /\ x + PageSize - 1 < (PageSize * q) + PageSize
  BY <1>1, Quotient
<1> HIDE DEF q
<1>3. PageSize * q \in Int
  BY <1>1, <1>2
<1>4. x <= PageSize * q
  BY <1>1, <1>2, <1>3
<1> QED
  BY <1>2, <1>4 DEF q, div_up

\* The layout.
LEMMA Layout ==
    /\ NumPages \in Nat /\ KernelBase \in Nat \ {0} /\ RealPages \in Nat \ {0}
    /\ KernelPages \in Nat /\ HeapPages \in Nat /\ Linear \in Nat /\ RealPages <= Linear
    /\ KernelBase + Linear <= NumPages
    /\ LinearPages = KernelBase .. KernelBase + Linear - 1
    /\ LinearPages \subseteq Page
<1>1. KernelPages \in Nat /\ HeapPages \in Nat
  BY VmmAssumption, RoundedUp DEF KernelPages, HeapPages
<1> QED
  BY <1>1, VmmAssumption DEF Linear, LinearPages, Page

\* Every byte of real mode memory and of the kernel is on a linear page.
LEMMA KernelBytes ==
    ASSUME NEW b \in 0 .. (RealPages * PageSize) + KernelSize - 1
    PROVE  b \div PageSize \in 0 .. Linear - 1
<1>1. RealPages * PageSize = PageSize * RealPages /\ PageSize * RealPages \in Nat
  BY Layout, Products
<1>2. KernelSize \in Nat /\ KernelSize <= PageSize * KernelPages
  BY VmmAssumption, RoundedUp DEF KernelPages
<1>3. PageSize * Linear = (PageSize * RealPages) + (PageSize * KernelPages)
        /\ PageSize * KernelPages \in Nat
  BY Layout, Products DEF Linear
<1>4. b \in Nat /\ b < PageSize * Linear
  BY <1>1, <1>2, <1>3
<1> DEFINE q == b \div PageSize
<1>5. q \in Nat /\ PageSize * q <= b
  BY <1>4, Quotient
<1> HIDE DEF q
<1>6. q < Linear
  <2>1. PageSize * q \in Nat /\ PageSize * Linear \in Nat
    BY <1>5, Layout, Products
  <2>2. PageSize * q < PageSize * Linear
    BY <1>4, <1>5, <2>1
  <2> QED
    BY <2>2, <1>5, Layout, Products
<1> QED
  BY <1>5, <1>6, Layout DEF q

-----------------------------------------------------------------------------
(* The page entries *)

Running == pc \notin Booting \cup {"panic"}

\* The types the argument needs.
BootTypes ==
    /\ mmap \in MemoryMaps
    /\ todo \subseteq {r \in mmap : r.available}
    /\ used \subseteq Frame
    /\ pages \in [Page -> Frame \cup {Absent}]
    /\ i \in Nat
    /\ pc \in Booting \cup {"paging", "find", "map", "rollback", "ready", "refused", "panic", "fault"}

\* While vmm_init maps, the first i pages are done and nothing else is.
LinearInv ==
    /\ pc \in {"pmm", "regions"} => Mapped = {}
    /\ pc = "linear" =>
          /\ i <= Linear
          /\ Mapped = KernelBase .. KernelBase + i - 1
          /\ \A p \in Mapped : pages[p] = p - KernelBase
          /\ 0 .. i - 1 \subseteq used
    /\ Running =>
          /\ \A p \in LinearPages : pages[p] = p - KernelBase
          /\ 0 .. Linear - 1 \subseteq used

\* The pages found for the heap are not linear ones.
HeapInv ==
    pc \in {"find", "map", "rollback"} =>
        \A o \in 0 .. HeapPages - 1 : PageAt(heap, o) \in Page \ LinearPages

\* Until a failure, what is mapped is reserved.
ReservedInv ==
    pc \in {"linear", "paging", "find", "map"} => \A p \in Mapped : pages[p] \in used

\* The frames of the heap are not those of linear pages.
BackingInv == \A p \in Mapped \ LinearPages : pages[p] \notin 0 .. Linear - 1

VmmInv ==
    /\ BootTypes /\ LinearInv /\ HeapInv /\ ReservedInv /\ BackingInv
    /\ FramesNotShared

\* What a mapping changes.
LEMMA PageMapped ==
    ASSUME BootTypes, NEW p \in Page, NEW f \in Frame, vmm_map_page(p, f)
    PROVE  /\ pages' \in [Page -> Frame \cup {Absent}]
           /\ pages'[p] = f
           /\ \A q \in Page : q # p => pages'[q] = pages[q]
           /\ Mapped' = Mapped \cup {p}
<1>1. f # Absent
  BY VmmAssumption DEF Frame, Page, Absent
<1> QED
  BY <1>1 DEF BootTypes, vmm_map_page, Mapped

\* A page found for the heap lies in the address space and is not in use.
LEMMA HeapPlaced ==
    ASSUME VmmInv, Running, NEW p \in KernelBase .. NumPages - 1, FitsAt(p)
    PROVE  \A o \in 0 .. HeapPages - 1 : PageAt(p, o) \in Page \ LinearPages
<1> SUFFICES ASSUME NEW o \in 0 .. HeapPages - 1
             PROVE  PageAt(p, o) \in Page \ LinearPages
  OBVIOUS
<1>1. p + o \in Nat /\ NumPages \in Nat \ {0}
  BY Layout
<1>2. (p + o) % NumPages \in 0 .. NumPages - 1
  BY <1>1
<1>3. PageAt(p, o) \in Page
  BY <1>2 DEF PageAt, Page
<1>4. pages[PageAt(p, o)] = Absent
  BY DEF FitsAt, vmm_is_page_used
<1>5. ASSUME NEW q \in LinearPages
      PROVE  pages[q] # Absent
  BY <1>5, Layout DEF VmmInv, LinearInv, Absent
<1> QED
  BY <1>3, <1>4, <1>5

LEMMA VmmInvInit == Init => VmmInv
<1> SUFFICES ASSUME Init PROVE VmmInv
  OBVIOUS
<1>1. Mapped = {}
  BY DEF Init, Mapped
<1>2. BootTypes
  BY DEF Init, BootTypes, Booting
<1> QED
  BY <1>1, <1>2 DEF Init, VmmInv, LinearInv, HeapInv, ReservedInv, BackingInv, FramesNotShared,
                    Running, Booting

\* A step of vmm_init.
LEMMA MapLinearStep == VmmInv /\ MapLinear => VmmInv'
<1> SUFFICES ASSUME VmmInv, MapLinear PROVE VmmInv'
  OBVIOUS
<1> DEFINE p == KernelBase + i
<1>1. /\ pc = "linear" /\ i \in Nat /\ i < Linear
      /\ BootTypes /\ LinearInv /\ HeapInv /\ ReservedInv /\ BackingInv /\ FramesNotShared
  BY DEF MapLinear, VmmInv, Linear, BootTypes
<1>2. p \in Page /\ p \in LinearPages /\ p - KernelBase = i /\ i \in Frame
  BY <1>1, Layout DEF Page, Frame
<1>3. CASE NoTable(p)
  <2>1. pc' = "panic" /\ mmap' = mmap /\ todo' = todo /\ used' = used /\ pages' = pages /\ i' = i
    BY <1>3 DEF NoTable, frameVars, pageVars
  <2>2. Mapped' = Mapped
    BY <2>1 DEF Mapped
  <2> QED
    BY <1>1, <2>1, <2>2
    DEF VmmInv, BootTypes, LinearInv, HeapInv, ReservedInv, BackingInv, FramesNotShared, Running, Booting
<1>4. CASE /\ vmm_map_page(p, p - KernelBase) /\ pmm_mark_frame_reserved(p - KernelBase)
           /\ i' = i + 1 /\ UNCHANGED <<mmap, pc, todo, callVars>>
  <2>1. vmm_map_page(p, i) /\ used' = used \cup {i} /\ i' = i + 1 /\ pc' = "linear"
        /\ mmap' = mmap /\ todo' = todo
    BY <1>1, <1>2, <1>4 DEF pmm_mark_frame_reserved
  <2> HIDE DEF p
  <2>2. /\ pages' \in [Page -> Frame \cup {Absent}]
        /\ pages'[p] = i
        /\ \A q \in Page : q # p => pages'[q] = pages[q]
        /\ Mapped' = Mapped \cup {p}
    BY <1>1, <1>2, <2>1, PageMapped
  <2>3. /\ Mapped = KernelBase .. KernelBase + i - 1
        /\ \A q \in Mapped : pages[q] = q - KernelBase
        /\ 0 .. i - 1 \subseteq used /\ Mapped \subseteq Page
    BY <1>1 DEF LinearInv, Mapped
  <2>4. Mapped' = KernelBase .. KernelBase + i' - 1
    BY <1>1, <2>1, <2>2, <2>3, Layout DEF p
  <2>5. \A q \in Mapped' : pages'[q] = q - KernelBase
    BY <1>1, <1>2, <2>2, <2>3
  <2>6. 0 .. i' - 1 \subseteq used'
    BY <1>1, <2>1, <2>3
  <2>7. BootTypes'
    BY <1>1, <1>2, <2>1, <2>2 DEF BootTypes
  <2>8. LinearInv'
    BY <1>1, <2>1, <2>4, <2>5, <2>6, Layout DEF LinearInv, Running, Booting
  <2>9. ReservedInv'
    <3>1. \A q \in Mapped' : q - KernelBase \in 0 .. i' - 1
      BY <1>1, <2>1, <2>4, Layout
    <3> QED
      BY <2>5, <2>6, <3>1 DEF ReservedInv
  <2>10. BackingInv'
    BY <1>1, <2>1, <2>4, Layout DEF BackingInv
  <2>11. FramesNotShared'
    <3>1. \A q \in Mapped' : q \in Int
      BY <1>1, <2>1, <2>4, Layout
    <3> QED
      BY <2>5, <3>1, Layout DEF FramesNotShared
  <2> QED
    BY <2>1, <2>7, <2>8, <2>9, <2>10, <2>11 DEF VmmInv, HeapInv
<1> QED
  BY <1>3, <1>4 DEF MapLinear

\* A round of the loop of vmm_map_memory.
LEMMA MapHeapStep == VmmInv /\ MapHeapPage => VmmInv'
<1> SUFFICES ASSUME VmmInv, MapHeapPage PROVE VmmInv'
  OBVIOUS
<1> DEFINE p == PageAt(heap, i)
<1>1. /\ pc = "map" /\ i \in Nat /\ i < HeapPages
      /\ BootTypes /\ LinearInv /\ HeapInv /\ ReservedInv /\ BackingInv /\ FramesNotShared
  BY DEF MapHeapPage, VmmInv, BootTypes
<1>2. p \in Page \ LinearPages
  BY <1>1, Layout DEF HeapInv
<1>3. CASE NoTable(p)
  <2>1. pc' = "panic" /\ mmap' = mmap /\ todo' = todo /\ used' = used /\ pages' = pages /\ i' = i
    BY <1>3 DEF NoTable, frameVars, pageVars
  <2>2. Mapped' = Mapped
    BY <2>1 DEF Mapped
  <2> QED
    BY <1>1, <2>1, <2>2
    DEF VmmInv, BootTypes, LinearInv, HeapInv, ReservedInv, BackingInv, FramesNotShared, Running, Booting
<1>4. CASE i' = 0 /\ pc' = "rollback" /\ UNCHANGED <<mmap, todo, frameVars, pageVars, callVars>>
  <2>1. mmap' = mmap /\ todo' = todo /\ used' = used /\ pages' = pages /\ i' = 0 /\ heap' = heap
        /\ pc' = "rollback"
    BY <1>4 DEF frameVars, pageVars, callVars
  <2>2. Mapped' = Mapped
    BY <2>1 DEF Mapped
  <2>3. HeapInv'
    BY <1>1, <2>1 DEF HeapInv, PageAt
  <2> QED
    BY <1>1, <2>1, <2>2, <2>3
    DEF VmmInv, BootTypes, LinearInv, ReservedInv, BackingInv, FramesNotShared, Running, Booting
<1>5. CASE /\ \E f \in Frame :
                 FindsFrame(from, f) /\ vmm_map_page(p, f) /\ pmm_mark_frame_reserved(f)
           /\ i' = i + 1 /\ UNCHANGED <<mmap, pc, todo, callVars>>
  <2>1. PICK f \in Frame :
                 FindsFrame(from, f) /\ vmm_map_page(p, f) /\ pmm_mark_frame_reserved(f)
    BY <1>5
  <2>2. f \notin used /\ used' = used \cup {f} /\ i' = i + 1 /\ pc' = pc /\ mmap' = mmap
        /\ todo' = todo /\ heap' = heap
    BY <1>5, <2>1 DEF FindsFrame, FreeFrames, pmm_mark_frame_reserved, callVars
  <2>3. HeapInv'
    BY <1>1, <2>2 DEF HeapInv, PageAt
  <2> HIDE DEF p
  <2>4. /\ pages' \in [Page -> Frame \cup {Absent}]
        /\ pages'[p] = f
        /\ \A q \in Page : q # p => pages'[q] = pages[q]
        /\ Mapped' = Mapped \cup {p} /\ Mapped \subseteq Page
    BY <1>1, <1>2, <2>1, PageMapped DEF Mapped
  <2>5. f \notin 0 .. Linear - 1 /\ \A q \in Mapped : pages[q] # f
    BY <1>1, <2>2 DEF LinearInv, ReservedInv, Running, Booting
  <2>6. BootTypes'
    BY <1>1, <2>2, <2>4 DEF BootTypes
  <2>7. LinearInv'
    <3>1. \A q \in LinearPages : pages'[q] = q - KernelBase
      BY <1>1, <1>2, <2>4, Layout DEF LinearInv, Running, Booting
    <3>2. 0 .. Linear - 1 \subseteq used'
      BY <1>1, <2>2 DEF LinearInv, Running, Booting
    <3> QED
      BY <1>1, <2>2, <3>1, <3>2 DEF LinearInv
  <2>8. ReservedInv'
    BY <1>1, <2>2, <2>4 DEF ReservedInv
  <2>9. BackingInv'
    BY <1>1, <2>4, <2>5 DEF BackingInv
  <2>10. FramesNotShared'
    BY <1>1, <2>4, <2>5 DEF FramesNotShared
  <2> QED
    BY <2>3, <2>6, <2>7, <2>8, <2>9, <2>10 DEF VmmInv
<1> QED
  BY <1>3, <1>4, <1>5 DEF MapHeapPage

\* A round of the rollback.
LEMMA UnmapStep == VmmInv /\ vmm_unmap_page => VmmInv'
<1> SUFFICES ASSUME VmmInv, vmm_unmap_page PROVE VmmInv'
  OBVIOUS
<1> DEFINE p == PageAt(heap, i)
<1>1. /\ pc = "rollback" /\ i \in Nat /\ i < HeapPages
      /\ BootTypes /\ LinearInv /\ HeapInv /\ ReservedInv /\ BackingInv /\ FramesNotShared
  BY DEF vmm_unmap_page, VmmInv, BootTypes
<1>2. p \in Page \ LinearPages
  BY <1>1, Layout DEF HeapInv
<1>3. pages' = pages /\ mmap' = mmap /\ todo' = todo /\ heap' = heap
  BY DEF vmm_unmap_page, pageVars, callVars
<1>4. Mapped' = Mapped
  BY <1>3 DEF Mapped
<1>5. BackingInv' /\ FramesNotShared'
  BY <1>1, <1>3, <1>4 DEF BackingInv, FramesNotShared
<1>6. CASE pc' = "fault" /\ UNCHANGED <<frameVars, i>>
  BY <1>1, <1>3, <1>4, <1>5, <1>6
  DEF VmmInv, BootTypes, LinearInv, HeapInv, ReservedInv, Running, Booting, frameVars
<1>7. CASE /\ IF pages[p] \in {Absent, 0} THEN UNCHANGED frameVars
                                          ELSE pmm_mark_frame_available(pages[p])
           /\ i' = i + 1 /\ pc' = pc
  <2>1. used' = used \/ (used' = used \ {pages[p]} /\ pages[p] # Absent)
    BY <1>7 DEF frameVars, pmm_mark_frame_available
  <2>2. HeapInv'
    BY <1>1, <1>3, <1>7 DEF HeapInv, PageAt
  <2> HIDE DEF p
  <2>3. pages[p] # Absent => pages[p] \notin 0 .. Linear - 1
    BY <1>1, <1>2 DEF BackingInv, Mapped
  <2>4. 0 .. Linear - 1 \subseteq used'
    BY <1>1, <2>1, <2>3 DEF LinearInv, Running, Booting
  <2>5. BootTypes'
    BY <1>1, <1>3, <1>7, <2>1 DEF BootTypes
  <2>6. LinearInv'
    BY <1>1, <1>3, <1>4, <1>7, <2>4 DEF LinearInv, Running, Booting
  <2> QED
    BY <1>1, <1>5, <1>7, <2>2, <2>5, <2>6 DEF VmmInv, ReservedInv
<1> QED
  BY <1>6, <1>7 DEF vmm_unmap_page

\* Every step keeps the invariant.
LEMMA VmmInvNext == VmmInv /\ [Next]_vars => VmmInv'
<1> SUFFICES ASSUME VmmInv, [Next]_vars PROVE VmmInv'
  OBVIOUS
<1> USE DEF VmmInv
<1>1. CASE pmm_init
  <2>1. /\ pc' = "regions" /\ pages' = pages /\ used' = Frame /\ mmap' = mmap /\ i' = i
        /\ todo' \subseteq {r \in mmap : r.available} /\ pc = "pmm"
    BY <1>1 DEF pmm_init, pageVars, Recorded
  <2>2. Mapped' = Mapped
    BY <2>1 DEF Mapped
  <2> QED
    BY <2>1, <2>2 DEF BootTypes, LinearInv, HeapInv, ReservedInv, BackingInv, FramesNotShared,
                      Running, Booting
<1>2. CASE MarkRegion
  <2>1. pc' = "regions" /\ pc = "regions" /\ pages' = pages /\ mmap' = mmap /\ i' = i
    BY <1>2 DEF MarkRegion, pageVars
  <2>2. Mapped' = Mapped
    BY <2>1 DEF Mapped
  <2>3. used' \subseteq used /\ todo' \subseteq todo
    BY <1>2 DEF MarkRegion
  <2> QED
    BY <2>1, <2>2, <2>3 DEF BootTypes, LinearInv, HeapInv, ReservedInv, BackingInv,
                            FramesNotShared, Running, Booting
<1>3. CASE AllocationFails
  <2>1. pc' = "panic" /\ pages' = pages /\ used' = used /\ mmap' = mmap /\ i' = i /\ todo' = todo
    BY <1>3 DEF AllocationFails, pageVars, frameVars
  <2>2. Mapped' = Mapped
    BY <2>1 DEF Mapped
  <2> QED
    BY <2>1, <2>2 DEF BootTypes, LinearInv, HeapInv, ReservedInv, BackingInv,
                      FramesNotShared, Running, Booting
<1>4. CASE vmm_init
  <2>1. /\ pc' = "linear" /\ pages' = [p \in Page |-> Absent] /\ used' = used /\ mmap' = mmap
        /\ i' = 0 /\ todo' = todo
    BY <1>4 DEF vmm_init, frameVars
  <2>2. Mapped' = {}
    BY <2>1 DEF Mapped
  <2> QED
    BY <2>1, <2>2, Layout DEF BootTypes, LinearInv, HeapInv, ReservedInv, BackingInv,
                      FramesNotShared, Running, Booting
<1>5. CASE MapLinear
  BY <1>5, MapLinearStep
<1>6. CASE EnablePaging
  <2>1. /\ pc = "linear" /\ i = Linear
        /\ pc' = "paging" /\ pages' = pages /\ used' = used /\ mmap' = mmap /\ i' = i /\ todo' = todo
    BY <1>6 DEF EnablePaging, pageVars, frameVars, Linear
  <2>2. Mapped' = Mapped
    BY <2>1 DEF Mapped
  <2>3. Mapped = LinearPages
    BY <2>1, Layout DEF LinearInv
  <2> QED
    BY <2>1, <2>2, <2>3 DEF BootTypes, LinearInv, HeapInv, ReservedInv, BackingInv,
                      FramesNotShared, Running, Booting
<1>7. CASE vmm_find_free_memory
  <2>1. /\ pc = "paging" /\ pc' = "find"
        /\ pages' = pages /\ used' = used /\ mmap' = mmap /\ i' = i /\ todo' = todo
    BY <1>7 DEF vmm_find_free_memory, pageVars, frameVars
  <2>2. Mapped' = Mapped
    BY <2>1 DEF Mapped
  <2>3. PICK p \in KernelBase .. NumPages - 1 : FitsAt(p) /\ heap' = p
    BY <1>7 DEF vmm_find_free_memory
  <2>4. HeapInv'
    <3>1. Running
      BY <2>1 DEF Running, Booting
    <3>2. \A o \in 0 .. HeapPages - 1 : PageAt(p, o) \in Page \ LinearPages
      BY <2>3, <3>1, HeapPlaced
    <3> QED
      BY <2>3, <3>2 DEF HeapInv, PageAt
  <2> QED
    BY <2>1, <2>2, <2>4 DEF BootTypes, LinearInv, ReservedInv, BackingInv,
                      FramesNotShared, Running, Booting
<1>8. CASE FindFirstFrame
  <2>1. /\ pc = "find" /\ pc' \in {"map", "refused"} /\ heap' = heap
        /\ pages' = pages /\ used' = used /\ mmap' = mmap /\ i' = 0 /\ todo' = todo
    BY <1>8 DEF FindFirstFrame, pageVars, frameVars
  <2>2. Mapped' = Mapped
    BY <2>1 DEF Mapped
  <2>3. HeapInv'
    BY <2>1 DEF HeapInv, PageAt
  <2> QED
    BY <2>1, <2>2, <2>3 DEF BootTypes, LinearInv, ReservedInv, BackingInv,
                      FramesNotShared, Running, Booting
<1>9. CASE MapHeapPage
  BY <1>9, MapHeapStep
<1>10. CASE HeapMapped \/ RolledBack
  <2>1. /\ pc \in {"map", "rollback"} /\ pc' \in {"ready", "refused"}
        /\ pages' = pages /\ used' = used /\ mmap' = mmap /\ i' = i /\ todo' = todo
    BY <1>10 DEF HeapMapped, RolledBack, pageVars, frameVars
  <2>2. Mapped' = Mapped
    BY <2>1 DEF Mapped
  <2> QED
    BY <2>1, <2>2 DEF BootTypes, LinearInv, HeapInv, ReservedInv, BackingInv,
                      FramesNotShared, Running, Booting
<1>11. CASE vmm_unmap_page
  BY <1>11, UnmapStep
<1>12. CASE Ended \/ UNCHANGED vars
  <2>1. UNCHANGED vars
    BY <1>12 DEF Ended
  <2>2. /\ pc' = pc /\ pages' = pages /\ used' = used /\ mmap' = mmap /\ i' = i /\ todo' = todo
        /\ heap' = heap
    BY <2>1 DEF vars
  <2>3. Mapped' = Mapped
    BY <2>2 DEF Mapped
  <2>4. HeapInv'
    BY <2>2 DEF HeapInv, PageAt
  <2> QED
    BY <2>2, <2>3, <2>4 DEF BootTypes, LinearInv, ReservedInv, BackingInv,
                      FramesNotShared, Running
<1> QED
  BY <1>1, <1>2, <1>3, <1>4, <1>5, <1>6, <1>7, <1>8, <1>9, <1>10, <1>11, <1>12 DEF Next

\* VmmInv is an invariant.
LEMMA VmmInvHolds == Spec => []VmmInv
BY VmmInvInit, VmmInvNext, PTL DEF Spec

\* In every layout and on every machine no two pages share a frame.
THEOREM NoFrameShared == Spec => []FramesNotShared
<1>1. VmmInv => FramesNotShared
  BY DEF VmmInv
<1> QED
  BY <1>1, VmmInvHolds, PTL

\* In every layout real mode memory and the kernel stay where they are once
\* paging is on, to their last byte.
THEOREM KernelStaysMapped == Spec => []KernelMapped
<1>1. VmmInv => KernelMapped
  <2> SUFFICES ASSUME VmmInv, Running,
                      NEW b \in 0 .. (RealPages * PageSize) + KernelSize - 1
               PROVE  pages[KernelBase + (b \div PageSize)] = b \div PageSize
    BY DEF KernelMapped, Running
  <2> DEFINE q == b \div PageSize
  <2>1. q \in 0 .. Linear - 1
    BY KernelBytes
  <2> HIDE DEF q
  <2>2. KernelBase + q \in LinearPages /\ (KernelBase + q) - KernelBase = q
    BY <2>1, Layout
  <2>3. pages[KernelBase + q] = q
    BY <2>2 DEF VmmInv, LinearInv
  <2> QED
    BY <2>3 DEF q
<1> QED
  BY <1>1, VmmInvHolds, PTL

-----------------------------------------------------------------------------
(* Free frames *)

\* A memory map of a machine without memory behind the 32-bit address space:
\* available regions are not empty, and begin and end at page boundaries
\* unless they lie in real mode memory.
PlainMaps ==
    \A m \in MemoryMaps : \A r \in m :
        r.available =>
            /\ r.length > 0 /\ r.base + r.length <= Word
            /\ \/ r.base + r.length <= PageSize * RealPages
               \/ \E k, l \in Nat : r.base = PageSize * k /\ r.length = PageSize * l

\* A number below the modulus is its own remainder.
LEMMA SmallRemainder ==
    ASSUME NEW w \in Nat
    PROVE  \A x \in 0 .. w - 1 : x % w = x
OBVIOUS

\* The frames pmm_init frees for a region of a plain map are those of its
\* first to its last byte.
LEMMA PlainRegion ==
    ASSUME PlainMaps, mmap \in MemoryMaps, NEW r \in mmap, r.available
    PROVE  /\ r.base \in Nat /\ r.length \in Nat /\ r.length > 0
           /\ RegionFrames(r)
                 = (r.base \div PageSize) .. (((r.base + r.length) - 1) \div PageSize)
<1> DEFINE base == r.base
           last == (r.base + r.length) - 1
<1>1. r.base \in Nat /\ r.length \in Nat
  BY VmmAssumption DEF Region
<1>2. r.length > 0 /\ r.base + r.length <= Word
  BY DEF PlainMaps
<1>3. Word \in Nat /\ PageSize \in Nat /\ PageSize > 1
  BY VmmAssumption, Products DEF Word
<1>4. /\ base % Word = base
      /\ ((base % Word) + (r.length % Word) - 1) % Word = last
  <2>1. base \in 0 .. Word - 1
    BY <1>1, <1>2, <1>3
  <2>2. base % Word = base
    BY <2>1, <1>3, SmallRemainder
  <2>3. last \in 0 .. Word - 1
    BY <1>1, <1>2, <1>3
  <2>4. last % Word = last
    <3> HIDE DEF last
    <3> QED BY <2>3, <1>3, SmallRemainder
  <2>5. CASE r.length < Word
    <3>1. r.length % Word = r.length
      BY <2>5, <1>1, <1>3
    <3>2. base + r.length - 1 = last
      BY <1>1
    <3>3. ((base % Word) + (r.length % Word) - 1) = base + r.length - 1
      BY <2>2, <3>1
    <3> QED
      BY <2>2, <2>4, <3>2, <3>3
  <2>6. CASE r.length = Word
    <3>1. r.length % Word = 0 /\ base = 0 /\ last = Word - 1
      BY <2>6, <1>1, <1>2, <1>3
    <3>2. (0 + 0 - 1) % Word = Word - 1
      <4>1. (0 + 0 - 1) = (0 - 1) /\ Word > 0
        BY <1>2, <1>1, <1>3
      <4> QED
        BY <4>1, <1>3
    <3> QED
      BY <2>2, <3>1, <3>2
  <2> QED
    BY <2>5, <2>6, <1>1, <1>2, <1>3
<1>5. RegionFrames(r) = (base \div PageSize) .. (last \div PageSize)
  BY <1>4 DEF RegionFrames
<1> QED
  BY <1>1, <1>2, <1>5

\* The frames of a plain map's available region are memory, or real mode memory.
LEMMA RegionIsRam ==
    ASSUME PlainMaps, mmap \in MemoryMaps, NEW r \in Recorded, r.available,
           NEW f \in Frame, f \in RegionFrames(r)
    PROVE  IsRam(f) \/ f \in 0 .. RealPages - 1
<1> DEFINE base == r.base
           last == (r.base + r.length) - 1
<1>0. r \in mmap
  BY DEF Recorded
<1>1. r.base \in Nat /\ r.length \in Nat /\ r.length > 0
  BY <1>0, PlainRegion
<1>2. \/ r.base + r.length <= PageSize * RealPages
      \/ \E k, l \in Nat : r.base = PageSize * k /\ r.length = PageSize * l
  BY <1>0 DEF PlainMaps
<1>3. PageSize \in Nat /\ PageSize > 1 /\ f \in Nat
  BY VmmAssumption DEF Frame, Page
<1>4. f \in (base \div PageSize) .. (last \div PageSize)
  BY <1>0, PlainRegion
<1>5. base \in Nat /\ last \in Nat /\ base + r.length = last + 1
  BY <1>1, <1>2
<1> HIDE DEF last, base
<1>6. PageSize * f \in Nat /\ PageSize * f <= last
  <2> DEFINE q == last \div PageSize
  <2>1. q \in Nat /\ PageSize * q <= last /\ f <= q
    BY <1>4, <1>5, Quotient
  <2> HIDE DEF q
  <2>2. PageSize * f \in Nat /\ PageSize * q \in Nat /\ PageSize * f <= PageSize * q
    BY <1>3, <2>1, Products
  <2> QED
    BY <2>1, <2>2, <1>5
<1>7. CASE r.base + r.length <= PageSize * RealPages
  <2>1. PageSize * f < PageSize * RealPages
    <3>1. PageSize * RealPages \in Nat
      BY Layout, Products
    <3> QED
      BY <1>5, <1>6, <1>7, <3>1 DEF base
  <2>2. f < RealPages
    BY <2>1, <1>3, Layout, Products
  <2> QED
    BY <2>2, <1>3, Layout
<1>8. CASE \E k, l \in Nat : r.base = PageSize * k /\ r.length = PageSize * l
  <2>1. PICK k, l \in Nat : base = PageSize * k /\ r.length = PageSize * l
    BY <1>8 DEF base
  <2>2. k <= f
    <3> DEFINE q == base \div PageSize
    <3>1. q \in Nat /\ base < (PageSize * q) + PageSize /\ q <= f
      BY <1>3, <1>4, <1>5, Quotient
    <3> HIDE DEF q
    <3>2. (PageSize * q) + PageSize = PageSize * (q + 1)
      BY <3>1, Products
    <3>3. PageSize * k < PageSize * (q + 1) /\ q + 1 \in Nat
      BY <2>1, <3>1, <3>2
    <3>4. k < q + 1
      BY <3>3, Products
    <3> QED
      BY <3>1, <3>4, <1>3
  <2>3. base <= PageSize * f
    BY <2>1, <2>2, <1>3, Products
  <2>4. PageSize * (f + 1) <= base + r.length
    <3>1. PageSize * (k + l) = base + r.length /\ k + l \in Nat
      BY <2>1, Products
    <3>2. PageSize * f < PageSize * (k + l)
      BY <1>5, <1>6, <3>1
    <3>3. f + 1 <= k + l /\ f + 1 \in Nat
      BY <3>1, <3>2, <1>3, Products
    <3>4. PageSize * (f + 1) <= PageSize * (k + l)
      BY <3>1, <3>3, Products
    <3> QED
      BY <3>1, <3>4
  <2>5. f * PageSize = PageSize * f /\ (f + 1) * PageSize = PageSize * (f + 1)
    BY <1>3, Products
  <2>6. r.base <= f * PageSize /\ (f + 1) * PageSize <= r.base + r.length
    BY <2>3, <2>4, <2>5 DEF base
  <2> QED
    BY <2>6 DEF IsRam
<1> QED
  BY <1>2, <1>7, <1>8

\* Free frames are memory or belong to real mode; the heap is on memory.
RamInv ==
    /\ pc \notin {"pmm", "panic"} => \A f \in Frame \ used : IsRam(f) \/ f \in 0 .. RealPages - 1
    /\ \A p \in Mapped \ LinearPages : IsRam(pages[p])
    /\ todo \subseteq Recorded

\* The map does not change, so what is recorded of it does not.
LEMMA RecordedKept ==
    ASSUME mmap' = mmap PROVE Recorded' = Recorded
BY DEF Recorded

\* The map does not change, so what is memory does not.
LEMMA RamKept ==
    ASSUME mmap' = mmap, NEW f PROVE IsRam(f)' <=> IsRam(f)
BY RecordedKept DEF IsRam

\* Every step keeps RamInv.
LEMMA RamInvNext ==
    ASSUME PlainMaps, VmmInv, RamInv, [Next]_vars
    PROVE  RamInv'
<1>1. mmap' = mmap
  BY DEF Next, vars, pmm_init, MarkRegion, AllocationFails, vmm_init, MapLinear, NoTable,
         EnablePaging, vmm_find_free_memory, FindFirstFrame, MapHeapPage, HeapMapped,
         vmm_unmap_page, RolledBack, Ended
<1>2. \A f : IsRam(f)' <=> IsRam(f)
  BY <1>1, RamKept
<1>12. (todo \subseteq Recorded)'
  <2>1. Recorded' = Recorded /\ todo \subseteq Recorded
    BY <1>1, RecordedKept DEF RamInv
  <2>2. todo' \subseteq Recorded
    BY <2>1 DEF Next, vars, pmm_init, MarkRegion, AllocationFails, vmm_init, MapLinear, NoTable,
         EnablePaging, vmm_find_free_memory, FindFirstFrame, MapHeapPage, HeapMapped,
         vmm_unmap_page, RolledBack, Ended
  <2> QED
    BY <2>1, <2>2
<1>3. BootTypes /\ LinearInv /\ HeapInv /\ BackingInv
  BY DEF VmmInv
<1>4. CASE pmm_init
  <2>1. used' = Frame /\ pages' = pages
    BY <1>4 DEF pmm_init, pageVars
  <2>2. Mapped' = Mapped
    BY <2>1 DEF Mapped
  <2> QED
    BY <1>2, <1>12, <2>1, <2>2 DEF RamInv
<1>5. CASE MarkRegion
  <2>1. PICK r \in todo : used' = used \ RegionFrames(r)
    BY <1>5 DEF MarkRegion
  <2>2. pages' = pages /\ pc = "regions" /\ pc' = pc
    BY <1>5 DEF MarkRegion, pageVars
  <2>3. Mapped' = Mapped
    BY <2>2 DEF Mapped
  <2>4. r \in Recorded /\ r.available /\ mmap \in MemoryMaps
    BY <1>3 DEF BootTypes, RamInv
  <2>5. \A f \in Frame : f \in RegionFrames(r) => IsRam(f) \/ f \in 0 .. RealPages - 1
    BY <2>4, RegionIsRam
  <2> QED
    BY <1>2, <1>12, <2>1, <2>2, <2>3, <2>5 DEF RamInv
<1>6. CASE AllocationFails
  <2>1. pages' = pages /\ pc' = "panic"
    BY <1>6 DEF AllocationFails, pageVars
  <2>2. Mapped' = Mapped
    BY <2>1 DEF Mapped
  <2> QED
    BY <1>2, <1>12, <2>1, <2>2 DEF RamInv
<1>7. CASE vmm_init
  <2>1. pages' = [p \in Page |-> Absent] /\ used' = used /\ pc = "regions" /\ pc' = "linear"
    BY <1>7 DEF vmm_init, frameVars
  <2>2. Mapped' = {}
    BY <2>1 DEF Mapped
  <2> QED
    BY <1>2, <1>12, <2>1, <2>2 DEF RamInv
<1>8. CASE MapLinear
  <2> DEFINE p == KernelBase + i
  <2>1. pc = "linear" /\ i \in Nat /\ i < Linear
    BY <1>3, <1>8 DEF MapLinear, Linear, BootTypes
  <2>2. p \in Page /\ p \in LinearPages /\ p - KernelBase \in Frame
    BY <2>1, Layout DEF Page, Frame
  <2>3. CASE NoTable(p)
    <3>1. pages' = pages /\ pc' = "panic"
      BY <2>3 DEF NoTable, pageVars
    <3>2. Mapped' = Mapped
      BY <3>1 DEF Mapped
    <3> QED
      BY <1>2, <1>12, <3>1, <3>2 DEF RamInv
  <2>4. CASE vmm_map_page(p, p - KernelBase) /\ pmm_mark_frame_reserved(p - KernelBase) /\ pc' = pc
    <3>1. used \subseteq used'
      BY <2>4 DEF pmm_mark_frame_reserved
    <3> HIDE DEF p
    <3>2. Mapped' = Mapped \cup {p} /\ \A q \in Page : q # p => pages'[q] = pages[q]
      BY <1>3, <2>2, <2>4, PageMapped
    <3>3. Mapped \subseteq Page
      BY DEF Mapped
    <3> QED
      BY <1>2, <1>12, <2>1, <2>2, <2>4, <3>1, <3>2, <3>3 DEF RamInv
  <2> QED
    BY <1>8, <2>3, <2>4 DEF MapLinear
<1>9. CASE MapHeapPage
  <2> DEFINE p == PageAt(heap, i)
  <2>1. pc = "map" /\ i \in Nat /\ i < HeapPages
    BY <1>3, <1>9 DEF MapHeapPage, BootTypes
  <2>2. p \in Page \ LinearPages
    BY <1>3, <2>1, Layout DEF HeapInv
  <2>3. CASE pages' = pages /\ (pc' = "panic" \/ used' = used)
    <3>1. Mapped' = Mapped
      BY <2>3 DEF Mapped
    <3> QED
      BY <1>2, <1>12, <2>1, <2>3, <3>1 DEF RamInv
  <2>4. CASE /\ \E f \in Frame :
                   FindsFrame(from, f) /\ vmm_map_page(p, f) /\ pmm_mark_frame_reserved(f)
             /\ pc' = pc
    <3>1. PICK f \in Frame :
                   FindsFrame(from, f) /\ vmm_map_page(p, f) /\ pmm_mark_frame_reserved(f)
      BY <2>4
    <3>2. f \notin used /\ used' = used \cup {f}
      BY <3>1 DEF FindsFrame, FreeFrames, pmm_mark_frame_reserved
    <3> HIDE DEF p
    <3>3. /\ pages'[p] = f
          /\ \A q \in Page : q # p => pages'[q] = pages[q]
          /\ Mapped' = Mapped \cup {p} /\ Mapped \subseteq Page
      BY <1>3, <2>2, <3>1, PageMapped DEF Mapped
    <3>4. f \notin 0 .. RealPages - 1
      <4>1. 0 .. Linear - 1 \subseteq used
        BY <1>3, <2>1 DEF LinearInv, Running, Booting
      <4>2. 0 .. RealPages - 1 \subseteq 0 .. Linear - 1
        BY Layout
      <4> QED
        BY <3>2, <4>1, <4>2
    <3>5. IsRam(f)
      BY <2>1, <3>2, <3>4 DEF RamInv
    <3> QED
      BY <1>2, <1>12, <2>1, <2>4, <3>2, <3>3, <3>5 DEF RamInv
  <2> QED
    BY <1>9, <2>3, <2>4 DEF MapHeapPage, NoTable, frameVars, pageVars
<1>10. CASE vmm_unmap_page
  <2> DEFINE p == PageAt(heap, i)
  <2>1. pc = "rollback" /\ i \in Nat /\ i < HeapPages /\ pages' = pages
    BY <1>3, <1>10 DEF vmm_unmap_page, BootTypes, pageVars
  <2>2. p \in Page \ LinearPages
    BY <1>3, <2>1, Layout DEF HeapInv
  <2>3. Mapped' = Mapped
    BY <2>1 DEF Mapped
  <2>4. used' = used \/ (used' = used \ {pages[p]} /\ pages[p] # Absent)
    BY <1>10 DEF vmm_unmap_page, frameVars, pmm_mark_frame_available
  <2> HIDE DEF p
  <2>5. pages[p] # Absent => IsRam(pages[p])
    BY <2>2 DEF RamInv, Mapped
  <2> QED
    BY <1>2, <1>12, <2>1, <2>3, <2>4, <2>5 DEF RamInv
<1>11. CASE EnablePaging \/ vmm_find_free_memory \/ FindFirstFrame \/ HeapMapped \/ RolledBack
            \/ Ended \/ UNCHANGED vars
  <2>1. pages' = pages /\ used' = used /\ (pc \in {"pmm", "panic"} => pc' = pc)
    BY <1>11 DEF EnablePaging, vmm_find_free_memory, FindFirstFrame, HeapMapped, RolledBack,
                 Ended, vars, frameVars, pageVars
  <2>2. Mapped' = Mapped
    BY <2>1 DEF Mapped
  <2> QED
    BY <1>2, <1>12, <2>1, <2>2 DEF RamInv
<1> QED
  BY <1>4, <1>5, <1>6, <1>7, <1>8, <1>9, <1>10, <1>11 DEF Next

\* Where the available regions lie within 32 bits, are not empty and begin and
\* end at page boundaries unless they lie in real mode memory (PlainMaps), a
\* frame that is free once paging is on is memory of a region pmm_init has a
\* record of.  pmm.c ensures none of this of the map it is given.
THEOREM FreeMemoryIsRam ==
    ASSUME PlainMaps PROVE Spec => []FreeFramesAreRam
<1>1. Init => RamInv
  <2>1. Init => Mapped = {} /\ pc = "pmm" /\ todo = {}
    BY DEF Init, Mapped
  <2> QED
    BY <2>1 DEF RamInv
<1>2. VmmInv /\ RamInv /\ [Next]_vars => RamInv'
  BY RamInvNext
<1>3. VmmInv /\ RamInv => FreeFramesAreRam
  <2>1. ASSUME VmmInv, RamInv, Running, NEW f \in Frame \ used
        PROVE  IsRam(f)
    <3>1. 0 .. RealPages - 1 \subseteq 0 .. Linear - 1
      BY Layout
    <3>2. pc \notin {"pmm", "panic"} /\ f \notin 0 .. RealPages - 1
      BY <2>1, <3>1 DEF Running, Booting, VmmInv, LinearInv
    <3> QED
      BY <2>1, <3>2 DEF RamInv
  <2> QED
    BY <2>1 DEF FreeFramesAreRam, Running
<1> QED
  BY <1>1, <1>2, <1>3, VmmInvHolds, PTL DEF Spec

-----------------------------------------------------------------------------
(* The count of the frames *)

\* The last frame of the address space is not available memory: firmware is
\* there.  pmm_init leaves it out of its counter and not out of its bitmap.
TopReserved ==
    \A m \in MemoryMaps : \A r \in m :
        r.available => r.base + r.length <= PageSize * (NumPages - 1)

\* The counter covers every frame but the last.
LEMMA FrameCount == num_memory_frames = NumPages - 1 /\ NumPages \in Nat /\ NumPages >= 2
<1>1. NumPages \in Nat /\ NumPages >= 2 /\ PageSize \in Nat /\ PageSize > 1
  BY Layout, VmmAssumption
<1>2. Word = PageSize * NumPages /\ Word \in Nat /\ PageSize * 1 <= PageSize * NumPages
  BY <1>1, Products DEF Word
<1>3. Word - 1 \in Nat
  BY <1>1, <1>2
<1> DEFINE q == (Word - 1) \div PageSize
<1>4. q \in Nat /\ PageSize * q <= Word - 1 /\ Word - 1 < (PageSize * q) + PageSize
  BY <1>3, Quotient
<1> HIDE DEF q
<1>5. PageSize * q \in Nat /\ PageSize * (q + 1) = (PageSize * q) + PageSize
  BY <1>4, Products
<1>6. q < NumPages
  <2>1. PageSize * q < PageSize * NumPages
    BY <1>2, <1>4, <1>5
  <2> QED
    BY <2>1, <1>1, <1>4, Products
<1>7. NumPages <= q + 1
  <2>1. SUFFICES ASSUME q + 1 + 1 <= NumPages PROVE FALSE
    BY <1>1, <1>4
  <2>2. PageSize * (q + 1 + 1) <= PageSize * NumPages
    BY <2>1, <1>1, <1>4, Products
  <2>3. PageSize * (q + 1 + 1) = (PageSize * (q + 1)) + PageSize
    BY <1>4, Products
  <2> QED
    BY <2>2, <2>3, <1>1, <1>2, <1>4, <1>5
<1> QED
  BY <1>1, <1>4, <1>6, <1>7 DEF q, num_memory_frames

\* Memory is in the frames of its region.
LEMMA RamInRegion ==
    ASSUME PlainMaps, mmap \in MemoryMaps, NEW f \in Frame, IsRam(f)
    PROVE  \E r \in Recorded : r.available /\ f \in RegionFrames(r)
<1>1. PICK r \in Recorded : /\ r.available /\ r.base <= f * PageSize
                            /\ (f + 1) * PageSize <= r.base + r.length
  BY DEF IsRam
<1>0. r \in mmap
  BY DEF Recorded
<1> DEFINE base == r.base
           last == (r.base + r.length) - 1
           a == base \div PageSize
           z == last \div PageSize
<1>2. /\ base \in Nat /\ r.length \in Nat /\ r.length > 0
      /\ RegionFrames(r) = a .. z
  BY <1>0, <1>1, PlainRegion
<1>3. f \in Nat /\ PageSize \in Nat /\ PageSize > 1 /\ last \in Nat
  BY <1>2, VmmAssumption DEF Frame, Page
<1>4. base <= PageSize * f /\ PageSize * (f + 1) <= last + 1
      /\ PageSize * (f + 1) = (PageSize * f) + PageSize /\ PageSize * f \in Nat
  BY <1>1, <1>2, <1>3, Products
<1>5. a \in Nat /\ PageSize * a <= base
  BY <1>2, Quotient
<1>6. z \in Nat /\ last < (PageSize * z) + PageSize
  BY <1>3, Quotient
<1> HIDE DEF a, z, base, last
<1>7. a <= f
  <2>1. PageSize * a \in Nat /\ PageSize * a < PageSize * (f + 1) /\ f + 1 \in Nat
    BY <1>2, <1>3, <1>4, <1>5, Products
  <2>2. a < f + 1
    BY <2>1, <1>5, Products
  <2> QED
    BY <2>2, <1>3, <1>5
<1>8. f <= z
  <2>1. PageSize * (z + 1) = (PageSize * z) + PageSize /\ PageSize * z \in Nat /\ z + 1 \in Nat
    BY <1>6, Products
  <2>2. PageSize * f < PageSize * (z + 1)
    BY <1>3, <1>4, <1>6, <2>1
  <2>3. f < z + 1
    BY <2>1, <2>2, <1>3, Products
  <2> QED
    BY <2>3, <1>3, <1>6
<1> QED
  BY <1>1, <1>2, <1>3, <1>5, <1>6, <1>7, <1>8

\* What pmm_init frees is counted.
LEMMA RegionCounted ==
    ASSUME PlainMaps, TopReserved, mmap \in MemoryMaps, NEW r \in mmap, r.available
    PROVE  \A f \in RegionFrames(r) : f < num_memory_frames
<1> DEFINE last == (r.base + r.length) - 1
           z == last \div PageSize
<1>1. /\ r.base \in Nat /\ r.length \in Nat /\ r.length > 0
      /\ RegionFrames(r) = (r.base \div PageSize) .. z
  BY PlainRegion
<1>2. r.base + r.length <= PageSize * (NumPages - 1)
  BY DEF TopReserved
<1>3. last \in Nat /\ NumPages - 1 \in Nat /\ last < PageSize * (NumPages - 1)
  <2>1. NumPages - 1 \in Nat
    BY FrameCount
  <2>2. PageSize * (NumPages - 1) \in Nat
    BY <2>1, Products
  <2> QED
    BY <1>1, <1>2, <2>1, <2>2
<1>4. z \in Nat /\ PageSize * z <= last
  BY <1>3, Quotient
<1>5. r.base \div PageSize \in Nat
  BY <1>1, Quotient
<1> HIDE DEF z, last
<1>6. z < NumPages - 1
  <2>1. PageSize * z \in Nat /\ PageSize * (NumPages - 1) \in Nat
    BY <1>3, <1>4, Products
  <2>2. PageSize * z < PageSize * (NumPages - 1)
    BY <2>1, <1>3, <1>4
  <2> QED
    BY <2>2, <1>3, <1>4, Products
<1> QED
  BY <1>1, <1>4, <1>5, <1>6, FrameCount

\* The used frames that the counter covers.
Counted == {f \in used : f < num_memory_frames}

LEMMA CountedFinite ==
    ASSUME NEW S \in SUBSET Frame
    PROVE  LET C == {f \in S : f < num_memory_frames}
           IN  IsFiniteSet(C) /\ Cardinality(C) \in 0 .. num_memory_frames
<1> DEFINE C == {f \in S : f < num_memory_frames}
<1>1. C \subseteq 0 .. NumPages - 2
  <2>1. \A f \in Frame : f < num_memory_frames => f \in 0 .. NumPages - 2
    BY FrameCount DEF Frame, Page
  <2> QED
    BY <2>1
<1>2. IsFiniteSet(0 .. NumPages - 2) /\ Cardinality(0 .. NumPages - 2) = NumPages - 1
  BY FrameCount, FS_Interval
<1> HIDE DEF C
<1>3. IsFiniteSet(C) /\ Cardinality(C) <= NumPages - 1
  BY <1>1, <1>2, FS_Subset
<1>4. Cardinality(C) \in Nat
  BY <1>3, FS_CardinalityType
<1>5. IsFiniteSet(C) /\ Cardinality(C) \in 0 .. num_memory_frames
  BY <1>3, <1>4, FrameCount
<1> QED
  BY <1>5 DEF C

\* Marking a frame keeps the counter exact.
LEMMA FrameReserved ==
    ASSUME used \subseteq Frame, NEW f \in Frame, f < num_memory_frames,
           num_used = Cardinality(Counted), pmm_mark_frame_reserved(f)
    PROVE  num_used' = Cardinality(Counted')
<1>1. IsFiniteSet(Counted)
  BY CountedFinite DEF Counted
<1>2. Counted' = Counted \cup {f} /\ (f \in Counted <=> f \in used)
  BY DEF pmm_mark_frame_reserved, Counted
<1> QED
  BY <1>1, <1>2, FS_AddElement DEF pmm_mark_frame_reserved

LEMMA FrameFreed ==
    ASSUME used \subseteq Frame, NEW f \in Frame, f < num_memory_frames,
           num_used = Cardinality(Counted), pmm_mark_frame_available(f)
    PROVE  num_used' = Cardinality(Counted')
<1>1. IsFiniteSet(Counted)
  BY CountedFinite DEF Counted
<1>2. Counted' = Counted \ {f} /\ (f \in Counted <=> f \in used)
  BY DEF pmm_mark_frame_available, Counted
<1> QED
  BY <1>1, <1>2, FS_RemoveElement DEF pmm_mark_frame_available

\* Freeing a region does, too.
LEMMA RegionFreed ==
    ASSUME used \subseteq Frame, num_used = Cardinality(Counted), NEW R,
           \A f \in R : f < num_memory_frames,
           used' = used \ R, num_used' = (num_used - Cardinality(used \cap R)) % Word
    PROVE  num_used' = Cardinality(Counted')
<1>1. Counted' = Counted \ R /\ used \cap R = Counted \cap R
  BY DEF Counted
<1>2. IsFiniteSet(Counted)
  BY CountedFinite DEF Counted
<1>3. Cardinality(Counted \ R) = Cardinality(Counted) - Cardinality(Counted \cap R)
  BY <1>2, FS_Difference
<1>4. Cardinality(Counted') \in 0 .. num_memory_frames
  <2>1. used' \in SUBSET Frame
    OBVIOUS
  <2> QED
    BY <2>1, CountedFinite DEF Counted
<1>5. Word \in Nat /\ num_memory_frames < Word
  <2>1. Word = PageSize * NumPages /\ Word \in Nat
    BY VmmAssumption, Products DEF Word
  <2>2. PageSize * NumPages >= NumPages
    BY VmmAssumption, FrameCount
  <2> QED
    BY <2>1, <2>2, FrameCount
<1>6. Cardinality(Counted') \in 0 .. Word - 1
  BY <1>4, <1>5, FrameCount
<1>7. Cardinality(Counted') % Word = Cardinality(Counted')
  BY <1>5, <1>6, SmallRemainder
<1> QED
  BY <1>1, <1>3, <1>7

\* The types of the variables that BootTypes leaves out.
CallTypes ==
    /\ tables \subseteq {TableOf(p) : p \in Page}
    /\ i <= NumPages
    /\ heap \in Page /\ from \in Frame

CountInv ==
    /\ CallTypes
    /\ num_used = Cardinality(Counted)
    /\ \A p \in Mapped : pages[p] < num_memory_frames

LEMMA CountInvInit == Init => CountInv
<1> SUFFICES ASSUME Init PROVE CountInv
  OBVIOUS
<1>1. Mapped = {} /\ num_used = 0
  BY DEF Init, Mapped
<1>2. CallTypes
  BY FrameCount DEF Init, CallTypes, Frame, Page
<1>3. Counted = {}
  BY DEF Init, Counted
<1> QED
  BY <1>1, <1>2, <1>3, FS_EmptySet DEF CountInv

\* A step keeps the types of the arguments.
LEMMA CallTypesNext ==
    ASSUME VmmInv, CallTypes, [Next]_vars PROVE CallTypes'
<1>1. BootTypes /\ HeapInv /\ i \in Nat
  BY DEF VmmInv, BootTypes
<1>2. CASE MapLinear
  <2>1. i < Linear /\ KernelBase + i \in Page /\ i' \in {i, i + 1} /\ heap' = heap /\ from' = from
    BY <1>1, <1>2, Layout DEF MapLinear, NoTable, callVars, Page, Linear
  <2>2. tables' \subseteq tables \cup {TableOf(KernelBase + i)}
    BY <1>2 DEF MapLinear, NoTable, vmm_map_page, pageVars
  <2>3. i' <= NumPages
    BY <1>1, <2>1, Layout DEF CallTypes
  <2> QED
    BY <2>1, <2>2, <2>3 DEF CallTypes
<1>3. CASE MapHeapPage
  <2> DEFINE p == PageAt(heap, i)
  <2>1. pc = "map" /\ i < HeapPages /\ i' \in {0, i, i + 1} /\ heap' = heap /\ from' = from
    BY <1>3 DEF MapHeapPage, NoTable, callVars
  <2>2. p \in Page
    BY <1>1, <2>1, Layout DEF HeapInv
  <2>3. tables' \subseteq tables \cup {TableOf(p)}
    BY <1>3 DEF MapHeapPage, NoTable, vmm_map_page, pageVars
  <2> HIDE DEF p
  <2>4. i' <= NumPages
    BY <1>1, <2>1, Layout, VmmAssumption DEF CallTypes, Linear
  <2> QED
    BY <2>1, <2>2, <2>3, <2>4 DEF CallTypes
<1>4. CASE vmm_unmap_page
  <2>1. i < HeapPages /\ i' \in {i, i + 1} /\ heap' = heap /\ from' = from /\ tables' = tables
    BY <1>4 DEF vmm_unmap_page, callVars, pageVars
  <2>2. i' <= NumPages
    BY <1>1, <2>1, Layout, VmmAssumption DEF CallTypes, Linear
  <2> QED
    BY <2>1, <2>2 DEF CallTypes
<1>5. CASE vmm_init
  <2>1. tables' = {} /\ i' = 0 /\ heap' = heap /\ from' = from
    BY <1>5 DEF vmm_init, callVars
  <2> QED
    BY <2>1, Layout DEF CallTypes
<1>6. CASE vmm_find_free_memory
  <2>1. PICK p \in KernelBase .. NumPages - 1 : heap' = p
    BY <1>6 DEF vmm_find_free_memory
  <2>2. p \in Page /\ tables' = tables /\ i' = i /\ from' = from
    BY <1>6, Layout DEF vmm_find_free_memory, pageVars, Page
  <2> QED
    BY <2>1, <2>2 DEF CallTypes
<1>7. CASE FindFirstFrame
  <2>1. from' \in Frame /\ tables' = tables /\ i' = 0 /\ heap' = heap
    BY <1>7 DEF FindFirstFrame, pageVars, CallTypes
  <2> QED
    BY <2>1, Layout DEF CallTypes
<1>8. CASE pmm_init \/ MarkRegion \/ AllocationFails \/ EnablePaging \/ HeapMapped \/ RolledBack
           \/ Ended \/ UNCHANGED vars
  <2>1. tables' = tables /\ i' = i /\ heap' = heap /\ from' = from
    BY <1>8 DEF pmm_init, MarkRegion, AllocationFails, EnablePaging, HeapMapped, RolledBack,
                Ended, vars, callVars, pageVars
  <2> QED
    BY <2>1 DEF CallTypes
<1> QED
  BY <1>2, <1>3, <1>4, <1>5, <1>6, <1>7, <1>8 DEF Next

\* Every step keeps the counter exact.
LEMMA CountInvNext ==
    ASSUME PlainMaps, TopReserved, VmmInv, CountInv, [Next]_vars
    PROVE  CountInv'
<1>1. /\ BootTypes /\ LinearInv /\ HeapInv /\ used \subseteq Frame /\ i \in Nat
      /\ CallTypes /\ num_used = Cardinality(Counted)
      /\ \A p \in Mapped : pages[p] < num_memory_frames
  BY DEF VmmInv, BootTypes, CountInv
<1>2. CallTypes'
  BY <1>1, CallTypesNext
<1>3. SUFFICES /\ num_used' = Cardinality(Counted')
               /\ \A p \in Mapped' : pages'[p] < num_memory_frames
  BY <1>2 DEF CountInv
<1>4. CASE pmm_init
  <2>1. pages' = pages /\ used' = Frame /\ num_used' = num_memory_frames
    BY <1>4 DEF pmm_init, pageVars
  <2>2. Mapped' = Mapped
    BY <2>1 DEF Mapped
  <2>3. Counted' = 0 .. NumPages - 2
    <3>1. \A f : f \in Frame /\ f < num_memory_frames <=> f \in 0 .. NumPages - 2
      BY FrameCount DEF Frame, Page
    <3> QED
      BY <2>1, <3>1 DEF Counted
  <2>4. Cardinality(0 .. NumPages - 2) = NumPages - 1
    BY FrameCount, FS_Interval
  <2> QED
    BY <1>1, <2>1, <2>2, <2>3, <2>4, FrameCount
<1>5. CASE MarkRegion
  <2>1. PICK r \in todo :
               /\ used' = used \ RegionFrames(r)
               /\ num_used' = (num_used - Cardinality(used \cap RegionFrames(r))) % Word
    BY <1>5 DEF MarkRegion
  <2>2. pages' = pages
    BY <1>5 DEF MarkRegion, pageVars
  <2>3. Mapped' = Mapped
    BY <2>2 DEF Mapped
  <2>4. r \in mmap /\ r.available /\ mmap \in MemoryMaps
    BY <1>1 DEF BootTypes
  <2>5. \A f \in RegionFrames(r) : f < num_memory_frames
    BY <2>4, RegionCounted
  <2>6. num_used' = Cardinality(Counted')
    BY <1>1, <2>1, <2>5, RegionFreed
  <2> QED
    BY <1>1, <2>2, <2>3, <2>6
<1>6. CASE vmm_init
  <2>1. pages' = [p \in Page |-> Absent] /\ used' = used /\ num_used' = num_used
    BY <1>6 DEF vmm_init, frameVars
  <2>2. Mapped' = {} /\ Counted' = Counted
    BY <2>1 DEF Mapped, Counted
  <2> QED
    BY <1>1, <2>1, <2>2
<1>7. CASE UNCHANGED <<frameVars, pageVars>>
  <2>1. pages' = pages /\ used' = used /\ num_used' = num_used
    BY <1>7 DEF frameVars, pageVars
  <2>2. Mapped' = Mapped /\ Counted' = Counted
    BY <2>1 DEF Mapped, Counted
  <2> QED
    BY <1>1, <2>1, <2>2
<1>8. ASSUME NEW p \in Page, NEW f \in Frame, f < num_memory_frames,
             vmm_map_page(p, f), pmm_mark_frame_reserved(f)
      PROVE  /\ num_used' = Cardinality(Counted')
             /\ \A q \in Mapped' : pages'[q] < num_memory_frames
  <2>1. num_used' = Cardinality(Counted')
    BY <1>1, <1>8, FrameReserved
  <2>2. /\ pages'[p] = f
        /\ \A q \in Page : q # p => pages'[q] = pages[q]
        /\ Mapped' = Mapped \cup {p} /\ Mapped \subseteq Page
    BY <1>1, <1>8, PageMapped DEF Mapped
  <2> QED
    BY <1>1, <1>8, <2>1, <2>2
<1>9. CASE MapLinear
  <2> DEFINE p == KernelBase + i
  <2>1. i < Linear
    BY <1>9 DEF MapLinear, Linear
  <2>2. p \in Page /\ p - KernelBase \in Frame /\ p - KernelBase < num_memory_frames
    BY <1>1, <2>1, Layout, FrameCount DEF Page, Frame
  <2>3. CASE NoTable(p)
    BY <1>7, <2>3 DEF NoTable
  <2>4. CASE vmm_map_page(p, p - KernelBase) /\ pmm_mark_frame_reserved(p - KernelBase)
    <3> DEFINE f == p - KernelBase
    <3> HIDE DEF p, f
    <3> QED BY <1>8, <2>2, <2>4 DEF f
  <2> QED
    BY <1>9, <2>3, <2>4 DEF MapLinear
<1>10. CASE MapHeapPage
  <2> DEFINE p == PageAt(heap, i)
  <2>1. pc = "map" /\ i < HeapPages
    BY <1>10 DEF MapHeapPage
  <2>2. p \in Page
    BY <1>1, <2>1, Layout DEF HeapInv
  <2>3. CASE UNCHANGED <<frameVars, pageVars>>
    BY <1>7, <2>3
  <2>4. CASE \E f \in Frame :
               FindsFrame(from, f) /\ vmm_map_page(p, f) /\ pmm_mark_frame_reserved(f)
    <3>1. PICK f \in Frame :
               FindsFrame(from, f) /\ vmm_map_page(p, f) /\ pmm_mark_frame_reserved(f)
      BY <2>4
    <3>2. f < num_memory_frames
      BY <3>1, <1>1, FrameCount DEF FindsFrame, FreeFrames, CallTypes, Frame, Page
    <3> HIDE DEF p
    <3> QED
      BY <1>8, <2>2, <3>1, <3>2
  <2> QED
    BY <1>10, <2>3, <2>4 DEF MapHeapPage, NoTable
<1>11. CASE vmm_unmap_page
  <2> DEFINE p == PageAt(heap, i)
  <2>1. pc = "rollback" /\ i < HeapPages /\ pages' = pages
    BY <1>11 DEF vmm_unmap_page, pageVars
  <2>2. p \in Page /\ Mapped' = Mapped
    BY <1>1, <2>1, Layout DEF HeapInv, Mapped
  <2>3. CASE UNCHANGED frameVars
    BY <1>7, <1>11, <2>3 DEF vmm_unmap_page
  <2>4. CASE pages[p] # Absent /\ pmm_mark_frame_available(pages[p])
    <3> HIDE DEF p
    <3>1. pages[p] \in Frame /\ pages[p] < num_memory_frames
      BY <1>1, <2>2, <2>4 DEF BootTypes, Mapped
    <3>2. num_used' = Cardinality(Counted')
      BY <1>1, <2>4, <3>1, FrameFreed
    <3> QED
      BY <1>1, <2>1, <2>2, <3>2
  <2> QED
    BY <1>11, <2>3, <2>4 DEF vmm_unmap_page
<1>12. CASE AllocationFails \/ EnablePaging \/ vmm_find_free_memory \/ FindFirstFrame
            \/ HeapMapped \/ RolledBack \/ Ended \/ UNCHANGED vars
  <2>1. UNCHANGED <<frameVars, pageVars>>
    BY <1>12 DEF AllocationFails, EnablePaging, vmm_find_free_memory, FindFirstFrame,
                 HeapMapped, RolledBack, Ended, vars, frameVars, pageVars
  <2> QED
    BY <1>7, <2>1
<1> QED
  BY <1>4, <1>5, <1>6, <1>9, <1>10, <1>11, <1>12 DEF Next

-----------------------------------------------------------------------------
(* What becomes of the frames *)

\* The frames of the heap's pages lo to hi - 1.
HeapFrames(lo, hi) == {pages[heap + o] : o \in lo .. hi - 1}

\* Until the heap is mapped all memory is free; then the heap has what is not,
\* and the rollback gives it back page by page.
AccountInv ==
    /\ pc = "regions" => \A f \in Ram \cap used : \E r \in todo : f \in RegionFrames(r)
    /\ pc \in {"linear", "paging", "find"} => Ram \cap used = {}
    /\ pc \in {"paging", "find"} => Mapped = LinearPages
    /\ pc \in {"find", "map", "rollback"} => heap = KernelBase + Linear
    /\ pc = "map" =>
          /\ i <= HeapPages
          /\ Ram \cap used = HeapFrames(0, i)
          /\ \A f \in Ram : from <= f
    /\ pc = "rollback" => i <= HeapPages /\ Ram \cap used \subseteq HeapFrames(i, HeapPages)
    /\ RefusedOnlyWhenFull /\ FramesGivenBack

\* The frames of real mode memory and of the kernel are the first ones.
LEMMA LinearFirst == LinearFrames = 0 .. Linear - 1
<1>1. \A x \in 0 .. Linear - 1 : KernelBase + x \in LinearPages /\ (KernelBase + x) - KernelBase = x
  BY Layout
<1>2. \A p \in LinearPages : p - KernelBase \in 0 .. Linear - 1
  BY Layout
<1>3. \A x \in 0 .. Linear - 1 : x \in LinearFrames
  BY <1>1 DEF LinearFrames
<1> QED
  BY <1>2, <1>3 DEF LinearFrames

\* The heap fits behind the kernel without wrapping around.
LEMMA HeapLayout ==
    /\ HeapPages \in Nat \ {0}
    /\ \A o \in 0 .. HeapPages - 1 :
          /\ PageAt(KernelBase + Linear, o) = (KernelBase + Linear) + o
          /\ (KernelBase + Linear) + o \in Page \ LinearPages
<1>1. HeapSize \in Nat /\ HeapSize > 0 /\ HeapPages \in Nat /\ HeapSize <= PageSize * HeapPages
  BY VmmAssumption, RoundedUp DEF HeapPages
<1>2. HeapPages # 0
  <2>1. PageSize * 0 = 0
    BY VmmAssumption
  <2> QED
    BY <1>1, <2>1
<1>3. KernelBase + Linear + HeapPages <= NumPages
  BY VmmAssumption, <1>1, Layout DEF Linear
<1>4. ASSUME NEW o \in 0 .. HeapPages - 1
      PROVE  /\ PageAt(KernelBase + Linear, o) = (KernelBase + Linear) + o
             /\ (KernelBase + Linear) + o \in Page \ LinearPages
  <2> DEFINE p == (KernelBase + Linear) + o
  <2>1. p \in 0 .. NumPages - 1 /\ p > KernelBase + Linear - 1
    BY <1>1, <1>3, Layout
  <2>2. p % NumPages = p
    <3> HIDE DEF p
    <3> QED BY <2>1, Layout, SmallRemainder
  <2>3. p \in Page \ LinearPages
    BY <2>1, Layout DEF Page
  <2> QED
    BY <2>2, <2>3 DEF PageAt
<1> QED
  BY <1>1, <1>2, <1>4

\* The heap is put right behind the kernel.
LEMMA HeapBehindKernel ==
    ASSUME VmmInv, Running, Mapped = LinearPages, NEW p \in KernelBase .. NumPages - 1,
           FitsAt(p), \A q \in KernelBase .. p - 1 : ~FitsAt(q)
    PROVE  p = KernelBase + Linear
<1> DEFINE h == KernelBase + Linear
<1>1. FitsAt(h)
  <2> SUFFICES ASSUME NEW o \in 0 .. HeapPages - 1
               PROVE  PageAt(h, o) * PageSize < Word - 1 /\ ~vmm_is_page_used(PageAt(h, o))
    BY DEF FitsAt
  <2> DEFINE q == h + o
  <2>1. PageAt(h, o) = q /\ q \in Page \ LinearPages
    BY HeapLayout
  <2> HIDE DEF q
  <2>2. ~vmm_is_page_used(q)
    BY <2>1 DEF vmm_is_page_used, Mapped
  <2>3. q \in Nat /\ q + 1 <= NumPages /\ NumPages \in Nat /\ PageSize \in Nat /\ PageSize > 1
    BY <2>1, Layout, VmmAssumption DEF Page
  <2>4. q * PageSize = PageSize * q /\ PageSize * q \in Nat
        /\ PageSize * (q + 1) = (PageSize * q) + PageSize
        /\ PageSize * (q + 1) <= PageSize * NumPages /\ PageSize * NumPages \in Nat
    BY <2>3, Products
  <2>5. q * PageSize < Word - 1
    BY <2>3, <2>4 DEF Word
  <2> QED
    BY <2>1, <2>2, <2>5
<1>2. h \in Nat /\ KernelBase <= h
  BY Layout
<1>3. p <= h
  <2>1. SUFFICES ASSUME h < p PROVE FALSE
    BY <1>2, Layout
  <2>2. h \in KernelBase .. p - 1
    BY <1>2, <2>1, Layout
  <2> QED
    BY <1>1, <2>2
<1>4. ~(p < h)
  <2>1. SUFFICES ASSUME p < h PROVE FALSE
    OBVIOUS
  <2>2. p \in LinearPages /\ p + 0 = p /\ p \in 0 .. NumPages - 1
    BY <2>1, Layout
  <2>3. PageAt(p, 0) = p
    BY <2>2, Layout, SmallRemainder DEF PageAt
  <2>4. 0 \in 0 .. HeapPages - 1
    BY HeapLayout
  <2>5. pages[p] = Absent
    BY <2>3, <2>4 DEF FitsAt, vmm_is_page_used
  <2> QED
    BY <2>2, <2>5 DEF Mapped
<1> QED
  BY <1>2, <1>3, <1>4, Layout

\* Every page of the heap holds a byte of it.
LEMMA HeapBytes == {b \div PageSize : b \in 0 .. HeapSize - 1} = 0 .. HeapPages - 1
<1>1. HeapSize \in Nat /\ HeapSize > 0 /\ HeapPages \in Nat /\ HeapSize <= PageSize * HeapPages
      /\ PageSize \in Nat /\ PageSize > 1 /\ PageSize * HeapPages \in Nat
  BY VmmAssumption, RoundedUp, Products DEF HeapPages
<1>2. ASSUME NEW b \in 0 .. HeapSize - 1 PROVE b \div PageSize \in 0 .. HeapPages - 1
  <2> DEFINE q == b \div PageSize
  <2>1. b \in Nat /\ b < PageSize * HeapPages
    BY <1>1
  <2>2. q \in Nat /\ PageSize * q <= b
    BY <2>1, Quotient
  <2> HIDE DEF q
  <2>3. PageSize * q \in Nat
    BY <2>2, Products
  <2>4. PageSize * q < PageSize * HeapPages
    BY <1>1, <2>1, <2>2, <2>3
  <2>5. q < HeapPages
    BY <2>4, <1>1, <2>2, Products
  <2> QED
    BY <2>2, <2>5, <1>1 DEF q
<1>3. ASSUME NEW o \in 0 .. HeapPages - 1
      PROVE  \E b \in 0 .. HeapSize - 1 : b \div PageSize = o
  <2> DEFINE x == HeapSize + PageSize - 1
             q == x \div PageSize
             b == PageSize * o
  <2>1. x \in Nat /\ q = HeapPages
    BY <1>1 DEF HeapPages, div_up
  <2>2. PageSize * q <= x
    BY <2>1, Quotient
  <2>3. PageSize * HeapPages <= HeapSize + PageSize - 1
    BY <2>1, <2>2
  <2>4. o \in Nat /\ o + 1 <= HeapPages /\ o + 1 \in Nat
    BY <1>1
  <2>5. b \in Nat /\ b + PageSize <= PageSize * HeapPages
    BY <2>4, <1>1, Products
  <2>6. b \in 0 .. HeapSize - 1
    <3> HIDE DEF b
    <3> QED BY <1>1, <2>3, <2>5
  <2>7. b \div PageSize = o
    <3> DEFINE c == b \div PageSize
    <3>1. c \in Nat /\ PageSize * c <= b /\ b < (PageSize * c) + PageSize
      BY <2>5, Quotient
    <3> HIDE DEF c
    <3>2. PageSize * (c + 1) = (PageSize * c) + PageSize /\ PageSize * c \in Nat /\ c + 1 \in Nat
          /\ PageSize * (o + 1) = (PageSize * o) + PageSize
      BY <3>1, <2>4, Products
    <3>3. PageSize * o < PageSize * (c + 1) /\ PageSize * c < PageSize * (o + 1)
      BY <3>1, <3>2, <2>5, <1>1
    <3>4. o < c + 1 /\ c < o + 1
      BY <3>1, <3>2, <3>3, <2>4, Products
    <3>5. c = o
      BY <3>1, <3>4, <2>4
    <3> QED
      BY <3>5 DEF c
  <2> QED
    BY <2>6, <2>7
<1> QED
  BY <1>2, <1>3

\* The pages lo to hi - 1 have at most hi - lo frames.
LEMMA FewFrames ==
    ASSUME NEW m \in Nat
    PROVE  IsFiniteSet(HeapFrames(0, m)) /\ Cardinality(HeapFrames(0, m)) <= m
<1> DEFINE D == 0 .. m - 1
           g == [o \in D |-> pages[heap + o]]
<1>1. IsFiniteSet(D) /\ Cardinality(D) = m
  BY FS_Interval
<1>2. g \in Surjection(D, HeapFrames(0, m))
  BY DEF Surjection, HeapFrames
<1> HIDE DEF D, g
<1> QED
  BY <1>1, <1>2, FS_Surjection

\* What may hold the heap: frames in the address space that are counted and
\* neither frame 0 nor another one of the linear pages.
LEMMA RamFrames ==
    ASSUME NEW f \in Ram
    PROVE  /\ f \in Frame /\ f < num_memory_frames /\ IsRam(f)
           /\ f \notin 0 .. Linear - 1 /\ f # 0 /\ f # Absent
<1>1. f \in Frame /\ f < num_memory_frames /\ IsRam(f) /\ f \notin 0 .. Linear - 1
  BY LinearFirst DEF Ram
<1>2. 0 \in 0 .. Linear - 1
  BY Layout
<1> QED
  BY <1>1, <1>2, Layout DEF Frame, Page, Absent

\* While the kernel maps, a free frame may hold the heap.
LEMMA FreeIsRam ==
    ASSUME VmmInv, RamInv, Running, NEW f \in Frame, f < num_memory_frames, f \notin used
    PROVE  f \in Ram
<1>1. 0 .. Linear - 1 \subseteq used /\ 0 .. RealPages - 1 \subseteq 0 .. Linear - 1
  BY Layout DEF VmmInv, LinearInv
<1>2. pc \notin {"pmm", "panic"}
  BY DEF Running, Booting
<1>3. IsRam(f) /\ f \notin 0 .. Linear - 1
  BY <1>1, <1>2 DEF RamInv
<1> QED
  BY <1>3, LinearFirst DEF Ram

\* The search for a frame fails only if all memory from there on is taken.
LEMMA NoFrameLeft ==
    ASSUME VmmInv, Running, NEW start, \A f \in Ram : start <= f, start \in Frame,
           FindsNoFrame(start)
    PROVE  Ram \subseteq used
<1>1. 0 \in used
  BY Layout DEF VmmInv, LinearInv
<1>2. FreeFrames(start) = {}
  BY <1>1 DEF FindsNoFrame, FreeFrames
<1> SUFFICES ASSUME NEW f \in Ram PROVE f \in used
  OBVIOUS
<1>3. f \in Nat /\ f < num_memory_frames /\ start <= f /\ start \in Nat
  BY RamFrames, Layout DEF Frame, Page
<1>4. f \in start .. num_memory_frames - 1
  BY <1>3, FrameCount
<1> QED
  BY <1>2, <1>4 DEF FreeFrames

LEMMA AccountInvInit == Init => AccountInv
BY DEF Init, AccountInv, RefusedOnlyWhenFull, FramesGivenBack

\* A round of the loop of vmm_map_memory.
LEMMA MapHeapAccounted ==
    ASSUME VmmInv, RamInv, CountInv, AccountInv, MapHeapPage, Ram' = Ram
    PROVE  AccountInv'
<1> DEFINE h == KernelBase + Linear
           p == PageAt(heap, i)
<1>1. /\ pc = "map" /\ i \in Nat /\ i < HeapPages /\ heap = h /\ from \in Frame
      /\ Ram \cap used = HeapFrames(0, i) /\ \A f \in Ram : from <= f
      /\ BootTypes /\ Running /\ HeapPages \in Nat /\ h \in Nat
  BY Layout DEF MapHeapPage, VmmInv, BootTypes, AccountInv, CountInv, CallTypes, Running, Booting
<1>2. i \in 0 .. HeapPages - 1
  BY <1>1
<1>3. p = h + i /\ h + i \in Page /\ \A o \in 0 .. HeapPages - 1 : h + o \in Page
  BY <1>1, <1>2, HeapLayout
<1>4. CASE NoTable(p)
  BY <1>4 DEF NoTable, AccountInv, RefusedOnlyWhenFull, FramesGivenBack
<1>5. CASE /\ \E f \in Frame :
                 FindsFrame(from, f) /\ vmm_map_page(p, f) /\ pmm_mark_frame_reserved(f)
           /\ i' = i + 1 /\ UNCHANGED <<mmap, pc, todo, callVars>>
  <2>1. PICK f \in Frame :
                 FindsFrame(from, f) /\ vmm_map_page(p, f) /\ pmm_mark_frame_reserved(f)
    BY <1>5
  <2>2. /\ i' = i + 1 /\ pc' = "map" /\ heap' = h /\ from' = from
        /\ used' = used \cup {f} /\ f \notin used
    BY <1>1, <1>5, <2>1 DEF callVars, pmm_mark_frame_reserved, FindsFrame, FreeFrames
  <2>3. f < num_memory_frames
    BY <1>1, <2>1, FrameCount DEF FindsFrame, FreeFrames, Frame, Page
  <2>4. f \in Ram
    BY <1>1, <2>2, <2>3, FreeIsRam
  <2>5. pages'[h + i] = f /\ \A q \in Page : q # h + i => pages'[q] = pages[q]
    BY <1>1, <1>3, <2>1, PageMapped
  <2>6. Ram' \cap used' = HeapFrames(0, i)'
    <3>1. \A o \in 0 .. i - 1 : pages'[h + o] = pages[h + o]
      BY <1>1, <1>3, <2>5
    <3>2. \A o \in 0 .. i' - 1 : o = i \/ o \in 0 .. i - 1
      BY <1>1, <2>2
    <3>3. i \in 0 .. i' - 1 /\ \A o \in 0 .. i - 1 : o \in 0 .. i' - 1
      BY <1>1, <2>2
    <3>4. HeapFrames(0, i)' = HeapFrames(0, i) \cup {f}
      BY <1>1, <2>2, <2>5, <3>1, <3>2, <3>3 DEF HeapFrames
    <3> QED
      BY <1>1, <2>2, <2>4, <3>4
  <2>7. i' <= HeapPages
    BY <1>1, <2>2
  <2> QED
    BY <1>1, <2>2, <2>6, <2>7 DEF AccountInv, RefusedOnlyWhenFull, FramesGivenBack
<1>6. CASE /\ FindsNoFrame(from) /\ i' = 0 /\ pc' = "rollback"
           /\ UNCHANGED <<mmap, todo, frameVars, pageVars, callVars>>
  <2>1. Ram \subseteq used
    BY <1>1, <1>6, NoFrameLeft
  <2>2. Ram = HeapFrames(0, i)
    BY <1>1, <2>1
  <2>3. Cardinality(Ram) <= i /\ Cardinality(Ram) \in Nat
    BY <1>1, <2>2, FewFrames, FS_CardinalityType
  <2>4. Cardinality(Ram) < HeapPages
    BY <1>1, <2>3
  <2>5. used' = used /\ pages' = pages /\ heap' = heap /\ i' = 0 /\ pc' = "rollback"
    BY <1>6 DEF frameVars, pageVars, callVars
  <2>6. Ram \cap used \subseteq HeapFrames(0, HeapPages)
    BY <1>1 DEF HeapFrames
  <2>7. Ram' \cap used' \subseteq HeapFrames(0, HeapPages)'
    BY <2>5, <2>6 DEF HeapFrames
  <2> QED
    BY <1>1, <2>4, <2>5, <2>7, HeapLayout
    DEF AccountInv, RefusedOnlyWhenFull, FramesGivenBack
<1> QED
  BY <1>4, <1>5, <1>6 DEF MapHeapPage

\* A round of the rollback.
LEMMA UnmapAccounted ==
    ASSUME VmmInv, AccountInv, vmm_unmap_page, Ram' = Ram
    PROVE  AccountInv'
<1> DEFINE h == KernelBase + Linear
           p == PageAt(heap, i)
<1>1. /\ pc = "rollback" /\ i \in Nat /\ i < HeapPages /\ heap = h
      /\ Ram \cap used \subseteq HeapFrames(i, HeapPages)
      /\ Cardinality(Ram) < HeapPages /\ HeapPages \in Nat
  BY Layout DEF vmm_unmap_page, VmmInv, BootTypes, AccountInv, RefusedOnlyWhenFull
<1>2. p = h + i
  BY <1>1, HeapLayout
<1>3. pages' = pages /\ heap' = heap
  BY DEF vmm_unmap_page, pageVars, callVars
<1>4. CASE pc' = "fault"
  BY <1>1, <1>4 DEF AccountInv, RefusedOnlyWhenFull, FramesGivenBack
<1>5. CASE /\ IF pages[p] \in {Absent, 0} THEN UNCHANGED frameVars
                                          ELSE pmm_mark_frame_available(pages[p])
           /\ i' = i + 1 /\ pc' = pc
  <2>1. used' \subseteq used /\ (pages[h + i] \in {Absent, 0} \/ pages[h + i] \notin used')
    BY <1>2, <1>5 DEF frameVars, pmm_mark_frame_available
  <2>2. \A f \in Ram \cap used' : f # pages[h + i]
    BY <2>1, RamFrames
  <2>3. \A o \in i .. HeapPages - 1 : o = i \/ o \in i + 1 .. HeapPages - 1
    BY <1>1
  <2>4. \A f \in Ram \cap used' : f \in HeapFrames(i + 1, HeapPages)
    BY <1>1, <2>1, <2>2, <2>3 DEF HeapFrames
  <2>5. Ram' \cap used' \subseteq HeapFrames(i, HeapPages)'
    BY <1>3, <1>5, <2>4 DEF HeapFrames
  <2>6. i' <= HeapPages
    BY <1>1, <1>5
  <2> QED
    BY <1>1, <1>3, <1>5, <2>5, <2>6 DEF AccountInv, RefusedOnlyWhenFull, FramesGivenBack
<1> QED
  BY <1>4, <1>5 DEF vmm_unmap_page

\* Every step keeps the account.
LEMMA AccountInvNext ==
    ASSUME PlainMaps, VmmInv, RamInv, CountInv, AccountInv, [Next]_vars
    PROVE  AccountInv'
<1> USE DEF RefusedOnlyWhenFull, FramesGivenBack
<1>1. mmap' = mmap
  BY DEF Next, vars, pmm_init, MarkRegion, AllocationFails, vmm_init, MapLinear, NoTable,
         EnablePaging, vmm_find_free_memory, FindFirstFrame, MapHeapPage, HeapMapped,
         vmm_unmap_page, RolledBack, Ended
<1>2. Ram' = Ram
  BY <1>1, RamKept DEF Ram
<1>3. BootTypes /\ LinearInv /\ i \in Nat /\ mmap \in MemoryMaps
  BY DEF VmmInv, BootTypes
<1>4. CASE pmm_init
  <2>1. pc' = "regions" /\ todo' = {r \in Recorded : r.available}
    BY <1>4 DEF pmm_init
  <2>2. \A f \in Ram : \E r \in todo' : f \in RegionFrames(r)
    <3> SUFFICES ASSUME NEW f \in Ram PROVE \E r \in todo' : f \in RegionFrames(r)
      OBVIOUS
    <3>1. f \in Frame /\ IsRam(f)
      BY RamFrames
    <3>2. PICK r \in Recorded : r.available /\ f \in RegionFrames(r)
      BY <1>3, <3>1, RamInRegion
    <3> QED
      BY <2>1, <3>2
  <2> QED
    BY <1>2, <2>1, <2>2 DEF AccountInv
<1>5. CASE MarkRegion
  <2>1. PICK r \in todo : used' = used \ RegionFrames(r) /\ todo' = todo \ {r}
    BY <1>5 DEF MarkRegion
  <2>2. pc = "regions" /\ pc' = "regions"
    BY <1>5 DEF MarkRegion
  <2> QED
    BY <1>2, <2>1, <2>2 DEF AccountInv
<1>6. CASE AllocationFails
  BY <1>6 DEF AllocationFails, AccountInv
<1>7. CASE vmm_init
  <2>1. pc = "regions" /\ todo = {} /\ pc' = "linear" /\ used' = used
    BY <1>7 DEF vmm_init, frameVars
  <2> QED
    BY <1>2, <2>1 DEF AccountInv
<1>8. CASE MapLinear
  <2>1. pc = "linear" /\ i < Linear /\ (pc' = "panic" \/ (pc' = "linear" /\ used' \subseteq used \cup {i}))
    BY <1>3, <1>8, Layout DEF MapLinear, Linear, NoTable, pmm_mark_frame_reserved
  <2>2. i \notin Ram
    <3>1. i \in 0 .. Linear - 1
      BY <1>3, <2>1, Layout
    <3> QED
      BY <3>1, RamFrames
  <2> QED
    BY <1>2, <2>1, <2>2 DEF AccountInv
<1>9. CASE EnablePaging
  <2>1. pc = "linear" /\ i = Linear /\ pc' = "paging" /\ used' = used /\ pages' = pages
    BY <1>9 DEF EnablePaging, Linear, frameVars, pageVars
  <2>2. Mapped = LinearPages /\ Mapped' = Mapped
    BY <1>3, <2>1, Layout DEF LinearInv, Mapped
  <2> QED
    BY <1>2, <2>1, <2>2 DEF AccountInv, LinearPages
<1>10. CASE vmm_find_free_memory
  <2>1. pc = "paging" /\ pc' = "find" /\ used' = used /\ pages' = pages /\ Running
    BY <1>10 DEF vmm_find_free_memory, frameVars, pageVars, Running, Booting
  <2>2. PICK p \in KernelBase .. NumPages - 1 :
                FitsAt(p) /\ (\A q \in KernelBase .. p - 1 : ~FitsAt(q)) /\ heap' = p
    BY <1>10 DEF vmm_find_free_memory
  <2>3. Mapped = LinearPages /\ Mapped' = Mapped
    BY <2>1 DEF AccountInv, Mapped
  <2>4. heap' = KernelBase + Linear
    BY <2>1, <2>2, <2>3, HeapBehindKernel
  <2> QED
    BY <1>2, <2>1, <2>3, <2>4 DEF AccountInv, LinearPages
<1>11. CASE FindFirstFrame
  <2>1. /\ pc = "find" /\ Running /\ Ram \cap used = {} /\ heap = KernelBase + Linear
        /\ i' = 0 /\ used' = used /\ pages' = pages /\ heap' = heap
    BY <1>11 DEF FindFirstFrame, frameVars, pageVars, Running, Booting, AccountInv
  <2>2. CASE \E f \in Frame : FindsFrame(0, f) /\ from' = f /\ pc' = "map"
    <3>1. PICK f \in Frame : FindsFrame(0, f) /\ from' = f /\ pc' = "map"
      BY <2>2
    <3>2. ASSUME NEW g \in Ram PROVE f <= g
      <4>1. g \in 0 .. num_memory_frames - 1 /\ g \notin used
        BY <2>1, RamFrames, FrameCount DEF Frame, Page
      <4> QED
        BY <3>1, <4>1 DEF FindsFrame, FreeFrames
    <3>3. HeapFrames(0, 0)' = {}
      BY DEF HeapFrames
    <3> QED
      BY <1>2, <2>1, <3>1, <3>2, <3>3, HeapLayout DEF AccountInv
  <2>3. CASE FindsNoFrame(0) /\ pc' = "refused"
    <3>1. 0 \in Frame /\ \A f \in Ram : 0 <= f
      BY RamFrames, FrameCount DEF Frame, Page
    <3>2. Ram \subseteq used
      BY <2>1, <2>3, <3>1, NoFrameLeft
    <3>3. Ram = {}
      BY <2>1, <3>2
    <3>4. Cardinality(Ram) < HeapPages
      BY <3>3, FS_EmptySet, HeapLayout
    <3> QED
      BY <1>2, <2>3, <3>3, <3>4 DEF AccountInv
  <2> QED
    BY <1>11, <2>2, <2>3 DEF FindFirstFrame
<1>12. CASE MapHeapPage
  BY <1>2, <1>12, MapHeapAccounted
<1>13. CASE HeapMapped
  <2>1. /\ pc = "map" /\ i = HeapPages /\ pc' = "ready" /\ used' = used /\ pages' = pages
        /\ heap' = heap /\ Ram \cap used = HeapFrames(0, HeapPages)
    BY <1>13 DEF HeapMapped, frameVars, pageVars, callVars, AccountInv
  <2>2. HeapFrames(0, HeapPages) = {pages[heap + (b \div PageSize)] : b \in 0 .. HeapSize - 1}
    <3> DEFINE B == 0 .. HeapSize - 1
    <3>1. \A b \in B : b \div PageSize \in 0 .. HeapPages - 1
      BY HeapBytes
    <3>2. \A o \in 0 .. HeapPages - 1 : \E b \in B : b \div PageSize = o
      BY HeapBytes
    <3> HIDE DEF B
    <3>3. HeapFrames(0, HeapPages) = {pages[heap + (b \div PageSize)] : b \in B}
      BY <3>1, <3>2 DEF HeapFrames
    <3> QED
      BY <3>3 DEF B
  <2> QED
    BY <1>2, <2>1, <2>2 DEF AccountInv
<1>14. CASE vmm_unmap_page
  BY <1>2, <1>14, UnmapAccounted
<1>15. CASE RolledBack
  <2>1. /\ pc = "rollback" /\ i = HeapPages /\ pc' = "refused" /\ used' = used
        /\ Ram \cap used \subseteq HeapFrames(HeapPages, HeapPages)
        /\ Cardinality(Ram) < HeapPages
    BY <1>15 DEF RolledBack, frameVars, AccountInv
  <2>2. HeapFrames(HeapPages, HeapPages) = {}
    BY HeapLayout DEF HeapFrames
  <2> QED
    BY <1>2, <2>1, <2>2 DEF AccountInv
<1>16. CASE Ended \/ UNCHANGED vars
  <2>1. /\ pc' = pc /\ todo' = todo /\ used' = used /\ pages' = pages /\ i' = i /\ heap' = heap
        /\ from' = from
    BY <1>16 DEF Ended, vars
  <2>2. Mapped' = Mapped /\ \A lo, hi : HeapFrames(lo, hi)' = HeapFrames(lo, hi)
    BY <2>1 DEF Mapped, HeapFrames
  <2> QED
    BY <1>2, <2>1, <2>2 DEF AccountInv
<1> QED
  BY <1>4, <1>5, <1>6, <1>7, <1>8, <1>9, <1>10, <1>11, <1>12, <1>13, <1>14, <1>15, <1>16
  DEF Next

\* Where the available regions are as in PlainMaps and end before the last
\* frame of the 32-bit address space (TopReserved), the counter of used frames
\* is exact at every step, the heap is refused only when the regions pmm_init
\* has a record of hold too little memory for it, and it is mapped to its last
\* byte or every frame of it is given back.
THEOREM FramesStayAccounted ==
    ASSUME PlainMaps, TopReserved PROVE Spec => []FramesAccounted
<1>1. Init => RamInv
  <2>1. Init => Mapped = {} /\ pc = "pmm" /\ todo = {}
    BY DEF Init, Mapped
  <2> QED
    BY <2>1 DEF RamInv
<1>2. VmmInv /\ RamInv /\ [Next]_vars => RamInv'
  BY RamInvNext
<1>3. VmmInv /\ CountInv /\ [Next]_vars => CountInv'
  BY CountInvNext
<1>4. VmmInv /\ RamInv /\ CountInv /\ AccountInv /\ [Next]_vars => AccountInv'
  BY AccountInvNext
<1>5. VmmInv /\ CountInv /\ AccountInv => FramesAccounted
  <2> SUFFICES ASSUME VmmInv, CountInv, AccountInv PROVE FramesAccounted
    OBVIOUS
  <2>1. UsedCountExact
    BY DEF CountInv, UsedCountExact, Counted
  <2>2. num_used \in 0 .. Word - 1
    <3>1. num_used \in 0 .. num_memory_frames
      BY CountedFinite DEF CountInv, Counted, VmmInv, BootTypes
    <3>2. num_memory_frames < Word /\ Word \in Nat
      <4>1. Word = PageSize * NumPages /\ Word \in Nat
        BY VmmAssumption, Products DEF Word
      <4>2. PageSize * NumPages >= NumPages
        BY VmmAssumption, FrameCount
      <4> QED
        BY <4>1, <4>2, FrameCount
    <3> QED
      BY <3>1, <3>2, FrameCount
  <2>3. i \in 0 .. NumPages
    BY Layout DEF CountInv, CallTypes, VmmInv, BootTypes
  <2>4. TypeOK
    BY <2>2, <2>3 DEF TypeOK, CountInv, CallTypes, VmmInv, BootTypes
  <2> QED
    BY <2>1, <2>4 DEF FramesAccounted, AccountInv
<1> QED
  BY <1>1, <1>2, <1>3, <1>4, <1>5, CountInvInit, AccountInvInit, VmmInvHolds, PTL DEF Spec
=============================================================================
