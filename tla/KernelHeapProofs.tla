-------------------------- MODULE KernelHeapProofs --------------------------
(***************************************************************************)
(* Proofs about KernelHeap, for every heap geometry and every set of       *)
(* request sizes that do not wrap the address space.                       *)
(***************************************************************************)
EXTENDS KernelHeap, WellFoundedInduction, TLAPS

Memory == [HeapAddr -> Header]

-----------------------------------------------------------------------------
(* Arithmetic of the geometry *)

\* The constants are naturals, the heap does not start at NULL and ends
\* before the last address.
LEMMA Geometry ==
    /\ HeaderSize \in Nat /\ HeaderSize > 0
    /\ HeapBase \in Nat /\ HeapBase > 0 /\ HeapSize \in Nat
    /\ HeaderSize < HeapSize
    /\ HeapEnd \in Nat /\ HeapEnd = HeapBase + HeapSize
    /\ Word \in Nat /\ HeapEnd < Word
    /\ HeaderSize * HeaderSize \in Nat
    /\ HeapEnd + HeaderSize * HeaderSize + HeaderSize + PageSize < Word
    /\ PageSize \in Nat /\ PageSize > 0
    /\ PlacementBase \in Nat /\ PlacementSize \in Nat /\ PlacementBase > 0
    /\ PlacementEnd \in Nat /\ PlacementEnd = PlacementBase + PlacementSize
    /\ PlacementEnd < HeapBase /\ PlacementBase < PlacementEnd
<1>1. /\ HeaderSize \in Nat /\ HeaderSize > 0 /\ PageSize \in Nat /\ PageSize > 0
      /\ HeapBase \in Nat /\ HeapSize \in Nat /\ PlacementBase \in Nat
      /\ PlacementBase > 0 /\ PlacementSize \in Nat /\ PlacementSize > 0
      /\ HeaderSize < HeapSize
      /\ PlacementBase + PlacementSize < HeapBase
  BY GeometryAssumption DEF PlacementEnd
<1>2. DEFINE HH == HeaderSize * HeaderSize
<1>3. HH \in Nat
  BY <1>1
<1>4. Word \in Nat /\ HeapBase + HeapSize + HH + HeaderSize + PageSize < Word
  BY AddressSpaceAssumption DEF HeapEnd
<1>5. QED
  <2> HIDE DEF HH
  <2>1. HeapBase + HeapSize < Word
    BY <1>1, <1>3, <1>4
  <2> QED BY <1>1, <1>3, <1>4, <2>1 DEF HeapEnd, PlacementEnd, HH

\* Addresses of the heap are naturals between its ends, and none is NULL.
LEMMA HeapAddrFacts ==
    /\ NULL = 0 /\ NULL \notin HeapAddr
    /\ \A a : a \in HeapAddr <=> a \in Int /\ HeapBase <= a /\ a < HeapEnd
    /\ HeapAddr \subseteq 0 .. Word - 1
    /\ HeapBase \in HeapAddr
    /\ \A p : p \in PtrAddr <=> p \in Int /\ HeapBase <= p /\ p <= HeapEnd
BY Geometry DEF NULL, HeapAddr, PtrAddr

\* What the fields of a header in memory are.
LEMMA MemoryFacts ==
    ASSUME NEW h \in Memory, NEW a \in HeapAddr
    PROVE  /\ h[a] \in Header
           /\ h[a].magic \in {0, KHEAP_MAGIC} /\ h[a].free \in BOOLEAN
           /\ h[a].size \in Nat /\ h[a].size < Word
           /\ h[a].prev \in Nat /\ h[a].prev < Word
           /\ h[a].next \in Nat /\ h[a].next < Word
BY Geometry DEF Memory, Header

\* A memory with a list that tiles it: what each block looks like.
LEMMA TiledFacts ==
    ASSUME NEW h \in Memory, NEW t, Tiled(h, t), NEW b \in Blocks(h)
    PROVE  /\ b \in HeapAddr
           /\ BlockEnd(h, b) = b + HeaderSize + h[b].size
           /\ BlockEnd(h, b) <= HeapEnd
           /\ b + HeaderSize \in Nat /\ b + HeaderSize <= HeapEnd
           /\ h[b].next # NULL => /\ h[b].next \in Blocks(h)
                                  /\ h[b].next \in HeapAddr
                                  /\ h[b].next = BlockEnd(h, b)
                                  /\ h[h[b].next].prev = b
                                  /\ h[b].next > b
           /\ h[b].next = NULL => BlockEnd(h, b) = HeapEnd /\ t = b
<1>1. b \in HeapAddr
  BY DEF Blocks
<1>2. NextOK(h, t, b)
  BY DEF Tiled
<1>3. h[b].next # NULL => h[b].next \in HeapAddr
  BY <1>2 DEF NextOK, Blocks
<1>4. /\ b \in Int /\ HeapBase <= b /\ h[b].size \in Nat /\ HeaderSize \in Nat
      /\ HeaderSize > 0 /\ HeapEnd \in Nat /\ HeapBase \in Nat
  BY <1>1, Geometry, HeapAddrFacts, MemoryFacts
<1>5. h[b].next # NULL => h[b].next \in Int /\ h[b].next < HeapEnd
  BY <1>3, HeapAddrFacts
<1>6. QED
  <2>1. CASE h[b].next = NULL
    BY <2>1, <1>1, <1>2, <1>4 DEF NextOK, BlockEnd, NULL
  <2>2. CASE h[b].next # NULL
    BY <2>2, <1>1, <1>2, <1>3, <1>4, <1>5 DEF NextOK, BlockEnd
  <2> QED BY <2>1, <2>2

-----------------------------------------------------------------------------
(* Splitting a block *)

\* Writing prev of a block leaves everything else in memory alone.
LEMMA SetPrevFacts ==
    ASSUME NEW h \in Memory, NEW n \in HeapAddr \cup {NULL}, NEW r \in HeapAddr
    PROVE  LET k == SetPrev(h, n, r)
           IN  /\ k \in Memory
               /\ \A a \in HeapAddr :
                    /\ k[a].magic = h[a].magic /\ k[a].size = h[a].size
                    /\ k[a].free = h[a].free /\ k[a].next = h[a].next
                    /\ k[a].prev = IF a = n THEN r ELSE h[a].prev
<1>1. CASE n = NULL
  BY <1>1, HeapAddrFacts DEF SetPrev
<1>2. CASE n # NULL
  <2>1. [h[n] EXCEPT !.prev = r] \in Header
    BY <1>2, HeapAddrFacts DEF Memory, Header
  <2>2. SetPrev(h, n, r) = [h EXCEPT ![n] = [h[n] EXCEPT !.prev = r]]
    BY <1>2 DEF SetPrev
  <2>3. SetPrev(h, n, r) \in Memory
    BY <2>1, <2>2 DEF Memory
  <2>4. \A a \in HeapAddr : SetPrev(h, n, r)[a] =
            IF a = n THEN [h[n] EXCEPT !.prev = r] ELSE h[a]
    BY <2>2 DEF Memory
  <2>5. /\ [h[n] EXCEPT !.prev = r].magic = h[n].magic
        /\ [h[n] EXCEPT !.prev = r].size = h[n].size
        /\ [h[n] EXCEPT !.prev = r].free = h[n].free
        /\ [h[n] EXCEPT !.prev = r].next = h[n].next
        /\ [h[n] EXCEPT !.prev = r].prev = r
    BY <1>2 DEF Memory, Header
  <2> QED BY <2>3, <2>4, <2>5
<1> QED BY <1>1, <1>2

\* TakeBlock, field by field, when the block is split.
LEMMA SplitFacts ==
    ASSUME NEW h \in Memory, NEW t, Tiled(h, t), NEW b \in Blocks(h),
           NEW size \in Nat, size <= h[b].size, Splits(h, b, size)
    PROVE  LET g == TakeBlock(h, b, size)
               r == b + HeaderSize + size
           IN  /\ RemainderAt(b, size) = r
               /\ r \in HeapAddr /\ r > b /\ r < BlockEnd(h, b)
               /\ r \notin Blocks(h)
               /\ g \in Memory
               /\ g[b].magic = KHEAP_MAGIC /\ g[b].size = size /\ ~g[b].free
               /\ g[b].prev = h[b].prev /\ g[b].next = r
               /\ g[r].magic = KHEAP_MAGIC /\ g[r].free
               /\ g[r].size = h[b].size - size - HeaderSize
               /\ g[r].prev = b /\ g[r].next = h[b].next
               /\ \A a \in HeapAddr \ {b, r} :
                    /\ g[a].magic = h[a].magic /\ g[a].size = h[a].size
                    /\ g[a].free = h[a].free /\ g[a].next = h[a].next
                    /\ g[a].prev = IF a = h[b].next THEN r ELSE h[a].prev
               /\ Blocks(g) = Blocks(h) \cup {r}
<1> DEFINE g == TakeBlock(h, b, size)
           r == b + HeaderSize + size
           n == h[b].next
<1>1. /\ b \in HeapAddr /\ h[b].size \in Nat /\ size \in Nat
      /\ BlockEnd(h, b) = b + HeaderSize + h[b].size /\ BlockEnd(h, b) <= HeapEnd
      /\ h[b].magic = KHEAP_MAGIC /\ h[b] \in Header
  BY TiledFacts, MemoryFacts DEF Blocks
<1>2. Remaining(h, b, size) = h[b].size - size /\ h[b].size - size > HeaderSize
  BY <1>1 DEF Splits, Remaining, Sub32
<1>3. /\ r \in HeapAddr /\ r > b /\ r < BlockEnd(h, b)
      /\ r = b + HeaderSize + size /\ r < Word
  BY <1>1, <1>2, Geometry, HeapAddrFacts
<1>4. RemainderAt(b, size) = r
  BY <1>1, <1>3, Geometry, HeapAddrFacts DEF RemainderAt, Add32
<1>5. r \notin Blocks(h)
  <2> SUFFICES ASSUME r \in Blocks(h) PROVE FALSE
    OBVIOUS
  <2>1. BlockEnd(h, b) <= r
    BY <1>3 DEF Tiled, Disjoint
  <2> QED BY <2>1, <1>1, <1>3, Geometry, HeapAddrFacts
<1>6. n # NULL => n \in Blocks(h) /\ n \in HeapAddr /\ n = BlockEnd(h, b)
  BY TiledFacts
<1>7. n # b /\ n # r
  BY <1>1, <1>3, <1>6, Geometry, HeapAddrFacts
<1> DEFINE k == SetPrev(h, n, r)
           rem == [magic |-> KHEAP_MAGIC, free |-> TRUE,
                   size |-> h[b].size - size - HeaderSize,
                   prev |-> b, next |-> n]
           low == [k[b] EXCEPT !.free = FALSE, !.size = size, !.next = r]
<1>8. /\ k \in Memory
      /\ \A a \in HeapAddr :
           /\ k[a].magic = h[a].magic /\ k[a].size = h[a].size
           /\ k[a].free = h[a].free /\ k[a].next = h[a].next
           /\ k[a].prev = IF a = n THEN r ELSE h[a].prev
  <2>1. r \in HeapAddr /\ n \in HeapAddr \cup {NULL}
    BY <1>3, <1>6
  <2> HIDE DEF r, n
  <2> QED BY <2>1, SetPrevFacts
<1>9. /\ rem \in Header
      /\ rem.magic = KHEAP_MAGIC /\ rem.free /\ rem.prev = b /\ rem.next = n
      /\ rem.size = h[b].size - size - HeaderSize
  <2>1. /\ h[b].size - size - HeaderSize \in 0 .. Word - 1
        /\ n \in 0 .. Word - 1 /\ b \in 0 .. Word - 1
    BY <1>1, <1>2, MemoryFacts, Geometry, HeapAddrFacts
  <2> HIDE DEF n
  <2> QED BY <2>1 DEF Header
<1>10. /\ low \in Header
       /\ low.magic = h[b].magic /\ ~low.free /\ low.size = size
       /\ low.prev = h[b].prev /\ low.next = r
  <2>1. k[b] \in Header /\ k[b].magic = h[b].magic /\ k[b].prev = h[b].prev
    BY <1>1, <1>7, <1>8 DEF Memory
  <2>2. size \in 0 .. Word - 1 /\ r \in 0 .. Word - 1
    BY <1>1, <1>3, MemoryFacts, Geometry, HeapAddrFacts
  <2> HIDE DEF k, r
  <2> QED BY <2>1, <2>2 DEF Header
<1>11. g = [k EXCEPT ![r] = rem, ![b].free = FALSE, ![b].size = size, ![b].next = r]
  BY <1>2, <1>4 DEF TakeBlock
<1>12. /\ g \in Memory /\ g[b] = low /\ g[r] = rem
       /\ \A a \in HeapAddr \ {b, r} : g[a] = k[a]
  <2> HIDE DEF k, rem, g
  <2>1. r # b
    BY <1>1, <1>3, Geometry, HeapAddrFacts
  <2>2. g = [k EXCEPT ![r] = rem, ![b] = low]
    BY <1>1, <1>3, <1>8, <1>11, <2>1 DEF Memory
  <2> HIDE DEF low
  <2> QED BY <1>1, <1>3, <1>8, <1>9, <1>10, <2>1, <2>2 DEF Memory
<1>13. Blocks(g) = Blocks(h) \cup {r}
  <2> HIDE DEF k, g, rem, low
  <2>1. \A a \in HeapAddr : a # r => g[a].magic = h[a].magic
    BY <1>1, <1>8, <1>10, <1>12
  <2> QED BY <2>1, <1>3, <1>9, <1>12 DEF Blocks
<1>14. QED
  <2> HIDE DEF k, rem, low
  <2> QED BY <1>1, <1>3, <1>4, <1>5, <1>8, <1>9, <1>10, <1>12, <1>13

\* The tiling does not depend on which blocks are free.
LEMMA TiledIgnoresFree ==
    ASSUME NEW h \in Memory, NEW g \in Memory, NEW t, Tiled(h, t),
           \A a \in HeapAddr :
              /\ g[a].magic = h[a].magic /\ g[a].size = h[a].size
              /\ g[a].prev = h[a].prev /\ g[a].next = h[a].next
    PROVE  Tiled(g, t) /\ Blocks(g) = Blocks(h)
<1>1. Blocks(g) = Blocks(h)
  BY DEF Blocks
<1>2. \A a \in Blocks(h) : a \in HeapAddr
  BY DEF Blocks
<1>3. \A a \in Blocks(h) : BlockEnd(g, a) = BlockEnd(h, a)
  BY <1>2 DEF BlockEnd
<1>4. Disjoint(g)
  BY <1>1, <1>3 DEF Tiled, Disjoint
<1>5. ASSUME NEW a \in Blocks(g) PROVE NextOK(g, t, a) /\ PrevOK(g, a)
  <2>1. NextOK(h, t, a) /\ PrevOK(h, a) /\ a \in HeapAddr
    BY <1>1, <1>2 DEF Tiled
  <2>2. NextOK(g, t, a)
    BY <1>1, <1>2, <1>3, <2>1 DEF NextOK
  <2>3. PrevOK(g, a)
    BY <1>1, <1>2, <2>1 DEF PrevOK
  <2> QED BY <2>2, <2>3
<1> QED BY <1>1, <1>4, <1>5 DEF Tiled

\* Marking a block changes nothing but its free flag.
LEMMA MarkUsedFacts ==
    ASSUME NEW h \in Memory, NEW b \in HeapAddr
    PROVE  LET g == MarkUsed(h, b)
           IN  /\ g \in Memory /\ ~g[b].free
               /\ \A a \in HeapAddr :
                    /\ g[a].magic = h[a].magic /\ g[a].size = h[a].size
                    /\ g[a].prev = h[a].prev /\ g[a].next = h[a].next
                    /\ a # b => g[a].free = h[a].free
<1> DEFINE g == MarkUsed(h, b)
           x == [h[b] EXCEPT !.free = FALSE]
<1>1. /\ x \in Header /\ x.magic = h[b].magic /\ x.size = h[b].size
      /\ x.prev = h[b].prev /\ x.next = h[b].next /\ ~x.free
  BY DEF Memory, Header
<1>2. g = [h EXCEPT ![b] = x]
  BY DEF Memory, MarkUsed
<1> HIDE DEF x
<1>3. g \in Memory /\ \A a \in HeapAddr : g[a] = IF a = b THEN x ELSE h[a]
  BY <1>1, <1>2 DEF Memory
<1> HIDE DEF g
<1> QED BY <1>1, <1>3 DEF g

\* The same for kfree.
LEMMA MarkFreeFacts ==
    ASSUME NEW h \in Memory, NEW b \in HeapAddr
    PROVE  LET g == MarkFree(h, b)
           IN  /\ g \in Memory /\ g[b].free
               /\ \A a \in HeapAddr :
                    /\ g[a].magic = h[a].magic /\ g[a].size = h[a].size
                    /\ g[a].prev = h[a].prev /\ g[a].next = h[a].next
                    /\ a # b => g[a].free = h[a].free
<1> DEFINE g == MarkFree(h, b)
           x == [h[b] EXCEPT !.free = TRUE]
<1>1. /\ x \in Header /\ x.magic = h[b].magic /\ x.size = h[b].size
      /\ x.prev = h[b].prev /\ x.next = h[b].next /\ x.free
  BY DEF Memory, Header
<1>2. g = [h EXCEPT ![b] = x]
  BY DEF Memory, MarkFree
<1> HIDE DEF x
<1>3. g \in Memory /\ \A a \in HeapAddr : g[a] = IF a = b THEN x ELSE h[a]
  BY <1>1, <1>2 DEF Memory
<1> HIDE DEF g
<1> QED BY <1>1, <1>3 DEF g

\* A split keeps the tiling.
LEMMA SplitTiled ==
    ASSUME NEW h \in Memory, NEW t, Tiled(h, t), NEW b \in Blocks(h),
           NEW size \in Nat, size <= h[b].size, Splits(h, b, size)
    PROVE  Tiled(TakeBlock(h, b, size), TailAfterTake(h, t, b, size))
<1> DEFINE g == TakeBlock(h, b, size)
           r == b + HeaderSize + size
           n == h[b].next
           u == TailAfterTake(h, t, b, size)
<1>1. /\ RemainderAt(b, size) = r
      /\ r \in HeapAddr /\ r > b /\ r < BlockEnd(h, b) /\ r \notin Blocks(h)
      /\ g[b].size = size /\ g[b].prev = h[b].prev /\ g[b].next = r
      /\ g[r].size = h[b].size - size - HeaderSize
      /\ g[r].prev = b /\ g[r].next = n
      /\ \A a \in HeapAddr \ {b, r} :
           /\ g[a].size = h[a].size /\ g[a].next = h[a].next
           /\ g[a].prev = IF a = n THEN r ELSE h[a].prev
      /\ Blocks(g) = Blocks(h) \cup {r}
  BY SplitFacts
<1>2. /\ b \in HeapAddr /\ b \in Nat /\ r \in Nat /\ h[b].size \in Nat
      /\ HeaderSize \in Nat /\ HeaderSize > 0 /\ HeapEnd \in Nat
      /\ r = b + HeaderSize + size
  BY <1>1, TiledFacts, MemoryFacts, Geometry, HeapAddrFacts
<1>3. u = IF n = NULL THEN r ELSE t
  BY <1>1 DEF TailAfterTake
<1>4. /\ n # NULL => n \in Blocks(h) /\ n \in HeapAddr /\ n = BlockEnd(h, b)
      /\ n = NULL => BlockEnd(h, b) = HeapEnd /\ t = b
      /\ BlockEnd(h, b) = b + HeaderSize + h[b].size
      /\ BlockEnd(h, b) \in Nat
  BY <1>2, TiledFacts
<1>5. NULL \notin HeapAddr /\ NULL = 0
  BY HeapAddrFacts
<1> HIDE DEF g, r, n, u
<1>6. /\ BlockEnd(g, b) = r /\ BlockEnd(g, r) = BlockEnd(h, b)
      /\ \A a \in Blocks(h) \ {b} : BlockEnd(g, a) = BlockEnd(h, a)
  BY <1>1, <1>2, <1>4 DEF BlockEnd, Blocks
<1>7. Disjoint(g)
  <2> SUFFICES ASSUME NEW c \in Blocks(g), NEW d \in Blocks(g), c < d
               PROVE  BlockEnd(g, c) <= d
    BY DEF Disjoint
  <2>1. c \in Nat /\ d \in Nat
    BY <1>1, HeapAddrFacts DEF Blocks
  <2>2. CASE c = b
    <3>1. d # r => BlockEnd(h, b) <= d
      BY <2>2, <1>1 DEF Tiled, Disjoint
    <3> QED BY <2>1, <2>2, <3>1, <1>1, <1>2, <1>4, <1>6
  <2>3. CASE c = r
    <3>1. d \in Blocks(h) /\ b < d
      BY <2>1, <2>3, <1>1, <1>2
    <3>2. BlockEnd(h, b) <= d
      BY <3>1 DEF Tiled, Disjoint
    <3> QED BY <2>3, <3>2, <1>6
  <2>4. CASE c # b /\ c # r /\ d # r
    BY <2>4, <1>1, <1>6 DEF Tiled, Disjoint
  <2>5. CASE c # b /\ c # r /\ d = r
    <3>1. c \in Blocks(h) \ {b}
      BY <2>5, <1>1
    <3>2. CASE c < b
      <4>1. BlockEnd(h, c) <= b
        BY <3>1, <3>2 DEF Tiled, Disjoint
      <4>2. BlockEnd(h, c) \in Int
        BY <3>1, MemoryFacts, Geometry, HeapAddrFacts DEF BlockEnd, Blocks
      <4> QED BY <4>1, <4>2, <3>1, <2>5, <1>1, <1>2, <1>6
    <3>3. CASE b < c
      <4>1. BlockEnd(h, b) <= c
        BY <3>1, <3>3 DEF Tiled, Disjoint
      <4> QED BY <4>1, <2>1, <2>5, <1>1, <1>2, <1>4
    <3> QED BY <3>1, <3>2, <3>3, <2>1, <1>2
  <2> QED BY <2>2, <2>3, <2>4, <2>5
<1>8. ASSUME NEW c \in Blocks(g) PROVE NextOK(g, u, c)
  <2>1. CASE c = b
    BY <2>1, <1>1, <1>6 DEF NextOK
  <2>2. CASE c = r
    <3>1. n # NULL => g[n].prev = r
      BY <1>1, <1>2, <1>4
    <3> QED BY <2>2, <3>1, <1>1, <1>2, <1>3, <1>4, <1>5, <1>6 DEF NextOK
  <2>3. CASE c # b /\ c # r
    <3>1. /\ c \in Blocks(h) /\ c \in HeapAddr /\ c \in Nat /\ NextOK(h, t, c)
          /\ g[c].next = h[c].next /\ BlockEnd(g, c) = BlockEnd(h, c)
      BY <2>3, <1>1, <1>6, HeapAddrFacts DEF Blocks, Tiled
    <3>2. CASE h[c].next = NULL
      <4>1. t = c /\ BlockEnd(h, c) = HeapEnd
        BY <3>1, <3>2, TiledFacts
      <4>2. n # NULL
        BY <4>1, <2>3, <1>4
      <4> QED BY <4>1, <4>2, <3>1, <3>2, <1>3 DEF NextOK
    <3>3. CASE h[c].next # NULL
      <4> DEFINE m == h[c].next
      <4>1. /\ m \in Blocks(h) /\ m \in HeapAddr /\ m = BlockEnd(h, c)
            /\ h[m].prev = c
        BY <3>1, <3>3, TiledFacts
      <4>2. m # r
        BY <4>1, <1>1
      <4>3. m # n
        <5> SUFFICES ASSUME m = n PROVE FALSE
          OBVIOUS
        <5>1. h[n].prev = b
          BY <4>1, <1>5, TiledFacts DEF n
        <5> QED BY <5>1, <4>1, <2>3
      <4>4. g[m].prev = c
        BY <4>1, <4>2, <4>3, <1>1
      <4> QED BY <4>1, <4>4, <3>1, <1>1 DEF NextOK
    <3> QED BY <3>2, <3>3
  <2> QED BY <2>1, <2>2, <2>3
<1>9. ASSUME NEW c \in Blocks(g) PROVE PrevOK(g, c)
  <2>1. CASE c = r
    <3>1. r # HeapBase
      BY <1>1, <1>2, HeapAddrFacts, Geometry
    <3> QED BY <2>1, <3>1, <1>1 DEF PrevOK
  <2>2. CASE c = b
    <3>1. PrevOK(h, b)
      BY DEF Tiled
    <3>2. CASE b = HeapBase
      BY <2>2, <3>1, <3>2, <1>1 DEF PrevOK
    <3>3. CASE b # HeapBase
      <4>1. /\ h[b].prev \in Blocks(h) /\ h[h[b].prev].next = b
            /\ h[b].prev \in HeapAddr
        BY <3>1, <3>3 DEF PrevOK, Blocks
      <4>2. h[b].prev # b /\ h[b].prev # r
        <5>1. h[b].prev # b
          BY <4>1, <1>2, TiledFacts, HeapAddrFacts
        <5> QED BY <5>1, <4>1, <1>1
      <4> QED BY <4>1, <4>2, <3>3, <2>2, <1>1 DEF PrevOK
    <3> QED BY <3>2, <3>3
  <2>3. CASE c # r /\ c # b
    <3>1. c \in Blocks(h) /\ c \in HeapAddr /\ PrevOK(h, c)
      BY <2>3, <1>1 DEF Blocks, Tiled
    <3>2. CASE c = n
      <4>1. c # HeapBase
        BY <3>1, <3>2, <1>1, <1>2, <1>4, HeapAddrFacts, Geometry
      <4> QED BY <4>1, <3>1, <3>2, <2>3, <1>1 DEF PrevOK
    <3>3. CASE c # n
      <4>1. g[c].prev = h[c].prev
        BY <3>1, <3>3, <2>3, <1>1
      <4>2. CASE c = HeapBase
        BY <4>1, <4>2, <3>1 DEF PrevOK
      <4>3. CASE c # HeapBase
        <5>1. h[c].prev \in Blocks(h) /\ h[h[c].prev].next = c
          BY <3>1, <4>3 DEF PrevOK
        <5>2. h[c].prev # b /\ h[c].prev # r /\ h[c].prev \in HeapAddr
          BY <5>1, <3>3, <1>1 DEF n, Blocks
        <5> QED BY <5>1, <5>2, <4>1, <4>3, <1>1 DEF PrevOK
      <4> QED BY <4>2, <4>3
    <3> QED BY <3>2, <3>3
  <2> QED BY <2>1, <2>2, <2>3
<1>10. QED
  <2>1. HeapBase \in Blocks(g)
    BY <1>1 DEF Tiled
  <2> QED BY <2>1, <1>7, <1>8, <1>9 DEF Tiled, g, u

-----------------------------------------------------------------------------
(* Absorbing the next block *)

\* Absorb, field by field.
LEMMA AbsorbFacts ==
    ASSUME NEW h \in Memory, NEW t, Tiled(h, t), NEW b \in Blocks(h),
           NEW n \in Blocks(h), h[b].next = n
    PROVE  LET g == Absorb(h, b, n)
           IN  /\ g \in Memory
               /\ g[b].size = h[b].size + h[n].size + HeaderSize
               /\ g[b].prev = h[b].prev /\ g[b].next = h[n].next
               /\ g[b].free = h[b].free
               /\ \A a \in HeapAddr \ {b, n} :
                    /\ g[a].magic = h[a].magic /\ g[a].size = h[a].size
                    /\ g[a].free = h[a].free /\ g[a].next = h[a].next
                    /\ g[a].prev = IF a = h[n].next THEN b ELSE h[a].prev
               /\ Blocks(g) = Blocks(h) \ {n}
<1> DEFINE g == Absorb(h, b, n)
           m == h[n].next
<1>1. /\ b \in HeapAddr /\ n \in HeapAddr /\ n > b /\ b \in Nat /\ n \in Nat
      /\ n = b + HeaderSize + h[b].size
      /\ h[b].magic = KHEAP_MAGIC /\ h[b].size \in Nat /\ h[n].size \in Nat
      /\ n + HeaderSize + h[n].size <= HeapEnd
  BY TiledFacts, MemoryFacts, HeapAddrFacts, Geometry DEF Blocks
<1>2. m # NULL => m \in HeapAddr /\ m > n
  BY TiledFacts
<1>3. m # b /\ m # n /\ m \in 0 .. Word - 1
  <2>1. m \in Nat /\ m < Word
    BY <1>1, MemoryFacts
  <2> HIDE DEF m
  <2> QED BY <2>1, <1>1, <1>2, HeapAddrFacts, Geometry
<1> DEFINE k == SetPrev(h, m, b)
           sum == h[b].size + h[n].size + HeaderSize
           low == [k[b] EXCEPT !.next = m, !.size = sum]
<1>4. /\ k \in Memory
      /\ \A a \in HeapAddr :
           /\ k[a].magic = h[a].magic /\ k[a].size = h[a].size
           /\ k[a].free = h[a].free /\ k[a].next = h[a].next
           /\ k[a].prev = IF a = m THEN b ELSE h[a].prev
  <2>1. m \in HeapAddr \cup {NULL}
    BY <1>2
  <2> HIDE DEF m
  <2> QED BY <2>1, <1>1, SetPrevFacts
<1>5. sum \in 0 .. Word - 1
  BY <1>1, Geometry
<1>6. g = [k EXCEPT ![b].next = m, ![b].size = @ + h[n].size + HeaderSize,
                    ![n] = NoHeader]
  BY DEF Absorb
<1>7. /\ low \in Header /\ low.magic = KHEAP_MAGIC /\ low.size = sum
      /\ low.prev = h[b].prev /\ low.next = m /\ low.free = h[b].free
  <2>1. /\ k[b] \in Header /\ k[b].magic = h[b].magic /\ k[b].prev = h[b].prev
        /\ k[b].free = h[b].free
    BY <1>1, <1>3, <1>4 DEF Memory
  <2> HIDE DEF k, m, sum
  <2> QED BY <2>1, <1>1, <1>3, <1>5 DEF Header
<1>8. g = [k EXCEPT ![b] = low, ![n] = NoHeader]
  <2>1. k[b].size = h[b].size
    BY <1>1, <1>4
  <2> HIDE DEF k, m
  <2> QED BY <1>1, <1>4, <1>6, <2>1 DEF Memory
<1>9. NoHeader \in Header /\ NoHeader.magic # KHEAP_MAGIC
  BY Geometry DEF NoHeader, Header, NULL, KHEAP_MAGIC
<1>10. /\ g \in Memory /\ g[b] = low /\ g[n] = NoHeader
       /\ \A a \in HeapAddr \ {b, n} : g[a] = k[a]
  <2> HIDE DEF k, m, low, g
  <2> QED BY <1>1, <1>4, <1>7, <1>8, <1>9 DEF Memory
<1>11. Blocks(g) = Blocks(h) \ {n}
  <2> HIDE DEF k, m, low, g
  <2>1. \A a \in HeapAddr : a # n => g[a].magic = h[a].magic
    BY <1>1, <1>4, <1>7, <1>10
  <2> QED BY <2>1, <1>1, <1>9, <1>10 DEF Blocks
<1>12. QED
  <2> HIDE DEF k, low
  <2> QED BY <1>4, <1>7, <1>10, <1>11

\* Absorbing the next block keeps the tiling.
LEMMA AbsorbTiled ==
    ASSUME NEW h \in Memory, NEW t, Tiled(h, t), NEW b \in Blocks(h),
           NEW n \in Blocks(h), h[b].next = n
    PROVE  Tiled(Absorb(h, b, n), TailAfterAbsorb(h, t, b, n))
<1> DEFINE g == Absorb(h, b, n)
           m == h[n].next
           u == TailAfterAbsorb(h, t, b, n)
<1>1. /\ g[b].size = h[b].size + h[n].size + HeaderSize
      /\ g[b].prev = h[b].prev /\ g[b].next = m
      /\ \A a \in HeapAddr \ {b, n} :
           /\ g[a].size = h[a].size /\ g[a].next = h[a].next
           /\ g[a].prev = IF a = m THEN b ELSE h[a].prev
      /\ Blocks(g) = Blocks(h) \ {n}
  BY AbsorbFacts
<1>2. /\ b \in HeapAddr /\ n \in HeapAddr /\ n > b /\ b \in Nat /\ n \in Nat
      /\ BlockEnd(h, b) = n /\ h[n].prev = b /\ n # NULL
      /\ h[b].size \in Nat /\ h[n].size \in Nat
      /\ HeaderSize \in Nat /\ HeaderSize > 0 /\ HeapEnd \in Nat
  BY TiledFacts, MemoryFacts, HeapAddrFacts, Geometry DEF Blocks
<1>3. /\ m # NULL => /\ m \in Blocks(h) /\ m \in HeapAddr /\ m = BlockEnd(h, n)
                     /\ m > n /\ h[m].prev = n /\ m \in Nat
      /\ m = NULL => BlockEnd(h, n) = HeapEnd /\ t = n
      /\ BlockEnd(h, n) \in Nat
  BY <1>2, TiledFacts, HeapAddrFacts
<1>4. u = IF m = NULL THEN b ELSE t
  BY DEF TailAfterAbsorb
<1>5. /\ BlockEnd(g, b) = BlockEnd(h, n)
      /\ \A a \in Blocks(h) \ {b, n} : BlockEnd(g, a) = BlockEnd(h, a)
  BY <1>1, <1>2 DEF BlockEnd, Blocks
<1>6. NULL \notin HeapAddr /\ NULL = 0
  BY HeapAddrFacts
<1> HIDE DEF g, m, u
<1>7. Disjoint(g)
  <2> SUFFICES ASSUME NEW c \in Blocks(g), NEW d \in Blocks(g), c < d
               PROVE  BlockEnd(g, c) <= d
    BY DEF Disjoint
  <2>1. /\ c \in Blocks(h) /\ d \in Blocks(h) /\ c # n /\ d # n
        /\ c \in Nat /\ d \in Nat
    BY <1>1, HeapAddrFacts DEF Blocks
  <2>2. CASE c = b
    <3>1. n <= d
      BY <2>1, <2>2, <1>2 DEF Tiled, Disjoint
    <3>2. BlockEnd(h, n) <= d
      BY <3>1, <2>1, <1>2 DEF Tiled, Disjoint
    <3> QED BY <3>2, <2>2, <1>5
  <2>3. CASE c # b
    BY <2>1, <2>3, <1>5 DEF Tiled, Disjoint
  <2> QED BY <2>2, <2>3
<1>8. ASSUME NEW c \in Blocks(g) PROVE NextOK(g, u, c)
  <2>1. CASE c = b
    <3>1. CASE m = NULL
      BY <2>1, <3>1, <1>1, <1>3, <1>4, <1>5 DEF NextOK
    <3>2. CASE m # NULL
      <4>1. m # b /\ m # n /\ m \in HeapAddr
        BY <3>2, <1>2, <1>3
      <4>2. g[m].prev = b
        BY <4>1, <1>1
      <4> QED BY <2>1, <3>2, <4>1, <4>2, <1>1, <1>3, <1>5 DEF NextOK
    <3> QED BY <3>1, <3>2
  <2>2. CASE c # b
    <3>1. /\ c \in Blocks(h) /\ c # n /\ c \in HeapAddr /\ NextOK(h, t, c)
          /\ g[c].next = h[c].next /\ BlockEnd(g, c) = BlockEnd(h, c)
      BY <2>2, <1>1, <1>5 DEF Blocks, Tiled
    <3>2. CASE h[c].next = NULL
      <4>1. t = c /\ BlockEnd(h, c) = HeapEnd
        BY <3>1, <3>2, TiledFacts
      <4>2. m # NULL
        BY <4>1, <3>1, <1>3
      <4> QED BY <4>1, <4>2, <3>1, <3>2, <1>4 DEF NextOK
    <3>3. CASE h[c].next # NULL
      <4> DEFINE x == h[c].next
      <4>1. x \in Blocks(h) /\ x \in HeapAddr /\ x = BlockEnd(h, c) /\ h[x].prev = c
        BY <3>1, <3>3, TiledFacts
      <4>2. x # n /\ x # m
        BY <4>1, <3>1, <2>2, <1>2, <1>3, <1>6
      <4>3. g[x].prev = c
        <5>1. CASE x = b
          BY <5>1, <4>1, <1>1
        <5>2. CASE x # b
          BY <5>2, <4>1, <4>2, <1>1
        <5> QED BY <5>1, <5>2
      <4> QED BY <4>1, <4>2, <4>3, <3>1, <1>1 DEF NextOK
    <3> QED BY <3>2, <3>3
  <2> QED BY <2>1, <2>2
<1>9. ASSUME NEW c \in Blocks(g) PROVE PrevOK(g, c)
  <2>1. c \in Blocks(h) /\ c # n /\ c \in HeapAddr /\ PrevOK(h, c)
    BY <1>1 DEF Blocks, Tiled
  <2>2. CASE c = m
    <3>1. c # b /\ c # HeapBase /\ g[c].prev = b
      BY <2>1, <2>2, <1>1, <1>2, <1>3, <1>6, HeapAddrFacts, Geometry
    <3> QED BY <2>2, <3>1, <1>1, <1>2 DEF PrevOK
  <2>3. CASE c # m
    <3>1. g[c].prev = h[c].prev
      BY <2>1, <2>3, <1>1
    <3>2. CASE c = HeapBase
      BY <3>1, <3>2, <2>1 DEF PrevOK
    <3>3. CASE c # HeapBase
      <4>1. /\ h[c].prev \in Blocks(h) /\ h[h[c].prev].next = c
            /\ h[c].prev \in HeapAddr
        BY <2>1, <3>3 DEF PrevOK, Blocks
      <4>2. h[c].prev # n
        BY <4>1, <2>3 DEF m
      <4>3. h[c].prev # b
        BY <4>1, <2>1
      <4> QED BY <4>1, <4>2, <4>3, <3>1, <3>3, <1>1 DEF PrevOK
    <3> QED BY <3>2, <3>3
  <2> QED BY <2>2, <2>3
<1>10. QED
  <2>1. HeapBase \in Blocks(g)
    BY <1>1, <1>2, HeapAddrFacts, Geometry DEF Tiled
  <2> QED BY <2>1, <1>7, <1>8, <1>9 DEF Tiled, g, u

\* Absorbing n creates no new pair of free neighbours, except at b.
LEMMA AbsorbPairs ==
    ASSUME NEW h \in Memory, NEW t, Tiled(h, t), NEW b \in Blocks(h),
           NEW n \in Blocks(h), h[b].next = n,
           \A a \in Blocks(h) \ {b, n} : NotBothFree(h, a)
    PROVE  \A a \in Blocks(h) \ {b, n} : NotBothFree(Absorb(h, b, n), a)
<1> DEFINE g == Absorb(h, b, n)
<1> SUFFICES ASSUME NEW a \in Blocks(h) \ {b, n}, g[a].free, g[a].next # NULL
             PROVE  ~g[g[a].next].free
  BY DEF NotBothFree
<1>1. /\ g[b].free = h[b].free
      /\ \A c \in HeapAddr \ {b, n} :
            g[c].free = h[c].free /\ g[c].next = h[c].next
  BY AbsorbFacts
<1> HIDE DEF g
<1>2. a \in HeapAddr
  BY DEF Blocks
<1>3. ~h[h[a].next].free
  BY <1>1, <1>2 DEF NotBothFree
<1>4. h[a].next \in HeapAddr /\ h[h[a].next].prev = a
  BY <1>1, <1>2, TiledFacts
<1>5. h[a].next # n
  <2>1. h[n].prev = b
    BY TiledFacts, HeapAddrFacts DEF Blocks
  <2> QED BY <2>1, <1>4
<1> QED BY <1>1, <1>2, <1>3, <1>4, <1>5

-----------------------------------------------------------------------------
(* kfree *)

\* The first half of kfree: the block is marked free and joins a free
\* predecessor.  Only the surviving block may still have a free successor.
LEMMA JoinPrevFacts ==
    ASSUME NEW h \in Memory, NEW t, Tiled(h, t), NEW f \in Blocks(h), ~h[f].free,
           \A a \in Blocks(h) : NotBothFree(h, a)
    PROVE  LET h1 == JoinPrev(MarkFree(h, f), f)
               s  == Survivor(h, f)
               t1 == IF JoinsPrev(h, f) THEN TailAfterAbsorb(h, t, h[f].prev, f)
                     ELSE t
           IN  /\ h1 \in Memory /\ Tiled(h1, t1)
               /\ s \in Blocks(h1) /\ h1[s].free /\ h1[s].next = h[f].next
               /\ Blocks(h1) \subseteq Blocks(h)
               /\ \A a \in Blocks(h) : ~h[a].free /\ a # f =>
                     a \in Blocks(h1) /\ ~h1[a].free /\ h1[a].size = h[a].size
               /\ \A a \in Blocks(h1) : ~h1[a].free => ~h[a].free /\ a # f
               /\ \A a \in Blocks(h1) : a # s => h1[a].next = h[a].next
               /\ \A a \in Blocks(h1) \ {s} : NotBothFree(h1, a)
<1> DEFINE h0 == MarkFree(h, f)
           p  == h[f].prev
<1>1. f \in HeapAddr
  BY DEF Blocks
<1>2. /\ h0 \in Memory
      /\ \A a \in HeapAddr :
           /\ h0[a].magic = h[a].magic /\ h0[a].size = h[a].size
           /\ h0[a].prev = h[a].prev /\ h0[a].next = h[a].next
           /\ a # f => h0[a].free = h[a].free
      /\ h0[f].free
  BY <1>1, MarkFreeFacts
<1> HIDE DEF h0
<1>3. Tiled(h0, t) /\ Blocks(h0) = Blocks(h)
  BY <1>2, TiledIgnoresFree
<1>4. \A a \in Blocks(h) : a \in HeapAddr
  BY DEF Blocks
<1>5. p # NULL => /\ p \in Blocks(h) /\ p \in HeapAddr /\ h[p].next = f
                  /\ p # f /\ f # HeapBase
  <2> SUFFICES ASSUME p # NULL
               PROVE  /\ p \in Blocks(h) /\ p \in HeapAddr /\ h[p].next = f
                      /\ p # f /\ f # HeapBase
    OBVIOUS
  <2>1. PrevOK(h, f)
    BY DEF Tiled
  <2>2. p \in Blocks(h) /\ p \in HeapAddr /\ h[p].next = f /\ f # HeapBase
    BY <2>1, <1>4 DEF PrevOK
  <2>3. f > p /\ f \in Nat /\ p \in Nat
    BY <2>2, <1>1, TiledFacts, HeapAddrFacts, Geometry
  <2> HIDE DEF p
  <2> QED BY <2>2, <2>3
<1>6. JoinsPrev(h0, f) <=> JoinsPrev(h, f)
  BY <1>1, <1>2, <1>5 DEF JoinsPrev
<1>7. \A a \in Blocks(h) \ {f} :
         NotBothFree(h0, a) \/ (JoinsPrev(h, f) /\ a = p)
  <2> SUFFICES ASSUME NEW a \in Blocks(h) \ {f}, ~(JoinsPrev(h, f) /\ a = p),
                      h0[a].free, h0[a].next # NULL
               PROVE  ~h0[h0[a].next].free
    BY DEF NotBothFree
  <2>1. a \in HeapAddr /\ h[a].free /\ h[a].next # NULL
    BY <1>2, <1>4
  <2>2. h[a].next \in HeapAddr /\ h[h[a].next].prev = a
    BY <2>1, TiledFacts
  <2>3. ~h[h[a].next].free
    BY <2>1 DEF NotBothFree
  <2>4. h[a].next # f
    <3> SUFFICES ASSUME h[a].next = f PROVE FALSE
      OBVIOUS
    <3>1. p = a
      BY <2>2
    <3>2. a # NULL
      BY <2>1, HeapAddrFacts
    <3> QED BY <3>1, <3>2, <2>1 DEF JoinsPrev
  <2> QED BY <2>1, <2>2, <2>3, <2>4, <1>2
<1>8. CASE ~JoinsPrev(h, f)
  <2>1. JoinPrev(h0, f) = h0 /\ Survivor(h, f) = f
    BY <1>6, <1>8 DEF JoinPrev, Survivor
  <2>2. \A a \in Blocks(h) \ {f} : NotBothFree(h0, a)
    BY <1>7, <1>8
  <2> QED BY <2>1, <2>2, <1>1, <1>2, <1>3, <1>4, <1>8 DEF h0
<1>9. CASE JoinsPrev(h, f)
  <2> DEFINE h1 == Absorb(h0, p, f)
  <2>1. JoinPrev(h0, f) = h1 /\ Survivor(h, f) = p
    BY <1>1, <1>2, <1>6, <1>9 DEF JoinPrev, Survivor
  <2>2. p # NULL /\ h[p].free
    BY <1>9 DEF JoinsPrev
  <2>3. /\ p \in Blocks(h0) /\ p \in HeapAddr /\ f \in Blocks(h0)
        /\ h0[p].next = f /\ p # f /\ h0[p].free
    BY <2>2, <1>2, <1>3, <1>5
  <2>4. TailAfterAbsorb(h, t, p, f) = TailAfterAbsorb(h0, t, p, f)
    BY <1>1, <1>2 DEF TailAfterAbsorb
  <2> HIDE DEF p
  <2>5. Tiled(h1, TailAfterAbsorb(h0, t, p, f))
    BY <2>3, <1>2, <1>3, AbsorbTiled
  <2>6. /\ h1 \in Memory /\ h1[p].next = h0[f].next /\ h1[p].free = h0[p].free
        /\ \A a \in HeapAddr \ {p, f} :
             /\ h1[a].size = h0[a].size /\ h1[a].free = h0[a].free
             /\ h1[a].next = h0[a].next
        /\ Blocks(h1) = Blocks(h0) \ {f}
    <3>1. /\ h0 \in Memory /\ Tiled(h0, t)
          /\ p \in Blocks(h0) /\ f \in Blocks(h0) /\ h0[p].next = f
      BY <2>3, <1>2, <1>3
    <3> QED BY <3>1, AbsorbFacts
  <2>7. \A a \in Blocks(h0) \ {p, f} : NotBothFree(h1, a)
    BY <2>3, <1>2, <1>3, <1>7, AbsorbPairs
  <2> HIDE DEF h1
  <2>8. p \in Blocks(h1) /\ h1[p].free /\ h1[p].next = h[f].next
    BY <2>2, <2>3, <2>6, <1>1, <1>2
  <2>9. \A a \in Blocks(h) : ~h[a].free /\ a # f =>
           a \in Blocks(h1) /\ ~h1[a].free /\ h1[a].size = h[a].size
    BY <2>2, <2>6, <1>2, <1>3, <1>4
  <2>10. \A a \in Blocks(h1) : ~h1[a].free => ~h[a].free /\ a # f
    BY <2>6, <2>8, <1>2, <1>3, <1>4
  <2>11. \A a \in Blocks(h1) : a # p => h1[a].next = h[a].next
    BY <2>6, <1>2, <1>3, <1>4
  <2>12. Blocks(h1) \subseteq Blocks(h)
    BY <2>6, <1>3
  <2> QED BY <2>1, <2>4, <2>5, <2>6, <2>7, <2>8, <2>9, <2>10, <2>11, <2>12,
             <1>3, <1>9 DEF h0, p
<1> QED BY <1>8, <1>9

\* kfree of a block in use keeps the tiling, leaves no free neighbours, and
\* changes no other block in use.
LEMMA FreeFacts ==
    ASSUME NEW h \in Memory, NEW t, Tiled(h, t), NEW f \in Blocks(h), ~h[f].free,
           \A a \in Blocks(h) : NotBothFree(h, a)
    PROVE  LET g == FreeBlock(h, f)
           IN  /\ g \in Memory /\ Tiled(g, TailAfterFree(h, t, f))
               /\ \A a \in Blocks(h) : ~h[a].free /\ a # f =>
                     a \in Blocks(g) /\ ~g[a].free /\ g[a].size = h[a].size
               /\ \A a \in Blocks(g) : ~g[a].free =>
                     a \in Blocks(h) /\ ~h[a].free /\ a # f
               /\ \A a \in Blocks(g) : NotBothFree(g, a)
<1> DEFINE h1 == JoinPrev(MarkFree(h, f), f)
           s  == Survivor(h, f)
           n  == h[f].next
           t1 == IF JoinsPrev(h, f) THEN TailAfterAbsorb(h, t, h[f].prev, f) ELSE t
           g  == FreeBlock(h, f)
<1>1. /\ h1 \in Memory /\ Tiled(h1, t1)
      /\ s \in Blocks(h1) /\ h1[s].free /\ h1[s].next = n
      /\ Blocks(h1) \subseteq Blocks(h)
      /\ \A a \in Blocks(h) : ~h[a].free /\ a # f =>
            a \in Blocks(h1) /\ ~h1[a].free /\ h1[a].size = h[a].size
      /\ \A a \in Blocks(h1) : ~h1[a].free => ~h[a].free /\ a # f
      /\ \A a \in Blocks(h1) : a # s => h1[a].next = h[a].next
      /\ \A a \in Blocks(h1) \ {s} : NotBothFree(h1, a)
  BY JoinPrevFacts
<1>2. g = JoinNext(h1, s, n)
  BY DEF FreeBlock
<1>3. f \in HeapAddr /\ \A a \in Blocks(h) : a \in HeapAddr
  BY DEF Blocks
<1>4. n # NULL => n \in Blocks(h) /\ n \in HeapAddr /\ n # f
  <2>1. n # NULL => n \in Blocks(h) /\ n \in HeapAddr /\ n > f
    BY TiledFacts
  <2> HIDE DEF n
  <2> QED BY <2>1, <1>3, HeapAddrFacts
<1>5. n # NULL => n \in Blocks(h1) /\ n # s
  <2>1. h1[s].next # NULL => /\ h1[s].next \in Blocks(h1) /\ h1[s].next > s
                             /\ s \in HeapAddr /\ h1[s].next \in HeapAddr
    BY <1>1, TiledFacts
  <2> HIDE DEF h1, s, n
  <2> QED BY <2>1, <1>1, HeapAddrFacts
<1>6. n # NULL => (h1[n].free <=> h[n].free)
  <2>1. n # NULL /\ ~h[n].free => ~h1[n].free
    BY <1>1, <1>4
  <2>2. n # NULL /\ ~h1[n].free => ~h[n].free
    BY <1>1, <1>5
  <2> QED BY <2>1, <2>2
<1>7. n # NULL => h1[n].next = h[n].next
  BY <1>1, <1>5
<1>8. CASE ~JoinsNext(h, f)
  <2>1. g = h1
    BY <1>2, <1>6, <1>8 DEF JoinsNext, JoinNext
  <2>2. TailAfterFree(h, t, f) = t1
    BY <1>8 DEF TailAfterFree
  <2>3. NotBothFree(h1, s)
    BY <1>1, <1>6, <1>8 DEF NotBothFree, JoinsNext
  <2> HIDE DEF h1, s, t1
  <2>4. \A a \in Blocks(h1) : NotBothFree(h1, a)
    BY <1>1, <2>3
  <2> QED BY <1>1, <2>1, <2>2, <2>4
<1>9. CASE JoinsNext(h, f)
  <2>1. n # NULL /\ h[n].free
    BY <1>9 DEF JoinsNext
  <2>2. g = Absorb(h1, s, n)
    BY <2>1, <1>2, <1>6 DEF JoinNext
  <2>3. TailAfterFree(h, t, f) = TailAfterAbsorb(h1, t1, s, n)
    BY <2>1, <1>7, <1>9 DEF TailAfterFree, TailAfterAbsorb
  <2> HIDE DEF h1, s, t1, n, g
  <2>4. Tiled(g, TailAfterFree(h, t, f))
    BY <2>1, <2>2, <2>3, <1>1, <1>5, AbsorbTiled
  <2>5. /\ h1 \in Memory /\ Tiled(h1, t1) /\ s \in Blocks(h1) /\ n \in Blocks(h1)
        /\ h1[s].next = n
    BY <2>1, <1>1, <1>5
  <2>6. /\ g \in Memory /\ g[s].free = h1[s].free /\ g[s].next = h1[n].next
        /\ \A a \in HeapAddr \ {s, n} :
             g[a].size = h1[a].size /\ g[a].free = h1[a].free
        /\ Blocks(g) = Blocks(h1) \ {n}
    BY <2>2, <2>5, AbsorbFacts
  <2>7. \A a \in Blocks(h1) \ {s, n} : NotBothFree(g, a)
    BY <2>2, <2>5, <1>1, AbsorbPairs
  <2>8. NotBothFree(g, s)
    <3>1. NotBothFree(h1, n)
      BY <2>1, <1>1, <1>5
    <3>2. h1[n].free
      BY <2>1, <1>6
    <3>3. h1[n].next # NULL => h1[n].next \in HeapAddr \ {s, n}
      <4>1. h1[n].next # NULL => h1[n].next \in HeapAddr /\ h1[n].next > n
        BY <2>5, TiledFacts
      <4>2. n > s /\ n \in HeapAddr /\ s \in HeapAddr
        BY <2>1, <2>5, TiledFacts
      <4> QED BY <4>1, <4>2, HeapAddrFacts
    <3> QED BY <3>1, <3>2, <3>3, <2>6 DEF NotBothFree
  <2>9. \A a \in Blocks(g) : NotBothFree(g, a)
    BY <2>6, <2>7, <2>8
  <2>10. \A a \in Blocks(h) : ~h[a].free /\ a # f =>
            a \in Blocks(g) /\ ~g[a].free /\ g[a].size = h[a].size
    <3> SUFFICES ASSUME NEW a \in Blocks(h), ~h[a].free, a # f
                 PROVE  a \in Blocks(g) /\ ~g[a].free /\ g[a].size = h[a].size
      OBVIOUS
    <3>1. a \in Blocks(h1) /\ ~h1[a].free /\ h1[a].size = h[a].size /\ a \in HeapAddr
      BY <1>1, <1>3
    <3>2. a # s /\ a # n
      BY <3>1, <2>1, <1>1
    <3> QED BY <3>1, <3>2, <2>6
  <2>11. \A a \in Blocks(g) : ~g[a].free => a \in Blocks(h) /\ ~h[a].free /\ a # f
    <3> SUFFICES ASSUME NEW a \in Blocks(g), ~g[a].free
                 PROVE  a \in Blocks(h) /\ ~h[a].free /\ a # f
      OBVIOUS
    <3>1. a \in Blocks(h1) /\ a # n /\ a # s /\ a \in HeapAddr
      BY <2>6, <1>1, <1>3
    <3> QED BY <3>1, <2>6, <1>1
  <2> QED BY <2>4, <2>6, <2>9, <2>10, <2>11 DEF g
<1> QED BY <1>8, <1>9

-----------------------------------------------------------------------------
(* kmalloc *)

\* Taking a free block that is large enough keeps the tiling and leaves no
\* free neighbours; the block is in use, and every other block in use stays.
LEMMA TakeFacts ==
    ASSUME NEW h \in Memory, NEW t, Tiled(h, t), NEW b \in Blocks(h), h[b].free,
           NEW size \in Nat, size <= h[b].size,
           \A a \in Blocks(h) : NotBothFree(h, a)
    PROVE  LET g == TakeBlock(h, b, size)
           IN  /\ g \in Memory /\ Tiled(g, TailAfterTake(h, t, b, size))
               /\ b \in Blocks(g) /\ ~g[b].free /\ size <= g[b].size
               /\ Blocks(h) \subseteq Blocks(g)
               /\ \A a \in Blocks(h) : ~h[a].free =>
                     a \in Blocks(g) /\ ~g[a].free /\ g[a].size = h[a].size
               /\ \A a \in Blocks(g) : ~g[a].free =>
                     a = b \/ (a \in Blocks(h) /\ ~h[a].free)
               /\ \A a \in Blocks(g) : NotBothFree(g, a)
<1> DEFINE g == TakeBlock(h, b, size)
           r == b + HeaderSize + size
           n == h[b].next
<1>1. b \in HeapAddr /\ \A a \in Blocks(h) : a \in HeapAddr
  BY DEF Blocks
<1>2. n # NULL => ~h[n].free /\ n \in HeapAddr
  BY TiledFacts DEF NotBothFree
<1>3. \A a \in Blocks(h) : h[a].free /\ h[a].next # NULL =>
         h[a].next # b /\ h[a].next \in HeapAddr /\ ~h[h[a].next].free
  BY TiledFacts DEF NotBothFree
<1>4. CASE ~Splits(h, b, size)
  <2>1. g = MarkUsed(h, b)
    BY <1>4 DEF TakeBlock
  <2>2. TailAfterTake(h, t, b, size) = t
    BY <1>4 DEF TailAfterTake
  <2>3. /\ g \in Memory
        /\ \A a \in HeapAddr :
             /\ g[a].magic = h[a].magic /\ g[a].size = h[a].size
             /\ g[a].prev = h[a].prev /\ g[a].next = h[a].next
             /\ a = b => ~g[a].free
             /\ a # b => g[a].free = h[a].free
    BY <2>1, <1>1, MarkUsedFacts
  <2> HIDE DEF g
  <2>4. Tiled(g, t) /\ Blocks(g) = Blocks(h)
    BY <2>3, TiledIgnoresFree
  <2>5. \A a \in Blocks(g) : NotBothFree(g, a)
    <3> SUFFICES ASSUME NEW a \in Blocks(h), g[a].free, g[a].next # NULL
                 PROVE  ~g[g[a].next].free
      BY <2>4 DEF NotBothFree
    <3>1. a # b /\ a \in HeapAddr
      BY <2>3, <1>1
    <3>2. h[a].free /\ h[a].next # NULL /\ g[a].next = h[a].next
      BY <3>1, <2>3
    <3> QED BY <3>2, <2>3, <1>3
  <2> QED BY <2>2, <2>3, <2>4, <2>5, <1>1 DEF g
<1>5. CASE Splits(h, b, size)
  <2>1. /\ r \in HeapAddr /\ r \notin Blocks(h) /\ g \in Memory
        /\ g[b].size = size /\ ~g[b].free /\ g[b].next = r
        /\ g[r].free /\ g[r].next = n
        /\ \A a \in HeapAddr \ {b, r} :
             /\ g[a].size = h[a].size /\ g[a].free = h[a].free
             /\ g[a].next = h[a].next
        /\ Blocks(g) = Blocks(h) \cup {r}
    BY <1>5, SplitFacts
  <2>2. Tiled(g, TailAfterTake(h, t, b, size))
    BY <1>5, SplitTiled
  <2>3. n # NULL => n \in Blocks(h) /\ n # b
    <3>1. n # NULL => n \in Blocks(h) /\ n > b
      BY TiledFacts
    <3> HIDE DEF n
    <3> QED BY <3>1, <1>1, HeapAddrFacts
  <2> HIDE DEF g, r, n
  <2>4. NotBothFree(g, r)
    BY <2>1, <2>3, <1>2 DEF NotBothFree
  <2>5. \A a \in Blocks(h) : NotBothFree(g, a)
    <3> SUFFICES ASSUME NEW a \in Blocks(h), g[a].free, g[a].next # NULL
                 PROVE  ~g[g[a].next].free
      BY DEF NotBothFree
    <3>1. a # b /\ a # r /\ a \in HeapAddr
      BY <2>1, <1>1
    <3>2. h[a].free /\ h[a].next # NULL /\ g[a].next = h[a].next
      BY <3>1, <2>1
    <3>3. h[a].next # b /\ h[a].next \in HeapAddr /\ ~h[h[a].next].free
      BY <3>2, <1>3
    <3>4. h[a].next \in Blocks(h)
      BY <3>2, TiledFacts
    <3>5. h[a].next # r
      BY <3>4, <2>1
    <3> QED BY <3>2, <3>3, <3>5, <2>1
  <2> QED BY <2>1, <2>2, <2>4, <2>5, <1>1 DEF g
<1> QED BY <1>4, <1>5

-----------------------------------------------------------------------------
(* The heap with its owners *)

Owners == [PtrAddr -> 0 .. Word - 1]

OwnersOK(h, o) ==
    \A p \in PtrAddr :
        /\ o[p] # 0 <=> p - HeaderSize \in Blocks(h) /\ ~h[p - HeaderSize].free
        /\ o[p] # 0 => o[p] <= h[p - HeaderSize].size

\* HeapInv of an enabled heap, as a predicate of memory, tail and owners.
Good(h, t, o) ==
    /\ h \in Memory /\ t \in HeapAddr \cup {NULL} /\ o \in Owners
    /\ Tiled(h, t)
    /\ \A a \in Blocks(h) : NotBothFree(h, a)
    /\ OwnersOK(h, o)

\* kmalloc makes a good heap from a good heap.
LEMMA TakeGood ==
    ASSUME NEW h, NEW t, NEW o, Good(h, t, o), NEW b \in Blocks(h), h[b].free,
           NEW size \in Nat, size > 0, size <= h[b].size
    PROVE  /\ Good(TakeBlock(h, b, size), TailAfterTake(h, t, b, size),
                   [o EXCEPT ![b + HeaderSize] = size])
           /\ b + HeaderSize \in PtrAddr
           /\ Blocks(h) \subseteq Blocks(TakeBlock(h, b, size))
<1> DEFINE g == TakeBlock(h, b, size)
           u == TailAfterTake(h, t, b, size)
           q == [o EXCEPT ![b + HeaderSize] = size]
<1>1. /\ h \in Memory /\ t \in HeapAddr \cup {NULL} /\ o \in Owners /\ Tiled(h, t)
      /\ \A a \in Blocks(h) : NotBothFree(h, a)
      /\ OwnersOK(h, o)
  BY DEF Good
<1>2. /\ b \in HeapAddr /\ b + HeaderSize + h[b].size <= HeapEnd
      /\ h[b].size \in Nat /\ h[b].size < Word
  BY <1>1, TiledFacts, MemoryFacts DEF Blocks
<1>3. b + HeaderSize \in PtrAddr /\ size \in 0 .. Word - 1
  BY <1>2, Geometry, HeapAddrFacts
<1>4. /\ g \in Memory /\ Tiled(g, u)
      /\ b \in Blocks(g) /\ ~g[b].free /\ size <= g[b].size
      /\ Blocks(h) \subseteq Blocks(g)
      /\ \A a \in Blocks(h) : ~h[a].free =>
            a \in Blocks(g) /\ ~g[a].free /\ g[a].size = h[a].size
      /\ \A a \in Blocks(g) : ~g[a].free => a = b \/ (a \in Blocks(h) /\ ~h[a].free)
      /\ \A a \in Blocks(g) : NotBothFree(g, a)
  BY <1>1, TakeFacts
<1>5. u \in HeapAddr \cup {NULL}
  <2>1. Splits(h, b, size) => RemainderAt(b, size) \in HeapAddr
    BY <1>1, SplitFacts
  <2> QED BY <2>1, <1>1 DEF TailAfterTake
<1>6. /\ q \in Owners /\ q[b + HeaderSize] = size
      /\ \A p \in PtrAddr : p # b + HeaderSize => q[p] = o[p]
  BY <1>1, <1>3 DEF Owners
<1> HIDE DEF g, u, q
<1>7. OwnersOK(g, q)
  <2> SUFFICES ASSUME NEW p \in PtrAddr
               PROVE  /\ q[p] # 0 <=> /\ p - HeaderSize \in Blocks(g)
                                      /\ ~g[p - HeaderSize].free
                      /\ q[p] # 0 => q[p] <= g[p - HeaderSize].size
    BY DEF OwnersOK
  <2>1. CASE p = b + HeaderSize
    <3>1. p - HeaderSize = b
      BY <2>1, <1>2, Geometry, HeapAddrFacts
    <3> QED BY <2>1, <3>1, <1>4, <1>6
  <2>2. CASE p # b + HeaderSize
    <3> DEFINE a == p - HeaderSize
    <3>1. a # b
      BY <2>2, <1>2, Geometry, HeapAddrFacts
    <3>2. /\ o[p] # 0 <=> a \in Blocks(h) /\ ~h[a].free
          /\ o[p] # 0 => o[p] <= h[a].size
          /\ q[p] = o[p]
      BY <2>2, <1>1, <1>6 DEF OwnersOK
    <3> HIDE DEF a
    <3>3. q[p] # 0 <=> a \in Blocks(g) /\ ~g[a].free
      BY <3>1, <3>2, <1>4
    <3>4. q[p] # 0 => q[p] <= g[a].size
      BY <3>2, <1>4
    <3> QED BY <3>3, <3>4 DEF a
  <2> QED BY <2>1, <2>2
<1> QED BY <1>3, <1>4, <1>5, <1>6, <1>7 DEF Good, g, u, q

\* kfree makes a good heap from a good heap.
LEMMA FreeGood ==
    ASSUME NEW h, NEW t, NEW o, Good(h, t, o), NEW f \in Blocks(h), ~h[f].free
    PROVE  Good(FreeBlock(h, f), TailAfterFree(h, t, f),
                [o EXCEPT ![f + HeaderSize] = 0])
<1> DEFINE g == FreeBlock(h, f)
           u == TailAfterFree(h, t, f)
           q == [o EXCEPT ![f + HeaderSize] = 0]
<1>1. /\ h \in Memory /\ t \in HeapAddr \cup {NULL} /\ o \in Owners /\ Tiled(h, t)
      /\ \A a \in Blocks(h) : NotBothFree(h, a)
      /\ OwnersOK(h, o)
  BY DEF Good
<1>2. f \in HeapAddr
  BY DEF Blocks
<1>3. /\ g \in Memory /\ Tiled(g, u)
      /\ \A a \in Blocks(h) : ~h[a].free /\ a # f =>
            a \in Blocks(g) /\ ~g[a].free /\ g[a].size = h[a].size
      /\ \A a \in Blocks(g) : ~g[a].free =>
            a \in Blocks(h) /\ ~h[a].free /\ a # f
      /\ \A a \in Blocks(g) : NotBothFree(g, a)
  BY <1>1, FreeFacts
<1>4. u \in HeapAddr \cup {NULL}
  <2>1. JoinsPrev(h, f) => h[f].prev \in HeapAddr
    <3>1. PrevOK(h, f)
      BY <1>1 DEF Tiled
    <3> QED BY <3>1 DEF JoinsPrev, PrevOK, Blocks
  <2>2. Survivor(h, f) \in HeapAddr
    BY <2>1, <1>2 DEF Survivor
  <2> QED BY <2>1, <2>2, <1>1 DEF TailAfterFree, TailAfterAbsorb
<1>5. /\ q \in Owners
      /\ f + HeaderSize \in PtrAddr => q[f + HeaderSize] = 0
      /\ \A p \in PtrAddr : p # f + HeaderSize => q[p] = o[p]
  <2>1. 0 \in 0 .. Word - 1
    BY Geometry
  <2> QED BY <1>1, <2>1 DEF Owners
<1> HIDE DEF g, u, q
<1>6. OwnersOK(g, q)
  <2> SUFFICES ASSUME NEW p \in PtrAddr
               PROVE  /\ q[p] # 0 <=> /\ p - HeaderSize \in Blocks(g)
                                      /\ ~g[p - HeaderSize].free
                      /\ q[p] # 0 => q[p] <= g[p - HeaderSize].size
    BY DEF OwnersOK
  <2>1. CASE p = f + HeaderSize
    <3>1. p - HeaderSize = f
      BY <2>1, <1>2, Geometry, HeapAddrFacts
    <3> QED BY <2>1, <3>1, <1>3, <1>5
  <2>2. CASE p # f + HeaderSize
    <3> DEFINE a == p - HeaderSize
    <3>1. a # f
      BY <2>2, <1>2, Geometry, HeapAddrFacts
    <3>2. /\ o[p] # 0 <=> a \in Blocks(h) /\ ~h[a].free
          /\ o[p] # 0 => o[p] <= h[a].size
          /\ q[p] = o[p]
      BY <2>2, <1>1, <1>5 DEF OwnersOK
    <3> HIDE DEF a
    <3>3. q[p] # 0 <=> a \in Blocks(g) /\ ~g[a].free
      BY <3>1, <3>2, <1>3
    <3>4. q[p] # 0 => q[p] <= g[a].size
      BY <3>1, <3>2, <1>3
    <3> QED BY <3>3, <3>4 DEF a
  <2> QED BY <2>1, <2>2
<1> QED BY <1>3, <1>4, <1>5, <1>6 DEF Good, g, u, q

\* An unaligned request is served from a free block that is large enough,
\* as long as its size does not wrap the address space.
LEMMA AllocFacts ==
    ASSUME SmallRequests, NEW h \in Memory, NEW t, Tiled(h, t),
           NEW size \in Sizes, NEW m \in kmalloc_heap_base(h, size, FALSE)
    PROVE  /\ m.mem = h /\ m.block \in Blocks(h) /\ h[m.block].free
           /\ size \in Nat /\ size > 0 /\ size <= h[m.block].size
<1>1. size # 0
  BY DEF kmalloc_heap_base
<1>2. PICK b \in kheap_find_best_fit(h, size, FALSE) :
         m = [block |-> b, mem |-> h]
  BY <1>1 DEF kmalloc_heap_base, NeedsPadding
<1>3. b \in Listed(h) /\ h[b].free /\ Fits(h, b, size, FALSE)
  BY <1>2 DEF kheap_find_best_fit
<1>4. b \in Blocks(h)
  BY <1>3 DEF Listed
<1>5. /\ size \in Nat
      /\ HeapEnd + HeaderSize * HeaderSize + HeaderSize + PageSize + size < Word
  BY RequestAssumption, Geometry DEF SmallRequests
<1>6. /\ b \in Nat /\ b < HeapEnd /\ h[b].size \in Nat
      /\ b + HeaderSize + h[b].size <= HeapEnd
  <2>1. /\ b \in HeapAddr /\ BlockEnd(h, b) = b + HeaderSize + h[b].size
        /\ BlockEnd(h, b) <= HeapEnd
    BY <1>4, TiledFacts
  <2> QED BY <2>1, MemoryFacts, HeapAddrFacts, Geometry
<1> DEFINE HH == HeaderSize * HeaderSize
<1>7. HH \in Nat /\ HeapEnd + HH + HeaderSize + PageSize + size < Word
  BY <1>5, Geometry
<1>8. Add32(b + HH, size) <= Add32(b + HH, h[b].size)
  BY <1>3 DEF Fits
<1> HIDE DEF HH
<1>9. size <= h[b].size
  BY <1>5, <1>6, <1>7, <1>8, Geometry DEF Add32
<1> QED BY <1>1, <1>2, <1>3, <1>4, <1>5, <1>9

-----------------------------------------------------------------------------
(* The inductive invariant *)

PanicReasons == {"none", "oom", "null", "range", "magic", "double", "shared"}

Enabled == kheap_enabled = TRUE /\ Good(hdr, kheap_tail, owned)

Fresh ==
    /\ kheap_enabled = FALSE
    /\ hdr \in Memory /\ kheap_tail \in HeapAddr \cup {NULL} /\ owned \in Owners
    /\ Blocks(hdr) = {}
    /\ OwnersOK(hdr, owned)

\* HeapInv, by the stage the kernel has reached.
LEMMA HeapInvStages ==
    ASSUME Unshared
    PROVE  HeapInv <=>
              /\ PlacementTypeOK /\ panic \in PanicReasons
              /\ Enabled \/ Fresh
BY DEF HeapInv, TypeOK, HeapTiled, Coalesced, InUseIffOwned, PromisesKept, Unshared,
       Enabled, Fresh, Good, OwnersOK, Owners, Memory, PanicReasons

\* The same for the next state.
LEMMA HeapInvNext ==
    ASSUME PlacementTypeOK', panic' \in PanicReasons, Enabled' \/ Fresh'
    PROVE  HeapInv'
BY DEF HeapInv, TypeOK, HeapTiled, Coalesced, InUseIffOwned, PromisesKept, Unshared,
       Enabled, Fresh, Good, OwnersOK, Owners, Memory, PanicReasons

\* And for a step that serves a stale pointer: the list stays as it should,
\* whatever o the tiling was shown for.
LEMMA SharedNext ==
    ASSUME PlacementTypeOK', panic' = "shared", kheap_enabled' = TRUE,
           NEW o, Good(hdr', kheap_tail', o), owned' \in Owners
    PROVE  HeapInv'
BY DEF HeapInv, TypeOK, HeapTiled, Coalesced, InUseIffOwned, PromisesKept,
       Good, Owners, Memory, Unshared

\* The initial state satisfies the invariant.
LEMMA InitInv == Init => HeapInv
<1> SUFFICES ASSUME Init PROVE HeapInv
  OBVIOUS
<1>1. NoHeader \in Header /\ NoHeader.magic # KHEAP_MAGIC
  BY Geometry DEF NoHeader, Header, NULL, KHEAP_MAGIC
<1>2. hdr \in Memory /\ \A a \in HeapAddr : hdr[a] = NoHeader
  BY <1>1 DEF Init, Memory
<1>3. owned \in Owners /\ \A p \in PtrAddr : owned[p] = 0
  BY Geometry DEF Init, Owners
<1>4. Blocks(hdr) = {}
  BY <1>1, <1>2 DEF Blocks
<1>5. Fresh
  BY <1>2, <1>3, <1>4 DEF Init, Fresh, OwnersOK
<1>6. PlacementTypeOK /\ panic \in PanicReasons
  BY Geometry DEF Init, PlacementTypeOK, PanicReasons
<1> QED BY <1>5, <1>6, HeapInvStages DEF Init, Unshared

\* What the checks of kfree and krealloc establish.
LEMMA GoodPointerFacts ==
    ASSUME HeapInv, NEW ptr \in Pointers, GoodPointer(ptr)
    PROVE  /\ kheap_enabled = TRUE /\ ptr \in PtrAddr
           /\ ptr - HeaderSize \in Blocks(hdr)
           /\ (ptr - HeaderSize) + HeaderSize = ptr
<1>2. kheap_enabled \in BOOLEAN
  BY DEF HeapInv, TypeOK
<1>3. ptr # HeapEnd
  BY <1>2, Geometry DEF GoodPointer, InHeapRange, kheap_base, NULL
<1>4. ptr # PlacementBase
  BY Geometry DEF GoodPointer, kheap_is_placement_memory
<1>5. ptr \in HeapBase + HeaderSize .. HeapEnd - 1
  BY <1>3, <1>4 DEF Pointers, GoodPointer
<1>6. ptr \in PtrAddr /\ ptr - HeaderSize \in HeapAddr
  BY <1>5, Geometry, HeapAddrFacts
<1>7. ptr - HeaderSize \in Blocks(hdr)
  BY <1>6 DEF GoodPointer, HasMagic, Blocks
<1>8. kheap_enabled = TRUE
  BY <1>2, <1>7 DEF HeapInv
<1> QED BY <1>5, <1>6, <1>7, <1>8, Geometry

\* A placement request changes only the placement variables, and keeps
\* their types.
LEMMA PlacementStep ==
    ASSUME HeapInv, NEW size \in Sizes, NEW align \in BOOLEAN,
           kmalloc_placement_base(size, align)
    PROVE  HeapInv'
<1>1. PlacementTypeOK'
  <2> DEFINE pad == PlacementPadding(align)
             real == Add32(size, pad)
  <2>1. placement_head \in Nat /\ placement_free \in Nat
        /\ placed \subseteq Nat \X Sizes
    BY DEF HeapInv, TypeOK, PlacementTypeOK
  <2>2. pad \in Nat
    <3>1. (placement_head + PageSize - 1) % PageSize \in 0 .. PageSize - 1
      BY <2>1, Geometry
    <3> QED BY <2>1, <3>1, Geometry
          DEF PlacementPadding, paging_align_address_up
  <2>3. real \in Nat
    BY <2>2, Geometry, RequestAssumption DEF Add32
  <2> HIDE DEF pad, real
  <2>4. CASE UNCHANGED placementVars
    BY <2>1, <2>4 DEF placementVars, PlacementTypeOK
  <2>5. CASE /\ real <= placement_free
             /\ placement_head' = placement_head + real
             /\ placement_free' = placement_free - real
             /\ placed' = placed \cup {<<placement_head + pad, size>>}
    BY <2>1, <2>2, <2>3, <2>5 DEF PlacementTypeOK
  <2> QED BY <2>4, <2>5 DEF kmalloc_placement_base, pad, real
<1>2. UNCHANGED <<kheap_enabled, heapVars, panic>>
  BY DEF kmalloc_placement_base
<1> QED BY <1>1, <1>2 DEF heapVars, HeapInv, TypeOK, HeapTiled, Coalesced,
           InUseIffOwned, PromisesKept, Unshared

\* A request served by the heap, or refused, keeps the invariant.
LEMMA HeapAllocateStep ==
    ASSUME SmallRequests, HeapInv, Unshared, kheap_enabled, NEW size \in Sizes,
           HeapAllocate(size, FALSE)
    PROVE  HeapInv'
<1>1. Enabled /\ PlacementTypeOK /\ panic \in PanicReasons
  BY HeapInvStages DEF Enabled, Fresh
<1>2. PlacementTypeOK' /\ panic' \in PanicReasons /\ kheap_enabled' = TRUE
  BY <1>1 DEF HeapAllocate, placementVars, PlacementTypeOK, Enabled
<1>3. CASE UNCHANGED heapVars
  <2>1. Enabled'
    BY <1>1, <1>2, <1>3 DEF Enabled, heapVars
  <2> QED BY <2>1, <1>2, HeapInvNext
<1>4. ASSUME NEW m \in kmalloc_heap_base(hdr, size, FALSE),
             hdr' = TakeBlock(m.mem, m.block, size),
             kheap_tail' = TailAfterTake(m.mem, kheap_tail, m.block, size),
             owned' = [owned EXCEPT ![m.block + HeaderSize] = size]
      PROVE  HeapInv'
  <2>1. Good(hdr, kheap_tail, owned)
    BY <1>1 DEF Enabled
  <2>2. /\ m.mem = hdr /\ m.block \in Blocks(hdr) /\ hdr[m.block].free
        /\ size \in Nat /\ size > 0 /\ size <= hdr[m.block].size
    BY <2>1, AllocFacts DEF Good
  <2>3. Good(hdr', kheap_tail', owned')
    BY <1>4, <2>1, <2>2, TakeGood
  <2>4. Enabled'
    BY <2>3, <1>2 DEF Enabled
  <2> QED BY <2>4, <1>2, HeapInvNext
<1> QED BY <1>3, <1>4 DEF HeapAllocate

\* kmalloc of either stage keeps the invariant.
LEMMA MallocStep ==
    ASSUME SmallRequests, HeapInv, Unshared, NEW size \in Sizes,
           kmalloc_base(size, FALSE)
    PROVE  HeapInv'
BY HeapAllocateStep, PlacementStep DEF kmalloc_base

\* A step that changes nothing but the panic reason keeps the invariant.
LEMMA PanicStep ==
    ASSUME HeapInv, Unshared, NEW reason \in PanicReasons, Panic(reason),
           UNCHANGED heapVars
    PROVE  HeapInv'
BY DEF Panic, placementVars, heapVars, HeapInv, TypeOK, PlacementTypeOK,
       HeapTiled, Coalesced, InUseIffOwned, PromisesKept, Unshared, PanicReasons

\* The pointer checks shared by kfree and krealloc keep the invariant.
LEMMA BadPointerStep ==
    ASSUME HeapInv, Unshared, NEW ptr, BadPointer(ptr)
    PROVE  HeapInv'
BY PanicStep DEF BadPointer, PanicReasons

\* A step that changes no variable keeps the invariant.
LEMMA StutterStep ==
    ASSUME HeapInv, UNCHANGED vars
    PROVE  HeapInv'
BY DEF vars, placementVars, heapVars, HeapInv, TypeOK, PlacementTypeOK,
       HeapTiled, Coalesced, InUseIffOwned, PromisesKept, Unshared

\* A call that is served comes from the holder, or leaves memory shared.
LEMMA ServedFacts ==
    ASSUME HeapInv, Unshared, NEW ptr, NEW caller \in Callers, Served(caller, ptr)
    PROVE  /\ PlacementTypeOK' /\ kheap_enabled' = kheap_enabled
           /\ caller = "holder" => panic' = panic /\ panic' \in PanicReasons
                                   /\ owned[ptr] # 0
           /\ caller = "stale" => panic' = "shared"
BY DEF Served, MayBe, Callers, HeapInv, TypeOK, PlacementTypeOK, placementVars,
       PanicReasons

\* kfree keeps the invariant.
LEMMA FreeStep ==
    ASSUME HeapInv, Unshared, NEW ptr \in Pointers, NEW caller \in Callers,
           kfree(ptr, caller)
    PROVE  HeapInv'
<1> DEFINE f == ptr - HeaderSize
<1>1. CASE ptr = NULL /\ Panic("null") /\ UNCHANGED heapVars
  BY <1>1, PanicStep DEF PanicReasons
<1>2. CASE UNCHANGED vars
  BY <1>2, StutterStep
<1>3. CASE BadPointer(ptr)
  BY <1>3, BadPointerStep
<1>4. CASE Panic("double") /\ UNCHANGED heapVars
  BY <1>4, PanicStep DEF PanicReasons
<1>5. CASE /\ GoodPointer(ptr) /\ ~hdr[f].free
           /\ hdr' = FreeBlock(hdr, f)
           /\ kheap_tail' = TailAfterFree(hdr, kheap_tail, f)
           /\ owned' = GivesUp(caller, ptr, owned)
           /\ Served(caller, ptr)
  <2>1. kheap_enabled = TRUE /\ f \in Blocks(hdr) /\ f + HeaderSize = ptr
    BY <1>5, GoodPointerFacts
  <2>2. Good(hdr, kheap_tail, owned)
    BY <2>1, HeapInvStages DEF Enabled, Fresh
  <2> HIDE DEF f
  <2>3. Good(hdr', kheap_tail', [owned EXCEPT ![ptr] = 0])
    BY <1>5, <2>1, <2>2, FreeGood
  <2>4. CASE caller = "holder"
    <3>1. owned' = [owned EXCEPT ![ptr] = 0]
      BY <1>5, <2>4 DEF GivesUp
    <3>2. Enabled' /\ PlacementTypeOK' /\ panic' \in PanicReasons
      BY <1>5, <2>1, <2>3, <2>4, <3>1, ServedFacts DEF Enabled
    <3> QED BY <3>2, HeapInvNext
  <2>5. CASE caller = "stale"
    <3>1. owned' = owned /\ owned \in Owners
      BY <1>5, <2>2, <2>5 DEF GivesUp, Good
    <3>2. PlacementTypeOK' /\ panic' = "shared" /\ kheap_enabled' = TRUE
      BY <1>5, <2>1, <2>5, ServedFacts
    <3> QED BY <2>3, <3>1, <3>2, SharedNext
  <2> QED BY <2>4, <2>5 DEF Callers
<1> QED BY <1>1, <1>2, <1>3, <1>4, <1>5 DEF kfree

\* krealloc of a block that is too small keeps the invariant.
LEMMA GrowStep ==
    ASSUME SmallRequests, HeapInv, Unshared, NEW ptr \in Pointers,
           NEW size \in Sizes, NEW caller \in Callers,
           GoodPointer(ptr), Grow(ptr, size, caller)
    PROVE  HeapInv'
<1> DEFINE f == ptr - HeaderSize
<1>1. kheap_enabled = TRUE /\ f \in Blocks(hdr) /\ f + HeaderSize = ptr
  BY GoodPointerFacts
<1>2. Good(hdr, kheap_tail, owned) /\ PlacementTypeOK /\ panic \in PanicReasons
  BY <1>1, HeapInvStages DEF Enabled, Fresh
<1>3. CASE UNCHANGED vars
  BY <1>3, StutterStep
<1>4. ASSUME NEW m \in kmalloc_heap_base(hdr, size, FALSE)
      PROVE  LET h == TakeBlock(hdr, m.block, size)
                 t == TailAfterTake(hdr, kheap_tail, m.block, size)
                 o == [owned EXCEPT ![m.block + HeaderSize] = size]
             IN  Good(h, t, o) /\ f \in Blocks(h)
  <2>1. /\ m.mem = hdr /\ m.block \in Blocks(hdr) /\ hdr[m.block].free
        /\ size \in Nat /\ size > 0 /\ size <= hdr[m.block].size
    BY <1>2, AllocFacts DEF Good
  <2> HIDE DEF f
  <2> QED BY <2>1, <1>1, <1>2, TakeGood
<1>5. ASSUME NEW m \in kmalloc_heap_base(hdr, size, FALSE),
             hdr' = TakeBlock(hdr, m.block, size),
             kheap_tail' = TailAfterTake(hdr, kheap_tail, m.block, size),
             owned' = [owned EXCEPT ![m.block + HeaderSize] = size],
             Panic("double")
      PROVE  HeapInv'
  <2>1. Good(hdr', kheap_tail', owned')
    BY <1>4, <1>5
  <2>2. Enabled' /\ PlacementTypeOK' /\ panic' \in PanicReasons
    BY <1>1, <1>2, <1>5, <2>1
       DEF Panic, Enabled, PlacementTypeOK, placementVars, PanicReasons
  <2> QED BY <2>2, HeapInvNext
<1>6. ASSUME NEW m \in kmalloc_heap_base(hdr, size, FALSE),
             ~TakeBlock(hdr, m.block, size)[f].free,
             hdr' = FreeBlock(TakeBlock(hdr, m.block, size), f),
             kheap_tail' =
                TailAfterFree(TakeBlock(hdr, m.block, size),
                              TailAfterTake(hdr, kheap_tail, m.block, size), f),
             owned' = GivesUp(caller, ptr,
                              [owned EXCEPT ![m.block + HeaderSize] = size]),
             Served(caller, ptr)
      PROVE  HeapInv'
  <2> DEFINE h == TakeBlock(hdr, m.block, size)
             t == TailAfterTake(hdr, kheap_tail, m.block, size)
             o == [owned EXCEPT ![m.block + HeaderSize] = size]
  <2>1. Good(h, t, o) /\ f \in Blocks(h) /\ ~h[f].free
    BY <1>4, <1>6
  <2>2. /\ hdr' = FreeBlock(h, f) /\ kheap_tail' = TailAfterFree(h, t, f)
        /\ owned' = GivesUp(caller, f + HeaderSize, o)
    BY <1>1, <1>6
  <2> HIDE DEF h, t, o, f
  <2>3. Good(hdr', kheap_tail', [o EXCEPT ![f + HeaderSize] = 0])
    BY <2>1, <2>2, FreeGood
  <2>4. CASE caller = "holder"
    <3>1. owned' = [o EXCEPT ![f + HeaderSize] = 0]
      BY <2>2, <2>4 DEF GivesUp
    <3>2. Enabled' /\ PlacementTypeOK' /\ panic' \in PanicReasons
      BY <1>1, <1>6, <2>3, <2>4, <3>1, ServedFacts DEF Enabled
    <3> QED BY <3>2, HeapInvNext
  <2>5. CASE caller = "stale"
    <3>1. owned' = o /\ o \in Owners
      BY <2>1, <2>2, <2>5 DEF GivesUp, Good
    <3>2. PlacementTypeOK' /\ panic' = "shared" /\ kheap_enabled' = TRUE
      BY <1>1, <1>6, <2>5, ServedFacts
    <3> QED BY <2>3, <3>1, <3>2, SharedNext
  <2> QED BY <2>4, <2>5 DEF Callers
<1> QED BY <1>3, <1>5, <1>6 DEF Grow

\* krealloc within the block keeps the invariant.
LEMMA KeepStep ==
    ASSUME SmallRequests, HeapInv, Unshared, NEW ptr \in Pointers,
           NEW size \in Sizes, NEW caller \in Callers,
           GoodPointer(ptr), hdr[ptr - HeaderSize].size >= size,
           KeepInPlace(ptr, size, caller)
    PROVE  HeapInv'
<1>1. kheap_enabled = TRUE /\ ptr \in PtrAddr /\ ptr - HeaderSize \in Blocks(hdr)
  BY GoodPointerFacts
<1>2. Good(hdr, kheap_tail, owned) /\ PlacementTypeOK /\ panic \in PanicReasons
  BY <1>1, HeapInvStages DEF Enabled, Fresh
<1>3. size \in Nat /\ size \in 0 .. Word - 1 /\ hdr[ptr - HeaderSize].size \in Nat
  <2>1. ptr - HeaderSize \in HeapAddr /\ hdr \in Memory
    BY <1>1, <1>2 DEF Blocks, Good
  <2> QED BY <2>1, MemoryFacts, RequestAssumption
<1> DEFINE want == IF size > owned[ptr] THEN size ELSE owned[ptr]
<1>4. /\ owned' = [owned EXCEPT ![ptr] = want] /\ hdr' = hdr
      /\ kheap_tail' = kheap_tail /\ Served(caller, ptr)
  BY DEF KeepInPlace
<1>5. /\ owned \in Owners /\ owned[ptr] \in 0 .. Word - 1
      /\ OwnersOK(hdr, owned)
  BY <1>1, <1>2 DEF Good, Owners
<1>6. /\ want \in 0 .. Word - 1 /\ (owned[ptr] # 0 => want # 0)
      /\ owned[ptr] # 0 => want <= hdr[ptr - HeaderSize].size
  BY <1>1, <1>3, <1>5, Geometry DEF OwnersOK
<1> HIDE DEF want
<1>7. /\ owned' \in Owners /\ owned'[ptr] = want
      /\ \A p \in PtrAddr : p # ptr => owned'[p] = owned[p]
  BY <1>1, <1>4, <1>5, <1>6 DEF Owners
<1>8. CASE caller = "holder"
  <2>1. OwnersOK(hdr, owned')
    BY <1>4, <1>5, <1>6, <1>7, <1>8, ServedFacts DEF OwnersOK
  <2>2. Good(hdr', kheap_tail', owned')
    BY <1>2, <1>4, <1>7, <2>1 DEF Good
  <2>3. Enabled' /\ PlacementTypeOK' /\ panic' \in PanicReasons
    BY <1>1, <1>4, <1>8, <2>2, ServedFacts DEF Enabled
  <2> QED BY <2>3, HeapInvNext
<1>9. CASE caller = "stale"
  <2>1. PlacementTypeOK' /\ panic' = "shared" /\ kheap_enabled' = TRUE
    BY <1>1, <1>4, <1>9, ServedFacts
  <2>2. Good(hdr', kheap_tail', owned)
    BY <1>2, <1>4
  <2> QED BY <1>7, <2>1, <2>2, SharedNext
<1> QED BY <1>8, <1>9 DEF Callers

\* krealloc keeps the invariant.
LEMMA ReallocStep ==
    ASSUME SmallRequests, HeapInv, Unshared, NEW ptr \in Pointers,
           NEW size \in Sizes, NEW caller \in Callers, krealloc(ptr, size, caller)
    PROVE  HeapInv'
BY MallocStep, StutterStep, BadPointerStep, KeepStep, GrowStep DEF krealloc

\* kheap_init makes the heap one free block.
LEMMA InitHeapStep ==
    ASSUME HeapInv, Unshared, kheap_init
    PROVE  HeapInv'
<1> DEFINE x == [magic |-> KHEAP_MAGIC, size |-> HeapSize - HeaderSize,
                 free |-> TRUE, prev |-> NULL, next |-> NULL]
<1>1. CASE Panic("oom") /\ UNCHANGED heapVars
  BY <1>1, PanicStep DEF PanicReasons
<1>2. CASE /\ kheap_enabled' = TRUE
           /\ hdr' = [hdr EXCEPT ![HeapBase] = x]
           /\ kheap_tail' = HeapBase
           /\ UNCHANGED <<placementVars, owned, panic>>
  <2>1. Fresh /\ PlacementTypeOK /\ panic \in PanicReasons
    BY HeapInvStages DEF kheap_init, Enabled, Fresh
  <2>2. /\ x \in Header /\ x.magic = KHEAP_MAGIC /\ x.free /\ x.prev = NULL
        /\ x.next = NULL /\ x.size = HeapSize - HeaderSize
    BY Geometry DEF Header, NULL, KHEAP_MAGIC
  <2> HIDE DEF x
  <2>3. /\ hdr' \in Memory /\ hdr'[HeapBase] = x
        /\ \A a \in HeapAddr : a # HeapBase => hdr'[a] = hdr[a]
    BY <1>2, <2>1, <2>2, HeapAddrFacts DEF Fresh, Memory
  <2>4. Blocks(hdr') = {HeapBase}
    <3>1. \A a \in HeapAddr : hdr[a].magic # KHEAP_MAGIC
      BY <2>1 DEF Fresh, Blocks
    <3> QED BY <3>1, <2>2, <2>3, HeapAddrFacts DEF Blocks
  <2>5. Tiled(hdr', kheap_tail')
    <3>1. BlockEnd(hdr', HeapBase) = HeapEnd
      BY <2>2, <2>3, Geometry DEF BlockEnd
    <3>2. NextOK(hdr', kheap_tail', HeapBase) /\ PrevOK(hdr', HeapBase)
      BY <1>2, <3>1, <2>2, <2>3 DEF NextOK, PrevOK
    <3>3. Disjoint(hdr')
      BY <2>4, Geometry DEF Disjoint
    <3> QED BY <2>4, <3>2, <3>3 DEF Tiled
  <2>6. \A a \in Blocks(hdr') : NotBothFree(hdr', a)
    BY <2>2, <2>3, <2>4 DEF NotBothFree
  <2>7. \A p \in PtrAddr : owned[p] = 0
    BY <2>1 DEF Fresh, OwnersOK, Owners
  <2>8. OwnersOK(hdr', owned')
    BY <1>2, <2>2, <2>3, <2>4, <2>7 DEF OwnersOK
  <2>9. Good(hdr', kheap_tail', owned')
    BY <1>2, <2>1, <2>3, <2>5, <2>6, <2>8, HeapAddrFacts DEF Good, Fresh
  <2>10. Enabled' /\ PlacementTypeOK' /\ panic' \in PanicReasons
    BY <1>2, <2>1, <2>9 DEF Enabled, PlacementTypeOK, placementVars
  <2> QED BY <2>10, HeapInvNext
<1> QED BY <1>1, <1>2 DEF kheap_init

\* Every step keeps the invariant, when no aligned request reaches the heap.
LEMMA NextInv ==
    ASSUME SmallRequests, "kmalloc_align" \notin Workload, HeapInv, [Next]_vars
    PROVE  HeapInv'
<1>0. Running => Unshared
  BY DEF Running, Unshared
<1>1. CASE EnableHeap
  BY <1>0, <1>1, InitHeapStep DEF EnableHeap
<1>2. CASE Malloc
  BY <1>0, <1>2, MallocStep DEF Malloc
<1>3. CASE MallocAligned
  <2>1. PICK size \in Sizes : kmalloc_base(size, TRUE)
    BY <1>3 DEF MallocAligned
  <2>2. ~kheap_enabled
    BY <1>3 DEF MallocAligned
  <2> QED BY <2>1, <2>2, PlacementStep DEF kmalloc_base
<1>4. CASE Realloc
  BY <1>0, <1>4, ReallocStep DEF Realloc
<1>5. CASE Free
  BY <1>0, <1>5, FreeStep DEF Free
<1>6. CASE UNCHANGED vars
  BY <1>6, StutterStep
<1> QED BY <1>1, <1>2, <1>3, <1>4, <1>5, <1>6 DEF Next, Halted

-----------------------------------------------------------------------------
(* What the invariant implies *)

\* Every set of naturals that is not empty has a least element.
LEMMA NatLeast ==
    ASSUME NEW T \in SUBSET Nat, T # {}
    PROVE  \E x \in T : \A y \in T : x <= y
<1>1. PICK x \in T : \A y \in T : ~(<<y, x>> \in OpToRel(<, Nat))
  BY NatLessThanWellFounded, WFMin
<1>2. ASSUME NEW y \in T PROVE x <= y
  <2>1. x \in Nat /\ y \in Nat
    OBVIOUS
  <2>2. <<y, x>> \notin OpToRel(<, Nat)
    BY <1>1
  <2>3. ~(y < x)
    BY <2>1, <2>2 DEF OpToRel
  <2> QED BY <2>1, <2>3
<1> QED BY <1>2

\* The walk through a tiled heap meets every block.
LEMMA TiledListed ==
    ASSUME NEW h \in Memory, NEW t, Tiled(h, t)
    PROVE  Listed(h) = Blocks(h)
<1>1. Listed(h) \subseteq Blocks(h)
  BY DEF Listed
<1>2. ASSUME NEW b \in Blocks(h), NEW S \in SUBSET Blocks(h), HeapBase \in S,
             \A c \in S : h[c].next \in S \cup {NULL}
      PROVE  b \in S
  <2> SUFFICES ASSUME b \notin S PROVE FALSE
    OBVIOUS
  <2> DEFINE X == Blocks(h) \ S
  <2>1. X \in SUBSET Nat /\ X # {}
    BY HeapAddrFacts, Geometry DEF Blocks
  <2>2. PICK x \in X : \A y \in X : x <= y
    <3> HIDE DEF X
    <3> QED BY <2>1, NatLeast
  <2>3. x # HeapBase /\ x \in Blocks(h) /\ x \in HeapAddr
    BY <1>2, <2>2 DEF Blocks
  <2> DEFINE p == h[x].prev
  <2>4. p \in Blocks(h) /\ h[p].next = x /\ p \in HeapAddr
    BY <2>3 DEF Tiled, PrevOK, Blocks
  <2>5. x > p
    BY <2>3, <2>4, TiledFacts, HeapAddrFacts
  <2> HIDE DEF p
  <2>6. p \in S
    BY <2>1, <2>2, <2>3, <2>4, <2>5, HeapAddrFacts
  <2>7. x \in S \cup {NULL}
    BY <1>2, <2>4, <2>6
  <2> QED BY <2>2, <2>3, <2>7, HeapAddrFacts
<1>3. Blocks(h) \subseteq Listed(h)
  BY <1>2 DEF Listed
<1> QED BY <1>1, <1>3

\* The invariant separates the payloads.
LEMMA InvSeparates == HeapInv => PayloadsSeparate
<1> SUFFICES ASSUME HeapInv, Unshared, NEW p \in PtrAddr, owned[p] # 0
             PROVE  /\ p + owned[p] <= HeapEnd
                    /\ \A q \in PtrAddr : owned[q] # 0 /\ p < q => p + owned[p] <= q
                    /\ \A b \in Blocks(hdr) : b + HeaderSize <= p \/ p + owned[p] <= b
  BY DEF PayloadsSeparate
<1>1. Enabled \/ Fresh
  BY HeapInvStages
<1>2. OwnersOK(hdr, owned)
  BY <1>1 DEF Enabled, Fresh, Good
<1>3. \A q \in PtrAddr : owned[q] # 0 => q - HeaderSize \in Blocks(hdr)
  BY <1>2 DEF OwnersOK
<1>4. Good(hdr, kheap_tail, owned)
  BY <1>1, <1>3 DEF Enabled, Fresh
<1>5. /\ hdr \in Memory /\ Tiled(hdr, kheap_tail) /\ owned \in Owners
      /\ \A b, c \in Blocks(hdr) : b < c => BlockEnd(hdr, b) <= c
      /\ \A b \in Blocks(hdr) : b \in HeapAddr
  BY <1>4 DEF Good, Tiled, Disjoint, Blocks
<1> DEFINE a == p - HeaderSize
<1>6. /\ a \in Blocks(hdr) /\ a \in HeapAddr /\ owned[p] <= hdr[a].size
      /\ hdr[a].size \in Nat /\ owned[p] \in Nat
  BY <1>2, <1>3, <1>5, MemoryFacts DEF OwnersOK, Owners
<1>7. /\ BlockEnd(hdr, a) = a + HeaderSize + hdr[a].size
      /\ BlockEnd(hdr, a) <= HeapEnd
  BY <1>5, <1>6, TiledFacts
<1>8. p \in Int /\ a = p - HeaderSize /\ a \in Int
  BY HeapAddrFacts, Geometry
<1> HIDE DEF a
<1>9. p + owned[p] <= BlockEnd(hdr, a) /\ BlockEnd(hdr, a) \in Int
  BY <1>6, <1>7, <1>8, Geometry
<1>10. p + owned[p] <= HeapEnd
  BY <1>6, <1>7, <1>8, <1>9, Geometry
<1>11. ASSUME NEW q \in PtrAddr, owned[q] # 0, p < q PROVE p + owned[p] <= q
  <2>1. q - HeaderSize \in Blocks(hdr) /\ a < q - HeaderSize /\ q \in Int
    BY <1>3, <1>8, <1>11, HeapAddrFacts, Geometry
  <2>2. BlockEnd(hdr, a) <= q - HeaderSize
    BY <2>1, <1>5, <1>6
  <2> QED BY <2>1, <2>2, <1>6, <1>8, <1>9, Geometry
<1>12. ASSUME NEW b \in Blocks(hdr) PROVE b + HeaderSize <= p \/ p + owned[p] <= b
  <2>1. b \in Int
    BY <1>5, HeapAddrFacts
  <2>2. a < b => BlockEnd(hdr, a) <= b
    BY <1>5, <1>6
  <2> QED BY <2>1, <2>2, <1>6, <1>8, <1>9, Geometry
<1> QED BY <1>10, <1>11, <1>12

\* The invariant makes a heap nobody uses one free block.
LEMMA InvNothingLost == HeapInv => NothingLost
<1> SUFFICES ASSUME HeapInv, Unshared, kheap_enabled, \A p \in PtrAddr : owned[p] = 0
             PROVE  /\ hdr[HeapBase].free
                    /\ hdr[HeapBase].size = HeapSize - HeaderSize
  BY DEF NothingLost
<1>1. Good(hdr, kheap_tail, owned)
  BY HeapInvStages DEF Enabled, Fresh
<1>2. /\ hdr \in Memory /\ Tiled(hdr, kheap_tail)
      /\ HeapBase \in Blocks(hdr) /\ HeapBase \in HeapAddr
      /\ \A b \in Blocks(hdr) : NotBothFree(hdr, b)
  BY <1>1, HeapAddrFacts DEF Good, Tiled
<1>3. ASSUME NEW b \in Blocks(hdr) PROVE hdr[b].free
  <2>1. b \in HeapAddr /\ b + HeaderSize <= HeapEnd
    BY <1>2, TiledFacts
  <2>2. b + HeaderSize \in PtrAddr /\ (b + HeaderSize) - HeaderSize = b
    BY <2>1, HeapAddrFacts, Geometry
  <2> QED BY <2>2, <1>1 DEF Good, OwnersOK
<1>4. hdr[HeapBase].next = NULL
  <2> SUFFICES ASSUME hdr[HeapBase].next # NULL PROVE FALSE
    OBVIOUS
  <2>1. hdr[HeapBase].next \in Blocks(hdr)
    BY <1>2, TiledFacts
  <2> QED BY <2>1, <1>2, <1>3 DEF NotBothFree
<1>5. HeapBase + HeaderSize + hdr[HeapBase].size = HeapEnd
  BY <1>2, <1>4, TiledFacts
<1>6. hdr[HeapBase].size \in Nat
  BY <1>2, MemoryFacts
<1> QED BY <1>2, <1>3, <1>5, <1>6, Geometry

-----------------------------------------------------------------------------
(* Blocks in use stay as they are *)

\* kmalloc resizes no block in use.
LEMMA TakeStable ==
    ASSUME NEW h, NEW t, NEW o, Good(h, t, o), NEW b \in Blocks(h), h[b].free,
           NEW size \in Nat, size > 0, size <= h[b].size,
           NEW p \in PtrAddr, o[p] # 0
    PROVE  /\ TakeBlock(h, b, size)[p - HeaderSize].size = h[p - HeaderSize].size
           /\ [o EXCEPT ![b + HeaderSize] = size][p] # 0
<1>1. /\ h \in Memory /\ Tiled(h, t) /\ o \in Owners
      /\ \A a \in Blocks(h) : NotBothFree(h, a)
      /\ p - HeaderSize \in Blocks(h) /\ ~h[p - HeaderSize].free
  BY DEF Good, OwnersOK
<1>2. \A a \in Blocks(h) : ~h[a].free => TakeBlock(h, b, size)[a].size = h[a].size
  BY <1>1, TakeFacts
<1>3. [o EXCEPT ![b + HeaderSize] = size][p] # 0
  BY <1>1 DEF Owners
<1> QED BY <1>1, <1>2, <1>3

\* kfree resizes no other block in use.
LEMMA FreeStable ==
    ASSUME NEW h, NEW t, NEW o, Good(h, t, o), NEW f \in Blocks(h), ~h[f].free,
           NEW p \in PtrAddr, o[p] # 0, p # f + HeaderSize
    PROVE  FreeBlock(h, f)[p - HeaderSize].size = h[p - HeaderSize].size
<1>1. /\ h \in Memory /\ Tiled(h, t)
      /\ \A a \in Blocks(h) : NotBothFree(h, a)
      /\ p - HeaderSize \in Blocks(h) /\ ~h[p - HeaderSize].free
  BY DEF Good, OwnersOK
<1>2. \A a \in Blocks(h) : ~h[a].free /\ a # f =>
         FreeBlock(h, f)[a].size = h[a].size
  BY <1>1, FreeFacts
<1>3. p - HeaderSize # f
  <2>1. p \in Int /\ HeaderSize \in Int /\ f \in Int
    BY HeapAddrFacts, Geometry DEF Blocks
  <2> QED BY <2>1
<1> QED BY <1>1, <1>2, <1>3

\* No step resizes a block whose holder keeps the pointer.
LEMMA NextStable ==
    ASSUME SmallRequests, "kmalloc_align" \notin Workload, HeapInv, Unshared,
           Unshared', [Next]_vars, NEW p \in PtrAddr, owned[p] # 0, owned'[p] # 0
    PROVE  hdr'[p - HeaderSize].size = hdr[p - HeaderSize].size
<1>1. Enabled
  <2>1. Enabled \/ Fresh
    BY HeapInvStages
  <2> QED BY <2>1 DEF Fresh, OwnersOK
<1>2. Good(hdr, kheap_tail, owned) /\ kheap_enabled = TRUE
  BY <1>1 DEF Enabled
<1>3. ASSUME NEW size \in Sizes, HeapAllocate(size, FALSE)
      PROVE  hdr'[p - HeaderSize].size = hdr[p - HeaderSize].size
  <2>1. CASE UNCHANGED heapVars
    BY <2>1 DEF heapVars
  <2>2. ASSUME NEW m \in kmalloc_heap_base(hdr, size, FALSE),
               hdr' = TakeBlock(m.mem, m.block, size)
        PROVE  hdr'[p - HeaderSize].size = hdr[p - HeaderSize].size
    <3>1. /\ m.mem = hdr /\ m.block \in Blocks(hdr) /\ hdr[m.block].free
          /\ size \in Nat /\ size > 0 /\ size <= hdr[m.block].size
      BY <1>2, AllocFacts DEF Good
    <3> QED BY <1>2, <2>2, <3>1, TakeStable
  <2> QED BY <1>3, <2>1, <2>2 DEF HeapAllocate
<1>4. CASE Malloc
  BY <1>2, <1>3, <1>4 DEF Malloc, kmalloc_base
<1>5. CASE Free
  <2>1. PICK ptr \in Pointers, caller \in Callers : kfree(ptr, caller)
    BY <1>5 DEF Free
  <2>2. CASE hdr' = hdr
    BY <2>2
  <2>3. CASE /\ GoodPointer(ptr) /\ ~hdr[ptr - HeaderSize].free
             /\ hdr' = FreeBlock(hdr, ptr - HeaderSize)
             /\ owned' = GivesUp(caller, ptr, owned)
             /\ Served(caller, ptr)
    <3>0. owned' = [owned EXCEPT ![ptr] = 0]
      BY <2>3, ServedFacts DEF GivesUp, Unshared
    <3>1. /\ ptr \in PtrAddr /\ ptr - HeaderSize \in Blocks(hdr)
          /\ (ptr - HeaderSize) + HeaderSize = ptr
      BY <2>3, GoodPointerFacts
    <3>2. p # ptr
      BY <1>2, <3>0, <3>1 DEF Good, Owners
    <3> QED BY <1>2, <2>3, <3>1, <3>2, FreeStable
  <2> QED BY <2>1, <2>2, <2>3 DEF kfree, BadPointer, heapVars, vars
<1>6. CASE Realloc
  <2>1. PICK ptr \in Pointers, size \in Sizes, caller \in Callers :
            krealloc(ptr, size, caller)
    BY <1>6 DEF Realloc
  <2>2. CASE kmalloc_base(size, FALSE)
    BY <1>2, <1>3, <2>2 DEF kmalloc_base
  <2>3. CASE hdr' = hdr
    BY <2>3
  <2>4. CASE GoodPointer(ptr) /\ Grow(ptr, size, caller)
    <3> DEFINE f == ptr - HeaderSize
    <3>1. ptr \in PtrAddr /\ f \in Blocks(hdr) /\ f + HeaderSize = ptr
      BY <2>4, GoodPointerFacts
    <3>2. CASE UNCHANGED vars
      BY <3>2 DEF vars, heapVars
    <3>3. ASSUME NEW m \in kmalloc_heap_base(hdr, size, FALSE)
          PROVE  LET h == TakeBlock(hdr, m.block, size)
                     t == TailAfterTake(hdr, kheap_tail, m.block, size)
                     o == [owned EXCEPT ![m.block + HeaderSize] = size]
                 IN  /\ Good(h, t, o) /\ f \in Blocks(h) /\ o[p] # 0
                     /\ h[p - HeaderSize].size = hdr[p - HeaderSize].size
      <4>1. /\ m.mem = hdr /\ m.block \in Blocks(hdr) /\ hdr[m.block].free
            /\ size \in Nat /\ size > 0 /\ size <= hdr[m.block].size
        BY <1>2, AllocFacts DEF Good
      <4> HIDE DEF f
      <4>2. Good(TakeBlock(hdr, m.block, size),
                 TailAfterTake(hdr, kheap_tail, m.block, size),
                 [owned EXCEPT ![m.block + HeaderSize] = size])
            /\ f \in Blocks(TakeBlock(hdr, m.block, size))
        BY <4>1, <3>1, <1>2, TakeGood
      <4>3. /\ TakeBlock(hdr, m.block, size)[p - HeaderSize].size
                 = hdr[p - HeaderSize].size
            /\ [owned EXCEPT ![m.block + HeaderSize] = size][p] # 0
        BY <4>1, <1>2, TakeStable
      <4> QED BY <4>2, <4>3
    <3>4. ASSUME NEW m \in kmalloc_heap_base(hdr, size, FALSE),
                 hdr' = TakeBlock(hdr, m.block, size)
          PROVE  hdr'[p - HeaderSize].size = hdr[p - HeaderSize].size
      BY <3>3, <3>4
    <3>5. ASSUME NEW m \in kmalloc_heap_base(hdr, size, FALSE),
                 ~TakeBlock(hdr, m.block, size)[f].free,
                 hdr' = FreeBlock(TakeBlock(hdr, m.block, size), f),
                 owned' = GivesUp(caller, ptr,
                                  [owned EXCEPT ![m.block + HeaderSize] = size]),
                 Served(caller, ptr)
          PROVE  hdr'[p - HeaderSize].size = hdr[p - HeaderSize].size
      <4> DEFINE h == TakeBlock(hdr, m.block, size)
                 t == TailAfterTake(hdr, kheap_tail, m.block, size)
                 o == [owned EXCEPT ![m.block + HeaderSize] = size]
      <4>1. /\ Good(h, t, o) /\ f \in Blocks(h) /\ ~h[f].free /\ o[p] # 0
            /\ h[p - HeaderSize].size = hdr[p - HeaderSize].size
        BY <3>3, <3>5
      <4>2. owned' = [o EXCEPT ![ptr] = 0] /\ hdr' = FreeBlock(h, f)
        BY <3>5, ServedFacts DEF GivesUp, Unshared
      <4> HIDE DEF h, t, o, f
      <4>3. p # f + HeaderSize
        BY <3>1, <4>1, <4>2 DEF Good, Owners
      <4>4. FreeBlock(h, f)[p - HeaderSize].size = h[p - HeaderSize].size
        BY <4>1, <4>3, FreeStable
      <4> QED BY <4>1, <4>2, <4>4
    <3> QED BY <2>4, <3>2, <3>4, <3>5 DEF Grow
  <2> QED BY <2>1, <2>2, <2>3, <2>4
        DEF krealloc, BadPointer, KeepInPlace, heapVars, vars
<1>7. CASE EnableHeap \/ MallocAligned \/ UNCHANGED vars
  BY <1>2, <1>7 DEF EnableHeap, MallocAligned, kheap_init, vars, heapVars
<1> QED BY <1>4, <1>5, <1>6, <1>7 DEF Next, Halted

-----------------------------------------------------------------------------
(* The placement array *)

\* A placement request keeps the allocations apart.
LEMMA PlacementInvStep ==
    ASSUME SmallRequests, PlacementInv, NEW size \in Sizes, NEW align \in BOOLEAN,
           kmalloc_placement_base(size, align)
    PROVE  PlacementInv'
<1> DEFINE pad == PlacementPadding(align)
           real == Add32(size, pad)
           at == placement_head + pad
<1>1. /\ placement_head \in Nat /\ placement_free \in Nat
      /\ placed \subseteq Nat \X Sizes
      /\ placement_head + placement_free = PlacementEnd
      /\ PlacementBase <= placement_head
      /\ \A x \in placed : x[1] + x[2] <= placement_head
      /\ PlacementSeparate
  BY DEF PlacementInv, PlacementTypeOK
<1>2. pad \in Nat /\ pad < PageSize
  <2>1. (placement_head + PageSize - 1) % PageSize \in 0 .. PageSize - 1
    BY <1>1, Geometry
  <2> QED BY <1>1, <2>1, Geometry DEF PlacementPadding, paging_align_address_up
<1>3. size \in Nat /\ real = size + pad
  <2>1. /\ size \in Nat
        /\ HeapEnd + HeaderSize * HeaderSize + HeaderSize + PageSize + size < Word
    BY RequestAssumption, Geometry DEF SmallRequests
  <2> DEFINE HH == HeaderSize * HeaderSize
  <2>2. HH \in Nat /\ HeapEnd + HH + HeaderSize + PageSize + size < Word
    BY <2>1, Geometry
  <2> HIDE DEF HH
  <2>3. size + pad < Word
    BY <1>2, <2>1, <2>2, Geometry
  <2> QED BY <2>1, <2>3 DEF Add32
<1>4. CASE UNCHANGED placementVars
  BY <1>4 DEF placementVars, PlacementInv, PlacementTypeOK, PlacementSeparate
<1>5. CASE /\ real <= placement_free
           /\ placement_head' = placement_head + real
           /\ placement_free' = placement_free - real
           /\ placed' = placed \cup {<<at, size>>}
  <2> HIDE DEF pad, real
  <2>1. /\ placement_head' = placement_head + size + pad
        /\ placement_free' = placement_free - (size + pad)
        /\ placement_head' \in Nat /\ placement_free' \in Nat
        /\ at \in Nat /\ at >= placement_head /\ at + size = placement_head'
        /\ placement_head' + placement_free' = PlacementEnd
        /\ placement_head <= placement_head' /\ PlacementBase <= placement_head'
    BY <1>1, <1>2, <1>3, <1>5, Geometry
  <2>2. placed' \subseteq Nat \X Sizes
    BY <1>1, <1>5, <2>1
  <2>0. Sizes \subseteq Nat
    BY RequestAssumption, Geometry
  <2>3. \A x \in placed : x[1] \in Nat /\ x[2] \in Nat
    <3>1. placed \subseteq Nat \X Sizes
      BY <1>1
    <3>2. \A x \in placed : x[1] \in Nat /\ x[2] \in Sizes
      BY <3>1
    <3> QED BY <2>0, <3>2
  <2> HIDE DEF at
  <2>4. \A x \in placed' : x \in placed \/ (x[1] = at /\ x[2] = size /\ x = <<at, size>>)
    BY <1>5
  <2>5. \A x \in placed' : x[1] + x[2] <= placement_head'
    BY <1>1, <1>3, <2>1, <2>3, <2>4
  <2>6. \A x \in placed' : PlacementBase <= x[1] /\ x[1] + x[2] <= PlacementEnd
    BY <1>1, <1>3, <2>1, <2>3, <2>4, Geometry DEF PlacementSeparate
  <2>7. ASSUME NEW x \in placed', NEW y \in placed'
        PROVE  \/ x = y \/ x[2] = 0 \/ y[2] = 0
               \/ x[1] + x[2] <= y[1] \/ y[1] + y[2] <= x[1]
    <3>1. CASE x \in placed /\ y \in placed
      BY <3>1, <1>1 DEF PlacementSeparate
    <3>2. CASE x \in placed /\ y \notin placed
      BY <3>2, <1>1, <2>1, <2>3, <2>4
    <3>3. CASE x \notin placed /\ y \in placed
      BY <3>3, <1>1, <2>1, <2>3, <2>4
    <3>4. CASE x \notin placed /\ y \notin placed
      BY <3>4, <2>4
    <3> QED BY <3>1, <3>2, <3>3, <3>4
  <2>8. PlacementSeparate'
    BY <2>6, <2>7 DEF PlacementSeparate
  <2> QED BY <2>1, <2>2, <2>5, <2>8 DEF PlacementInv, PlacementTypeOK
<1> QED BY <1>4, <1>5 DEF kmalloc_placement_base

\* Only a placement request touches the placement array.
LEMMA PlacementNext ==
    ASSUME SmallRequests, PlacementInv, [Next]_vars
    PROVE  PlacementInv'
<1>1. CASE UNCHANGED placementVars
  BY <1>1 DEF placementVars, PlacementInv, PlacementTypeOK, PlacementSeparate
<1>2. ASSUME NEW size \in Sizes, NEW align \in BOOLEAN, kmalloc_base(size, align)
      PROVE  PlacementInv'
  BY <1>1, <1>2, PlacementInvStep DEF kmalloc_base, HeapAllocate
<1>3. CASE Malloc \/ MallocAligned
  BY <1>2, <1>3 DEF Malloc, MallocAligned
<1>4. CASE Realloc
  <2>1. PICK ptr \in Pointers, size \in Sizes, caller \in Callers :
            krealloc(ptr, size, caller)
    BY <1>4 DEF Realloc
  <2>2. kmalloc_base(size, FALSE) \/ UNCHANGED placementVars
    <3>1. UNCHANGED vars => UNCHANGED placementVars
      BY DEF vars
    <3>2. Grow(ptr, size, caller) => UNCHANGED placementVars
      BY <3>1 DEF Grow, Panic, Served
    <3>3. BadPointer(ptr) \/ KeepInPlace(ptr, size, caller) => UNCHANGED placementVars
      BY DEF BadPointer, Panic, KeepInPlace, Served
    <3> QED BY <2>1, <3>1, <3>2, <3>3 DEF krealloc
  <2> QED BY <1>1, <1>2, <2>2
<1>5. CASE Free
  <2>1. PICK ptr \in Pointers, caller \in Callers : kfree(ptr, caller)
    BY <1>5 DEF Free
  <2>2. BadPointer(ptr) => UNCHANGED placementVars
    BY DEF BadPointer, Panic
  <2>3. UNCHANGED placementVars
    BY <2>1, <2>2 DEF kfree, Panic, Served, vars
  <2> QED BY <1>1, <2>3
<1>6. CASE EnableHeap
  BY <1>1, <1>6 DEF EnableHeap, kheap_init, Panic, placementVars
<1>7. CASE UNCHANGED vars
  BY <1>1, <1>7 DEF vars
<1> QED BY <1>3, <1>4, <1>5, <1>6, <1>7 DEF Next, Halted

-----------------------------------------------------------------------------
(* Theorems.  Each holds for every geometry; they assume that no request   *)
(* size wraps the address space and, except for the placement array, that  *)
(* no aligned request reaches the heap.                                    *)

(***************************************************************************)
(* The inductive invariant: types, tiling, coalescing and ownership of     *)
(* the heap hold after any sequence of kmalloc, krealloc and kfree.        *)
(***************************************************************************)
THEOREM HeapInvariant ==
    ASSUME SmallRequests, "kmalloc_align" \notin Workload
    PROVE  Spec => []HeapInv
BY InitInv, NextInv, PTL DEF Spec

\* The block list always is the tiling of the heap.
THEOREM HeapAlwaysTiled ==
    ASSUME SmallRequests, "kmalloc_align" \notin Workload
    PROVE  Spec => []HeapTiled
<1>1. HeapInv => HeapTiled
  BY DEF HeapInv
<1> QED BY <1>1, HeapInvariant, PTL

\* Until a stale pointer is served, a block is in use exactly when its pointer
\* is held: the checks of kfree catch every pointer whose block is free or was
\* joined since, and no other caller's memory is given out by kmalloc.
THEOREM UseIsOwnership ==
    ASSUME SmallRequests, "kmalloc_align" \notin Workload
    PROVE  Spec => []InUseIffOwned
<1>1. HeapInv => InUseIffOwned
  BY DEF HeapInv
<1> QED BY <1>1, HeapInvariant, PTL

\* No two allocations overlap, and none overlaps a header.
THEOREM AllocationsSeparate ==
    ASSUME SmallRequests, "kmalloc_align" \notin Workload
    PROVE  Spec => []PayloadsSeparate
BY InvSeparates, HeapInvariant, PTL

\* A heap whose pointers were all freed is one free block.
THEOREM FreedHeapIsWhole ==
    ASSUME SmallRequests, "kmalloc_align" \notin Workload
    PROVE  Spec => []NothingLost
BY InvNothingLost, HeapInvariant, PTL

\* The search of kmalloc and the memory command meet every block.
THEOREM WalkMeetsAllBlocks ==
    ASSUME SmallRequests, "kmalloc_align" \notin Workload
    PROVE  Spec => []AllBlocksListed
<1>1. HeapInv => AllBlocksListed
  BY TiledListed DEF HeapInv, TypeOK, HeapTiled, AllBlocksListed, Memory
<1> QED BY <1>1, HeapInvariant, PTL

\* No step moves or resizes a block whose holder keeps the pointer.
THEOREM HeldBlocksKept ==
    ASSUME SmallRequests, "kmalloc_align" \notin Workload
    PROVE  Spec => HeldBlocksStable
<1>1. HeapInv /\ [Next]_vars =>
        [Unshared' => \A p \in PtrAddr : owned[p] # 0 /\ owned'[p] # 0 =>
            hdr'[p - HeaderSize].size = hdr[p - HeaderSize].size]_vars
  <2>1. ASSUME HeapInv, Next, ~Unshared, UNCHANGED vars
               PROVE  \A p \in PtrAddr :
                        hdr'[p - HeaderSize].size = hdr[p - HeaderSize].size
    BY <2>1 DEF vars, heapVars
  <2>2. Next /\ ~Unshared => UNCHANGED vars
    BY DEF Next, EnableHeap, Malloc, MallocAligned, Realloc, Free, Halted,
           Running, Unshared
  <2> QED BY <2>1, <2>2, NextStable
<1> QED BY <1>1, HeapInvariant, PTL DEF Spec, HeldBlocksStable

\* Placement allocations never overlap, aligned or not.
THEOREM PlacementsSeparate ==
    ASSUME SmallRequests
    PROVE  Spec => []PlacementSeparate
<1>1. Init => PlacementInv
  BY Geometry DEF Init, PlacementInv, PlacementTypeOK, PlacementSeparate
<1>2. PlacementInv /\ [Next]_vars => PlacementInv'
  BY PlacementNext
<1>3. PlacementInv => PlacementSeparate
  BY DEF PlacementInv
<1> QED BY <1>1, <1>2, <1>3, PTL DEF Spec
=============================================================================
