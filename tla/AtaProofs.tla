------------------------------- MODULE AtaProofs -------------------------------
(***************************************************************************)
(* Proofs about Ata, for every number and size of drives and sectors and   *)
(* every request: the copies stay inside their buffers whatever the drive  *)
(* does, but for the requests that go astray, and a call that is served    *)
(* and of which no command was lost reads and writes exactly its range.    *)
(***************************************************************************)
EXTENDS Ata, TLAPS

-----------------------------------------------------------------------------
(* Sectors and bytes *)

\* The constants.
LEMMA Sizes ==
    /\ SectorSize \in Nat \ {0} /\ NumDrives \in Nat \ {0}
    /\ Word \in Nat /\ SectorSize < Word /\ MaxCalls \in Nat
    /\ \A d \in Drive : Sectors[d] \in Nat \ {0} /\ Capacity(d) \in Nat
BY AtaAssumption DEF Capacity

\* The quotient and what it leaves.
LEMMA Quotient ==
    ASSUME NEW x \in Nat
    PROVE  /\ x \div SectorSize \in Nat /\ x % SectorSize \in 0 .. SectorSize - 1
           /\ x = (SectorSize * (x \div SectorSize)) + (x % SectorSize)
BY Sizes

\* A quotient is compared by comparing products.
LEMMA Products ==
    ASSUME NEW a \in Nat, NEW b \in Nat
    PROVE  /\ SectorSize * a \in Nat
           /\ a <= b => SectorSize * a <= SectorSize * b
           /\ a < b => (SectorSize * a) + SectorSize <= SectorSize * b
           /\ SectorSize * a < SectorSize * b => a < b
           /\ SectorSize * (a + 1) = (SectorSize * a) + SectorSize
           /\ a * SectorSize = SectorSize * a
<1> USE Sizes
<1>1. SectorSize * a \in Nat /\ SectorSize * b \in Nat
  OBVIOUS
<1>2. ASSUME NEW c \in Nat, NEW d \in Nat, c <= d
      PROVE  SectorSize * c <= SectorSize * d
  <2> DEFINE e == d - c
  <2>1. e \in Nat /\ d = c + e
    BY <1>2
  <2> HIDE DEF e
  <2>2. SectorSize * d = (SectorSize * c) + (SectorSize * e) /\ SectorSize * e \in Nat
    BY <2>1
  <2> QED
    BY <2>2
<1>3. a <= b => SectorSize * a <= SectorSize * b
  BY <1>2
<1>4. SectorSize * a < SectorSize * b => a < b
  <2>1. b <= a => SectorSize * b <= SectorSize * a
    BY <1>2
  <2> QED
    BY <1>1, <2>1
<1>5. SectorSize * (a + 1) = (SectorSize * a) + SectorSize /\ a * SectorSize = SectorSize * a
  OBVIOUS
<1>6. a < b => (SectorSize * a) + SectorSize <= SectorSize * b
  <2>1. ASSUME a < b PROVE SectorSize * (a + 1) <= SectorSize * b
    BY <1>2, <2>1
  <2> QED
    BY <2>1, <1>5
<1> QED
  BY <1>1, <1>3, <1>4, <1>5, <1>6

\* The bytes of a sector.
LEMMA InSector ==
    ASSUME NEW b \in Nat, NEW k \in Nat
    PROVE  /\ b \div SectorSize = k <=> SectorSize * k <= b /\ b < (SectorSize * k) + SectorSize
           /\ b \div SectorSize = k => b % SectorSize = b - (SectorSize * k)
<1> DEFINE q == b \div SectorSize
           r == b % SectorSize
<1>1. q \in Nat /\ r \in 0 .. SectorSize - 1 /\ b = (SectorSize * q) + r
  BY Quotient
<1> HIDE DEF q, r
<1>2. SectorSize * q \in Nat /\ SectorSize * k \in Nat /\ SectorSize \in Nat
  BY <1>1, Products, Sizes
<1>3. q = k => SectorSize * k <= b /\ b < (SectorSize * k) + SectorSize /\ r = b - (SectorSize * k)
  BY <1>1, <1>2
<1>4. ASSUME SectorSize * k <= b, b < (SectorSize * k) + SectorSize PROVE q = k
  <2>1. ~(q < k)
    <3>1. q < k => (SectorSize * q) + SectorSize <= SectorSize * k
      BY <1>1, Products
    <3> QED
      BY <3>1, <1>1, <1>2, <1>4
  <2>2. ~(k < q)
    <3>1. k < q => (SectorSize * k) + SectorSize <= SectorSize * q
      BY <1>1, Products
    <3> QED
      BY <3>1, <1>1, <1>2, <1>4
  <2> QED
    BY <2>1, <2>2, <1>1
<1>5. /\ q = k <=> SectorSize * k <= b /\ b < (SectorSize * k) + SectorSize
      /\ q = k => r = b - (SectorSize * k)
  BY <1>3, <1>4
<1> QED
  BY <1>5 DEF q, r

\* Remainders of numbers that wrap around at most once.
LEMMA Remainders ==
    ASSUME NEW w \in Nat \ {0}
    PROVE  /\ \A x \in 0 .. w - 1 : x % w = x
           /\ \A x \in w .. (w + w) - 1 : x % w = x - w
<1>1. \A x \in 0 .. w - 1 : x % w = x
  OBVIOUS
<1>2. ASSUME NEW x \in w .. (w + w) - 1 PROVE x % w = x - w
  <2> DEFINE q == x \div w
  <2>1. q \in Nat /\ x = (w * q) + (x % w) /\ x % w \in 0 .. w - 1 /\ x \in Nat
    OBVIOUS
  <2> HIDE DEF q
  <2>2. CASE q = 0
    <3>1. w * q = 0
      BY <2>2
    <3> QED
      BY <2>1, <3>1
  <2>3. CASE q = 1
    <3>1. w * q = w
      BY <2>3
    <3> QED
      BY <2>1, <3>1
  <2>4. CASE q > 1
    <3> DEFINE e == q - 2
    <3>1. e \in Nat /\ q = e + 2
      BY <2>1, <2>4
    <3> HIDE DEF e
    <3>2. w * q = (w * e) + (w + w) /\ w * e \in Nat
      BY <3>1
    <3> QED
      BY <2>1, <3>2
  <2> QED
    BY <2>1, <2>2, <2>3, <2>4
<1> QED
  BY <1>1, <1>2

\* Where the bytes from a to last begin in sector k, and how many there are.
OffsetIn(a, k) == IF k = a \div SectorSize THEN a % SectorSize ELSE 0
ChunkIn(a, last, k) ==
    IF k = last \div SectorSize
    THEN (last % SectorSize) - OffsetIn(a, k) + 1 ELSE SectorSize - OffsetIn(a, k)

\* They are in the sector and in the range, and the next sector goes on with
\* what is left of it.
RoundFacts(a, s, last, k) ==
    LET off == OffsetIn(a, k)
        chunk == ChunkIn(a, last, k)
    IN  /\ off \in 0 .. SectorSize - 1 /\ chunk \in Nat /\ off + chunk <= SectorSize
        /\ a <= (SectorSize * k) + off
        /\ (SectorSize * k) + off + chunk <= a + s
        /\ k = last \div SectorSize => (SectorSize * k) + off + chunk = a + s
        /\ k < last \div SectorSize
               => (SectorSize * k) + off + chunk = (SectorSize * k) + SectorSize

LEMMA RoundArithmetic ==
    ASSUME NEW a \in Nat, NEW s \in Nat, NEW last \in Nat, last = (a + s) - 1,
           NEW k \in Nat, a \div SectorSize <= k, k <= last \div SectorSize
    PROVE  RoundFacts(a, s, last, k)
<1> DEFINE off == OffsetIn(a, k)
           chunk == ChunkIn(a, last, k)
           qa == a \div SectorSize
           ra == a % SectorSize
           ql == last \div SectorSize
           rl == last % SectorSize
<1>1. qa \in Nat /\ ra \in 0 .. SectorSize - 1 /\ a = (SectorSize * qa) + ra
  BY Quotient
<1>2. ql \in Nat /\ rl \in 0 .. SectorSize - 1 /\ last = (SectorSize * ql) + rl
  BY Quotient
<1>3. /\ off = IF k = qa THEN ra ELSE 0
      /\ chunk = IF k = ql THEN rl - off + 1 ELSE SectorSize - off
      /\ qa <= k /\ k <= ql
  BY DEF OffsetIn, ChunkIn
<1> HIDE DEF qa, ra, ql, rl, off, chunk
<1>4. /\ SectorSize \in Nat \ {0}
      /\ SectorSize * qa \in Nat /\ SectorSize * k \in Nat /\ SectorSize * ql \in Nat
      /\ qa < k => (SectorSize * qa) + SectorSize <= SectorSize * k
      /\ k < ql => (SectorSize * k) + SectorSize <= SectorSize * ql
  BY <1>1, <1>2, Products, Sizes
<1>5. off \in 0 .. SectorSize - 1 /\ a <= (SectorSize * k) + off
  BY <1>1, <1>3, <1>4
<1>6. /\ chunk \in Nat /\ off + chunk <= SectorSize
      /\ (SectorSize * k) + off + chunk <= a + s
      /\ k = ql => (SectorSize * k) + off + chunk = a + s
      /\ k < ql => (SectorSize * k) + off + chunk = (SectorSize * k) + SectorSize
  <2>1. CASE k = ql /\ k = qa
    <3>1. off = ra /\ chunk = rl - ra + 1 /\ SectorSize * ql = SectorSize * qa
          /\ SectorSize * k = SectorSize * qa
      BY <1>3, <2>1
    <3>2. (SectorSize * k) + off + chunk = a + s /\ chunk = s
      <4> DEFINE x == SectorSize * qa
      <4>1. x \in Nat /\ a = x + ra /\ last = x + rl /\ SectorSize * k = x
        BY <1>1, <1>2, <1>4, <3>1
      <4>2. ra \in Nat /\ rl \in Nat
        BY <1>1, <1>2, <1>4
      <4> HIDE DEF x
      <4> QED
        BY <3>1, <4>1, <4>2
    <3> QED
      BY <1>1, <1>2, <1>4, <2>1, <3>1, <3>2
  <2>2. CASE k = ql /\ k # qa
    <3>1. off = 0 /\ chunk = rl + 1 /\ SectorSize * k = SectorSize * ql
      BY <1>2, <1>3, <2>2
    <3> QED
      BY <1>1, <1>2, <1>4, <2>2, <3>1
  <2>3. CASE k # ql
    <3>1. k < ql /\ chunk = SectorSize - off
      BY <1>2, <1>3, <2>3
    <3> QED
      BY <1>1, <1>2, <1>4, <1>5, <3>1
  <2> QED
    BY <2>1, <2>2, <2>3
<1> QED
  BY <1>5, <1>6 DEF qa, ql, off, chunk, RoundFacts

-----------------------------------------------------------------------------
(* The invariant *)

\* A sector, and what a drive holds.
SectorData == [0 .. SectorSize - 1 -> Bytes]
Content(d) == [0 .. Capacity(d) - 1 -> Bytes]

InLoop == {"sector", "reading", "altered", "writing"}
InCall == InLoop \cup {"check", "return"}

\* The first byte that the current round of the loop transfers.
First == (idx * SectorSize) + Offset

Commands ==
    {Idle} \cup [op : {"read", "write"}, lba : Nat]
           \cup [op : {"commit"}, lba : Nat, data : SectorData]

Types ==
    /\ TypeOK
    /\ cmd \in [Drive -> Commands]
    /\ devices \in [Drive -> [present : BOOLEAN, lba_supported : BOOLEAN, size : 0 .. Word - 1]]
    /\ req \in [drive : Drive, op : {"read", "write"}, address : 0 .. Word - 1, size : 0 .. Word - 1]
    /\ calls \in 0 .. MaxCalls /\ done \in Nat
    /\ DOMAIN before = Drive /\ \A d \in Drive : before[d] \in Content(d)

\* The size of a drive that is used is known, and a drive that stores is busy.
DriveInv ==
    \A d \in Drive :
        /\ devices[d].lba_supported => devices[d].present /\ devices[d].size = Capacity(d) % Word
        /\ cmd[d].op = "commit" => busy[d]

\* What the loop has transferred is what lies before its next byte.  A request
\* that goes astray does so in its first round.
LoopInv ==
    /\ done <= req.size
    /\ pc = "check" => done = 0 /\ out = <<>>
    /\ pc \in InLoop =>
          /\ Accepts /\ StartSector <= idx
          /\ ~Astray =>
                done = IF idx <= EndSector THEN First - req.address
                                           ELSE IF Served THEN req.size ELSE 0
          /\ Astray => pc \in {"sector", "reading"} /\ idx = StartSector /\ idx <= EndSector /\ done = 0
    /\ pc \in InLoop \ {"sector"} => idx <= EndSector
    /\ pc \in {"altered", "writing"} => req.op = "write"
    /\ pc = "return" => done = IF Served THEN req.size ELSE 0
    /\ pc = "wild" => Astray

\* The bytes transferred so far.
Transferred(d, b) ==
    /\ req.op = "write" /\ d = req.drive
    /\ req.address <= b /\ b < req.address + done

\* As long as no command was lost: the drives hold what was written so far,
\* the reader has what was read so far, and between its two commands the
\* driver has the sector as it will be.
ContentInv ==
    pc \in InCall /\ ~lost =>
        \A d \in Drive : \A b \in 0 .. Capacity(d) - 1 :
            Settled(d)[b] =
                IF Transferred(d, b) THEN <<calls, b - req.address>> ELSE before[d][b]

OutInv ==
    pc \in InCall /\ ~lost /\ req.op = "read" =>
        /\ Len(out) = done
        /\ \A j \in 1 .. done : out[j] = Original(req.address + j - 1)

\* Byte b of a drive once its work is done; there is none behind its end.
SettledAt(d, b) == IF b < Capacity(d) THEN Settled(d)[b] ELSE Garbage

CommandInv ==
    ~lost =>
        /\ pc = "reading" => cmd[req.drive] = [op |-> "read", lba |-> idx]
        /\ pc = "writing" => cmd[req.drive] = [op |-> "write", lba |-> idx]
        /\ pc \in {"altered", "writing"} =>
              \A j \in 0 .. SectorSize - 1 :
                  sector_buf[j] = IF j \in Offset .. Offset + Chunk - 1
                                  THEN <<calls, done + (j - Offset)>>
                                  ELSE SettledAt(req.drive, (idx * SectorSize) + j)

AtaInv == Types /\ DriveInv /\ LoopInv /\ ContentInv /\ OutInv /\ CommandInv

\* The bytes the model tells apart.
LEMMA ByteTypes ==
    /\ Garbage \in Bytes
    /\ \A k \in 1 - NumDrives .. MaxCalls, x \in Nat : <<k, x>> \in Bytes
BY DEF Bytes

LEMMA CommandShape ==
    ASSUME NEW c \in Commands
    PROVE  /\ c.op = "commit" => c.lba \in Nat /\ c.data \in SectorData
           /\ c.op \in {"read", "write"} => c.lba \in Nat
BY DEF Commands, Idle

\* The commands the driver gives, and what a write turns into.
LEMMA NewCommands ==
    /\ Idle \in Commands /\ Idle.op = "none"
    /\ \A op \in {"read", "write"}, lba \in Nat :
          /\ [op |-> op, lba |-> lba] \in Commands
          /\ [op |-> op, lba |-> lba].op = op
    /\ \A lba \in Nat, data \in SectorData :
          [op |-> "commit", lba |-> lba, data |-> data] \in Commands
BY DEF Commands, Idle

\* The sectors of the address space.
LEMMA SectorCount ==
    ASSUME NEW x \in 0 .. Word - 1
    PROVE  x \div SectorSize \in Nat /\ (x \div SectorSize) + 1 <= Word \div SectorSize
<1> DEFINE q == x \div SectorSize
           n == Word \div SectorSize
<1>1. x \in Nat /\ x < Word /\ Word \in Nat
  BY Sizes
<1>2. q \in Nat /\ x % SectorSize \in 0 .. SectorSize - 1 /\ x = (SectorSize * q) + (x % SectorSize)
  BY <1>1, Quotient
<1>3. n \in Nat /\ Word = (SectorSize * n) + (Word % SectorSize) /\ Word % SectorSize = 0
  BY <1>1, Quotient, AtaAssumption
<1> HIDE DEF q, n
<1>4. SectorSize * q \in Nat /\ SectorSize * n \in Nat
  BY <1>2, <1>3, Products
<1>5. SectorSize * q < SectorSize * n
  BY <1>1, <1>2, <1>3, <1>4, Sizes
<1>6. q < n
  BY <1>2, <1>3, <1>5, Products
<1>7. q \in Nat /\ q + 1 <= n
  BY <1>2, <1>3, <1>6
<1> QED
  BY <1>7 DEF q, n

\* What a request that is accepted and does not go astray looks like: it is
\* served, or wraps around, ends before it begins, and the loop does nothing.
LEMMA RequestRange ==
    ASSUME Types, DriveInv
    PROVE  /\ Served => Accepts
           /\ LastByte \in 0 .. Word - 1 /\ StartSector \in Nat /\ EndSector \in Nat
           /\ StartSector + 1 <= Word \div SectorSize /\ EndSector + 1 <= Word \div SectorSize
           /\ Accepts /\ ~Astray /\ Served => LastByte = (req.address + req.size) - 1
           /\ Accepts /\ ~Astray /\ ~Served => EndSector < StartSector
           /\ Astray => StartSector <= EndSector
<1> DEFINE a == req.address
           s == req.size
           d == devices[req.drive]
           c == Capacity(req.drive) % Word
<1>1. a \in 0 .. Word - 1 /\ s \in 0 .. Word - 1 /\ req.drive \in Drive
  BY DEF Types
<1>2. d \in [present : BOOLEAN, lba_supported : BOOLEAN, size : 0 .. Word - 1]
      /\ (d.lba_supported => d.present /\ d.size = c)
  BY <1>1 DEF Types, DriveInv
<1>3. c \in 0 .. Word - 1
  BY <1>1, Sizes
<1>4. a \in Nat /\ s \in Nat /\ a < Word /\ s < Word /\ Word \in Nat \ {0}
  BY <1>1, Sizes
<1>5. Served <=> d.lba_supported /\ (a + s <= c \/ a + s = Word)
  BY DEF Served
<1>6. Accepts <=> ~(d.size < (a + s) % Word) /\ d.present /\ d.lba_supported
  BY DEF Accepts
<1>7. LastByte = (a + s - 1) % Word /\ StartSector = a \div SectorSize
      /\ EndSector = LastByte \div SectorSize
  BY DEF LastByte, StartSector, EndSector
<1>8. Astray <=> a + s = 0 \/ (a + s > Word /\ StartSector = EndSector)
  BY DEF Astray
<1> HIDE DEF a, s, d, c
<1>9. LastByte \in 0 .. Word - 1
  BY <1>4, <1>7
<1>10. /\ StartSector \in Nat /\ EndSector \in Nat
       /\ StartSector + 1 <= Word \div SectorSize /\ EndSector + 1 <= Word \div SectorSize
  BY <1>1, <1>7, <1>9, SectorCount
<1>11. CASE a + s = 0
  <2>1. a = 0 /\ s = 0 /\ (a + s) % Word = 0
    BY <1>4, <1>11
  <2>2. StartSector = 0
    BY <1>7, <2>1, Sizes
  <2>3. Served => Accepts
    BY <1>2, <1>3, <1>4, <1>5, <1>6, <2>1
  <2> QED
    BY <1>8, <1>9, <1>10, <1>11, <2>2, <2>3
<1>12. CASE a + s \in 1 .. Word - 1
  <2>1. (a + s) % Word = a + s /\ (a + s - 1) % Word = a + s - 1
    BY <1>4, <1>12, Remainders
  <2>2. Served <=> Accepts
    BY <1>2, <1>3, <1>4, <1>5, <1>6, <1>12, <2>1
  <2>3. LastByte = (a + s) - 1 /\ ~Astray
    BY <1>4, <1>7, <1>8, <1>12, <2>1
  <2> QED
    BY <1>9, <1>10, <2>2, <2>3 DEF a, s
<1>13. CASE a + s = Word
  <2>1. (a + s) % Word = 0 /\ (a + s - 1) % Word = a + s - 1
    <3>1. Word \in Word .. (Word + Word) - 1 /\ Word - 1 \in 0 .. Word - 1
      BY <1>4
    <3>2. Word % Word = Word - Word /\ (Word - 1) % Word = Word - 1
      BY <1>4, <3>1, Remainders
    <3> QED
      BY <1>4, <1>13, <3>2
  <2>2. Served <=> Accepts
    BY <1>2, <1>3, <1>4, <1>5, <1>6, <1>13, <2>1
  <2>3. LastByte = (a + s) - 1 /\ ~Astray
    BY <1>4, <1>7, <1>8, <1>13, <2>1
  <2> QED
    BY <1>9, <1>10, <2>2, <2>3 DEF a, s
<1>14. CASE Word < a + s
  <2>1. ~Served
    BY <1>3, <1>4, <1>5, <1>14
  <2>2. a + s - 1 \in Word .. (Word + Word) - 1
    BY <1>4, <1>14
  <2>3. LastByte = (a + s - 1) - Word
    BY <1>4, <1>7, <2>2, Remainders
  <2>4. LastByte \in Nat /\ LastByte < a
    BY <1>4, <2>2, <2>3
  <2>5. EndSector <= StartSector
    <3>1. SectorSize * EndSector <= LastByte /\ a < (SectorSize * StartSector) + SectorSize
      BY <1>4, <1>7, <1>10, <2>4, InSector
    <3>2. /\ SectorSize * EndSector \in Nat
          /\ SectorSize * (StartSector + 1) = (SectorSize * StartSector) + SectorSize
          /\ SectorSize * StartSector \in Nat
      BY <1>10, Products
    <3>3. SectorSize * EndSector < SectorSize * (StartSector + 1) /\ StartSector + 1 \in Nat
      BY <1>4, <1>10, <2>4, <3>1, <3>2, Sizes
    <3>4. EndSector < StartSector + 1
      BY <1>10, <3>3, Products
    <3> QED
      BY <1>10, <3>4
  <2>6. (Astray <=> StartSector = EndSector)
    BY <1>4, <1>8, <1>14
  <2> QED
    BY <1>9, <1>10, <2>1, <2>5, <2>6
<1> QED
  BY <1>4, <1>11, <1>12, <1>13, <1>14

\* What a round of the loop transfers lies in the sector and in the range of
\* the request.
LEMMA Round ==
    ASSUME Types, DriveInv, LoopInv, pc \in InLoop, idx <= EndSector, ~Astray
    PROVE  /\ Served /\ StartSector <= idx /\ idx \in Nat /\ EndSector \in Nat
           /\ done = First - req.address
           /\ Offset \in 0 .. SectorSize - 1 /\ Chunk \in Nat /\ Offset + Chunk <= SectorSize
           /\ First = (SectorSize * idx) + Offset /\ First \in Nat
           /\ req.address <= First /\ First + Chunk <= req.address + req.size
           /\ idx = EndSector => First + Chunk = req.address + req.size
           /\ idx < EndSector => First + Chunk = SectorSize * (idx + 1)
           /\ idx + 1 \in 0 .. (Word \div SectorSize)
           /\ ~Beyond
<1> DEFINE a == req.address
           s == req.size
<1>1. Accepts /\ StartSector <= idx /\ done = First - a
  BY DEF LoopInv
<1>2. a \in Nat /\ s \in Nat /\ idx \in Nat
  BY Sizes DEF Types, TypeOK
<1>3. /\ StartSector \in Nat /\ EndSector \in Nat /\ LastByte \in Nat
      /\ EndSector + 1 <= Word \div SectorSize
  BY RequestRange, Sizes
<1>4. Served
  <2>1. ~Served => EndSector < StartSector
    BY <1>1, RequestRange
  <2> QED
    BY <2>1, <1>1, <1>2, <1>3
<1>5. LastByte = (a + s) - 1
  BY <1>1, <1>4, RequestRange
<1>6. /\ StartSector = a \div SectorSize /\ EndSector = LastByte \div SectorSize
      /\ Offset = OffsetIn(a, idx) /\ Chunk = ChunkIn(a, LastByte, idx) % Word
  BY DEF StartSector, EndSector, Offset, Chunk, OffsetIn, ChunkIn
<1> HIDE DEF a, s
<1>7. /\ Offset \in 0 .. SectorSize - 1 /\ Chunk \in Nat /\ Offset + Chunk <= SectorSize
      /\ a <= (SectorSize * idx) + Offset
      /\ (SectorSize * idx) + Offset + Chunk <= a + s
      /\ idx = EndSector => (SectorSize * idx) + Offset + Chunk = a + s
      /\ idx < EndSector => (SectorSize * idx) + Offset + Chunk = (SectorSize * idx) + SectorSize
  <2>1. a \div SectorSize <= idx /\ idx <= LastByte \div SectorSize
    BY <1>1, <1>6
  <2>2. RoundFacts(a, s, LastByte, idx)
    BY <1>2, <1>3, <1>5, <2>1, RoundArithmetic
  <2> DEFINE chunk == ChunkIn(a, LastByte, idx)
  <2>3. chunk \in Nat /\ OffsetIn(a, idx) \in Nat /\ OffsetIn(a, idx) + chunk <= SectorSize
    BY <2>2, Sizes DEF RoundFacts
  <2> HIDE DEF chunk
  <2>4. chunk \in 0 .. Word - 1 /\ Word \in Nat \ {0}
    BY <2>3, Sizes
  <2>5. chunk % Word = chunk
    BY <2>4, Remainders
  <2>6. Chunk = ChunkIn(a, LastByte, idx)
    BY <1>6, <2>5 DEF chunk
  <2> QED
    BY <1>6, <2>2, <2>6 DEF RoundFacts
<1>8. idx * SectorSize = SectorSize * idx /\ SectorSize * idx \in Nat
      /\ SectorSize * (idx + 1) = (SectorSize * idx) + SectorSize
  BY <1>2, Products
<1>9. First = (SectorSize * idx) + Offset /\ First \in Nat
  BY <1>7, <1>8, Sizes DEF First
<1>10. idx + 1 \in 0 .. (Word \div SectorSize)
  BY <1>2, <1>3, Sizes, Quotient
<1>11. ~Beyond
  <2>1. done + Chunk <= s
    BY <1>1, <1>2, <1>7, <1>9
  <2> QED
    BY <1>1, <1>2, <1>7, <1>9, <2>1, Sizes DEF Beyond, s
<1> QED
  BY <1>1, <1>2, <1>3, <1>4, <1>7, <1>8, <1>9, <1>10, <1>11 DEF a, s

\* A request that goes astray copies too much in its first round.
LEMMA AstrayBeyond ==
    ASSUME Types, DriveInv, LoopInv, pc \in InLoop, Astray
    PROVE  Beyond
<1> DEFINE a == req.address
           s == req.size
           o == Offset
           l == LastByte % SectorSize
           z == LastByte
<1>1. idx = StartSector /\ idx <= EndSector /\ done = 0
  BY DEF LoopInv
<1>2. a \in 0 .. Word - 1 /\ s \in 0 .. Word - 1
  BY DEF Types
<1>3. a \in Nat /\ s \in Nat /\ a < Word /\ s < Word /\ Word \in Nat \ {0} /\ SectorSize \in Nat \ {0}
  BY <1>2, Sizes
<1>4. LastByte \in Nat /\ StartSector \in Nat /\ EndSector \in Nat
  BY RequestRange, Sizes
<1>5. l \in 0 .. SectorSize - 1 /\ o = a % SectorSize /\ o \in 0 .. SectorSize - 1
  BY <1>1, <1>3, <1>4, Quotient DEF Offset
<1>6. Chunk = (IF idx = EndSector THEN l - o + 1 ELSE SectorSize - o) % Word
  BY DEF Chunk
<1>7. Beyond <=> o + Chunk > SectorSize \/ 0 + Chunk > s
  BY <1>1 DEF Beyond
<1>8. Astray <=> a + s = 0 \/ (a + s > Word /\ StartSector = EndSector)
  BY DEF Astray
<1>9. z = (a + s - 1) % Word /\ StartSector = a \div SectorSize /\ EndSector = z \div SectorSize
  BY DEF StartSector, EndSector, LastByte
<1>10. l = z % SectorSize /\ z \in Nat
  BY <1>4
<1> HIDE DEF a, s, o, l, z
<1>11. CASE a + s = 0
  <2>1. a = 0 /\ s = 0
    BY <1>3, <1>11
  <2>2. o = 0
    BY <1>3, <1>5, <2>1
  <2>3. l - o + 1 \in 1 .. SectorSize /\ SectorSize - o \in 1 .. SectorSize
    BY <1>3, <1>5, <2>2
  <2>4. \A x \in 1 .. SectorSize : x % Word = x
    <3>1. \A x \in 1 .. SectorSize : x \in 0 .. Word - 1
      BY Sizes
    <3> QED
      BY <1>3, <3>1, Remainders
  <2>5. Chunk \in 1 .. SectorSize
    BY <1>6, <2>3, <2>4
  <2> QED
    BY <1>3, <1>7, <2>1, <2>5
<1>12. CASE a + s > Word /\ StartSector = EndSector
  <2>1. a + s - 1 \in Word .. (Word + Word) - 1
    BY <1>3, <1>12
  <2>2. z = (a + s - 1) - Word
    BY <1>3, <1>9, <2>1, Remainders
  <2>3. z + 1 < a
    BY <1>3, <2>2
  <2> DEFINE k == StartSector
  <2>4. k \in Nat /\ a \div SectorSize = k /\ z \div SectorSize = k
    BY <1>4, <1>9, <1>12
  <2> HIDE DEF k
  <2>5. o = a - (SectorSize * k) /\ l = z - (SectorSize * k) /\ SectorSize * k \in Nat
    BY <1>3, <1>5, <1>10, <2>4, InSector, Products
  <2>6. l + 1 < o
    BY <1>3, <1>10, <2>3, <2>5
  <2> DEFINE x == o - (l + 1)
  <2>7. x \in 1 .. Word - 1 /\ l - o + 1 = 0 - x
    BY <1>5, <2>6, Sizes
  <2>8. (0 - x) % Word = Word - x
    <3> HIDE DEF x
    <3> QED
      BY <1>3, <2>7
  <2>9. Chunk = Word - x
    <3>1. Chunk = (l - o + 1) % Word
      BY <1>1, <1>6, <1>12
    <3> QED
      BY <2>7, <2>8, <3>1
  <2>10. o + Chunk = Word + l + 1
    BY <1>3, <1>5, <2>9
  <2> QED
    BY <1>3, <1>5, <1>7, <2>10, Sizes
<1> QED
  BY <1>8, <1>11, <1>12

-----------------------------------------------------------------------------
(* The drive *)

\* The bytes of a sector are bytes of the drive.
LEMMA SectorBytes ==
    ASSUME NEW d \in Drive, NEW lba \in Nat, NEW j \in 0 .. SectorSize - 1
    PROVE  /\ (lba * SectorSize) + j \in Nat
           /\ lba < Sectors[d] <=> (lba * SectorSize) + j < Capacity(d)
<1> DEFINE n == Sectors[d]
<1>1. n \in Nat /\ Capacity(d) = n * SectorSize
  BY Sizes DEF Capacity
<1> HIDE DEF n
<1>2. /\ lba * SectorSize = SectorSize * lba /\ SectorSize * lba \in Nat
      /\ n * SectorSize = SectorSize * n /\ SectorSize * n \in Nat
      /\ lba < n => (SectorSize * lba) + SectorSize <= SectorSize * n
      /\ n <= lba => SectorSize * n <= SectorSize * lba
  BY <1>1, Products
<1> QED
  BY <1>1, <1>2, Sizes DEF n

LEMMA StoredType ==
    ASSUME NEW d \in Drive, NEW c \in Content(d), NEW lba, NEW data \in SectorData
    PROVE  Stored(c, lba, data) \in Content(d)
<1>1. \A b \in 0 .. Capacity(d) - 1 : b % SectorSize \in 0 .. SectorSize - 1
  BY Sizes
<1>2. DOMAIN c = 0 .. Capacity(d) - 1
  BY DEF Content
<1> QED
  BY <1>1, <1>2 DEF Stored, Content, SectorData

\* What a drive will hold is of the type of what it holds.
LEMMA SettledType ==
    ASSUME Types, NEW d \in Drive
    PROVE  Settled(d) \in Content(d)
<1>1. disk[d] \in Content(d) /\ cmd[d] \in Commands
  BY DEF Types, TypeOK, Content
<1>2. cmd[d].op = "commit" => cmd[d].data \in SectorData
  BY <1>1, CommandShape
<1> QED
  BY <1>1, <1>2, StoredType DEF Settled

\* The data port gives a sector, whatever the command was.
LEMMA DataType ==
    ASSUME Types, NEW d \in Drive
    PROVE  DataFrom(d) \in SectorData
<1>1. disk[d] \in Content(d) /\ cmd[d] \in Commands
  BY DEF Types, TypeOK, Content
<1>2. CASE cmd[d].op = "read" /\ cmd[d].lba < Sectors[d]
  <2> DEFINE lba == cmd[d].lba
  <2>1. lba \in Nat
    BY <1>1, <1>2, CommandShape
  <2>2. DataFrom(d) = [j \in 0 .. SectorSize - 1 |-> disk[d][(lba * SectorSize) + j]]
    BY <1>2 DEF DataFrom, Sector
  <2>3. lba < Sectors[d]
    BY <1>2
  <2> HIDE DEF lba
  <2>4. ASSUME NEW j \in 0 .. SectorSize - 1 PROVE disk[d][(lba * SectorSize) + j] \in Bytes
    <3> DEFINE b == (lba * SectorSize) + j
    <3>1. b \in Nat /\ b < Capacity(d) /\ Capacity(d) \in Nat
      BY <2>1, <2>3, SectorBytes, Sizes
    <3> HIDE DEF b
    <3>2. b \in 0 .. Capacity(d) - 1
      BY <3>1
    <3> QED
      BY <1>1, <3>2 DEF Content, b
  <2> QED
    BY <2>2, <2>4 DEF SectorData
<1>3. CASE ~(cmd[d].op = "read" /\ cmd[d].lba < Sectors[d])
  BY <1>3, ByteTypes DEF DataFrom, SectorData
<1> QED
  BY <1>2, <1>3

\* A command changes nothing that is stored or being stored.
LEMMA CommandGiven ==
    ASSUME Types, DriveInv, NEW e \in Drive, NEW op \in {"read", "write"}, NEW lba \in Nat,
           Command(e, op, lba), disk' = disk
    PROVE  /\ cmd' \in [Drive -> Commands] /\ busy' \in [Drive -> BOOLEAN] /\ lost' \in BOOLEAN
           /\ \A d \in Drive : cmd'[d].op = "commit" => busy'[d]
           /\ \A d \in Drive : Settled(d)' = Settled(d)
           /\ ~lost' => ~lost /\ cmd'[e] = [op |-> op, lba |-> lba]
<1> DEFINE c == [op |-> op, lba |-> lba]
<1>1. c \in Commands /\ c.op = op
  BY NewCommands
<1>2. /\ cmd \in [Drive -> Commands] /\ busy \in [Drive -> BOOLEAN] /\ lost \in BOOLEAN
      /\ \A d \in Drive : cmd[d].op = "commit" => busy[d]
  BY DEF Types, TypeOK, DriveInv
<1>3. /\ cmd' = [cmd EXCEPT ![e] = IF busy[e] THEN cmd[e] ELSE c]
      /\ busy' = [busy EXCEPT ![e] = TRUE] /\ lost' = (lost \/ busy[e])
  BY DEF Command
<1> HIDE DEF c
<1>4. cmd' \in [Drive -> Commands] /\ busy' \in [Drive -> BOOLEAN] /\ lost' \in BOOLEAN
  BY <1>1, <1>2, <1>3
<1>5. /\ \A d \in Drive : d # e => cmd'[d] = cmd[d] /\ busy'[d] = busy[d]
      /\ busy'[e] /\ (busy[e] => cmd'[e] = cmd[e]) /\ (~busy[e] => cmd'[e] = c)
  BY <1>2, <1>3
<1>6. \A d \in Drive : cmd'[d].op = "commit" => busy'[d]
  BY <1>2, <1>5
<1>7. ASSUME NEW d \in Drive PROVE Settled(d)' = Settled(d)
  <2>1. CASE cmd'[d] = cmd[d]
    BY <2>1 DEF Settled
  <2>2. CASE d = e /\ ~busy[e]
    <3>1. cmd[d].op # "commit" /\ cmd'[d].op # "commit"
      BY <1>1, <1>2, <1>5, <2>2
    <3> QED
      BY <3>1 DEF Settled
  <2> QED
    BY <1>5, <2>1, <2>2
<1>8. ~lost' => ~lost /\ cmd'[e] = c
  BY <1>3, <1>5
<1> QED
  BY <1>4, <1>6, <1>7, <1>8 DEF c

-----------------------------------------------------------------------------
(* What does not change *)

LEMMA RequestKept ==
    ASSUME req' = req, devices' = devices
    PROVE  /\ Accepts' <=> Accepts
           /\ Served' <=> Served
           /\ Astray' <=> Astray
           /\ StartSector' = StartSector /\ EndSector' = EndSector /\ LastByte' = LastByte
BY DEF Accepts, Served, Astray, StartSector, EndSector, LastByte

LEMMA RoundKept ==
    ASSUME req' = req, idx' = idx
    PROVE  Offset' = Offset /\ Chunk' = Chunk /\ First' = First
BY DEF Offset, Chunk, First, StartSector, EndSector, LastByte

LEMMA ContentKept ==
    ASSUME ContentInv, \A d \in Drive : Settled(d)' = Settled(d),
           req' = req, done' = done, calls' = calls, before' = before,
           pc' \in InCall /\ ~lost' => pc \in InCall /\ ~lost
    PROVE  ContentInv'
<1>1. \A d, b : Transferred(d, b)' <=> Transferred(d, b)
  BY DEF Transferred
<1> QED
  BY <1>1 DEF ContentInv

LEMMA OutKept ==
    ASSUME OutInv, out' = out, req' = req, done' = done, before' = before,
           pc' \in InCall /\ ~lost' => pc \in InCall /\ ~lost
    PROVE  OutInv'
BY DEF OutInv, Original

-----------------------------------------------------------------------------
(* The invariant holds *)

LEMMA AtaInvInit == Init => AtaInv
<1> SUFFICES ASSUME Init PROVE AtaInv
  OBVIOUS
<1>1. pc = "init" /\ done = 0 /\ req.size = 0
  BY DEF Init
<1>2. DOMAIN disk = Drive /\ \A d \in Drive : disk[d] \in Content(d)
  <2>1. disk = [d \in Drive |-> [b \in 0 .. Capacity(d) - 1 |-> <<0 - d, b>>]]
    BY DEF Init
  <2>2. ASSUME NEW d \in Drive PROVE disk[d] \in Content(d)
    <3>1. \A b \in 0 .. Capacity(d) - 1 : <<0 - d, b>> \in Bytes
      <4>1. 0 - d \in 1 - NumDrives .. MaxCalls /\ \A b \in 0 .. Capacity(d) - 1 : b \in Nat
        BY Sizes DEF Drive
      <4> QED
        BY <4>1, ByteTypes
    <3>2. disk[d] = [b \in 0 .. Capacity(d) - 1 |-> <<0 - d, b>>]
      BY <2>1
    <3> QED
      BY <3>1, <3>2 DEF Content
  <2> QED
    BY <2>1, <2>2
<1>3. sector_buf \in SectorData
  BY ByteTypes DEF Init, SectorData
<1>4. cmd \in [Drive -> Commands]
  BY NewCommands DEF Init
<1>5. 0 \in Drive /\ 0 \in 0 .. (Word \div SectorSize)
  BY Sizes, Quotient DEF Drive
<1>6. TypeOK
  <2>1. kind \in [Drive -> Kinds] /\ probe = 0 /\ pc = "init" /\ idx = 0
    BY DEF Init
  <2>2. busy \in [Drive -> BOOLEAN] /\ lost \in BOOLEAN
    BY DEF Init
  <2>3. out \in Seq(Bytes)
    BY DEF Init
  <2>4. 0 \in 0 .. NumDrives
    BY Sizes
  <2> QED
    BY <1>2, <1>3, <1>5, <2>1, <2>2, <2>3, <2>4 DEF TypeOK, Content, SectorData
<1>7. devices \in [Drive -> [present : BOOLEAN, lba_supported : BOOLEAN, size : 0 .. Word - 1]]
      /\ \A d \in Drive : ~devices[d].lba_supported
  BY Sizes DEF Init, NoDevice
<1>8. Types
  <2>1. req = [drive |-> 0, op |-> "read", address |-> 0, size |-> 0] /\ calls = 0 /\ before = disk
    BY DEF Init
  <2>2. 0 \in 0 .. Word - 1 /\ 0 \in 0 .. MaxCalls
    BY Sizes
  <2>3. req \in [drive : Drive, op : {"read", "write"}, address : 0 .. Word - 1, size : 0 .. Word - 1]
    BY <1>5, <2>1, <2>2
  <2> QED
    BY <1>1, <1>2, <1>4, <1>6, <1>7, <2>1, <2>2, <2>3 DEF Types
<1>9. DriveInv
  BY <1>7, NewCommands DEF Init, DriveInv
<1>10. LoopInv /\ ContentInv /\ OutInv /\ CommandInv
  BY <1>1 DEF LoopInv, ContentInv, OutInv, CommandInv, InLoop, InCall
<1> QED
  BY <1>8, <1>9, <1>10 DEF AtaInv

\* A drive has done its work.
LEMMA DriveReadyStep ==
    ASSUME AtaInv, NEW e \in Drive, DriveReady(e)
    PROVE  AtaInv'
<1>1. Types /\ DriveInv /\ LoopInv /\ ContentInv /\ OutInv /\ CommandInv
  BY DEF AtaInv
<1>2. /\ kind' = kind /\ devices' = devices /\ probe' = probe /\ req' = req /\ calls' = calls
      /\ before' = before /\ lost' = lost /\ pc' = pc /\ idx' = idx /\ done' = done
      /\ sector_buf' = sector_buf /\ out' = out
  BY DEF DriveReady, callVars
<1>3. /\ cmd \in [Drive -> Commands] /\ busy \in [Drive -> BOOLEAN]
      /\ DOMAIN disk = Drive /\ \A d \in Drive : disk[d] \in Content(d)
      /\ Settled(e) \in Content(e)
  BY <1>1, SettledType DEF Types, TypeOK, Content
<1>4. /\ busy' = [busy EXCEPT ![e] = FALSE]
      /\ disk' = [disk EXCEPT ![e] = Settled(e)]
      /\ cmd' = [cmd EXCEPT ![e] = IF cmd[e].op = "commit" THEN Idle ELSE cmd[e]]
  BY DEF DriveReady
<1>5. /\ cmd' \in [Drive -> Commands] /\ busy' \in [Drive -> BOOLEAN]
      /\ DOMAIN disk' = Drive /\ \A d \in Drive : disk'[d] \in Content(d)
  BY <1>3, <1>4, NewCommands
<1>6. /\ \A d \in Drive : d # e => cmd'[d] = cmd[d] /\ disk'[d] = disk[d] /\ busy'[d] = busy[d]
      /\ disk'[e] = Settled(e)
      /\ cmd[e].op = "commit" => cmd'[e] = Idle
      /\ cmd[e].op # "commit" => cmd'[e] = cmd[e]
  BY <1>3, <1>4
<1>7. \A d \in Drive : Settled(d)' = Settled(d)
  <2> SUFFICES ASSUME NEW d \in Drive PROVE Settled(d)' = Settled(d)
    OBVIOUS
  <2>1. CASE d # e
    BY <1>6, <2>1 DEF Settled
  <2>2. CASE d = e
    <3>1. cmd'[e].op # "commit"
      BY <1>6, NewCommands
    <3>2. Settled(d)' = disk'[e]
      BY <2>2, <3>1 DEF Settled
    <3> QED
      BY <1>6, <2>2, <3>2
  <2> QED
    BY <2>1, <2>2
<1>8. Types'
  BY <1>1, <1>2, <1>5 DEF Types, TypeOK, Content
<1>9. DriveInv'
  <2>1. cmd'[e].op # "commit"
    BY <1>6, NewCommands
  <2> QED
    BY <1>1, <1>2, <1>6, <2>1 DEF DriveInv
<1>10. LoopInv'
  BY <1>1, <1>2, RequestKept, RoundKept DEF LoopInv
<1>11. ContentInv' /\ OutInv'
  BY <1>1, <1>2, <1>7, ContentKept, OutKept
<1>12. CommandInv'
  <2>1. req.drive \in Drive
    BY <1>1 DEF Types
  <2>2. ~lost /\ pc \in {"reading", "writing"} => cmd'[req.drive] = cmd[req.drive]
    BY <1>1, <1>6, <2>1 DEF CommandInv
  <2>3. Settled(req.drive)' = Settled(req.drive)
    BY <1>2, <1>7, <2>1
  <2> QED
    BY <1>1, <1>2, <2>2, <2>3, RoundKept DEF CommandInv, SettledAt
<1> QED
  BY <1>8, <1>9, <1>10, <1>11, <1>12 DEF AtaInv

\* Probing a drive.
LEMMA ProbeStep ==
    ASSUME AtaInv, ata_init_device
    PROVE  AtaInv'
<1>1. Types /\ DriveInv /\ LoopInv /\ ContentInv /\ OutInv /\ CommandInv
  BY DEF AtaInv
<1>2. /\ pc = "init" /\ probe < NumDrives /\ probe' = probe + 1
      /\ devices' = [devices EXCEPT ![probe] = ata_device_probe(probe)]
      /\ kind' = kind /\ disk' = disk /\ cmd' = cmd /\ busy' = busy /\ lost' = lost /\ pc' = pc
      /\ req' = req /\ idx' = idx /\ done' = done /\ sector_buf' = sector_buf /\ out' = out
      /\ calls' = calls /\ before' = before
  BY DEF ata_init_device, driveVars
<1>3. probe \in Drive /\ probe' \in 0 .. NumDrives
  BY <1>1, <1>2, Sizes DEF Types, TypeOK, Drive
<1> DEFINE dev == ata_device_probe(probe)
<1>4. /\ dev \in [present : BOOLEAN, lba_supported : BOOLEAN, size : 0 .. Word - 1]
      /\ dev.lba_supported => dev.present /\ dev.size = Capacity(probe) % Word
  <2>1. Capacity(probe) % Word \in 0 .. Word - 1 /\ 0 \in 0 .. Word - 1
    BY <1>3, Sizes
  <2> QED
    BY <2>1 DEF ata_device_probe, NoDevice
<1> HIDE DEF dev
<1>5. Types'
  BY <1>1, <1>2, <1>3, <1>4 DEF Types, TypeOK, dev
<1>6. DriveInv'
  BY <1>1, <1>2, <1>3, <1>4 DEF Types, DriveInv, dev
<1>7. LoopInv' /\ ContentInv' /\ OutInv' /\ CommandInv'
  BY <1>1, <1>2 DEF LoopInv, ContentInv, OutInv, CommandInv, InLoop, InCall
<1> QED
  BY <1>5, <1>6, <1>7 DEF AtaInv

\* A call begins.
LEMMA CallStep ==
    ASSUME AtaInv, Call
    PROVE  AtaInv'
<1>1. Types /\ DriveInv
  BY DEF AtaInv
<1>2. PICK e \in Drive, op \in {"read", "write"}, r \in Requests :
              req' = [drive |-> e, op |-> op, address |-> r[1], size |-> r[2]]
  BY DEF Call
<1>3. /\ calls < MaxCalls /\ calls' = calls + 1 /\ lost' = FALSE /\ out' = <<>> /\ done' = 0
      /\ pc' = "check" /\ kind' = kind /\ devices' = devices /\ probe' = probe /\ disk' = disk
      /\ cmd' = cmd /\ busy' = busy /\ idx' = idx /\ sector_buf' = sector_buf
      /\ before' = [d \in Drive |-> Settled(d)]
  BY DEF Call
<1>4. /\ r[1] \in 0 .. Word - 1 /\ r[2] \in 0 .. Word - 1
  BY AtaAssumption
<1>5. /\ req' \in [drive : Drive, op : {"read", "write"}, address : 0 .. Word - 1, size : 0 .. Word - 1]
      /\ req'.address = r[1] /\ req'.size = r[2]
  BY <1>2, <1>4
<1>6. DOMAIN before' = Drive /\ \A d \in Drive : before'[d] \in Content(d)
  BY <1>1, <1>3, SettledType
<1>7. calls' \in 0 .. MaxCalls
  BY <1>1, <1>3, Sizes DEF Types
<1>8. Types'
  <2>1. lost' \in BOOLEAN /\ out' \in Seq(Bytes) /\ done' \in Nat
    <3>1. lost' = FALSE /\ out' = <<>> /\ done' = 0
      BY <1>3
    <3>2. lost' \in BOOLEAN
      BY <3>1, Zenon
    <3>3. out' \in Seq(Bytes)
      BY <3>1
    <3> QED
      BY <3>1, <3>2, <3>3
  <2>2. TypeOK'
    BY <1>1, <1>3, <2>1 DEF Types, TypeOK
  <2> QED
    BY <1>1, <1>3, <1>5, <1>6, <1>7, <2>1, <2>2 DEF Types
<1>9. DriveInv'
  BY <1>1, <1>3 DEF DriveInv
<1>10. LoopInv'
  <2>1. 0 <= req'.size
    BY <1>5, Sizes
  <2> QED
    BY <1>3, <1>4, <1>5, <2>1 DEF LoopInv, InLoop, InCall
<1>11. ContentInv'
  <2>1. \A d, b : ~(req'.address <= b /\ b < req'.address + 0) \/ b \notin Nat
    BY <1>5, Sizes
  <2>2. \A d \in Drive : Settled(d)' = before'[d]
    BY <1>3 DEF Settled
  <2>3. \A d \in Drive : \A b \in 0 .. Capacity(d) - 1 : ~Transferred(d, b)'
    BY <1>3, <2>1, Sizes DEF Transferred
  <2> QED
    BY <2>2, <2>3 DEF ContentInv
<1>12. OutInv' /\ CommandInv'
  BY <1>3 DEF OutInv, CommandInv
<1> QED
  BY <1>8, <1>9, <1>10, <1>11, <1>12 DEF AtaInv

\* Steps that only change where the driver is.
LEMMA ControlStep ==
    ASSUME AtaInv, NoDeviceMemory \/ EndInit \/ Refuse \/ Accept \/ NoBuffer \/ EndLoop \/ Return
    PROVE  AtaInv'
<1>1. Types /\ DriveInv /\ LoopInv /\ ContentInv /\ OutInv /\ CommandInv
  BY DEF AtaInv
<1>2. /\ kind' = kind /\ devices' = devices /\ probe' = probe /\ req' = req /\ calls' = calls
      /\ before' = before /\ disk' = disk /\ cmd' = cmd /\ busy' = busy /\ lost' = lost
      /\ done' = done /\ sector_buf' = sector_buf /\ out' = out
  BY DEF NoDeviceMemory, EndInit, Refuse, Accept, NoBuffer, EndLoop, Return, callVars, driveVars
<1>3. /\ pc' \in {"idle", "panic", "sector", "return"}
      /\ pc' \in InCall => pc \in InCall
  BY DEF NoDeviceMemory, EndInit, Refuse, Accept, NoBuffer, EndLoop, Return, InLoop, InCall
<1>4. \A d \in Drive : Settled(d)' = Settled(d)
  BY <1>2 DEF Settled
<1>5. DriveInv'
  BY <1>1, <1>2 DEF DriveInv
<1>6. ContentInv' /\ OutInv'
  BY <1>1, <1>2, <1>3, <1>4, ContentKept, OutKept
<1>7. CommandInv'
  BY <1>3 DEF CommandInv
<1>8. Types' /\ LoopInv'
  <2>1. CASE NoDeviceMemory \/ EndInit \/ NoBuffer \/ Return
    <3>1. pc' \in {"idle", "panic"} /\ idx' = idx
      BY <2>1 DEF NoDeviceMemory, EndInit, NoBuffer, Return
    <3>2. Types'
      BY <1>1, <1>2, <3>1 DEF Types, TypeOK
    <3>3. LoopInv'
      BY <1>1, <1>2, <3>1 DEF LoopInv, InLoop, InCall
    <3> QED
      BY <3>2, <3>3
  <2>2. CASE Refuse
    <3>1. pc = "check" /\ pc' = "return" /\ idx' = idx /\ ~Accepts
      BY <2>2 DEF Refuse
    <3>2. Types'
      BY <1>1, <1>2, <3>1 DEF Types, TypeOK
    <3>3. done = 0 /\ done <= req.size
      BY <1>1, <3>1 DEF LoopInv
    <3>4. ~Served
      BY <1>1, <3>1, RequestRange
    <3>5. LoopInv'
      BY <1>2, <3>1, <3>3, <3>4, RequestKept DEF LoopInv, InLoop, InCall
    <3> QED
      BY <3>2, <3>5
  <2>3. CASE Accept
    <3>1. pc = "check" /\ pc' = "sector" /\ idx' = StartSector /\ Accepts
      BY <2>3 DEF Accept
    <3>2. /\ done = 0 /\ done <= req.size
          /\ req.address \in Nat /\ req.address < Word /\ req.size \in Nat
      BY <1>1, <3>1, Sizes DEF LoopInv, InCall, Types
    <3>3. StartSector \in Nat /\ StartSector = req.address \div SectorSize
      BY <3>2, Quotient DEF StartSector
    <3>4. StartSector \in 0 .. (Word \div SectorSize)
      <4>1. StartSector + 1 <= Word \div SectorSize /\ Word \div SectorSize \in Nat
        BY <1>1, RequestRange, Sizes, Quotient
      <4> QED
        BY <3>3, <4>1
    <3>5. Types'
      BY <1>1, <1>2, <3>1, <3>4 DEF Types, TypeOK
    <3>6. First' = req.address
      <4>1. Offset' = req.address % SectorSize /\ First' = (StartSector * SectorSize) + Offset'
        BY <1>2, <3>1, RequestKept DEF Offset, First
      <4>2. req.address = (SectorSize * StartSector) + (req.address % SectorSize)
            /\ req.address % SectorSize \in 0 .. SectorSize - 1
        BY <3>2, <3>3, Quotient
      <4>3. StartSector * SectorSize = SectorSize * StartSector
        BY <3>3, Products
      <4> QED
        BY <4>1, <4>2, <4>3
    <3>7. ~(StartSector <= EndSector) /\ ~Astray => (IF Served THEN req.size ELSE 0) = 0
      <4>1. SUFFICES ASSUME Served, ~Astray, ~(StartSector <= EndSector) PROVE req.size = 0
        OBVIOUS
      <4>2. LastByte \in Nat /\ LastByte = (req.address + req.size) - 1 /\ EndSector \in Nat
        BY <1>1, <3>1, <4>1, RequestRange, Sizes
      <4>3. SectorSize * StartSector <= req.address /\ SectorSize * StartSector \in Nat
        BY <3>2, <3>3, InSector, Products
      <4>4. LastByte < (SectorSize * EndSector) + SectorSize
        BY <4>2, InSector DEF EndSector
      <4>5. (SectorSize * EndSector) + SectorSize <= SectorSize * StartSector
        BY <3>3, <4>1, <4>2, Products
      <4>6. SectorSize * EndSector \in Nat
        BY <4>2, Products
      <4> QED
        BY <3>2, <4>2, <4>3, <4>4, <4>5, <4>6, Sizes
    <3>8. LoopInv'
      <4>1. First' - req.address = 0
        BY <3>2, <3>6
      <4>2. StartSector <= StartSector /\ (Astray => StartSector <= EndSector)
        BY <1>1, <3>3, RequestRange
      <4> QED
        BY <1>2, <3>1, <3>2, <3>7, <4>1, <4>2, RequestKept DEF LoopInv, InLoop, InCall
    <3> QED
      BY <3>5, <3>8
  <2>4. CASE EndLoop
    <3>1. pc = "sector" /\ pc' = "return" /\ idx' = idx /\ idx > EndSector
      BY <2>4 DEF EndLoop
    <3>2. Types'
      BY <1>1, <1>2, <3>1 DEF Types, TypeOK
    <3>4. EndSector \in Nat /\ idx \in Nat
      BY <1>1, RequestRange, Sizes DEF Types, TypeOK
    <3>3. ~Astray /\ done <= req.size
          /\ done = IF idx <= EndSector THEN First - req.address ELSE IF Served THEN req.size ELSE 0
      BY <1>1, <3>1, <3>4 DEF LoopInv, InLoop
    <3>5. done = IF Served THEN req.size ELSE 0
      BY <3>1, <3>3, <3>4
    <3>6. LoopInv'
      BY <1>2, <3>1, <3>3, <3>5, RequestKept DEF LoopInv, InLoop, InCall
    <3> QED
      BY <3>2, <3>6
  <2> QED
    BY <2>1, <2>2, <2>3, <2>4
<1> QED
  BY <1>5, <1>6, <1>7, <1>8 DEF AtaInv

\* A command is given, to read or to write a sector.
LEMMA CommandStep ==
    ASSUME AtaInv, ReadCommand \/ WriteCommand
    PROVE  AtaInv'
<1>1. Types /\ DriveInv /\ LoopInv /\ ContentInv /\ OutInv /\ CommandInv
  BY DEF AtaInv
<1>2. /\ kind' = kind /\ devices' = devices /\ probe' = probe /\ req' = req /\ calls' = calls
      /\ before' = before /\ disk' = disk /\ idx' = idx /\ done' = done
      /\ sector_buf' = sector_buf /\ out' = out
  BY DEF ReadCommand, WriteCommand, callVars
<1>3. PICK op \in {"read", "write"} :
         /\ Command(req.drive, op, idx)
         /\ \/ op = "read" /\ pc = "sector" /\ pc' = "reading"
            \/ op = "write" /\ pc = "altered" /\ pc' = "writing"
         /\ idx <= EndSector
  BY <1>1 DEF ReadCommand, WriteCommand, LoopInv, InLoop
<1>4. pc \in InLoop /\ pc' \in InLoop /\ pc \in InCall /\ pc' \in InCall
  BY <1>3 DEF InLoop, InCall
<1>5. req.drive \in Drive /\ idx \in Nat
  BY <1>1, Sizes DEF Types, TypeOK
<1>6. /\ cmd' \in [Drive -> Commands] /\ busy' \in [Drive -> BOOLEAN] /\ lost' \in BOOLEAN
      /\ \A d \in Drive : cmd'[d].op = "commit" => busy'[d]
      /\ \A d \in Drive : Settled(d)' = Settled(d)
      /\ ~lost' => ~lost /\ cmd'[req.drive] = [op |-> op, lba |-> idx]
  BY <1>1, <1>2, <1>3, <1>5, CommandGiven
<1>7. Types'
  BY <1>1, <1>2, <1>3, <1>6 DEF Types, TypeOK
<1>8. DriveInv'
  BY <1>1, <1>2, <1>6 DEF DriveInv
<1>9. LoopInv'
  <2>1. Astray => pc = "sector"
    BY <1>1, <1>3, <1>4 DEF LoopInv
  <2> QED
    BY <1>1, <1>2, <1>3, <1>4, <2>1, RequestKept, RoundKept DEF LoopInv
<1>10. ContentInv' /\ OutInv'
  BY <1>1, <1>2, <1>4, <1>6, ContentKept, OutKept
<1>11. CommandInv'
  <2>1. Settled(req.drive)' = Settled(req.drive)
    BY <1>2, <1>5, <1>6
  <2> QED
    BY <1>1, <1>2, <1>3, <1>6, <2>1, RoundKept DEF CommandInv, SettledAt
<1> QED
  BY <1>7, <1>8, <1>9, <1>10, <1>11 DEF AtaInv

\* The end of a round: the loop goes on behind what it has transferred.
LEMMA RoundEnds ==
    ASSUME Types, DriveInv, LoopInv, pc \in InLoop, idx <= EndSector, ~Astray, NextSector,
           req' = req, devices' = devices
    PROVE  /\ done' \in Nat /\ idx' \in 0 .. (Word \div SectorSize)
           /\ LoopInv'
           /\ req.address + done = First /\ req.address + done' = First + Chunk
<1> DEFINE a == req.address
           s == req.size
<1>1. /\ Served /\ StartSector <= idx /\ idx \in Nat /\ EndSector \in Nat
      /\ done = First - a /\ Chunk \in Nat /\ First \in Nat
      /\ a <= First /\ First + Chunk <= a + s
      /\ idx = EndSector => First + Chunk = a + s
      /\ idx < EndSector => First + Chunk = SectorSize * (idx + 1)
      /\ idx + 1 \in 0 .. (Word \div SectorSize)
  BY Round
<1>2. a \in Nat /\ s \in Nat /\ Accepts /\ StartSector \in Nat
  BY RequestRange, Sizes DEF Types, LoopInv
<1>3. done' = done + Chunk /\ idx' = idx + 1 /\ pc' = "sector"
  BY DEF NextSector
<1>4. req' = req /\ (Accepts' <=> Accepts) /\ (Served' <=> Served) /\ ~Astray'
      /\ StartSector' = StartSector /\ EndSector' = EndSector
  BY RequestKept
<1>5. done' \in Nat /\ done' <= s /\ a + done = First /\ a + done' = First + Chunk
  BY <1>1, <1>2, <1>3
<1>6. done' = IF idx' <= EndSector THEN First' - a ELSE s
  <2>1. CASE idx = EndSector
    BY <1>1, <1>2, <1>3, <1>5, <2>1
  <2>2. CASE idx < EndSector
    <3>1. Offset' = 0
      BY <1>1, <1>2, <1>3, <1>4 DEF Offset
    <3>2. First' = idx' * SectorSize
      <4>1. idx' * SectorSize \in Nat
        BY <1>1, <1>3, Sizes
      <4>2. First' = (idx' * SectorSize) + Offset'
        BY DEF First
      <4> QED
        BY <3>1, <4>1, <4>2
    <3>3. idx' * SectorSize = SectorSize * (idx + 1)
      <4>1. idx + 1 \in Nat
        BY <1>1
      <4> QED
        BY <1>3, <4>1, Products
    <3> QED
      BY <1>1, <1>2, <1>3, <1>5, <2>2, <3>2, <3>3
  <2> QED
    BY <1>1, <2>1, <2>2
<1>7. StartSector <= idx'
  BY <1>1, <1>2, <1>3
<1>8. LoopInv'
  BY <1>1, <1>2, <1>3, <1>4, <1>5, <1>6, <1>7 DEF LoopInv, InLoop, InCall
<1> QED
  BY <1>1, <1>3, <1>5, <1>8

\* The bytes that are written are numbered from the start of the buffer.
LEMMA NewByte ==
    ASSUME Types, DriveInv, LoopInv, pc \in InLoop, idx <= EndSector,
           ~Astray, NEW j \in Offset .. Offset + Chunk - 1
    PROVE  <<calls, done + (j - Offset)>> \in Bytes
<1>1. /\ done = First - req.address /\ Chunk \in Nat /\ First \in Nat
      /\ req.address <= First /\ First + Chunk <= req.address + req.size
      /\ Offset \in 0 .. SectorSize - 1
  BY Round
<1>2. req.address \in Nat /\ req.size \in 0 .. Word - 1 /\ calls \in 0 .. MaxCalls
  BY Sizes DEF Types
<1>3. calls \in 1 - NumDrives .. MaxCalls
  BY <1>2, Sizes
<1>4. done + (j - Offset) \in Nat
  BY <1>1, <1>2, Sizes
<1> QED
  BY <1>3, <1>4, ByteTypes

\* Appending.
LEMMA Appended ==
    ASSUME NEW S, NEW u \in Seq(S), NEW m \in Nat, NEW v \in [1 .. m -> S]
    PROVE  /\ u \o v \in Seq(S)
           /\ Len(u \o v) = Len(u) + m
           /\ \A j \in 1 .. Len(u) : (u \o v)[j] = u[j]
           /\ \A j \in 1 .. m : (u \o v)[Len(u) + j] = v[j]
<1>1. v \in Seq(S) /\ Len(v) = m
  OBVIOUS
<1> QED
  BY <1>1

\* The data port has given the words of the sector.
LEMMA ReadDataStep ==
    ASSUME AtaInv, ReadData
    PROVE  AtaInv'
<1> DEFINE e == req.drive
           buf == DataFrom(e)
<1>1. Types /\ DriveInv /\ LoopInv /\ ContentInv /\ OutInv /\ CommandInv
  BY DEF AtaInv
<1>2. /\ kind' = kind /\ devices' = devices /\ probe' = probe /\ req' = req /\ calls' = calls
      /\ before' = before /\ disk' = disk /\ busy' = busy /\ lost' = lost
      /\ pc = "reading" /\ ~busy[e] /\ cmd' = [cmd EXCEPT ![e] = Idle]
  BY DEF ReadData, Ready, callVars
<1>3. e \in Drive /\ cmd \in [Drive -> Commands] /\ buf \in SectorData
  <2>1. e \in Drive /\ cmd \in [Drive -> Commands]
    BY <1>1 DEF Types
  <2> QED
    BY <1>1, <2>1, DataType
<1>4. pc \in InLoop /\ idx <= EndSector /\ pc \in InCall
  BY <1>1, <1>2 DEF LoopInv, InLoop, InCall
<1>5. idx \in Nat /\ (Beyond => Astray)
  BY <1>1, <1>4, Round, Sizes DEF Types, TypeOK
<1>12. ~Beyond =>
      /\ Served /\ StartSector <= idx /\ EndSector \in Nat
      /\ done = First - req.address
      /\ Offset \in 0 .. SectorSize - 1 /\ Chunk \in Nat /\ Offset + Chunk <= SectorSize
      /\ First = (SectorSize * idx) + Offset /\ First \in Nat
      /\ req.address <= First /\ First + Chunk <= req.address + req.size
      /\ ~Astray
  <2>1. ~Beyond => ~Astray
    BY <1>1, <1>4, AstrayBeyond
  <2> QED
    BY <1>1, <1>4, <2>1, Round
<1>6. cmd' \in [Drive -> Commands] /\ \A d \in Drive : cmd'[d].op = "commit" => busy[d]
  BY <1>1, <1>2, <1>3, NewCommands DEF DriveInv
<1>7. \A d \in Drive : Settled(d)' = Settled(d)
  <2> SUFFICES ASSUME NEW d \in Drive PROVE Settled(d)' = Settled(d)
    OBVIOUS
  <2>1. CASE d # e
    <3>1. cmd'[d] = cmd[d]
      BY <1>2, <1>3, <2>1
    <3> QED
      BY <1>2, <3>1 DEF Settled
  <2>2. CASE d = e
    <3>1. cmd[d].op # "commit" /\ cmd'[d].op # "commit"
      BY <1>1, <1>2, <1>3, <2>2, NewCommands DEF DriveInv
    <3> QED
      BY <1>2, <3>1 DEF Settled
  <2> QED
    BY <2>1, <2>2
<1>8. DriveInv'
  BY <1>1, <1>2, <1>6 DEF DriveInv
<1>9. ~lost => \A j \in 0 .. SectorSize - 1 : buf[j] = SettledAt(e, (idx * SectorSize) + j)
  <2> SUFFICES ASSUME ~lost, NEW j \in 0 .. SectorSize - 1
               PROVE  buf[j] = SettledAt(e, (idx * SectorSize) + j)
    OBVIOUS
  <2>1. cmd[e].op = "read" /\ cmd[e].lba = idx
    BY <1>1, <1>2 DEF CommandInv
  <2>2. Settled(e) = disk[e]
    BY <2>1 DEF Settled
  <2>3. idx < Sectors[e] <=> (idx * SectorSize) + j < Capacity(e)
    BY <1>3, <1>5, SectorBytes
  <2>4. CASE idx < Sectors[e]
    <3>1. buf = [k \in 0 .. SectorSize - 1 |-> disk[e][(idx * SectorSize) + k]]
      BY <2>1, <2>4 DEF DataFrom, Sector
    <3> QED
      BY <2>2, <2>3, <2>4, <3>1 DEF SettledAt
  <2>5. CASE ~(idx < Sectors[e])
    <3>1. buf = [k \in 0 .. SectorSize - 1 |-> Garbage]
      BY <2>1, <2>5 DEF DataFrom
    <3> QED
      BY <2>3, <2>5, <3>1 DEF SettledAt
  <2> QED
    BY <2>4, <2>5
<1> HIDE DEF buf
<1>10. CASE req.op = "read" /\ ~Beyond /\ sector_buf' = buf /\ out' = CopyOut(buf) /\ NextSector
  <2> DEFINE v == [j \in 1 .. Chunk |-> buf[Offset + j - 1]]
  <2>1. /\ done' \in Nat /\ idx' \in 0 .. (Word \div SectorSize) /\ LoopInv'
        /\ req.address + done = First /\ req.address + done' = First + Chunk
    BY <1>1, <1>2, <1>4, <1>10, <1>12, RoundEnds
  <2>2. done' = done + Chunk /\ pc' = "sector" /\ done \in Nat
    BY <1>1, <1>10 DEF NextSector, Types
  <2>3. \A j \in 1 .. Chunk : Offset + j - 1 \in 0 .. SectorSize - 1
    BY <1>10, <1>12, Sizes
  <2>4. v \in [1 .. Chunk -> Bytes]
    BY <1>3, <2>3 DEF SectorData
  <2>5. out' = out \o v /\ out \in Seq(Bytes)
    BY <1>1, <1>10 DEF CopyOut, Types, TypeOK
  <2>6. \A j \in 1 .. Chunk : v[j] = buf[Offset + j - 1]
    OBVIOUS
  <2> HIDE DEF v
  <2>7. /\ out' \in Seq(Bytes) /\ Len(out') = Len(out) + Chunk
        /\ \A j \in 1 .. Len(out) : out'[j] = out[j]
        /\ \A j \in 1 .. Chunk : out'[Len(out) + j] = v[j]
    <3>1. Chunk \in Nat
      BY <1>10, <1>12
    <3> QED
      BY <2>4, <2>5, <3>1, Appended
  <2>8. Types'
    <3>1. TypeOK'
      BY <1>1, <1>2, <1>3, <1>10, <2>1, <2>2, <2>7 DEF Types, TypeOK, SectorData
    <3> QED
      BY <1>1, <1>2, <1>6, <2>1, <3>1 DEF Types
  <2>9. ContentInv'
    <3>1. \A d, b : ~Transferred(d, b) /\ ~Transferred(d, b)'
      BY <1>2, <1>10 DEF Transferred
    <3> QED
      BY <1>1, <1>2, <1>4, <1>7, <3>1 DEF ContentInv
  <2>10. OutInv'
    <3> SUFFICES ASSUME ~lost
                 PROVE  /\ Len(out') = done'
                        /\ \A j \in 1 .. done' : out'[j] = Original(req.address + j - 1)
      <4>1. \A b : Original(b)' = Original(b)
        BY <1>2 DEF Original
      <4> QED
        BY <1>2, <4>1 DEF OutInv
    <3>1. Len(out) = done /\ \A j \in 1 .. done : out[j] = Original(req.address + j - 1)
      BY <1>1, <1>4, <1>10 DEF OutInv
    <3>2. Len(out') = done'
      BY <2>2, <2>7, <3>1
    <3>3. ASSUME NEW j \in 1 .. done' PROVE out'[j] = Original(req.address + j - 1)
      <4>1. CASE j <= done
        <5>1. j \in 1 .. done
          BY <2>2, <3>3, <4>1
        <5> QED
          BY <2>7, <3>1, <5>1
      <4>2. CASE done < j
        <5> DEFINE k == j - done
        <5>1. k \in 1 .. Chunk /\ j = done + k
          BY <1>10, <1>12, <2>2, <3>3, <4>2
        <5> HIDE DEF k
        <5>2. out'[j] = v[k]
          BY <2>7, <3>1, <5>1
        <5>3. v[k] = buf[Offset + k - 1]
          BY <2>6, <5>1
        <5> DEFINE x == Offset + k - 1
                   b == (idx * SectorSize) + x
        <5>4. x \in 0 .. SectorSize - 1
          BY <2>3, <5>1
        <5>5. buf[x] = SettledAt(e, b)
          <6> HIDE DEF x
          <6> QED BY <1>9, <5>4
        <5>6. b \in Nat
          <6> HIDE DEF x
          <6> QED BY <1>3, <1>5, <5>4, SectorBytes
        <5>7. b = req.address + j - 1
          <6>1. idx * SectorSize = SectorSize * idx /\ SectorSize * idx \in Nat
            BY <1>5, Products
          <6>2. req.address \in Nat
            BY <1>1, Sizes DEF Types
          <6> QED
            BY <1>10, <1>12, <2>1, <2>2, <5>1, <6>1, <6>2, Sizes
        <5> HIDE DEF x, b
        <5>8. SettledAt(e, b) = Original(b)
          <6>1. ~Transferred(e, b)
            BY <1>10 DEF Transferred
          <6>2. b < Capacity(e) => b \in 0 .. Capacity(e) - 1
            BY <1>3, <5>6, Sizes
          <6> QED
            BY <1>1, <1>3, <1>4, <6>1, <6>2 DEF ContentInv, SettledAt, Original
        <5> QED
          BY <5>2, <5>3, <5>5, <5>7, <5>8 DEF x
      <4> QED
        BY <2>2, <3>3, <4>1, <4>2
    <3> QED
      BY <3>2, <3>3
  <2>11. CommandInv'
    BY <2>2 DEF CommandInv
  <2> QED
    BY <1>8, <2>1, <2>8, <2>9, <2>10, <2>11 DEF AtaInv
<1>11. CASE /\ req.op = "write" /\ ~Beyond /\ sector_buf' = Alter(buf) /\ pc' = "altered"
            /\ UNCHANGED <<idx, done, out>>
  <2>1. idx' = idx /\ done' = done /\ out' = out
    BY <1>11
  <2>2. sector_buf' = [j \in 0 .. SectorSize - 1 |->
            IF j \in Offset .. Offset + Chunk - 1 THEN <<calls, done + (j - Offset)>> ELSE buf[j]]
    BY <1>11 DEF Alter
  <2>3. sector_buf' \in SectorData
    <3>1. \A j \in Offset .. Offset + Chunk - 1 : <<calls, done + (j - Offset)>> \in Bytes
      BY <1>1, <1>4, <1>11, <1>12, NewByte
    <3>2. \A j \in 0 .. SectorSize - 1 : buf[j] \in Bytes
      BY <1>3 DEF SectorData
    <3> QED
      BY <2>2, <3>1, <3>2 DEF SectorData
  <2>4. Types'
    <3>1. TypeOK'
      BY <1>1, <1>2, <1>11, <2>1, <2>3 DEF Types, TypeOK, SectorData
    <3> QED
      BY <1>1, <1>2, <1>6, <2>1, <3>1 DEF Types
  <2>5. LoopInv'
    BY <1>1, <1>2, <1>4, <1>11, <1>12, <2>1, RequestKept, RoundKept DEF LoopInv, InLoop
  <2>6. ContentInv' /\ OutInv'
    BY <1>1, <1>2, <1>4, <1>7, <2>1, ContentKept, OutKept
  <2>7. CommandInv'
    <3>1. Offset' = Offset /\ Chunk' = Chunk
      BY <1>2, <2>1, RoundKept
    <3>2. \A b : SettledAt(req.drive, b)' = SettledAt(e, b)
      BY <1>2, <1>3, <1>7 DEF SettledAt
    <3>3. ASSUME ~lost, NEW j \in 0 .. SectorSize - 1
          PROVE  sector_buf'[j] = IF j \in Offset .. Offset + Chunk - 1
                                  THEN <<calls, done + (j - Offset)>>
                                  ELSE SettledAt(e, (idx * SectorSize) + j)
      BY <1>9, <2>2, <3>3
    <3> HIDE DEF e
    <3> QED
      BY <1>2, <1>11, <2>1, <3>1, <3>2, <3>3 DEF CommandInv
  <2> QED
    BY <1>8, <2>4, <2>5, <2>6, <2>7 DEF AtaInv
<1>13. CASE Beyond /\ pc' = "wild" /\ UNCHANGED <<idx, done, sector_buf, out>>
  <2>1. idx' = idx /\ done' = done /\ out' = out /\ sector_buf' = sector_buf /\ pc' = "wild"
    BY <1>13
  <2>2. Types'
    <3>1. TypeOK'
      BY <1>1, <1>2, <2>1 DEF Types, TypeOK
    <3> QED
      BY <1>1, <1>2, <1>6, <2>1, <3>1 DEF Types
  <2>3. LoopInv'
    BY <1>1, <1>2, <1>5, <1>13, <2>1, RequestKept DEF LoopInv, InLoop
  <2>4. ContentInv' /\ OutInv' /\ CommandInv'
    BY <2>1 DEF ContentInv, OutInv, CommandInv, InCall, InLoop
  <2> QED
    BY <1>8, <2>2, <2>3, <2>4 DEF AtaInv
<1> QED
  BY <1>10, <1>11, <1>13 DEF ReadData, buf

\* The data port takes the words of the sector.
LEMMA WriteDataStep ==
    ASSUME AtaInv, WriteData
    PROVE  AtaInv'
<1> DEFINE e == req.drive
           a == req.address
           takes == cmd[e].op = "write" /\ cmd[e].lba < Sectors[e]
           c == [op |-> "commit", lba |-> cmd[e].lba, data |-> sector_buf]
<1>1. Types /\ DriveInv /\ LoopInv /\ ContentInv /\ OutInv /\ CommandInv
  BY DEF AtaInv
<1>2. /\ kind' = kind /\ devices' = devices /\ probe' = probe /\ req' = req /\ calls' = calls
      /\ before' = before /\ disk' = disk /\ lost' = lost /\ sector_buf' = sector_buf /\ out' = out
      /\ pc = "writing" /\ ~busy[e] /\ NextSector
  BY DEF WriteData, Ready, callVars
<1>3. /\ cmd' = [cmd EXCEPT ![e] = IF takes THEN c ELSE cmd[e]]
      /\ busy' = [busy EXCEPT ![e] = takes]
  BY DEF WriteData, DataTo
<1>4. /\ e \in Drive /\ cmd \in [Drive -> Commands] /\ busy \in [Drive -> BOOLEAN]
      /\ disk[e] \in Content(e) /\ sector_buf \in SectorData
  BY <1>1 DEF Types, TypeOK, Content, SectorData
<1>5. pc \in InLoop /\ idx <= EndSector /\ pc \in InCall /\ req.op = "write" /\ ~Astray
  BY <1>1, <1>2 DEF LoopInv, InLoop, InCall
<1>6. /\ done' \in Nat /\ idx' \in 0 .. (Word \div SectorSize) /\ LoopInv'
      /\ a + done = First /\ a + done' = First + Chunk /\ pc' = "sector"
  BY <1>1, <1>2, <1>5, RoundEnds DEF NextSector
<1>7. takes => c \in Commands
  BY <1>4, CommandShape, NewCommands
<1>8. cmd[e].op # "commit"
  BY <1>1, <1>2, <1>4 DEF DriveInv
<1>9. takes \in BOOLEAN /\ c.op = "commit" /\ c.lba = cmd[e].lba /\ c.data = sector_buf
  BY Zenon
<1> HIDE DEF takes, c
<1>10. /\ cmd' \in [Drive -> Commands] /\ busy' \in [Drive -> BOOLEAN]
       /\ \A d \in Drive : d # e => cmd'[d] = cmd[d] /\ busy'[d] = busy[d]
       /\ takes => cmd'[e] = c /\ busy'[e]
       /\ ~takes => cmd'[e] = cmd[e]
  BY <1>3, <1>4, <1>7, <1>9
<1>11. Types'
  <2>1. TypeOK'
    BY <1>1, <1>2, <1>6, <1>10 DEF Types, TypeOK
  <2> QED
    BY <1>1, <1>2, <1>6, <1>10, <2>1 DEF Types
<1>12. DriveInv'
  BY <1>1, <1>2, <1>4, <1>8, <1>10 DEF DriveInv
<1>13. ContentInv'
  <2> SUFFICES ASSUME ~lost, NEW d \in Drive, NEW b \in 0 .. Capacity(d) - 1
               PROVE  Settled(d)'[b] =
                         IF Transferred(d, b)' THEN <<calls, b - a>> ELSE before[d][b]
    BY <1>2 DEF ContentInv
  <2>1. Settled(d)[b] = IF Transferred(d, b) THEN <<calls, b - a>> ELSE before[d][b]
    BY <1>1, <1>5 DEF ContentInv
  <2>2. CASE d # e
    <3>1. Settled(d)' = Settled(d)
      BY <1>2, <1>10, <2>2 DEF Settled
    <3>2. ~Transferred(d, b) /\ ~Transferred(d, b)'
      BY <1>2, <2>2 DEF Transferred
    <3> QED
      BY <2>1, <3>1, <3>2
  <2>3. CASE d = e
    <3>1. /\ Offset \in 0 .. SectorSize - 1 /\ Chunk \in Nat /\ Offset + Chunk <= SectorSize
          /\ First = (SectorSize * idx) + Offset /\ First \in Nat /\ idx \in Nat
          /\ a <= First /\ a \in Nat /\ b \in Nat
      BY <1>1, <1>5, Round, Sizes DEF Types
    <3>2. cmd[e].op = "write" /\ cmd[e].lba = idx
      BY <1>1, <1>2 DEF CommandInv
    <3>3. b \div SectorSize = idx => takes
      <4> DEFINE j == b % SectorSize
      <4>1. SUFFICES ASSUME b \div SectorSize = idx PROVE idx < Sectors[e]
        BY <3>2 DEF takes
      <4>2. j = b - (SectorSize * idx) /\ j \in 0 .. SectorSize - 1
        BY <3>1, <4>1, InSector, Quotient
      <4>3. SectorSize * idx \in Nat /\ idx * SectorSize = SectorSize * idx
        BY <3>1, Products
      <4> HIDE DEF j
      <4>4. (idx * SectorSize) + j = b
        BY <3>1, <4>2, <4>3
      <4>5. idx < Sectors[e] <=> (idx * SectorSize) + j < Capacity(e)
        BY <1>4, <3>1, <4>2, SectorBytes
      <4>6. b < Capacity(e)
        BY <1>4, <2>3, Sizes
      <4> QED
        BY <4>4, <4>5, <4>6
    <3>4. /\ Settled(d) = disk[e]
          /\ takes => Settled(d)' = Stored(disk[e], idx, sector_buf)
          /\ ~takes => Settled(d)' = disk[e]
      BY <1>2, <1>8, <1>9, <1>10, <2>3, <3>2 DEF Settled
    <3>5. Settled(d)'[b] = IF b \div SectorSize = idx THEN sector_buf[b % SectorSize]
                                                      ELSE Settled(d)[b]
      <4>1. b \in DOMAIN disk[e]
        BY <1>4, <2>3 DEF Content
      <4> QED
        BY <3>3, <3>4, <4>1 DEF Stored
    <3>6. Transferred(d, b) <=> a <= b /\ b < First
      BY <1>5, <1>6, <2>3 DEF Transferred
    <3>7. Transferred(d, b)' <=> a <= b /\ b < First + Chunk
      BY <1>2, <1>5, <1>6, <2>3 DEF Transferred
    <3>8. SectorSize * idx \in Nat /\ idx * SectorSize = SectorSize * idx
      BY <3>1, Products
    <3>9. CASE b \div SectorSize = idx
      <4> DEFINE j == b % SectorSize
      <4>1. j = b - (SectorSize * idx) /\ j \in 0 .. SectorSize - 1
            /\ SectorSize * idx <= b /\ b < (SectorSize * idx) + SectorSize
        BY <3>1, <3>9, InSector, Quotient
      <4>2. Settled(d)'[b] = sector_buf[j]
        BY <3>5, <3>9
      <4> HIDE DEF j
      <4>3. (idx * SectorSize) + j = b
        BY <3>1, <3>8, <4>1
      <4>4. sector_buf[j] = IF j \in Offset .. Offset + Chunk - 1
                            THEN <<calls, done + (j - Offset)>>
                            ELSE SettledAt(e, (idx * SectorSize) + j)
        BY <1>1, <1>2, <4>1 DEF CommandInv
      <4>5. CASE j \in Offset .. Offset + Chunk - 1
        <5>1. done + (j - Offset) = b - a
          <6> DEFINE x == SectorSize * idx
          <6>1. done \in Nat
            BY <1>1 DEF Types
          <6>2. x \in Nat /\ Offset \in Nat /\ a \in Nat /\ b \in Nat /\ j = b - x
            BY <3>1, <3>8, <4>1, Sizes
          <6>3. a + done = x + Offset
            BY <1>6, <3>1
          <6> HIDE DEF x, a
          <6> QED
            BY <6>1, <6>2, <6>3
        <5>2. Transferred(d, b)'
          BY <3>1, <3>7, <3>8, <4>1, <4>5, Sizes
        <5> QED
          BY <4>2, <4>4, <4>5, <5>1, <5>2
      <4>6. CASE j \notin Offset .. Offset + Chunk - 1
        <5>1. Transferred(d, b)' <=> Transferred(d, b)
          BY <3>1, <3>6, <3>7, <3>8, <4>1, <4>6, Sizes
        <5>2. sector_buf[j] = Settled(d)[b]
          <6>1. b < Capacity(d)
            BY Sizes
          <6> QED
            BY <2>3, <4>3, <4>4, <4>6, <6>1 DEF SettledAt
        <5> QED
          BY <2>1, <4>2, <5>1, <5>2
      <4> QED
        BY <4>5, <4>6
    <3>10. CASE b \div SectorSize # idx
      <4>1. ~(SectorSize * idx <= b /\ b < (SectorSize * idx) + SectorSize)
        BY <3>1, <3>10, InSector
      <4>2. Transferred(d, b)' <=> Transferred(d, b)
        BY <3>1, <3>6, <3>7, <3>8, <4>1, Sizes
      <4> QED
        BY <2>1, <3>5, <3>10, <4>2
    <3> QED
      BY <3>9, <3>10
  <2> QED
    BY <2>2, <2>3
<1>14. OutInv' /\ CommandInv'
  BY <1>2, <1>5, <1>6 DEF OutInv, CommandInv
<1> QED
  BY <1>6, <1>11, <1>12, <1>13, <1>14 DEF AtaInv

\* Steps that change nothing.
LEMMA StutterStep ==
    ASSUME AtaInv, UNCHANGED vars
    PROVE  AtaInv'
<1>1. Types /\ DriveInv /\ LoopInv /\ ContentInv /\ OutInv /\ CommandInv
  BY DEF AtaInv
<1>2. /\ kind' = kind /\ devices' = devices /\ probe' = probe /\ req' = req /\ calls' = calls
      /\ before' = before /\ disk' = disk /\ cmd' = cmd /\ busy' = busy /\ lost' = lost
      /\ pc' = pc /\ idx' = idx /\ done' = done /\ sector_buf' = sector_buf /\ out' = out
  BY DEF vars
<1>3. \A d : Settled(d)' = Settled(d)
  BY <1>2 DEF Settled
<1>4. Types' /\ DriveInv'
  BY <1>1, <1>2 DEF Types, TypeOK, DriveInv
<1>5. LoopInv'
  BY <1>1, <1>2, RequestKept, RoundKept DEF LoopInv
<1>6. ContentInv' /\ OutInv'
  BY <1>1, <1>2, <1>3, ContentKept, OutKept
<1>7. CommandInv'
  BY <1>1, <1>2, <1>3, RoundKept DEF CommandInv, SettledAt
<1> QED
  BY <1>4, <1>5, <1>6, <1>7 DEF AtaInv

LEMMA AtaInvNext ==
    ASSUME AtaInv, [Next]_vars
    PROVE  AtaInv'
<1>1. CASE Call
  BY <1>1, CallStep
<1>2. CASE \E d \in Drive : DriveReady(d)
  BY <1>2, DriveReadyStep
<1>3. CASE ata_init_device
  BY <1>3, ProbeStep
<1>4. CASE NoDeviceMemory \/ EndInit \/ Refuse \/ Accept \/ NoBuffer \/ EndLoop \/ Return
  BY <1>4, ControlStep
<1>5. CASE ReadCommand \/ WriteCommand
  BY <1>5, CommandStep
<1>6. CASE ReadData
  BY <1>6, ReadDataStep
<1>7. CASE WriteData
  BY <1>7, WriteDataStep
<1>8. CASE Poll \/ Rest \/ UNCHANGED vars
  <2>1. UNCHANGED vars
    BY <1>8 DEF Poll, Rest
  <2> QED
    BY <2>1, StutterStep
<1> QED
  BY <1>1, <1>2, <1>3, <1>4, <1>5, <1>6, <1>7, <1>8 DEF Next, Driver

\* AtaInv is an invariant.
LEMMA AtaInvHolds == Spec => []AtaInv
<1>1. AtaInv /\ [Next]_vars => AtaInv'
  BY AtaInvNext
<1> QED
  BY <1>1, AtaInvInit, PTL DEF Spec

-----------------------------------------------------------------------------
(* The theorems *)

\* For every size of drives and sectors and every request the copies of ata_read
\* and ata_write stay inside the sector buffer and inside the buffer of the
\* caller, whatever the drives do, unless it asks for nothing at address 0 or
\* wraps around into the sector it begins in; a call that returns has used all
\* of the caller's buffer or nothing.
THEOREM CopiesInBounds == Spec => []InBounds
<1>1. AtaInv => InBounds
  BY DEF AtaInv, Types, LoopInv, InBounds, BufferUsedExactly
<1> QED
  BY <1>1, AtaInvHolds, PTL

\* For every size of drives and sectors and every request, a call of ata_write
\* that returns and of which no command was lost leaves exactly the bytes of its
\* range at their addresses if it ends within the 32-bit size of the drive or
\* exactly at 2^32; any other, and a call of ata_read, leaves every drive as it was.
THEOREM WritesExact == Spec => []WriteExact
<1>1. AtaInv => WriteExact
  <2> SUFFICES ASSUME AtaInv, pc = "return", ~lost,
                      NEW d \in Drive, NEW b \in 0 .. Capacity(d) - 1
               PROVE  Settled(d)[b] =
                         IF req.op = "write" /\ Served /\ d = req.drive /\ Covers(b)
                         THEN <<calls, b - req.address>> ELSE before[d][b]
    BY DEF WriteExact
  <2>1. Settled(d)[b] = IF Transferred(d, b) THEN <<calls, b - req.address>> ELSE before[d][b]
    BY DEF AtaInv, ContentInv, InCall
  <2>2. done = IF Served THEN req.size ELSE 0
    BY DEF AtaInv, LoopInv
  <2>3. b \in Nat /\ req.address \in Nat /\ req.size \in Nat
    BY Sizes DEF AtaInv, Types
  <2>4. Transferred(d, b) <=> req.op = "write" /\ Served /\ d = req.drive /\ Covers(b)
    BY <2>2, <2>3 DEF Transferred, Covers
  <2> QED
    BY <2>1, <2>4
<1> QED
  BY <1>1, AtaInvHolds, PTL

\* For every size of drives and sectors and every request, a call of ata_read
\* that returns and of which no command was lost delivers exactly the bytes of its
\* range, or nothing where it does not end within the 32-bit size of the drive
\* (one that ends at 2^32 is served, with garbage behind the end of the drive).
THEOREM ReadsExact == Spec => []ReadExact
<1>1. AtaInv => ReadExact
  <2> SUFFICES ASSUME AtaInv, pc = "return", req.op = "read", ~lost
               PROVE  out = IF Served
                            THEN [j \in 1 .. req.size |-> Original(req.address + j - 1)]
                            ELSE <<>>
    BY DEF ReadExact
  <2>1. /\ Len(out) = done
        /\ \A j \in 1 .. done : out[j] = Original(req.address + j - 1)
    BY DEF AtaInv, OutInv, InCall
  <2>2. done = IF Served THEN req.size ELSE 0
    BY DEF AtaInv, LoopInv
  <2>3. out \in Seq(Bytes)
    BY DEF AtaInv, Types, TypeOK
  <2>4. CASE Served
    <3> DEFINE f == [j \in 1 .. req.size |-> Original(req.address + j - 1)]
    <3>1. Len(out) = req.size /\ \A j \in 1 .. req.size : out[j] = f[j]
      BY <2>1, <2>2, <2>4
    <3>2. out = [j \in 1 .. req.size |-> out[j]]
      BY <2>3, <3>1
    <3>3. f = [j \in 1 .. req.size |-> f[j]]
      OBVIOUS
    <3> HIDE DEF f
    <3>4. out = f
      BY <3>1, <3>2, <3>3
    <3> QED
      BY <2>4, <3>4 DEF f
  <2>5. CASE ~Served
    BY <2>1, <2>2, <2>3, <2>5
  <2> QED
    BY <2>4, <2>5
<1> QED
  BY <1>1, AtaInvHolds, PTL
=============================================================================
