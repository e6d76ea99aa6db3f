---------------------------- MODULE BufferProofs ----------------------------
(***************************************************************************)
(* The circular buffer and its two users, for every capacity: what its     *)
(* operations do to its contents; the kernel log, which holds the newest   *)
(* records whatever the number of messages; and keyboard input, for every  *)
(* placement of the interrupts.                                            *)
(***************************************************************************)
EXTENDS MessageLog, Tty, SequenceTheorems, WellFoundedInduction, TLAPS

\* An index inside the buffer stays; one turn beyond it comes back by one.
LEMMA ModSlot ==
    ASSUME NEW n \in Nat \ {0}, NEW x \in Nat, x < n + n
    PROVE  x % n = IF x < n THEN x ELSE x - n
<1>1. CASE x < n
  BY <1>1
<1>2. CASE ~(x < n)
  <2>1. (x - n) + n * 1 = x /\ x - n \in 0 .. n - 1
    BY <1>2
  <2> QED BY <1>2, <2>1
<1> QED BY <1>1, <1>2

\* The slot of element i of a buffer.
LEMMA SlotOf ==
    ASSUME NEW n \in Nat \ {0}, NEW i \in 0 .. n, NEW head \in 0 .. n - 1
    PROVE  /\ (i + head) % n = IF i + head < n THEN i + head ELSE i + head - n
           /\ (i + head) % n \in 0 .. n - 1
<1> DEFINE x == i + head
<1>1. x \in Nat /\ x < n + n
  OBVIOUS
<1> HIDE DEF x
<1>2. x % n = IF x < n THEN x ELSE x - n
  BY <1>1, ModSlot
<1>3. x % n \in 0 .. n - 1
  BY <1>1, <1>2
<1> QED BY <1>2, <1>3 DEF x

\* Slots of different elements of a buffer are different.
LEMMA SlotsDiffer ==
    ASSUME NEW n \in Nat \ {0}, NEW head \in 0 .. n - 1,
           NEW i \in 0 .. n - 1, NEW j \in 0 .. n - 1, i # j
    PROVE  (i + head) % n # (j + head) % n
<1>1. /\ (i + head) % n = IF i + head < n THEN i + head ELSE i + head - n
      /\ (j + head) % n = IF j + head < n THEN j + head ELSE j + head - n
  <2>1. i \in 0 .. n /\ j \in 0 .. n
    OBVIOUS
  <2> QED BY <2>1, SlotOf
<1> QED BY <1>1

\* The next slot is a slot.
LEMMA NextSlotIn ==
    ASSUME NEW n \in Nat \ {0}, NEW i \in 0 .. n - 1
    PROVE  /\ (i + 1) % n \in 0 .. n - 1
           /\ (i + 1) % n = IF i + 1 < n THEN i + 1 ELSE 0
<1> DEFINE x == i + 1
<1>1. x \in Nat /\ x < n + n
  OBVIOUS
<1> HIDE DEF x
<1>2. x % n = IF x < n THEN x ELSE x - n
  BY <1>1, ModSlot
<1> QED BY <1>2 DEF x

\* Advancing the head by one slot is skipping one element.
LEMMA SlotAfter ==
    ASSUME NEW n \in Nat \ {0}, NEW i \in 0 .. n - 1, NEW head \in 0 .. n - 1
    PROVE  /\ (i + ((head + 1) % n)) % n = ((i + 1) + head) % n
           /\ (((i + head) % n) + 1) % n = ((i + 1) + head) % n
<1> DEFINE j == i + 1
           next == (head + 1) % n
           slot == (i + head) % n
<1>1. i \in 0 .. n /\ j \in 0 .. n
  OBVIOUS
<1>2. /\ next \in 0 .. n - 1
      /\ next = IF head + 1 < n THEN head + 1 ELSE 0
  BY NextSlotIn
<1>3. /\ slot \in 0 .. n - 1
      /\ slot = IF i + head < n THEN i + head ELSE i + head - n
  BY <1>1, SlotOf
<1> HIDE DEF next, slot
<1>4. (slot + 1) % n = IF slot + 1 < n THEN slot + 1 ELSE 0
  BY <1>3, NextSlotIn
<1>5. (i + next) % n = IF i + next < n THEN i + next ELSE i + next - n
  BY <1>1, <1>2, SlotOf
<1>6. j = i + 1
  OBVIOUS
<1> HIDE DEF j
<1>7. (j + head) % n = IF j + head < n THEN j + head ELSE j + head - n
  BY <1>1, SlotOf
<1>8. (i + next) % n = (j + head) % n
  BY <1>2, <1>5, <1>6, <1>7
<1>9. (slot + 1) % n = (j + head) % n
  BY <1>3, <1>4, <1>6, <1>7
<1> QED BY <1>8, <1>9 DEF j, next, slot

\* The fields of a buffer.
LEMMA BufferFields ==
    ASSUME NEW n \in Nat \ {0}, NEW Element, NEW cb \in Buffer(n, Element)
    PROVE  /\ cb.buffer \in [0 .. n - 1 -> Element]
           /\ cb.capacity = n
           /\ cb.head \in 0 .. n - 1 /\ cb.tail \in 0 .. n - 1
           /\ cb.size \in 0 .. n
BY DEF Buffer

\* A new buffer is empty.
LEMMA InitBuffer ==
    ASSUME NEW n \in Nat \ {0}, NEW Element, NEW zero \in Element
    PROVE  /\ circular_buffer_init(n, zero) \in Buffer(n, Element)
           /\ circular_buffer_init(n, zero).size = 0
           /\ TailFollows(circular_buffer_init(n, zero))
<1> DEFINE cb == circular_buffer_init(n, zero)
<1>1. cb \in Buffer(n, Element)
  BY DEF circular_buffer_init, Buffer
<1>2. cb.size = 0 /\ cb.head = 0 /\ cb.tail = 0 /\ cb.capacity = n
  BY DEF circular_buffer_init
<1>3. (0 + 0) % n = 0
  BY SlotOf
<1> QED BY <1>1, <1>2, <1>3 DEF TailFollows

\* The fields of a buffer after circular_buffer_enqueue, whatever its tail.
LEMMA EnqueueFields ==
    ASSUME NEW n \in Nat \ {0}, NEW Element, NEW cb \in Buffer(n, Element),
           ~circular_buffer_full(cb), NEW e \in Element
    PROVE  LET new == circular_buffer_enqueue(cb, e)
           IN  /\ new \in Buffer(n, Element)
               /\ new.size = cb.size + 1 /\ new.head = cb.head
               /\ new.capacity = n /\ new.tail = (cb.tail + 1) % n
               /\ new.buffer = [cb.buffer EXCEPT ![cb.tail] = e]
<1> DEFINE new == circular_buffer_enqueue(cb, e)
           b == [cb.buffer EXCEPT ![cb.tail] = e]
           s == cb.size + 1
           t == NextSlot(cb, cb.tail)
<1>1. /\ cb.buffer \in [0 .. n - 1 -> Element] /\ cb.capacity = n
      /\ cb.head \in 0 .. n - 1 /\ cb.tail \in 0 .. n - 1 /\ cb.size \in 0 .. n
  BY BufferFields
<1>2. s \in 0 .. n
  BY <1>1 DEF circular_buffer_full
<1>3. b \in [0 .. n - 1 -> Element] /\ t \in 0 .. n - 1
  BY <1>1, NextSlotIn DEF NextSlot
<1>4. new = [cb EXCEPT !.buffer = b, !.size = s, !.tail = t]
  BY <1>1 DEF circular_buffer_enqueue
<1> HIDE DEF b, s, t, new
<1>5. /\ new \in Buffer(n, Element) /\ new.size = s /\ new.head = cb.head
      /\ new.capacity = n /\ new.buffer = b /\ new.tail = t
  BY <1>1, <1>2, <1>3, <1>4 DEF Buffer
<1>6. t = (cb.tail + 1) % n
  BY <1>1 DEF t, NextSlot
<1> QED BY <1>5, <1>6 DEF new, b, s

\* The same, with the slots one by one.
LEMMA EnqueueType ==
    ASSUME NEW n \in Nat \ {0}, NEW Element, NEW cb \in Buffer(n, Element),
           ~circular_buffer_full(cb), NEW e \in Element
    PROVE  LET new == circular_buffer_enqueue(cb, e)
           IN  /\ new \in Buffer(n, Element)
               /\ new.size = cb.size + 1 /\ new.head = cb.head
               /\ new.capacity = n /\ new.tail = (cb.tail + 1) % n
               /\ \A i \in 0 .. n - 1 :
                     new.buffer[i] = IF i = cb.tail THEN e ELSE cb.buffer[i]
<1> DEFINE new == circular_buffer_enqueue(cb, e)
<1>1. /\ new \in Buffer(n, Element)
      /\ new.size = cb.size + 1 /\ new.head = cb.head
      /\ new.capacity = n /\ new.tail = (cb.tail + 1) % n
      /\ new.buffer = [cb.buffer EXCEPT ![cb.tail] = e]
  BY EnqueueFields
<1>2. cb.buffer \in [0 .. n - 1 -> Element]
  BY BufferFields
<1> HIDE DEF new
<1>3. \A i \in 0 .. n - 1 :
         new.buffer[i] = IF i = cb.tail THEN e ELSE cb.buffer[i]
  BY <1>1, <1>2
<1> QED BY <1>1, <1>3 DEF new

(***************************************************************************)
(* circular_buffer_enqueue into a buffer that is not full adds the element *)
(* behind the others and leaves them where they are.                       *)
(***************************************************************************)
LEMMA EnqueueAppends ==
    ASSUME NEW n \in Nat \ {0}, NEW Element, NEW cb \in Buffer(n, Element),
           TailFollows(cb), ~circular_buffer_full(cb), NEW e \in Element
    PROVE  LET new == circular_buffer_enqueue(cb, e)
           IN  /\ new \in Buffer(n, Element)
               /\ new.size = cb.size + 1 /\ new.head = cb.head
               /\ TailFollows(new)
               /\ circular_buffer_get(new, cb.size) = e
               /\ \A i \in 0 .. cb.size - 1 :
                     circular_buffer_get(new, i) = circular_buffer_get(cb, i)
<1> DEFINE new == circular_buffer_enqueue(cb, e)
<1>1. /\ cb.buffer \in [0 .. n - 1 -> Element] /\ cb.capacity = n
      /\ cb.head \in 0 .. n - 1 /\ cb.tail \in 0 .. n - 1 /\ cb.size \in 0 .. n
  BY BufferFields
<1>2. cb.size \in 0 .. n - 1
  BY <1>1 DEF circular_buffer_full
<1>5. /\ new.buffer = [cb.buffer EXCEPT ![cb.tail] = e]
      /\ new.size = cb.size + 1 /\ new.head = cb.head /\ new.capacity = n
      /\ new.tail = (cb.tail + 1) % n
      /\ new \in Buffer(n, Element)
  BY <1>1, EnqueueFields
<1> HIDE DEF new
<1>7. /\ cb.tail = (cb.size + cb.head) % n
      /\ cb.tail = IF cb.size + cb.head < n THEN cb.size + cb.head
                   ELSE cb.size + cb.head - n
  <2>1. cb.tail = (cb.size + cb.head) % n
    BY <1>1 DEF TailFollows
  <2>2. cb.size \in 0 .. n
    BY <1>1
  <2> QED BY <2>1, <2>2, <1>1, SlotOf
<1>8. TailFollows(new)
  <2>1. (cb.tail + 1) % n = ((cb.size + 1) + cb.head) % n
    <3>1. (((cb.size + cb.head) % n) + 1) % n = ((cb.size + 1) + cb.head) % n
      BY <1>1, <1>2, SlotAfter
    <3> QED BY <3>1, <1>7
  <2>2. new.head + new.size = (cb.size + 1) + cb.head
    BY <1>1, <1>5
  <2> QED BY <1>5, <2>1, <2>2 DEF TailFollows
<1>9. circular_buffer_get(new, cb.size) = e
  BY <1>1, <1>5, <1>7 DEF circular_buffer_get
<1>10. ASSUME NEW i \in 0 .. cb.size - 1
       PROVE  circular_buffer_get(new, i) = circular_buffer_get(cb, i)
  <2>1. i \in 0 .. n - 1 /\ i # cb.size
    BY <1>2
  <2>2. (i + cb.head) % n # (cb.size + cb.head) % n
    BY <1>1, <1>2, <2>1, SlotsDiffer
  <2>3. i \in 0 .. n
    BY <2>1
  <2>4. (i + cb.head) % n \in 0 .. n - 1
    BY <1>1, <2>3, SlotOf
  <2> DEFINE slot == (i + cb.head) % n
  <2>5. slot \in 0 .. n - 1 /\ slot # cb.tail
    BY <1>7, <2>2, <2>4
  <2>6. circular_buffer_get(new, i) = new.buffer[slot]
    BY <1>5 DEF circular_buffer_get
  <2>7. circular_buffer_get(cb, i) = cb.buffer[slot]
    BY <1>1 DEF circular_buffer_get
  <2> HIDE DEF slot
  <2>8. new.buffer[slot] = cb.buffer[slot]
    BY <1>1, <1>5, <2>5
  <2> QED BY <2>6, <2>7, <2>8
<1> QED BY <1>5, <1>8, <1>9, <1>10 DEF new

(***************************************************************************)
(* circular_buffer_dequeue of a buffer that is not empty drops the first   *)
(* element and keeps the others in order.                                  *)
(***************************************************************************)
LEMMA DequeueDropsFirst ==
    ASSUME NEW n \in Nat \ {0}, NEW Element, NEW cb \in Buffer(n, Element),
           TailFollows(cb), ~circular_buffer_empty(cb)
    PROVE  LET new == circular_buffer_dequeue(cb)
           IN  /\ new \in Buffer(n, Element)
               /\ new.size = cb.size - 1
               /\ TailFollows(new)
               /\ \A i \in 0 .. new.size - 1 :
                     circular_buffer_get(new, i) = circular_buffer_get(cb, i + 1)
<1> DEFINE new == circular_buffer_dequeue(cb)
<1>1. /\ cb.buffer \in [0 .. n - 1 -> Element] /\ cb.capacity = n
      /\ cb.head \in 0 .. n - 1 /\ cb.tail \in 0 .. n - 1 /\ cb.size \in 0 .. n
  BY BufferFields
<1>2. cb.size \in 1 .. n
  BY <1>1 DEF circular_buffer_empty
<1>3. new = [cb EXCEPT !.size = @ - 1, !.head = NextSlot(cb, @)]
  BY DEF circular_buffer_dequeue
<1>4. /\ NextSlot(cb, cb.head) = (cb.head + 1) % n
      /\ (cb.head + 1) % n \in 0 .. n - 1
      /\ (cb.head + 1) % n = IF cb.head + 1 < n THEN cb.head + 1 ELSE 0
  BY <1>1, NextSlotIn DEF NextSlot
<1>5. /\ new.buffer = cb.buffer /\ new.size = cb.size - 1 /\ new.capacity = n
      /\ new.head = (cb.head + 1) % n /\ new.tail = cb.tail
  BY <1>1, <1>3, <1>4 DEF Buffer
<1>6. new \in Buffer(n, Element)
  <2> DEFINE s == cb.size - 1
             h == NextSlot(cb, cb.head)
  <2>1. s \in 0 .. n /\ h \in 0 .. n - 1
    BY <1>1, <1>2, <1>4
  <2>2. new = [cb EXCEPT !.size = s, !.head = h]
    BY <1>3
  <2> HIDE DEF s, h, new
  <2> QED BY <2>1, <2>2 DEF Buffer
<1> HIDE DEF new
<1>7. \A i \in 0 .. n - 1 : (i + new.head) % n = ((i + 1) + cb.head) % n
  <2>1. \A i \in 0 .. n - 1 : (i + ((cb.head + 1) % n)) % n = ((i + 1) + cb.head) % n
    BY <1>1, SlotAfter
  <2> DEFINE h == (cb.head + 1) % n
  <2>2. new.head = h
    BY <1>5
  <2>3. \A i \in 0 .. n - 1 : (i + h) % n = ((i + 1) + cb.head) % n
    BY <2>1
  <2> HIDE DEF h
  <2> QED BY <2>2, <2>3
<1>8. TailFollows(new)
  <2>1. ((cb.size - 1) + new.head) % n = (cb.size + cb.head) % n
    <3>1. cb.size - 1 \in 0 .. n - 1 /\ (cb.size - 1) + 1 = cb.size
      BY <1>2
    <3> QED BY <1>7, <3>1
  <2>2. new.head \in Nat
    BY <1>4, <1>5
  <2>3. /\ new.head + new.size = (cb.size - 1) + new.head
        /\ cb.head + cb.size = cb.size + cb.head
    BY <1>1, <1>2, <1>5, <2>2
  <2>4. cb.tail = (cb.head + cb.size) % n /\ new.tail = cb.tail /\ new.capacity = n
    BY <1>1, <1>5, Zenon DEF TailFollows
  <2>5. new.tail = (new.head + new.size) % new.capacity
    BY <2>1, <2>3, <2>4, Zenon
  <2> QED BY <2>5 DEF TailFollows
<1>9. ASSUME NEW i \in 0 .. new.size - 1
      PROVE  circular_buffer_get(new, i) = circular_buffer_get(cb, i + 1)
  <2>1. i \in 0 .. n - 1
    BY <1>2, <1>5
  <2>2. (i + new.head) % n = ((i + 1) + cb.head) % n
    BY <1>7, <2>1
  <2> QED BY <1>1, <1>5, <2>2 DEF circular_buffer_get
<1> QED BY <1>5, <1>6, <1>8, <1>9 DEF new

\* The contents of a buffer are a sequence of its elements.
LEMMA ContentsType ==
    ASSUME NEW n \in Nat \ {0}, NEW Element, NEW cb \in Buffer(n, Element)
    PROVE  /\ Contents(cb) \in Seq(Element)
           /\ Len(Contents(cb)) = cb.size
           /\ \A i \in 1 .. cb.size : Contents(cb)[i] = circular_buffer_get(cb, i - 1)
<1>1. /\ cb.buffer \in [0 .. n - 1 -> Element] /\ cb.capacity = n
      /\ cb.head \in 0 .. n - 1 /\ cb.size \in 0 .. n
  BY BufferFields
<1>2. \A i \in 1 .. cb.size : circular_buffer_get(cb, i - 1) \in Element
  <2> TAKE i \in 1 .. cb.size
  <2>1. i - 1 \in 0 .. n
    BY <1>1
  <2>2. ((i - 1) + cb.head) % n \in 0 .. n - 1
    BY <1>1, <2>1, SlotOf
  <2> QED BY <1>1, <2>2 DEF circular_buffer_get
<1>3. Contents(cb) \in [1 .. cb.size -> Element]
  BY <1>2 DEF Contents
<1>4. cb.size \in Nat
  BY <1>1
<1>5. Contents(cb) \in Seq(Element) /\ Len(Contents(cb)) = cb.size
  BY <1>3, <1>4
<1> QED BY <1>5 DEF Contents

\* circular_buffer_enqueue appends to the contents.
LEMMA EnqueueContents ==
    ASSUME NEW n \in Nat \ {0}, NEW Element, NEW cb \in Buffer(n, Element),
           TailFollows(cb), ~circular_buffer_full(cb), NEW e \in Element
    PROVE  Contents(circular_buffer_enqueue(cb, e)) = Append(Contents(cb), e)
<1> DEFINE new == circular_buffer_enqueue(cb, e)
<1>1. /\ new \in Buffer(n, Element)
      /\ new.size = cb.size + 1 /\ new.head = cb.head
      /\ TailFollows(new)
      /\ circular_buffer_get(new, cb.size) = e
      /\ \A i \in 0 .. cb.size - 1 :
            circular_buffer_get(new, i) = circular_buffer_get(cb, i)
  BY EnqueueAppends
<1>2. cb.size \in Nat
  <2>1. cb.size \in 0 .. n
    BY BufferFields
  <2> QED BY <2>1
<1> HIDE DEF new
<1> DEFINE s == Contents(new)
           t == Append(Contents(cb), e)
<1>3. /\ s \in Seq(Element) /\ Len(s) = cb.size + 1
      /\ \A i \in 1 .. cb.size + 1 : s[i] = circular_buffer_get(new, i - 1)
  BY <1>1, ContentsType
<1>4. /\ Contents(cb) \in Seq(Element) /\ Len(Contents(cb)) = cb.size
      /\ \A i \in 1 .. cb.size : Contents(cb)[i] = circular_buffer_get(cb, i - 1)
  BY ContentsType
<1>5. /\ t \in Seq(Element) /\ Len(t) = cb.size + 1 /\ t[cb.size + 1] = e
      /\ \A i \in 1 .. cb.size : t[i] = Contents(cb)[i]
  BY <1>2, <1>4
<1>6. ASSUME NEW i \in 1 .. cb.size + 1 PROVE s[i] = t[i]
  <2>1. CASE i = cb.size + 1
    <3>1. i - 1 = cb.size
      BY <1>2, <2>1
    <3> QED BY <1>1, <1>3, <1>5, <2>1, <3>1
  <2>2. CASE i # cb.size + 1
    <3>1. i \in 1 .. cb.size /\ i - 1 \in 0 .. cb.size - 1
      BY <1>2, <2>2
    <3> QED BY <1>1, <1>3, <1>4, <1>5, <3>1
  <2> QED BY <2>1, <2>2
<1> HIDE DEF s, t
<1>7. s = t
  BY <1>3, <1>5, <1>6, SeqEqual
<1> QED BY <1>7 DEF s, t, new

\* circular_buffer_dequeue removes the first of the contents.
LEMMA DequeueContents ==
    ASSUME NEW n \in Nat \ {0}, NEW Element, NEW cb \in Buffer(n, Element),
           TailFollows(cb), ~circular_buffer_empty(cb)
    PROVE  /\ Contents(cb) # <<>>
           /\ Head(Contents(cb)) = cb.buffer[cb.head]
           /\ Contents(circular_buffer_dequeue(cb)) = Tail(Contents(cb))
<1> DEFINE new == circular_buffer_dequeue(cb)
<1>1. /\ new \in Buffer(n, Element)
      /\ new.size = cb.size - 1
      /\ TailFollows(new)
      /\ \A i \in 0 .. new.size - 1 :
            circular_buffer_get(new, i) = circular_buffer_get(cb, i + 1)
  BY DequeueDropsFirst
<1>2. cb.size \in Nat \ {0} /\ cb.head \in 0 .. n - 1 /\ cb.capacity = n
  <2>1. cb.size \in 0 .. n
    BY BufferFields
  <2>2. cb.head \in 0 .. n - 1 /\ cb.capacity = n
    BY BufferFields
  <2> QED BY <2>1, <2>2 DEF circular_buffer_empty
<1> HIDE DEF new
<1> DEFINE s == Contents(new)
           t == Tail(Contents(cb))
<1>3. /\ s \in Seq(Element) /\ Len(s) = cb.size - 1
      /\ \A i \in 1 .. cb.size - 1 : s[i] = circular_buffer_get(new, i - 1)
  BY <1>1, ContentsType
<1>4. /\ Contents(cb) \in Seq(Element) /\ Len(Contents(cb)) = cb.size
      /\ \A i \in 1 .. cb.size : Contents(cb)[i] = circular_buffer_get(cb, i - 1)
  BY ContentsType
<1>5. Contents(cb) # <<>>
  BY <1>2, <1>4
<1>6. Head(Contents(cb)) = cb.buffer[cb.head]
  <2>1. Head(Contents(cb)) = circular_buffer_get(cb, 1 - 1)
    BY <1>2, <1>4, <1>5
  <2>2. (0 + cb.head) % n = cb.head
    <3> DEFINE z == 0
    <3>1. z \in 0 .. n /\ z = 0
      OBVIOUS
    <3> HIDE DEF z
    <3>2. (z + cb.head) % n = IF z + cb.head < n THEN z + cb.head ELSE z + cb.head - n
      BY <1>2, <3>1, SlotOf
    <3>3. z + cb.head = cb.head
      BY <1>2, <3>1
    <3>4. (z + cb.head) % n = cb.head
      BY <1>2, <3>2, <3>3
    <3> QED BY <3>1, <3>4
  <2> QED BY <1>2, <2>1, <2>2 DEF circular_buffer_get
<1>7. /\ t \in Seq(Element) /\ Len(t) = cb.size - 1
      /\ \A i \in 1 .. cb.size - 1 : t[i] = Contents(cb)[i + 1]
  BY <1>2, <1>4, <1>5
<1>8. ASSUME NEW i \in 1 .. cb.size - 1 PROVE s[i] = t[i]
  <2>1. /\ i - 1 \in 0 .. new.size - 1 /\ i + 1 \in 1 .. cb.size
        /\ (i - 1) + 1 = (i + 1) - 1
    BY <1>1, <1>2
  <2> QED BY <1>1, <1>3, <1>4, <1>7, <2>1
<1> HIDE DEF s, t
<1>9. s = t
  BY <1>3, <1>7, <1>8, SeqEqual
<1> QED BY <1>5, <1>6, <1>9 DEF s, t, new

-----------------------------------------------------------------------------
(* The kernel log *)

\* The records kmessage builds, and the one memset leaves, are records.
LEMMA RecordsAreRecords ==
    /\ Blank \in Record
    /\ \A level \in Levels, length \in Lengths : LogRecord(level, length) \in Record
BY LogAssumption DEF Blank, Record, LogRecord

\* A new log holds the newest records: none.
LEMMA EmptyLog ==
    LET cb == circular_buffer_init(MSG_BUFFER_SIZE, Blank)
    IN  /\ cb \in Buffer(MSG_BUFFER_SIZE, Record) /\ cb.size = 0 /\ TailFollows(cb)
        /\ Len(<<>>) = 0 /\ <<>> \in Seq(Record)
<1>1. MSG_BUFFER_SIZE \in Nat \ {0}
  BY LogAssumption
<1> QED BY <1>1, RecordsAreRecords, InitBuffer

\* The log is empty when the kernel starts.
LEMMA LogInitInv == LogInit => LogInv
<1> SUFFICES ASSUME LogInit PROVE LogInv
  OBVIOUS
<1>1. /\ log \in Buffer(MSG_BUFFER_SIZE, Record) /\ log.size = 0 /\ TailFollows(log)
      /\ written = <<>> /\ Len(written) = 0 /\ written \in Seq(Record)
  BY EmptyLog DEF LogInit
<1>2. up \in BOOLEAN
  BY DEF LogInit
<1>3. HoldsNewest
  BY <1>1, LogAssumption DEF HoldsNewest
<1> QED BY <1>1, <1>2, <1>3 DEF LogInv, LogTypeOK

(***************************************************************************)
(* The log with room for one more record: kmessage drops the oldest record *)
(* of a full log, and the others stay the newest.                          *)
(***************************************************************************)
LEMMA MakeRoom ==
    ASSUME LogInv
    PROVE  LET space == IF circular_buffer_full(log)
                        THEN circular_buffer_dequeue(log) ELSE log
           IN  /\ space \in Buffer(MSG_BUFFER_SIZE, Record)
               /\ TailFollows(space) /\ ~circular_buffer_full(space)
               /\ space.size + 1 = IF Len(written) + 1 < MSG_BUFFER_SIZE
                                   THEN Len(written) + 1 ELSE MSG_BUFFER_SIZE
               /\ space.size <= Len(written)
               /\ \A i \in 0 .. space.size - 1 :
                    circular_buffer_get(space, i) =
                        written[(Len(written) - space.size) + (i + 1)]
<1> DEFINE space == IF circular_buffer_full(log)
                    THEN circular_buffer_dequeue(log) ELSE log
           N == MSG_BUFFER_SIZE
           L == Len(written)
<1>1. /\ N \in Nat \ {0} /\ L \in Nat
      /\ log \in Buffer(N, Record) /\ TailFollows(log)
      /\ log.size \in 0 .. N /\ log.capacity = N
      /\ log.size = IF L < N THEN L ELSE N
  BY LogAssumption, BufferFields DEF LogInv, LogTypeOK, HoldsNewest
<1>2. \A i \in 0 .. log.size - 1 :
        circular_buffer_get(log, i) = written[(L - log.size) + (i + 1)]
  <2> TAKE i \in 0 .. log.size - 1
  <2>1. i + 1 \in 1 .. log.size /\ (i + 1) - 1 = i
    BY <1>1
  <2>2. Contents(log)[i + 1] = written[Dropped + (i + 1)]
    BY <2>1 DEF LogInv, HoldsNewest
  <2>3. Contents(log)[i + 1] = circular_buffer_get(log, i)
    BY <2>1 DEF Contents
  <2> QED BY <2>2, <2>3 DEF Dropped
<1>3. CASE ~circular_buffer_full(log)
  <2>1. space = log
    BY <1>3
  <2>2. log.size # N
    BY <1>1, <1>3 DEF circular_buffer_full
  <2> HIDE DEF space
  <2>3. /\ space \in Buffer(N, Record) /\ TailFollows(space)
        /\ ~circular_buffer_full(space)
        /\ space.size + 1 = IF L + 1 < N THEN L + 1 ELSE N
        /\ space.size <= L
    BY <1>1, <1>3, <2>1, <2>2
  <2>4. \A i \in 0 .. space.size - 1 :
          circular_buffer_get(space, i) = written[(L - space.size) + (i + 1)]
    BY <1>2, <2>1
  <2> QED BY <2>3, <2>4 DEF space
<1>4. CASE circular_buffer_full(log)
  <2>1. space = circular_buffer_dequeue(log)
    BY <1>4
  <2>2. log.size = N /\ ~circular_buffer_empty(log)
    BY <1>1, <1>4 DEF circular_buffer_full, circular_buffer_empty
  <2> HIDE DEF space
  <2>3. /\ space \in Buffer(N, Record) /\ space.size = log.size - 1 /\ TailFollows(space)
        /\ \A i \in 0 .. space.size - 1 :
              circular_buffer_get(space, i) = circular_buffer_get(log, i + 1)
    BY <1>1, <2>1, <2>2, DequeueDropsFirst
  <2>4. ~circular_buffer_full(space)
    <3>1. space.capacity = N
      BY <1>1, <2>3, BufferFields
    <3> QED BY <1>1, <2>2, <2>3, <3>1 DEF circular_buffer_full
  <2>5. ASSUME NEW i \in 0 .. space.size - 1
        PROVE  circular_buffer_get(space, i) = written[(L - space.size) + (i + 1)]
    <3>1. i + 1 \in 0 .. log.size - 1
      BY <1>1, <2>3
    <3>2. circular_buffer_get(log, i + 1) = written[(L - log.size) + ((i + 1) + 1)]
      BY <1>2, <3>1
    <3>3. (L - log.size) + ((i + 1) + 1) = (L - space.size) + (i + 1)
      BY <1>1, <2>3
    <3> QED BY <2>3, <3>2, <3>3
  <2>6. /\ space.size + 1 = IF L + 1 < N THEN L + 1 ELSE N
        /\ space.size <= L
    BY <1>1, <2>2, <2>3
  <2> QED BY <2>3, <2>4, <2>5, <2>6 DEF space
<1> QED BY <1>3, <1>4

\* A message leaves the log with the newest records.
LEMMA LogMessageInv ==
    ASSUME LogInv, NEW level \in Levels, NEW length \in Lengths,
           kmessage(level, length)
    PROVE  LogInv'
<1> DEFINE space == IF circular_buffer_full(log)
                    THEN circular_buffer_dequeue(log) ELSE log
           N == MSG_BUFFER_SIZE
           L == Len(written)
           e == LogRecord(level, length)
<1>1. /\ N \in Nat \ {0} /\ L \in Nat /\ e \in Record /\ written \in Seq(Record)
      /\ up \in BOOLEAN
  BY LogAssumption, RecordsAreRecords DEF LogInv, LogTypeOK
<1>2. /\ log' = circular_buffer_enqueue(space, e)
      /\ written' = Append(written, e) /\ up' = up
  BY DEF kmessage
<1>3. /\ space \in Buffer(N, Record)
      /\ TailFollows(space) /\ ~circular_buffer_full(space)
      /\ space.size + 1 = IF L + 1 < N THEN L + 1 ELSE N
      /\ space.size <= L
      /\ \A i \in 0 .. space.size - 1 :
           circular_buffer_get(space, i) = written[(L - space.size) + (i + 1)]
  BY MakeRoom
<1>0. up /\ up'
  BY DEF kmessage
<1> HIDE DEF space, e, N
<1>10. /\ N \in Nat \ {0} /\ space \in Buffer(N, Record) /\ e \in Record
       /\ TailFollows(space) /\ ~circular_buffer_full(space)
  BY <1>1, <1>3
<1>4. /\ log' \in Buffer(N, Record) /\ log'.size = space.size + 1 /\ TailFollows(log')
      /\ circular_buffer_get(log', space.size) = e
      /\ \A i \in 0 .. space.size - 1 :
            circular_buffer_get(log', i) = circular_buffer_get(space, i)
  <2> DEFINE cb == circular_buffer_enqueue(space, e)
  <2>1. /\ cb \in Buffer(N, Record) /\ cb.size = space.size + 1 /\ TailFollows(cb)
        /\ circular_buffer_get(cb, space.size) = e
        /\ \A i \in 0 .. space.size - 1 :
              circular_buffer_get(cb, i) = circular_buffer_get(space, i)
    BY <1>10, EnqueueAppends
  <2> HIDE DEF cb
  <2>2. log' = cb
    BY <1>2 DEF cb
  <2> QED BY <2>1, <2>2
<1>5. space.size \in Nat
  <2>1. space.size \in 0 .. N
    BY <1>10, BufferFields
  <2> QED BY <1>10, <2>1
<1>6. /\ Len(written') = L + 1 /\ written' \in Seq(Record)
      /\ written'[L + 1] = e
      /\ \A k \in 1 .. L : written'[k] = written[k]
  BY <1>1, <1>2
<1>7. LogTypeOK'
  BY <1>0, <1>4, <1>6 DEF LogTypeOK, N
<1>8. ASSUME NEW j \in 1 .. log'.size
      PROVE  Contents(log')[j] = written'[Dropped' + j]
  <2>1. Contents(log')[j] = circular_buffer_get(log', j - 1)
    BY DEF Contents
  <2>2. Dropped' = L - space.size
    BY <1>1, <1>4, <1>5, <1>6 DEF Dropped
  <2>3. CASE j = space.size + 1
    <3>1. j - 1 = space.size /\ Dropped' + j = L + 1
      BY <1>1, <1>5, <2>2, <2>3
    <3> QED BY <1>4, <1>6, <2>1, <3>1
  <2>4. CASE j # space.size + 1
    <3>1. /\ j - 1 \in 0 .. space.size - 1 /\ (j - 1) + 1 = j
          /\ (L - space.size) + j \in 1 .. L
      BY <1>1, <1>3, <1>4, <1>5, <2>4
    <3>2. circular_buffer_get(log', j - 1) = written[(L - space.size) + j]
      BY <1>3, <1>4, <3>1
    <3> QED BY <1>6, <2>1, <2>2, <3>1, <3>2
  <2> QED BY <2>3, <2>4
<1>9. HoldsNewest'
  BY <1>3, <1>4, <1>6, <1>8 DEF HoldsNewest, N
<1> QED BY <1>0, <1>4, <1>7, <1>9 DEF LogInv

\* Every step keeps the invariant.
LEMMA LogNextInv == LogInv /\ [LogNext]_logVars => LogInv'
<1> SUFFICES ASSUME LogInv, [LogNext]_logVars PROVE LogInv'
  OBVIOUS
<1>1. CASE kmessage_init
  <2>1. /\ log' \in Buffer(MSG_BUFFER_SIZE, Record) /\ log'.size = 0 /\ TailFollows(log')
        /\ written' = <<>> /\ Len(written') = 0 /\ written' \in Seq(Record)
    BY <1>1, EmptyLog DEF kmessage_init, LogInv
  <2>2. up' \in BOOLEAN
    BY <1>1 DEF kmessage_init
  <2>3. HoldsNewest'
    BY <2>1, LogAssumption DEF HoldsNewest
  <2> QED BY <2>1, <2>2, <2>3 DEF LogInv, LogTypeOK
<1>2. ASSUME NEW level \in Levels, NEW length \in Lengths, kmessage(level, length)
      PROVE  LogInv'
  BY <1>2, LogMessageInv
<1>3. CASE UNCHANGED logVars
  BY <1>3 DEF logVars, LogInv, LogTypeOK, HoldsNewest, Dropped
<1> QED BY <1>1, <1>2, <1>3 DEF LogNext

(***************************************************************************)
(* The message command always prints the newest MSG_BUFFER_SIZE records,   *)
(* in the order in which kmessage was called.                              *)
(***************************************************************************)
THEOREM LogHoldsNewest == LogSpec => []HoldsNewest
<1>1. LogSpec => []LogInv
  BY LogInitInv, LogNextInv, PTL DEF LogSpec
<1>2. LogInv => HoldsNewest
  BY DEF LogInv
<1> QED BY <1>1, <1>2, PTL

\* The log buffer and its records keep to their types and bounds.
THEOREM LogTypeCorrect == LogSpec => []LogTypeOK
<1>1. LogSpec => []LogInv
  BY LogInitInv, LogNextInv, PTL DEF LogSpec
<1>2. LogInv => LogTypeOK
  BY DEF LogInv
<1> QED BY <1>1, <1>2, PTL

-----------------------------------------------------------------------------
(* Keyboard input *)

\* The constants are what the proofs need of them.
LEMMA Constants ==
    /\ Capacity \in Nat \ {0} /\ MaxKeys \in Nat
    /\ ASCII_CTRL_NUL \in Char
    /\ Char \subseteq Nat
BY TtyAssumption DEF ASCII_CTRL_NUL, Char

\* The characters an interrupt can deliver.
LEMMA EventChars ==
    ASSUME NEW scancode \in Scancodes,
           NEW event \in keyboard_transfer_scancode(scancode)
    PROVE  event.keycode \in Char
<1>1. scancode \in Nat /\ 0 \in Char
  BY TtyAssumption DEF Char
<1>2. CASE scancode <= 88
  <2>1. event.keycode = 0 \/ event.keycode = scancode
    BY <1>2 DEF keyboard_transfer_scancode, ASCII_CTRL_NUL
  <2> QED BY <1>1, <1>2, <2>1 DEF Char
<1>3. CASE ~(scancode <= 88) /\ scancode \in 128 .. 216
  BY <1>3 DEF keyboard_transfer_scancode
<1>4. CASE ~(scancode <= 88) /\ scancode \notin 128 .. 216
  BY <1>1, <1>4 DEF keyboard_transfer_scancode, ASCII_CTRL_NUL
<1> QED BY <1>2, <1>3, <1>4

(***************************************************************************)
(* What one interrupt does: nothing, or it adds one character to a buffer  *)
(* that has room.                                                          *)
(***************************************************************************)
LEMMA KeyEffect ==
    ASSUME Key
    PROVE  /\ UNCHANGED <<stdterm, listener, pc, c, reg, lineVars, taken>>
           /\ \/ UNCHANGED <<input, accepted>>
              \/ \E e \in Char : /\ listener
                                 /\ ~circular_buffer_full(input)
                                 /\ input' = circular_buffer_enqueue(input, e)
                                 /\ accepted' = Append(accepted, e)
<1>1. UNCHANGED <<stdterm, listener, pc, c, reg, lineVars, taken>>
  BY DEF Key
<1>2. PICK scancode \in Scancodes :
         \/ UNCHANGED <<input, accepted>>
         \/ /\ listener
            /\ \E event \in keyboard_transfer_scancode(scancode) :
                 tty_keyboard_listener(event)
  BY DEF Key
<1>3. ASSUME listener, NEW event \in keyboard_transfer_scancode(scancode),
             tty_keyboard_listener(event)
      PROVE  \/ UNCHANGED <<input, accepted>>
             \/ \E e \in Char : /\ listener
                                /\ ~circular_buffer_full(input)
                                /\ input' = circular_buffer_enqueue(input, e)
                                /\ accepted' = Append(accepted, e)
  <2>1. event.keycode \in Char
    BY EventChars
  <2>2. CASE circular_buffer_full(input)
    <3>1. circular_buffer_enqueue(input, event.keycode) = input
      BY <2>2 DEF circular_buffer_enqueue
    <3> QED BY <1>3, <2>2, <3>1 DEF tty_keyboard_listener
  <2>3. CASE ~circular_buffer_full(input)
    BY <1>3, <2>1, <2>3 DEF tty_keyboard_listener
  <2> QED BY <2>2, <2>3
<1> QED BY <1>1, <1>2, <1>3

-----------------------------------------------------------------------------
(* Any build *)

\* The buffer of a new terminal.
LEMMA NewInput ==
    LET cb == circular_buffer_init(Capacity, ASCII_CTRL_NUL)
    IN  cb \in Buffer(Capacity, Char) /\ cb.size = 0 /\ TailFollows(cb)
BY Constants, InitBuffer

LEMMA SizeInvInit == Init => SizeInv
<1> SUFFICES ASSUME Init PROVE SizeInv
  OBVIOUS
<1>1. input \in Buffer(Capacity, Char) /\ input.size = 0
  BY NewInput DEF Init
<1>2. TypeOK
  <2>1. /\ line \in Seq(Char) /\ accepted \in Seq(Char) /\ taken \in Seq(Char)
        /\ returned \in Seq(Seq(Char))
    BY DEF Init
  <2>2. stdterm \in BOOLEAN /\ listener \in BOOLEAN
    BY DEF Init
  <2>3. c \in Char /\ reg \in 0 .. Capacity /\ buf_size \in Nat /\ room \in Nat
    BY Constants DEF Init
  <2> QED BY <1>1, <2>1, <2>2, <2>3 DEF Init, TypeOK
<1>3. SizeNeverOver
  BY <1>1 DEF Init, SizeNeverOver
<1> QED BY <1>2, <1>3 DEF Init, SizeInv

\* Moving the head to the next slot keeps the type of the buffer.
LEMMA NextHeadType ==
    ASSUME input \in Buffer(Capacity, Char)
    PROVE  /\ [input EXCEPT !.head = NextSlot(input, @)] \in Buffer(Capacity, Char)
           /\ [input EXCEPT !.head = NextSlot(input, @)].size = input.size
<1> DEFINE h == NextSlot(input, input.head)
<1>1. /\ Capacity \in Nat \ {0}
      /\ input.capacity = Capacity /\ input.head \in 0 .. Capacity - 1
  BY Constants, BufferFields
<1>2. h \in 0 .. Capacity - 1
  BY <1>1, NextSlotIn DEF NextSlot
<1>3. [input EXCEPT !.head = NextSlot(input, @)] = [input EXCEPT !.head = h]
  OBVIOUS
<1> HIDE DEF h
<1>4. /\ [input EXCEPT !.head = h] \in Buffer(Capacity, Char)
      /\ [input EXCEPT !.head = h].size = input.size
  BY <1>2 DEF Buffer
<1> QED BY <1>3, <1>4

\* The parts of the type invariant an action on the line may change.
LineTypeOK ==
    /\ line \in Seq(Char) /\ buf_size \in Nat /\ room \in Nat
    /\ returned \in Seq(Seq(Char))

\* Handling a character keeps the types of the line.
LEMMA HandleTypes ==
    ASSUME TypeOK, HandleChar
    PROVE  LineTypeOK' /\ pc' \in {"poll", "hang", "execute", "wild"}
<1>1. /\ line \in Seq(Char) /\ buf_size \in Nat /\ room \in Nat /\ c \in Char
      /\ returned \in Seq(Seq(Char))
  BY DEF TypeOK
<1>2. CASE EndLine
  BY <1>1, <1>2 DEF EndLine, LineTypeOK, Goto
<1>3. CASE EraseLast
  <2>1. SubSeq(line, 1, Len(line) - 1) \in Seq(Char)
    BY <1>1, <1>3 DEF EraseLast
  <2> QED BY <1>1, <1>3, <2>1 DEF EraseLast, LineTypeOK, Goto
<1>4. CASE StoreChar
  BY <1>1, <1>4 DEF StoreChar, LineTypeOK, Goto
<1>5. CASE IgnoreChar
  BY <1>1, <1>5 DEF IgnoreChar, LineTypeOK, Goto, lineVars
<1> QED BY <1>2, <1>3, <1>4, <1>5 DEF HandleChar

LEMMA SizeInvNext == SizeInv /\ [Next]_vars => SizeInv'
<1> SUFFICES ASSUME SizeInv, [Next]_vars PROVE SizeInv'
  OBVIOUS
<1>1. /\ stdterm \in BOOLEAN /\ listener \in BOOLEAN
      /\ c \in Char /\ reg \in 0 .. Capacity
      /\ line \in Seq(Char) /\ buf_size \in Nat /\ room \in Nat
      /\ accepted \in Seq(Char) /\ taken \in Seq(Char)
      /\ returned \in Seq(Seq(Char))
  BY DEF SizeInv, TypeOK
<1>2. /\ Capacity \in Nat \ {0}
      /\ input \in Buffer(Capacity, Char)
      /\ input.buffer \in [0 .. Capacity - 1 -> Char] /\ input.head \in 0 .. Capacity - 1
      /\ input.size \in 0 .. Capacity /\ input.capacity = Capacity
      /\ input.size <= Len(accepted) - Len(taken)
  BY Constants, BufferFields DEF SizeInv, TypeOK, SizeNeverOver
<1>3. /\ Len(accepted) \in Nat /\ Len(taken) \in Nat
      /\ \A e : Len(Append(accepted, e)) = Len(accepted) + 1
      /\ \A e : Len(Append(taken, e)) = Len(taken) + 1
      /\ \A e \in Char : Append(accepted, e) \in Seq(Char) /\ Append(taken, e) \in Seq(Char)
  BY <1>1
<1>4. CASE Key
  <2>1. UNCHANGED <<stdterm, listener, pc, c, reg, line, buf_size, room, returned, taken>>
    BY <1>4, KeyEffect DEF lineVars
  <2>2. CASE UNCHANGED <<input, accepted>>
    BY <2>1, <2>2 DEF SizeInv, TypeOK, SizeNeverOver
  <2>3. ASSUME NEW e \in Char, ~circular_buffer_full(input), listener,
               input' = circular_buffer_enqueue(input, e),
               accepted' = Append(accepted, e)
        PROVE  SizeInv'
    <3>1. input' \in Buffer(Capacity, Char) /\ input'.size = input.size + 1
      <4> DEFINE cb == circular_buffer_enqueue(input, e)
      <4>1. Capacity \in Nat \ {0} /\ input \in Buffer(Capacity, Char)
        BY <1>2
      <4>2. cb \in Buffer(Capacity, Char) /\ cb.size = input.size + 1
        BY <2>3, <4>1, EnqueueType
      <4>3. input' = cb
        BY <2>3
      <4> HIDE DEF cb
      <4> QED BY <4>2, <4>3
    <3>2. TypeOK'
      BY <1>3, <2>1, <2>3, <3>1 DEF SizeInv, TypeOK
    <3>3. SizeNeverOver'
      BY <1>2, <1>3, <2>1, <2>3, <3>1 DEF SizeNeverOver
    <3>4. pc' = "store" => reg' >= 1 /\ reg' <= Len(accepted') - Len(taken')
      BY <1>1, <1>2, <1>3, <2>1, <2>3 DEF SizeInv
    <3>5. pc' \in {"copy", "size"} => input'.size >= 1
      BY <1>2, <3>1
    <3> QED BY <2>1, <2>3, <3>2, <3>3, <3>4, <3>5 DEF SizeInv
  <2> QED BY <1>4, <2>2, <2>3, KeyEffect
<1>5. CASE CreateTerminal
  <2>1. input' \in Buffer(Capacity, Char) /\ (input'.size = 0 \/ input' = input)
    BY <1>2, <1>5, NewInput DEF CreateTerminal
  <2>2. TypeOK'
    BY <1>5, <1>1, <2>1 DEF CreateTerminal, TypeOK, Goto, lineVars
  <2>3. SizeNeverOver'
    BY <1>1, <1>2, <1>3, <1>5, <2>1 DEF CreateTerminal, SizeInv, SizeNeverOver
  <2> QED BY <1>5, <2>2, <2>3 DEF CreateTerminal, SizeInv, Goto
<1>6. CASE RegisterListener
  <2>1. TypeOK'
    BY <1>1, <1>2, <1>6 DEF RegisterListener, TypeOK, Goto, lineVars
  <2> QED BY <1>6, <2>1 DEF RegisterListener, SizeInv, SizeNeverOver, Goto
<1>7. CASE StartLine
  <2>1. /\ pc' \in {"poll", "panic"}
        /\ line' \in Seq(Char) /\ buf_size' \in Nat /\ room' \in Nat
    <3>1. <<>> \in Seq(Char) /\ 2 \in Nat
      OBVIOUS
    <3> QED BY <1>1, <1>7, <3>1 DEF StartLine, Goto
  <2>2. TypeOK'
    BY <1>1, <1>2, <1>7, <2>1 DEF StartLine, TypeOK, queueVars
  <2> QED BY <1>7, <2>1, <2>2 DEF StartLine, SizeInv, SizeNeverOver, queueVars
<1>8. CASE Poll
  <2>1. pc' = "poll" \/ (pc' = "copy" /\ input.size # 0)
    BY <1>8 DEF Poll, Goto, circular_buffer_empty
  <2>2. TypeOK'
    BY <1>1, <1>2, <1>8, <2>1 DEF Poll, TypeOK, queueVars, lineVars
  <2> QED BY <1>2, <1>8, <2>1, <2>2 DEF Poll, SizeInv, SizeNeverOver, queueVars
<1>9. CASE Copy
  <2>1. c' \in Char
    BY <1>2, <1>9 DEF Copy
  <2>2. TypeOK'
    BY <1>1, <1>2, <1>9, <2>1 DEF Copy, TypeOK, Goto, queueVars, lineVars
  <2>3. pc' = "size" /\ input.size >= 1 /\ pc = "copy"
    BY <1>2, <1>9 DEF Copy, Goto, circular_buffer_empty
  <2> QED BY <1>9, <2>2, <2>3 DEF Copy, SizeInv, SizeNeverOver, queueVars
<1>10. CASE DecrementSize
  <2>1. input.size >= 1 /\ pc' = "head"
    BY <1>10 DEF DecrementSize, SizeInv, Goto
  <2>2. input.size - 1 \in 0 .. Capacity
    BY <1>2, <2>1
  <2>3. input' = [input EXCEPT !.size = input.size - 1]
    BY <1>10 DEF DecrementSize
  <2>4. input' \in Buffer(Capacity, Char) /\ input'.size = input.size - 1
    <3> DEFINE s == input.size - 1
    <3>1. s \in 0 .. Capacity /\ input' = [input EXCEPT !.size = s]
      BY <2>2, <2>3
    <3>2. Capacity \in Nat \ {0} /\ input \in Buffer(Capacity, Char)
      BY <1>2
    <3> HIDE DEF s
    <3>3. input' \in Buffer(Capacity, Char) /\ input'.size = s
      BY <3>1, <3>2 DEF Buffer
    <3> QED BY <3>3 DEF s
  <2>5. TypeOK'
    BY <1>1, <1>3, <1>10, <2>1, <2>4 DEF DecrementSize, TypeOK, lineVars
  <2>6. SizeNeverOver'
    BY <1>2, <1>3, <1>10, <2>4 DEF DecrementSize, SizeNeverOver
  <2> QED BY <2>1, <2>5, <2>6 DEF SizeInv
<1>11. CASE LoadSize
  <2>1. pc' = "store" /\ reg' = input.size /\ input.size >= 1
    BY <1>11 DEF LoadSize, SizeInv, Goto
  <2>2. TypeOK'
    BY <1>1, <1>2, <1>11, <2>1 DEF LoadSize, TypeOK, queueVars, lineVars
  <2> QED BY <1>2, <1>11, <2>1, <2>2 DEF LoadSize, SizeInv, SizeNeverOver, queueVars
<1>12. CASE StoreSize
  <2>1. reg >= 1 /\ reg <= Len(accepted) - Len(taken) /\ pc' = "head"
    BY <1>12 DEF StoreSize, SizeInv, Goto
  <2>2. reg - 1 \in 0 .. Capacity
    BY <1>1, <1>2, <2>1
  <2>3. input' = [input EXCEPT !.size = reg - 1]
    BY <1>12 DEF StoreSize
  <2>4. input' \in Buffer(Capacity, Char) /\ input'.size = reg - 1
    <3> DEFINE s == reg - 1
    <3>1. s \in 0 .. Capacity /\ input' = [input EXCEPT !.size = s]
      BY <2>2, <2>3
    <3>2. Capacity \in Nat \ {0} /\ input \in Buffer(Capacity, Char)
      BY <1>2
    <3> HIDE DEF s
    <3>3. input' \in Buffer(Capacity, Char) /\ input'.size = s
      BY <3>1, <3>2 DEF Buffer
    <3> QED BY <3>3 DEF s
  <2>5. TypeOK'
    BY <1>1, <1>3, <1>12, <2>1, <2>4 DEF StoreSize, TypeOK, lineVars
  <2>6. SizeNeverOver'
    BY <1>1, <1>2, <1>3, <1>12, <2>1, <2>4 DEF StoreSize, SizeNeverOver
  <2> QED BY <2>1, <2>5, <2>6 DEF SizeInv
<1>13. CASE AdvanceHead
  <2>1. input' \in Buffer(Capacity, Char) /\ input'.size = input.size
    BY <1>2, <1>13, NextHeadType DEF AdvanceHead
  <2>2. TypeOK'
    BY <1>1, <1>13, <2>1 DEF AdvanceHead, TypeOK, Goto, lineVars
  <2> QED BY <1>13, <2>1, <2>2 DEF AdvanceHead, SizeInv, SizeNeverOver, Goto
<1>14. CASE HandleChar
  <2>1. LineTypeOK' /\ pc' \in {"poll", "hang", "execute", "wild"}
    BY <1>14, HandleTypes DEF SizeInv
  <2>2. TypeOK'
    BY <1>1, <1>2, <1>14, <2>1 DEF HandleChar, TypeOK, LineTypeOK, queueVars
  <2> QED BY <1>14, <2>1, <2>2 DEF HandleChar, SizeInv, SizeNeverOver, queueVars
<1>15. CASE Execute
  <2>1. TypeOK'
    BY <1>1, <1>2, <1>15 DEF Execute, TypeOK, Goto, queueVars, lineVars
  <2> QED BY <1>15, <2>1 DEF Execute, SizeInv, SizeNeverOver, Goto, queueVars
<1>16. CASE UNCHANGED vars
  BY <1>16 DEF vars, lineVars, SizeInv, TypeOK, SizeNeverOver
<1> QED BY <1>4, <1>5, <1>6, <1>7, <1>8, <1>9, <1>10, <1>11, <1>12, <1>13, <1>14,
          <1>15, <1>16 DEF Next, Mainline, Stopped

-----------------------------------------------------------------------------
(* A build that decrements the size in one instruction *)

\* Two buffers with the same fields are the same.
LEMMA SameBuffer ==
    ASSUME NEW x \in Buffer(Capacity, Char), NEW y \in Buffer(Capacity, Char),
           x.head = y.head, x.tail = y.tail, x.size = y.size,
           \A i \in 0 .. Capacity - 1 : x.buffer[i] = y.buffer[i]
    PROVE  x = y
<1>1. x.buffer = y.buffer
  <2> DEFINE f == x.buffer
             g == y.buffer
             D == 0 .. Capacity - 1
  <2>1. f \in [D -> Char] /\ g \in [D -> Char]
    BY DEF Buffer
  <2>2. \A i \in D : f[i] = g[i]
    OBVIOUS
  <2> HIDE DEF f, g, D
  <2>3. f = g
    BY <2>1, <2>2
  <2> QED BY <2>3 DEF f, g
<1> QED BY <1>1 DEF Buffer

\* The fields of a settled buffer.
LEMMA SettleFields ==
    ASSUME NEW cb \in Buffer(Capacity, Char), NEW p
    PROVE  LET new == Settle(cb, p)
           IN  /\ new \in Buffer(Capacity, Char)
               /\ new.buffer = cb.buffer /\ new.tail = cb.tail
               /\ new.size = cb.size /\ new.capacity = Capacity
               /\ new.head = IF p = "head" THEN (cb.head + 1) % Capacity ELSE cb.head
               /\ circular_buffer_full(new) <=> circular_buffer_full(cb)
<1>1. /\ Capacity \in Nat \ {0}
      /\ cb.capacity = Capacity /\ cb.head \in 0 .. Capacity - 1
  BY Constants, BufferFields
<1> DEFINE h == NextSlot(cb, cb.head)
           new == Settle(cb, p)
<1>2. h \in 0 .. Capacity - 1 /\ h = (cb.head + 1) % Capacity
  BY <1>1, NextSlotIn DEF NextSlot
<1>3. new = IF p = "head" THEN [cb EXCEPT !.head = h] ELSE cb
  BY DEF Settle
<1> HIDE DEF h, new
<1>4. /\ new \in Buffer(Capacity, Char)
      /\ new.buffer = cb.buffer /\ new.tail = cb.tail
      /\ new.size = cb.size /\ new.capacity = Capacity
      /\ new.head = IF p = "head" THEN h ELSE cb.head
  BY <1>1, <1>2, <1>3 DEF Buffer
<1>5. circular_buffer_full(new) <=> circular_buffer_full(cb)
  BY <1>1, <1>4 DEF circular_buffer_full
<1> QED BY <1>2, <1>4, <1>5 DEF new

\* Enqueueing and settling commute: the handler does not use the head.
LEMMA EnqueueSettled ==
    ASSUME NEW cb \in Buffer(Capacity, Char), NEW p, NEW e \in Char,
           ~circular_buffer_full(cb)
    PROVE  Settle(circular_buffer_enqueue(cb, e), p) =
               circular_buffer_enqueue(Settle(cb, p), e)
<1> DEFINE en == circular_buffer_enqueue(cb, e)
           st == Settle(cb, p)
           x == Settle(en, p)
           y == circular_buffer_enqueue(st, e)
<1>0. Capacity \in Nat \ {0}
  BY Constants
<1>1. /\ st \in Buffer(Capacity, Char)
      /\ st.buffer = cb.buffer /\ st.tail = cb.tail /\ st.size = cb.size
      /\ st.head = IF p = "head" THEN (cb.head + 1) % Capacity ELSE cb.head
      /\ ~circular_buffer_full(st)
  BY SettleFields
<1>2. /\ en \in Buffer(Capacity, Char)
      /\ en.size = cb.size + 1 /\ en.head = cb.head
      /\ en.tail = (cb.tail + 1) % Capacity
      /\ \A i \in 0 .. Capacity - 1 :
            en.buffer[i] = IF i = cb.tail THEN e ELSE cb.buffer[i]
  BY <1>0, EnqueueType
<1> HIDE DEF en, st
<1>3. /\ x \in Buffer(Capacity, Char)
      /\ x.buffer = en.buffer /\ x.tail = en.tail /\ x.size = en.size
      /\ x.head = IF p = "head" THEN (en.head + 1) % Capacity ELSE en.head
  BY <1>2, SettleFields
<1>4. /\ y \in Buffer(Capacity, Char)
      /\ y.size = st.size + 1 /\ y.head = st.head
      /\ y.tail = (st.tail + 1) % Capacity
      /\ \A i \in 0 .. Capacity - 1 :
            y.buffer[i] = IF i = st.tail THEN e ELSE st.buffer[i]
  BY <1>0, <1>1, EnqueueType
<1> HIDE DEF x, y
<1>5. x.head = y.head /\ x.tail = y.tail /\ x.size = y.size
  BY <1>1, <1>2, <1>3, <1>4
<1>6. \A i \in 0 .. Capacity - 1 : x.buffer[i] = y.buffer[i]
  BY <1>1, <1>2, <1>3, <1>4
<1>7. x = y
  BY <1>3, <1>4, <1>5, <1>6, SameBuffer
<1> QED BY <1>7 DEF x, y, en, st

\* Taking a character by its two steps is circular_buffer_dequeue.
LEMMA TwoStepDequeue ==
    ASSUME NEW cb \in Buffer(Capacity, Char), ~circular_buffer_empty(cb),
           NEW p, p # "head"
    PROVE  Settle([cb EXCEPT !.size = @ - 1], "head") =
               circular_buffer_dequeue(Settle(cb, p))
<1>1. Settle(cb, p) = cb
  BY DEF Settle
<1>2. circular_buffer_dequeue(cb) = [cb EXCEPT !.size = @ - 1, !.head = NextSlot(cb, @)]
  BY DEF circular_buffer_dequeue
<1>3. NextSlot([cb EXCEPT !.size = @ - 1], cb.head) = NextSlot(cb, cb.head)
  BY DEF NextSlot, Buffer
<1>4. Settle([cb EXCEPT !.size = @ - 1], "head") =
         [cb EXCEPT !.size = @ - 1, !.head = NextSlot(cb, @)]
  BY <1>3 DEF Settle, Buffer
<1> QED BY <1>1, <1>2, <1>4

\* Sequences: where an accepted character goes, and where a taken one goes.
LEMMA AppendToRest ==
    \A a, b \in Seq(Char) : \A e \in Char : Append(a \o b, e) = a \o Append(b, e)
<1> TAKE a, b \in Seq(Char)
<1> TAKE e \in Char
<1>1. <<e>> \in Seq(Char) /\ a \o b \in Seq(Char)
  OBVIOUS
<1>2. Append(a \o b, e) = (a \o b) \o <<e>>
  BY <1>1, AppendIsConcat
<1>3. Append(b, e) = b \o <<e>>
  BY AppendIsConcat
<1> QED BY <1>1, <1>2, <1>3, ConcatAssociative

LEMMA MoveHead ==
    ASSUME NEW S, NEW a \in Seq(S), NEW b \in Seq(S), b # <<>>
    PROVE  Append(a, Head(b)) \o Tail(b) = a \o b
<1>1. /\ Head(b) \in S /\ Tail(b) \in Seq(S) /\ <<Head(b)>> \in Seq(S)
  OBVIOUS
<1>2. Append(a, Head(b)) = a \o <<Head(b)>>
  BY <1>1, AppendIsConcat
<1>3. <<Head(b)>> \o Tail(b) = b
  OBVIOUS
<1> QED BY <1>1, <1>2, <1>3, ConcatAssociative

\* What a step means for the queue.
QueuePut ==
    /\ Len(Waiting) < Capacity
    /\ \E e \in Char : Waiting' = Append(Waiting, e) /\ accepted' = Append(accepted, e)
    /\ taken' = taken

QueueTake ==
    /\ Waiting # <<>>
    /\ Waiting' = Tail(Waiting)
    /\ taken' = Append(taken, Head(Waiting))
    /\ accepted' = accepted

QueueSame == Waiting' = Waiting /\ taken' = taken /\ accepted' = accepted

\* What the invariant says of the buffer and of the characters waiting.
LEMMA QueueFacts ==
    ASSUME QueueInv
    PROVE  /\ Capacity \in Nat \ {0} /\ input \in Buffer(Capacity, Char)
           /\ Settled \in Buffer(Capacity, Char) /\ TailFollows(Settled)
           /\ Settled.size = input.size /\ input.size \in 0 .. Capacity
           /\ Waiting \in Seq(Char) /\ Len(Waiting) = input.size
           /\ accepted \in Seq(Char) /\ taken \in Seq(Char)
           /\ circular_buffer_full(Settled) <=> circular_buffer_full(input)
           /\ input.capacity = Capacity
<1>1. /\ Capacity \in Nat \ {0} /\ input \in Buffer(Capacity, Char)
      /\ accepted \in Seq(Char) /\ taken \in Seq(Char) /\ TailFollows(Settled)
  BY Constants DEF QueueInv, SizeInv, TypeOK
<1>2. input.size \in 0 .. Capacity /\ input.capacity = Capacity
  BY <1>1, BufferFields
<1>3. /\ Settled \in Buffer(Capacity, Char) /\ Settled.size = input.size
      /\ circular_buffer_full(Settled) <=> circular_buffer_full(input)
  BY <1>1, SettleFields DEF Settled
<1>4. Waiting \in Seq(Char) /\ Len(Waiting) = input.size
  BY <1>1, <1>3, ContentsType DEF Waiting
<1> QED BY <1>1, <1>2, <1>3, <1>4

\* An interrupt is a Put of the queue, or changes nothing of it.
LEMMA KeyStep ==
    ASSUME QueueInv, Key
    PROVE  TailFollows(Settled') /\ (QueuePut \/ QueueSame)
<1>1. pc' = pc /\ taken' = taken
  BY KeyEffect
<1>2. CASE UNCHANGED <<input, accepted>>
  <2>1. Settled' = Settled
    BY <1>1, <1>2 DEF Settled
  <2>2. Waiting' = Waiting
    BY <2>1 DEF Waiting
  <2> QED BY <1>1, <1>2, <2>1, <2>2 DEF QueueSame, QueueInv
<1>3. ASSUME NEW e \in Char, ~circular_buffer_full(input),
             input' = circular_buffer_enqueue(input, e),
             accepted' = Append(accepted, e)
      PROVE  TailFollows(Settled') /\ QueuePut
  <2> DEFINE st == Settled
             cb == circular_buffer_enqueue(st, e)
  <2>1. /\ Capacity \in Nat \ {0} /\ input \in Buffer(Capacity, Char)
        /\ st \in Buffer(Capacity, Char) /\ TailFollows(st)
        /\ ~circular_buffer_full(st)
    BY <1>3, QueueFacts
  <2>2. Settled' = cb
    <3>1. Settled' = Settle(circular_buffer_enqueue(input, e), pc)
      BY <1>1, <1>3 DEF Settled
    <3>2. Settle(circular_buffer_enqueue(input, e), pc) =
             circular_buffer_enqueue(Settle(input, pc), e)
      BY <1>3, <2>1, EnqueueSettled
    <3> QED BY <3>1, <3>2 DEF Settled
  <2> HIDE DEF st
  <2>3. TailFollows(cb)
    BY <2>1, EnqueueAppends
  <2>4. Contents(cb) = Append(Contents(st), e)
    BY <2>1, EnqueueContents
  <2> HIDE DEF cb
  <2>5. Waiting' = Append(Waiting, e)
    BY <2>2, <2>4 DEF Waiting, st
  <2>6. Len(Waiting) < Capacity
    <3>1. /\ Len(Waiting) = input.size /\ input.size \in 0 .. Capacity
          /\ input.capacity = Capacity /\ Capacity \in Nat
      BY QueueFacts
    <3> QED BY <1>3, <3>1 DEF circular_buffer_full
  <2> QED BY <1>1, <1>3, <2>2, <2>3, <2>5, <2>6 DEF QueuePut
<1> QED BY <1>2, <1>3, KeyEffect

\* The decrement of the size is a Take of the queue.
LEMMA TakeStep ==
    ASSUME QueueInv, DecrementSize
    PROVE  TailFollows(Settled') /\ QueueTake
<1> DEFINE st == Settled
           cb == circular_buffer_dequeue(st)
<1>1. pc = "size" /\ pc' = "head" /\ input' = [input EXCEPT !.size = @ - 1]
  BY DEF DecrementSize, Goto
<1>2. /\ Capacity \in Nat \ {0} /\ input \in Buffer(Capacity, Char)
      /\ st \in Buffer(Capacity, Char) /\ TailFollows(st) /\ st.size = input.size
      /\ input.size \in 0 .. Capacity
  BY QueueFacts
<1>3. input.size >= 1
  BY <1>1 DEF QueueInv, SizeInv
<1>4. ~circular_buffer_empty(st) /\ ~circular_buffer_empty(input)
  <2> HIDE DEF st
  <2> QED BY <1>2, <1>3 DEF circular_buffer_empty
<1>5. Settled' = cb
  <2>1. Settled' = Settle([input EXCEPT !.size = @ - 1], "head")
    BY <1>1 DEF Settled
  <2>2. Settle([input EXCEPT !.size = @ - 1], "head") =
           circular_buffer_dequeue(Settle(input, pc))
    BY <1>1, <1>2, <1>4, TwoStepDequeue
  <2> QED BY <2>1, <2>2 DEF Settled
<1> HIDE DEF st
<1>6. TailFollows(cb)
  BY <1>2, <1>4, DequeueDropsFirst
<1>7. Contents(st) # <<>> /\ Contents(cb) = Tail(Contents(st))
  BY <1>2, <1>4, DequeueContents
<1> HIDE DEF cb
<1>8. Waiting # <<>> /\ Waiting' = Tail(Waiting)
  BY <1>5, <1>7 DEF Waiting, st
<1>9. taken' = Append(taken, Head(Waiting)) /\ accepted' = accepted
  BY <1>1 DEF DecrementSize, QueueInv
<1> QED BY <1>5, <1>6, <1>8, <1>9 DEF QueueTake

\* The other steps of the mainline change nothing of the queue.
LEMMA OtherStep ==
    ASSUME QueueInv, ~SplitUpdate,
           \/ CreateTerminal \/ RegisterListener \/ StartLine \/ Poll \/ Copy
           \/ AdvanceHead \/ HandleChar \/ Execute \/ UNCHANGED vars
    PROVE  TailFollows(Settled') /\ QueueSame
<1>1. CASE CreateTerminal
  <2>1. /\ pc = "create" /\ pc' # "head" /\ taken' = taken /\ accepted' = accepted
        /\ input' = circular_buffer_init(Capacity, ASCII_CTRL_NUL) \/ input' = input
    BY <1>1 DEF CreateTerminal, Goto
  <2>2. /\ input' \in Buffer(Capacity, Char) /\ input'.size = 0 /\ TailFollows(input')
    <3>1. Settled = input /\ input.size = 0
      BY <2>1 DEF QueueInv, Settled, Settle
    <3>2. input \in Buffer(Capacity, Char) /\ TailFollows(input)
      BY <3>1, QueueFacts
    <3> QED BY <2>1, <3>1, <3>2, NewInput
  <2>3. Settled' = input'
    BY <2>1 DEF Settled, Settle
  <2>4. Waiting' = <<>>
    <3>1. Capacity \in Nat \ {0}
      BY Constants
    <3>2. Contents(input') \in Seq(Char) /\ Len(Contents(input')) = 0
      BY <2>2, <3>1, ContentsType
    <3>3. Contents(input') = <<>>
      BY <3>2
    <3> QED BY <2>3, <3>3 DEF Waiting
  <2>5. Waiting = <<>>
    <3>1. Waiting \in Seq(Char) /\ Len(Waiting) = 0
      BY <2>1, QueueFacts DEF QueueInv
    <3> QED BY <3>1
  <2> QED BY <2>1, <2>2, <2>3, <2>4, <2>5 DEF QueueSame
<1>2. CASE AdvanceHead
  <2>1. /\ pc = "head" /\ pc' = "handle" /\ taken' = taken /\ accepted' = accepted
        /\ input' = [input EXCEPT !.head = NextSlot(input, @)]
    BY <1>2 DEF AdvanceHead, Goto
  <2>2. Settled' = Settled
    BY <2>1 DEF Settled, Settle
  <2>3. Waiting' = Waiting
    BY <2>2 DEF Waiting
  <2> QED BY <2>1, <2>2, <2>3 DEF QueueSame, QueueInv
<1>3. CASE \/ RegisterListener \/ StartLine \/ Poll \/ Copy
           \/ HandleChar \/ Execute \/ UNCHANGED vars
  <2>1. /\ input' = input /\ taken' = taken /\ accepted' = accepted
        /\ pc' = pc \/ (pc # "head" /\ pc' # "head")
    BY <1>3 DEF RegisterListener, StartLine, Poll, Copy, HandleChar, Execute, vars,
                queueVars, Goto, EndLine, EraseLast, StoreChar, IgnoreChar
  <2>2. Settled' = Settled
    BY <2>1 DEF Settled, Settle
  <2>3. Waiting' = Waiting
    BY <2>2 DEF Waiting
  <2> QED BY <2>1, <2>2, <2>3 DEF QueueSame, QueueInv
<1> QED BY <1>1, <1>2, <1>3

\* Every step is a Put, a Take, or nothing to the queue.
LEMMA QueueStep ==
    ASSUME ~SplitUpdate, QueueInv, [Next]_vars
    PROVE  TailFollows(Settled') /\ (QueuePut \/ QueueTake \/ QueueSame)
<1>1. ~LoadSize /\ ~StoreSize
  BY DEF LoadSize, StoreSize, QueueInv
<1> QED BY <1>1, KeyStep, TakeStep, OtherStep DEF Next, Mainline, Stopped

LEMMA QueueInvInit == Init => QueueInv
<1> SUFFICES ASSUME Init PROVE QueueInv
  OBVIOUS
<1>1. SizeInv
  BY SizeInvInit
<1>2. input \in Buffer(Capacity, Char) /\ input.size = 0 /\ TailFollows(input)
  BY NewInput DEF Init
<1>3. Settled = input
  BY DEF Settled, Settle, Init
<1>4. Waiting = <<>>
  <2>1. Capacity \in Nat \ {0}
    BY Constants
  <2>2. Contents(input) \in Seq(Char) /\ Len(Contents(input)) = 0
    BY <1>2, <2>1, ContentsType
  <2>3. Contents(input) = <<>>
    BY <2>2
  <2> QED BY <1>3, <2>3 DEF Waiting
<1>5. InputInOrder
  BY <1>4 DEF InputInOrder, Init
<1>6. pc = "create"
  BY DEF Init
<1> QED BY <1>1, <1>2, <1>3, <1>5, <1>6 DEF QueueInv

LEMMA QueueInvNext == ~SplitUpdate /\ QueueInv /\ [Next]_vars => QueueInv'
<1> SUFFICES ASSUME ~SplitUpdate, QueueInv, [Next]_vars PROVE QueueInv'
  OBVIOUS
<1>1. SizeInv'
  BY SizeInvNext DEF QueueInv
<1>2. TailFollows(Settled') /\ (QueuePut \/ QueueTake \/ QueueSame)
  BY QueueStep
<1>3. /\ Waiting \in Seq(Char) /\ accepted \in Seq(Char) /\ taken \in Seq(Char)
      /\ accepted = taken \o Waiting
  BY QueueFacts DEF QueueInv, InputInOrder
<1>4. InputInOrder'
  <2>1. CASE QueuePut
    <3>1. PICK e \in Char : Waiting' = Append(Waiting, e) /\ accepted' = Append(accepted, e)
      BY <2>1 DEF QueuePut
    <3>2. Append(taken \o Waiting, e) = taken \o Append(Waiting, e)
      <4>1. taken \in Seq(Char) /\ Waiting \in Seq(Char)
        BY <1>3
      <4> QED BY <4>1, AppendToRest, Zenon
    <3> QED BY <1>3, <2>1, <3>1, <3>2 DEF QueuePut, InputInOrder
  <2>2. CASE QueueTake
    <3>1. Append(taken, Head(Waiting)) \o Tail(Waiting) = taken \o Waiting
      BY <1>3, <2>2, MoveHead DEF QueueTake
    <3> QED BY <1>3, <2>2, <3>1 DEF QueueTake, InputInOrder
  <2>3. CASE QueueSame
    BY <1>3, <2>3 DEF QueueSame, InputInOrder
  <2> QED BY <1>2, <2>1, <2>2, <2>3
<1>5. pc' # "store"
  BY DEF QueueInv, Next, Mainline, Stopped, vars, Key, CreateTerminal, RegisterListener,
         StartLine, Poll, Copy, DecrementSize, LoadSize, StoreSize, AdvanceHead,
         HandleChar, EndLine, EraseLast, StoreChar, IgnoreChar, Execute, Goto
<1>6. ASSUME pc' = "size" PROVE Waiting' # <<>> /\ c' = Head(Waiting')
  <2>1. CASE Copy
    <3>1. /\ Capacity \in Nat \ {0} /\ Settled \in Buffer(Capacity, Char)
          /\ TailFollows(Settled) /\ Settled.size = input.size
      BY QueueFacts
    <3>2. /\ pc = "copy" /\ input' = input /\ pc' = "size"
          /\ c' = input.buffer[input.head] /\ ~circular_buffer_empty(input)
      BY <2>1 DEF Copy, Goto, queueVars
    <3>3. Settled = input /\ Settled' = input
      BY <3>2 DEF Settled, Settle
    <3>4. Contents(input) # <<>> /\ Head(Contents(input)) = input.buffer[input.head]
      BY <3>1, <3>2, <3>3, DequeueContents
    <3> QED BY <3>2, <3>3, <3>4 DEF Waiting
  <2>2. CASE Key
    <3>1. pc = "size" /\ c' = c
      BY <1>6, <2>2, KeyEffect
    <3>2. Waiting # <<>> /\ c = Head(Waiting)
      BY <3>1 DEF QueueInv
    <3>3. CASE QueueSame
      BY <3>1, <3>2, <3>3 DEF QueueSame
    <3>4. CASE QueuePut
      <4>1. PICK e \in Char : Waiting' = Append(Waiting, e)
        BY <3>4 DEF QueuePut
      <4> QED BY <1>3, <3>1, <3>2, <4>1
    <3> QED BY <2>2, <3>3, <3>4, KeyStep
  <2>3. CASE UNCHANGED vars
    <3>1. pc = "size" /\ c' = c /\ input' = input /\ pc' = pc
      BY <1>6, <2>3 DEF vars
    <3>2. Waiting' = Waiting
      BY <3>1 DEF Waiting, Settled
    <3> QED BY <3>1, <3>2 DEF QueueInv
  <2> QED BY <1>6, <2>1, <2>2, <2>3
          DEF Next, Mainline, Stopped, CreateTerminal, RegisterListener,
              StartLine, Poll, DecrementSize, LoadSize, StoreSize, AdvanceHead,
              HandleChar, EndLine, EraseLast, StoreChar, IgnoreChar, Execute, Goto
<1>7. ASSUME pc' = "create" PROVE input'.size = 0
  <2>1. pc = "create" /\ (Key \/ UNCHANGED vars)
    BY <1>7 DEF Next, Mainline, Stopped, vars, CreateTerminal, RegisterListener,
                StartLine, Poll, Copy, DecrementSize, LoadSize, StoreSize, AdvanceHead,
                HandleChar, EndLine, EraseLast, StoreChar, IgnoreChar, Execute, Goto, Key
  <2>2. input' = input
    BY <2>1, KeyEffect DEF QueueInv, SizeInv, vars
  <2> QED BY <2>1, <2>2 DEF QueueInv
<1> QED BY <1>1, <1>2, <1>4, <1>5, <1>6, <1>7 DEF QueueInv

-----------------------------------------------------------------------------
(* The line *)

LEMMA LineInvInit == Init => LineInv
BY DEF Init, LineInv, InLine

LEMMA LineInvNext == ~HeapMayFail /\ LineInv /\ SizeInv /\ [Next]_vars => LineInv'
<1> SUFFICES ASSUME ~HeapMayFail, LineInv, SizeInv, [Next]_vars PROVE LineInv'
  OBVIOUS
<1>1. /\ line \in Seq(Char) /\ buf_size \in Nat /\ Len(line) \in Nat /\ c \in Char
      /\ pc # "wild"
  BY DEF LineInv, SizeInv, TypeOK
<1>2. CASE HandleChar
  <2>1. pc = "handle" /\ room = buf_size /\ Len(line) < buf_size
    BY <1>2 DEF HandleChar, LineInv, InLine
  <2>2. CASE EndLine
    BY <1>1, <2>1, <2>2 DEF EndLine, LineInv, InLine, Goto
  <2>3. CASE EraseLast
    <3>1. line # <<>> /\ line' = SubSeq(line, 1, Len(line) - 1)
      BY <2>3 DEF EraseLast
    <3>2. line' \in Seq(Char) /\ Len(line') = Len(line) - 1
      <4>1. Len(line) >= 1
        BY <1>1, <3>1
      <4>2. /\ 1 \in Int /\ Len(line) - 1 \in Int
            /\ \A i \in 1 .. Len(line) - 1 : line[i] \in Char
        BY <1>1, <4>1
      <4>3. /\ SubSeq(line, 1, Len(line) - 1) \in Seq(Char)
            /\ Len(SubSeq(line, 1, Len(line) - 1)) =
                 IF 1 <= Len(line) - 1 THEN (Len(line) - 1) - 1 + 1 ELSE 0
        <5> DEFINE n == Len(line) - 1
                   m == 1
        <5> HIDE DEF n, m
        <5>1. /\ SubSeq(line, m, n) \in Seq(Char)
              /\ Len(SubSeq(line, m, n)) = IF m <= n THEN n - m + 1 ELSE 0
          <6>1. m \in Int /\ n \in Int /\ \A i \in m .. n : line[i] \in Char
            BY <4>2 DEF n, m
          <6> QED BY <6>1, SubSeqProperties
        <5> QED BY <5>1 DEF n, m
      <4>4. Len(SubSeq(line, 1, Len(line) - 1)) = Len(line) - 1
        <5> DEFINE n == Len(line)
                   k == Len(SubSeq(line, 1, Len(line) - 1))
        <5>1. n \in Nat /\ n >= 1 /\ k = IF 1 <= n - 1 THEN (n - 1) - 1 + 1 ELSE 0
          BY <1>1, <4>1, <4>3, Zenon
        <5> HIDE DEF n, k
        <5>2. k = n - 1
          BY <5>1
        <5> QED BY <5>2 DEF n, k
      <4> QED BY <3>1, <4>3, <4>4
    <3> QED BY <1>1, <2>1, <2>3, <3>2 DEF EraseLast, LineInv, InLine, Goto
  <2>4. CASE StoreChar
    <3>1. line' = Append(line, c)
      BY <2>4 DEF StoreChar
    <3>2. line' \in Seq(Char) /\ Len(line') = Len(line) + 1
      BY <1>1, <3>1
    <3>3. CASE Len(line) # buf_size - 1
      BY <1>1, <2>1, <2>4, <3>2, <3>3 DEF StoreChar, LineInv, InLine, Goto
    <3>4. CASE Len(line) = buf_size - 1
      BY <1>1, <2>1, <2>4, <3>2, <3>4 DEF StoreChar, LineInv, InLine, Goto
    <3> QED BY <3>3, <3>4
  <2>5. CASE IgnoreChar
    BY <1>1, <2>1, <2>5 DEF IgnoreChar, LineInv, InLine, Goto, lineVars
  <2> QED BY <1>2, <2>2, <2>3, <2>4, <2>5 DEF HandleChar
<1>3. CASE StartLine
  <2>1. line' = <<>> /\ buf_size' = 2 /\ room' = 2 /\ pc' = "poll"
    BY <1>3 DEF StartLine, Goto
  <2> QED BY <2>1 DEF LineInv, InLine
<1>4. CASE ~HandleChar /\ ~StartLine
  <2>1. line' = line /\ buf_size' = buf_size /\ room' = room /\ pc' # "wild"
    BY <1>1, <1>4 DEF Next, Mainline, Stopped, vars, Key, CreateTerminal, RegisterListener,
                Poll, Copy, DecrementSize, LoadSize, StoreSize, AdvanceHead,
                Execute, Goto, lineVars
  <2>2. InLine' => InLine
    BY <1>4 DEF Next, Mainline, Stopped, vars, Key, CreateTerminal, RegisterListener,
                Poll, Copy, DecrementSize, LoadSize, StoreSize, AdvanceHead,
                Execute, Goto, InLine
  <2> QED BY <2>1, <2>2 DEF LineInv
<1> QED BY <1>2, <1>3, <1>4

-----------------------------------------------------------------------------
(* What was typed *)

\* A set of numbers that is not empty has a least one.
LEMMA LeastNumber ==
    ASSUME NEW S \in SUBSET Nat, S # {}
    PROVE  \E x \in S : \A y \in S : x <= y
<1>1. PICK x \in S : \A y \in S : <<y, x>> \notin OpToRel(<, Nat)
  BY NatLessThanWellFounded, WFMin
<1>2. ASSUME NEW y \in S PROVE x <= y
  <2>1. ~(y < x)
    BY <1>1 DEF OpToRel
  <2> QED BY <2>1
<1> QED BY <1>2

\* f is the text after each of the first n keys.
Typed(keys, n, f) ==
    f = [k \in 0 .. n |-> IF k = 0 THEN [done |-> <<>>, now |-> <<>>]
                          ELSE Edit(f[k - 1], keys[k])]

\* There is such a function for every n.
LEMMA TypedExists ==
    ASSUME NEW keys, NEW n \in Nat
    PROVE  \E f : Typed(keys, n, f)
<1> DEFINE Bad == {m \in Nat : ~\E f : Typed(keys, m, f)}
           empty == [done |-> <<>>, now |-> <<>>]
<1> HIDE DEF empty
<1> SUFFICES ASSUME Bad # {} PROVE FALSE
  OBVIOUS
<1>1. PICK m \in Bad : \A y \in Bad : m <= y
  BY LeastNumber
<1>2. m # 0
  <2> DEFINE g == [k \in 0 .. 0 |-> empty]
  <2>1. g = [k \in 0 .. 0 |-> IF k = 0 THEN empty ELSE Edit(g[k - 1], keys[k])]
    OBVIOUS
  <2>2. Typed(keys, 0, g)
    BY <2>1 DEF Typed, empty
  <2> QED BY <1>1, <2>2
<1>3. m \in Nat /\ m - 1 \in Nat /\ m - 1 \notin Bad
  BY <1>1, <1>2
<1>4. PICK f : Typed(keys, m - 1, f)
  BY <1>3
<1> DEFINE last == Edit(f[m - 1], keys[m])
           g == [k \in 0 .. m |-> IF k = m THEN last ELSE f[k]]
<1>5. \A k \in 0 .. m - 1 : g[k] = f[k]
  BY <1>3
<1>6. \A k \in 0 .. m - 1 : f[k] = IF k = 0 THEN empty ELSE Edit(f[k - 1], keys[k])
  BY <1>4 DEF Typed, empty
<1>7. ASSUME NEW k \in 0 .. m
      PROVE  g[k] = IF k = 0 THEN empty ELSE Edit(g[k - 1], keys[k])
  <2>1. CASE k = m
    <3>1. g[k] = last /\ g[k - 1] = f[m - 1] /\ k # 0
      BY <1>2, <1>3, <1>5, <2>1
    <3> QED BY <2>1, <3>1
  <2>2. CASE k # m
    <3>1. k \in 0 .. m - 1 /\ (k # 0 => k - 1 \in 0 .. m - 1)
      BY <1>3, <2>2
    <3>2. g[k] = f[k] /\ (k # 0 => g[k - 1] = f[k - 1])
      BY <1>5, <3>1
    <3> HIDE DEF g
    <3> QED BY <1>6, <3>1, <3>2
  <2> QED BY <2>1, <2>2
<1>8. g = [k \in 0 .. m |-> g[k]]
  OBVIOUS
<1> HIDE DEF g
<1>9. Typed(keys, m, g)
  BY <1>7, <1>8 DEF Typed, empty
<1> QED BY <1>1, <1>9

\* EditedUpTo satisfies its equation.
LEMMA EditedEquation ==
    ASSUME NEW keys \in Seq(Char)
    PROVE  /\ EditedUpTo(keys)[0] = [done |-> <<>>, now |-> <<>>]
           /\ \A k \in 1 .. Len(keys) :
                 EditedUpTo(keys)[k] = Edit(EditedUpTo(keys)[k - 1], keys[k])
<1>1. Len(keys) \in Nat
  OBVIOUS
<1>2. \E f : Typed(keys, Len(keys), f)
  BY <1>1, TypedExists
<1>3. EditedUpTo(keys) = CHOOSE f : Typed(keys, Len(keys), f)
  BY Zenon DEF EditedUpTo, Typed
<1> DEFINE e == EditedUpTo(keys)
           empty == [done |-> <<>>, now |-> <<>>]
<1>4. Typed(keys, Len(keys), e)
  BY <1>2, <1>3
<1> HIDE DEF e, empty
<1>5. \A k \in 0 .. Len(keys) :
         e[k] = IF k = 0 THEN empty ELSE Edit(e[k - 1], keys[k])
  BY <1>4 DEF Typed, empty
<1>6. e[0] = empty /\ \A k \in 1 .. Len(keys) : e[k] = Edit(e[k - 1], keys[k])
  BY <1>1, <1>5
<1> QED BY <1>6 DEF e, empty

\* Before the first key the text is empty.
LEMMA EditedNothing == Edited(<<>>) = [done |-> <<>>, now |-> <<>>]
<1>1. <<>> \in Seq(Char) /\ Len(<<>>) = 0
  OBVIOUS
<1> QED BY <1>1, EditedEquation DEF Edited

(***************************************************************************)
(* One more key edits the text there was: a later key changes nothing of   *)
(* what the earlier ones did.                                              *)
(***************************************************************************)
LEMMA EditedAppend ==
    ASSUME NEW keys \in Seq(Char), NEW key \in Char
    PROVE  Edited(Append(keys, key)) = Edit(Edited(keys), key)
<1> DEFINE more == Append(keys, key)
           n == Len(keys)
<1>1. /\ n \in Nat /\ more \in Seq(Char) /\ Len(more) = n + 1 /\ more[n + 1] = key
      /\ \A k \in 1 .. n : more[k] = keys[k]
  OBVIOUS
<1> HIDE DEF more, n
<1>2. /\ EditedUpTo(more)[0] = EditedUpTo(keys)[0]
      /\ \A k \in 1 .. n : EditedUpTo(keys)[k] = Edit(EditedUpTo(keys)[k - 1], keys[k])
      /\ \A k \in 1 .. n + 1 : EditedUpTo(more)[k] = Edit(EditedUpTo(more)[k - 1], more[k])
  BY <1>1, EditedEquation, Zenon DEF n
<1>3. \A k \in 0 .. n : EditedUpTo(more)[k] = EditedUpTo(keys)[k]
  <2> DEFINE Bad == {k \in 0 .. n : EditedUpTo(more)[k] # EditedUpTo(keys)[k]}
  <2> SUFFICES ASSUME Bad # {} PROVE FALSE
    OBVIOUS
  <2>0. Bad \in SUBSET Nat
    BY <1>1
  <2>1. PICK m \in Bad : \A y \in Bad : m <= y
    BY <2>0, LeastNumber
  <2>2. m \in 1 .. n /\ m - 1 \in 0 .. n /\ m \in 1 .. n + 1
    BY <1>1, <1>2, <2>1
  <2>3. m - 1 \notin Bad
    BY <2>1, <2>2
  <2>4. EditedUpTo(more)[m - 1] = EditedUpTo(keys)[m - 1]
    BY <2>2, <2>3
  <2>5. /\ EditedUpTo(keys)[m] = Edit(EditedUpTo(keys)[m - 1], keys[m])
        /\ EditedUpTo(more)[m] = Edit(EditedUpTo(more)[m - 1], more[m])
        /\ more[m] = keys[m]
    BY <1>1, <1>2, <2>2
  <2> QED BY <2>1, <2>4, <2>5
<1>4. n + 1 \in 1 .. n + 1 /\ (n + 1) - 1 = n /\ n \in 0 .. n
  BY <1>1
<1>5. EditedUpTo(more)[n + 1] = Edit(EditedUpTo(more)[n], key)
  BY <1>1, <1>2, <1>4
<1>6. EditedUpTo(more)[n] = EditedUpTo(keys)[n]
  BY <1>3, <1>4
<1>7. Edited(more) = EditedUpTo(more)[n + 1] /\ Edited(keys) = EditedUpTo(keys)[n]
  BY <1>1 DEF Edited, n
<1> QED BY <1>5, <1>6, <1>7 DEF more

\* Nothing was typed when the terminal is made.
LEMMA TypedInvInit == Init => TypedInv
BY DEF Init, TypedInv

\* tty_gets does with a character what Edit does.
LEMMA HandleEdits ==
    ASSUME TypedInv, SizeInv, HandleChar PROVE TypedInv'
<1> DEFINE text == [done |-> returned, now |-> line]
<1>1. pc = "handle" /\ Edited(taken) = Edit(text, c) /\ taken' = taken /\ c' = c
  BY DEF HandleChar, TypedInv, queueVars
<1>2. line \in Seq(Char) /\ returned \in Seq(Seq(Char)) /\ c \in Char
  BY DEF SizeInv, TypeOK
<1>3. ASCII_CTRL_CR \notin AlNum \cup {ASCII_SPACE} /\ ASCII_CTRL_BS \notin AlNum \cup {ASCII_SPACE}
      /\ ASCII_CTRL_CR # ASCII_CTRL_BS
  BY DEF ASCII_CTRL_CR, ASCII_CTRL_BS, ASCII_SPACE, AlNum
<1>4. text.done = returned /\ text.now = line
  OBVIOUS
<1>5. CASE EndLine
  <2>0. c = ASCII_CTRL_CR
    BY <1>5 DEF EndLine
  <2>1. Edit(text, c) = [done |-> Append(returned, line), now |-> <<>>]
    <3> HIDE DEF text
    <3>1. Edit(text, c) = [done |-> Append(text.done, text.now), now |-> <<>>]
      BY <1>3, <2>0 DEF Edit
    <3> QED BY <1>4, <3>1, Zenon
  <2>2. Edited(taken)' = [done |-> returned', now |-> <<>>]
    BY <1>1, <1>5, <2>1 DEF EndLine
  <2>3. pc' = "execute"
    BY <1>5 DEF EndLine, Goto
  <2> QED BY <2>2, <2>3 DEF TypedInv
<1>6. CASE EraseLast
  <2>1. c # ASCII_CTRL_CR /\ c = ASCII_CTRL_BS /\ line # <<>>
    BY <1>3, <1>6 DEF EraseLast
  <2>2. Edit(text, c) = [done |-> returned, now |-> SubSeq(line, 1, Len(line) - 1)]
    <3> HIDE DEF text
    <3>1. Edit(text, c) = [done |-> text.done, now |-> SubSeq(text.now, 1, Len(text.now) - 1)]
      BY <1>3, <1>4, <2>1 DEF Edit
    <3> QED BY <1>4, <3>1, Zenon
  <2>3. Edited(taken)' = [done |-> returned', now |-> line']
    BY <1>1, <1>6, <2>2 DEF EraseLast
  <2>4. pc' \in {"poll", "hang"}
    BY <1>6 DEF EraseLast, Goto
  <2> QED BY <2>3, <2>4 DEF TypedInv
<1>7. CASE StoreChar
  <2>1. c \in AlNum \cup {ASCII_SPACE} /\ c # ASCII_CTRL_CR /\ c # ASCII_CTRL_BS
    BY <1>3, <1>7 DEF StoreChar
  <2>2. Edit(text, c) = [done |-> returned, now |-> Append(line, c)]
    <3> HIDE DEF text
    <3>1. Edit(text, c) = [done |-> text.done, now |-> Append(text.now, c)]
      BY <2>1 DEF Edit
    <3> QED BY <1>4, <3>1, Zenon
  <2>3. Edited(taken)' = [done |-> returned', now |-> line']
    BY <1>1, <1>7, <2>2 DEF StoreChar
  <2>4. pc' \in {"poll", "wild"}
    BY <1>7 DEF StoreChar, Goto
  <2> QED BY <2>3, <2>4 DEF TypedInv
<1>8. CASE IgnoreChar
  <2>1. c \notin AlNum \cup {ASCII_SPACE} /\ c # ASCII_CTRL_CR /\ (c = ASCII_CTRL_BS => line = <<>>)
    BY <1>8 DEF IgnoreChar
  <2>2. Edit(text, c) = text
    <3> HIDE DEF text
    <3> QED BY <1>4, <2>1 DEF Edit
  <2>3. Edited(taken)' = [done |-> returned', now |-> line']
    BY <1>1, <1>8, <2>2 DEF IgnoreChar, lineVars
  <2>4. pc' = "poll"
    BY <1>8 DEF IgnoreChar, Goto
  <2> QED BY <2>3, <2>4 DEF TypedInv
<1> QED BY <1>5, <1>6, <1>7, <1>8 DEF HandleChar

\* A character taken out of the buffer is the next key.
LEMMA TakeEdits ==
    ASSUME TypedInv, SizeInv, pc \in {"size", "store"}, taken' = Append(taken, c),
           pc' = "head", UNCHANGED <<c, line, returned>>
    PROVE  TypedInv'
<1>1. taken \in Seq(Char) /\ c \in Char
  BY DEF SizeInv, TypeOK
<1>2. Edited(taken) = [done |-> returned, now |-> line]
  BY DEF TypedInv
<1>3. Edited(Append(taken, c)) = Edit(Edited(taken), c)
  BY <1>1, EditedAppend
<1>4. Edited(taken)' = Edit([done |-> returned, now |-> line], c)'
  BY <1>2, <1>3
<1> QED BY <1>4 DEF TypedInv

\* Every step keeps the text what was typed.
LEMMA TypedInvNext == TypedInv /\ SizeInv /\ [Next]_vars => TypedInv'
<1> SUFFICES ASSUME TypedInv, SizeInv, [Next]_vars PROVE TypedInv'
  OBVIOUS
<1>1. CASE Key \/ UNCHANGED vars \/ Stopped
  <2>1. UNCHANGED <<pc, c, line, returned, taken>>
    BY <1>1, KeyEffect DEF vars, lineVars, Stopped
  <2> QED BY <2>1 DEF TypedInv
<1>2. CASE CreateTerminal
  <2>1. UNCHANGED <<returned, taken>> /\ pc = "create" /\ pc' \in {"register", "panic", "fault"}
    BY <1>2 DEF CreateTerminal, Goto, lineVars
  <2> QED BY <2>1 DEF TypedInv
<1>3. CASE RegisterListener
  <2>1. taken' = <<>> /\ returned' = <<>> /\ pc' = "gets"
    BY <1>3 DEF RegisterListener, Goto, lineVars, TypedInv
  <2> QED BY <2>1, EditedNothing DEF TypedInv
<1>4. CASE StartLine
  <2>1. /\ pc = "gets" /\ UNCHANGED <<taken, returned>>
        /\ (pc' = "poll" /\ line' = <<>>) \/ pc' = "panic"
    BY <1>4 DEF StartLine, Goto
  <2> QED BY <2>1 DEF TypedInv
<1>5. CASE Poll \/ Copy \/ LoadSize
  <2>1. /\ pc \in {"poll", "copy", "size"} /\ pc' \in {"poll", "copy", "size", "store"}
        /\ UNCHANGED <<line, returned, taken>>
    BY <1>5 DEF Poll, Copy, LoadSize, Goto, lineVars
  <2> QED BY <2>1 DEF TypedInv
<1>6. CASE DecrementSize \/ StoreSize
  BY <1>6, TakeEdits DEF DecrementSize, StoreSize, Goto, lineVars
<1>7. CASE AdvanceHead
  BY <1>7 DEF AdvanceHead, Goto, lineVars, TypedInv
<1>8. CASE HandleChar
  BY <1>8, HandleEdits
<1>9. CASE Execute
  BY <1>9 DEF Execute, Goto, lineVars, TypedInv
<1> QED BY <1>1, <1>2, <1>3, <1>4, <1>5, <1>6, <1>7, <1>8, <1>9 DEF Next, Mainline

-----------------------------------------------------------------------------
(* Theorems *)

LEMMA SizeInvariant == Spec => []SizeInv
BY SizeInvInit, SizeInvNext, PTL DEF Spec

\* The shared buffer, the line and the flags of tty.c keep to their types in
\* every build, wherever the interrupts fall.
THEOREM TtyTypeCorrect == Spec => []TypeOK
<1>1. SizeInv => TypeOK
  BY DEF SizeInv
<1> QED BY <1>1, SizeInvariant, PTL

(***************************************************************************)
(* In every build, even one that loads and stores cb->size separately, the *)
(* buffer never claims more characters than it holds.                      *)
(***************************************************************************)
THEOREM SizeIsNeverOver == Spec => []SizeNeverOver
<1>1. SizeInv => SizeNeverOver
  BY DEF SizeInv
<1> QED BY <1>1, SizeInvariant, PTL

(***************************************************************************)
(* tty_gets never writes beyond its buffer as long as krealloc succeeds.   *)
(***************************************************************************)
THEOREM LinesStayInBounds == ASSUME ~HeapMayFail PROVE Spec => []LineInBounds
<1>1. LineInv /\ SizeInv /\ [Next]_vars => LineInv'
  BY LineInvNext
<1>2. LineInv => LineInBounds
  BY DEF LineInv, LineInBounds
<1> QED BY <1>1, <1>2, LineInvInit, SizeInvariant, PTL DEF Spec

(***************************************************************************)
(* In every build, and even when memory runs out, the lines tty_gets       *)
(* returns are what the characters it took spell, edited as typed.         *)
(***************************************************************************)
THEOREM LinesReturnedAsTyped == Spec => []LinesAsTyped
<1>1. TypedInv => LinesAsTyped
  <2> SUFFICES ASSUME TypedInv, pc \in {"gets", "poll", "copy", "execute"}
               PROVE  returned = Edited(taken).done
    BY DEF LinesAsTyped
  <2> QED BY DEF TypedInv
<1> QED BY <1>1, TypedInvInit, TypedInvNext, SizeInvariant, PTL DEF Spec

(***************************************************************************)
(* With an uninterruptible decrement no character is lost, duplicated or   *)
(* reordered between the key press and tty_gets.                           *)
(***************************************************************************)
THEOREM InputStaysInOrder == ASSUME ~SplitUpdate PROVE Spec => []InputInOrder
<1>1. QueueInv /\ [Next]_vars => QueueInv'
  BY QueueInvNext
<1>2. QueueInv => InputInOrder
  BY DEF QueueInv
<1> QED BY <1>1, <1>2, QueueInvInit, PTL DEF Spec

(***************************************************************************)
(* With an uninterruptible decrement the unlocked circular buffer between  *)
(* the interrupt handler and the mainline implements a bounded queue.      *)
(***************************************************************************)
THEOREM TtyImplementsQueue == ASSUME ~SplitUpdate PROVE Spec => ImplementsQueue
<1>1. Init => Queue!Init
  <2> SUFFICES ASSUME Init PROVE Queue!Init
    OBVIOUS
  <2>1. InputInOrder /\ accepted = <<>> /\ taken = <<>>
    BY QueueInvInit DEF QueueInv, Init
  <2>2. Waiting \in Seq(Char)
    BY QueueInvInit, QueueFacts
  <2>3. Waiting = <<>>
    <3>1. <<>> = <<>> \o Waiting
      BY <2>1 DEF InputInOrder
    <3>2. <<>> \o Waiting = Waiting
      BY <2>2, ConcatEmptySeq
    <3> QED BY <3>1, <3>2, Zenon
  <2> QED BY <2>1, <2>3 DEF Queue!Init
<1>2. QueueInv /\ [Next]_vars => QueueInv'
  BY QueueInvNext
<1>3. QueueInv /\ [Next]_vars => [Queue!Next]_<<Waiting, taken>>
  <2> SUFFICES ASSUME QueueInv, [Next]_vars
               PROVE  [Queue!Next]_<<Waiting, taken>>
    OBVIOUS
  <2>1. QueuePut \/ QueueTake \/ QueueSame
    BY QueueStep
  <2>2. CASE QueuePut
    BY <2>2 DEF QueuePut, Queue!Next, Queue!Put
  <2>3. CASE QueueTake
    BY <2>3 DEF QueueTake, Queue!Next, Queue!Take
  <2>4. CASE QueueSame
    BY <2>4 DEF QueueSame
  <2> QED BY <2>1, <2>2, <2>3, <2>4
<1> QED BY <1>1, <1>2, <1>3, QueueInvInit, PTL DEF Spec, ImplementsQueue, Queue!Spec
=============================================================================
