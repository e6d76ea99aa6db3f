------------------------------ MODULE PciProofs ------------------------------
(***************************************************************************)
(* The device registry, for every machine, every number of cells and every *)
(* sequence of calls: its tree, its lists and its searches on the          *)
(* pointers, the scan of the buses and the probing of the registers.       *)
(***************************************************************************)
EXTENDS Pci, FiniteSetTheorems, SequenceTheorems, WellFoundedInduction, TLAPS

-----------------------------------------------------------------------------
(* Numbers and sequences *)

\* Numbers and what is left of them.
LEMMA Quotient ==
    ASSUME NEW x \in Nat, NEW n \in Nat \ {0}
    PROVE  /\ x \div n \in Nat /\ x % n \in 0 .. n - 1
           /\ x = (n * (x \div n)) + (x % n)
  OBVIOUS

\* A set of numbers that is not empty has a least one.
LEMMA LeastNumber ==
    ASSUME NEW S \in SUBSET Nat, S # {}
    PROVE  \E x \in S : \A y \in S : x <= y
<1>1. PICK x \in S : \A y \in S : <<y, x>> \notin OpToRel(<, Nat)
  BY NatLessThanWellFounded, WFMin
<1>2. ASSUME NEW y \in S PROVE x <= y
  <2>1. ~(y < x)
    BY <1>1 DEF OpToRel
  <2> QED BY <2>1
<1> QED BY <1>2

\* What Min gives.
LEMMA MinOfSet ==
    ASSUME NEW S \in SUBSET Nat, S # {}
    PROVE  Min(S) \in S /\ \A y \in S : Min(S) <= y
BY LeastNumber DEF Min

\* A set of numbers that holds 0 and every successor up to n holds n.
LEMMA UpTo ==
    ASSUME NEW n \in Nat, NEW S, 0 \in S,
           \A k \in 1 .. n : k - 1 \in S => k \in S
    PROVE  \A k \in 0 .. n : k \in S
<1> DEFINE Bad == {k \in 0 .. n : k \notin S}
<1> SUFFICES ASSUME Bad # {} PROVE FALSE
  OBVIOUS
<1>1. PICK m \in Bad : \A y \in Bad : m <= y
  <2>1. Bad \in SUBSET Nat
    OBVIOUS
  <2> QED BY <2>1, LeastNumber
<1>2. m \in 1 .. n /\ m - 1 \in 0 .. n
  BY <1>1
<1>3. m - 1 \notin Bad
  BY <1>1, <1>2
<1> QED BY <1>1, <1>2, <1>3

\* The first n values of an iteration.
Iterates(a, step, n, f) == f = [k \in 0 .. n |-> IF k = 0 THEN a ELSE step[f[k - 1]]]

\* There are such values for every n.
LEMMA IteratesExist ==
    ASSUME NEW a, NEW step, NEW n \in Nat
    PROVE  \E f : Iterates(a, step, n, f)
<1> DEFINE Good == {m \in Nat : \E f : Iterates(a, step, m, f)}
<1>1. 0 \in Good
  <2> DEFINE g == [k \in 0 .. 0 |-> a]
  <2>1. g = [k \in 0 .. 0 |-> IF k = 0 THEN a ELSE step[g[k - 1]]]
    OBVIOUS
  <2>2. Iterates(a, step, 0, g)
    BY <2>1 DEF Iterates
  <2> QED BY <2>2
<1>2. ASSUME NEW m \in 1 .. n, m - 1 \in Good PROVE m \in Good
  <2>1. PICK f : Iterates(a, step, m - 1, f)
    BY <1>2
  <2> DEFINE last == step[f[m - 1]]
             g == [k \in 0 .. m |-> IF k = m THEN last ELSE f[k]]
  <2>2. \A k \in 0 .. m - 1 : g[k] = f[k]
    OBVIOUS
  <2>3. \A k \in 0 .. m - 1 : f[k] = IF k = 0 THEN a ELSE step[f[k - 1]]
    BY <2>1 DEF Iterates
  <2>4. ASSUME NEW k \in 0 .. m PROVE g[k] = IF k = 0 THEN a ELSE step[g[k - 1]]
    <3>1. CASE k = m
      <4>1. g[k] = last /\ g[k - 1] = f[m - 1] /\ k # 0
        BY <2>2, <3>1
      <4> QED BY <3>1, <4>1
    <3>2. CASE k # m
      <4>1. k \in 0 .. m - 1 /\ (k # 0 => k - 1 \in 0 .. m - 1)
        BY <3>2
      <4>2. g[k] = f[k] /\ (k # 0 => g[k - 1] = f[k - 1])
        BY <2>2, <4>1
      <4> HIDE DEF g
      <4> QED BY <2>3, <4>1, <4>2
    <3> QED BY <3>1, <3>2
  <2>5. g = [k \in 0 .. m |-> g[k]]
    OBVIOUS
  <2> HIDE DEF g
  <2>6. Iterates(a, step, m, g)
    BY <2>4, <2>5 DEF Iterates
  <2> QED BY <2>6
<1> HIDE DEF Good
<1>3. n \in Good
  BY <1>1, <1>2, UpTo
<1> QED BY <1>3 DEF Good

\* The iteration that CHOOSE gives, which is how a recursive function is defined.
Iteration(a, step, n) == CHOOSE f : Iterates(a, step, n, f)

\* The chosen values are those of the steps, one after the other.
LEMMA IterationSteps ==
    ASSUME NEW a, NEW step, NEW n \in Nat
    PROVE  /\ Iteration(a, step, n)[0] = a
           /\ \A k \in 1 .. n : Iteration(a, step, n)[k] = step[Iteration(a, step, n)[k - 1]]
<1> DEFINE f == Iteration(a, step, n)
<1>1. Iterates(a, step, n, f)
  BY IteratesExist DEF Iteration
<1> HIDE DEF f
<1>2. \A k \in 0 .. n : f[k] = IF k = 0 THEN a ELSE step[f[k - 1]]
  BY <1>1 DEF Iterates
<1>3. f[0] = a /\ \A k \in 1 .. n : f[k] = step[f[k - 1]]
  BY <1>2
<1> QED BY <1>3 DEF f

\* A sequence without repetitions is as long as it has elements.
LEMMA LengthIsCardinality ==
    ASSUME NEW S, NEW s \in Seq(S), IsInjective(s)
    PROVE  IsFiniteSet(Range(s)) /\ Cardinality(Range(s)) = Len(s)
<1>1. Len(s) \in Nat /\ DOMAIN s = 1 .. Len(s)
  OBVIOUS
<1>2. s \in Bijection(1 .. Len(s), Range(s))
  <2>1. s \in [1 .. Len(s) -> Range(s)]
    BY <1>1 DEF Range
  <2>2. \A a, b \in 1 .. Len(s) : s[a] = s[b] => a = b
    BY <1>1 DEF IsInjective
  <2>3. \A t \in Range(s) : \E x \in 1 .. Len(s) : s[x] = t
    BY <1>1 DEF Range
  <2> QED BY <2>1, <2>2, <2>3 DEF Bijection, Injection, Surjection, IsInjective
<1>3. ExistsBijection(1 .. Len(s), Range(s))
  BY <1>2 DEF ExistsBijection
<1>4. IsFiniteSet(1 .. Len(s)) /\ Cardinality(1 .. Len(s)) = Len(s)
  <2>1. 1 \in Int /\ Len(s) \in Int
    BY <1>1
  <2>2. IsFiniteSet(1 .. Len(s)) /\ Cardinality(1 .. Len(s)) = IF 1 > Len(s) THEN 0 ELSE Len(s) - 1 + 1
    BY <2>1, FS_Interval
  <2> QED BY <1>1, <2>2
<1> QED BY <1>3, <1>4, FS_Bijection

\* The cells are finite.
LEMMA CellsFinite ==
    ASSUME NEW D, D \subseteq Addr
    PROVE  IsFiniteSet(D) /\ Cardinality(D) \in Nat /\ Cardinality(D) <= NumCells
<1>1. IsFiniteSet(Addr) /\ Cardinality(Addr) = NumCells
  <2>1. NumCells \in Nat
    BY DevicesAssumption
  <2>2. IsFiniteSet(1 .. NumCells) /\ Cardinality(1 .. NumCells) = IF 1 > NumCells THEN 0 ELSE NumCells - 1 + 1
    BY <2>1, FS_Interval
  <2> QED BY <2>1, <2>2 DEF Addr
<1>2. IsFiniteSet(D) /\ Cardinality(D) <= Cardinality(Addr)
  BY <1>1, FS_Subset
<1> QED BY <1>1, <1>2, FS_CardinalityType

-----------------------------------------------------------------------------
(* Walks along pointers *)

ChainStep(next) ==
    [w \in [met : Seq(Nat), node : Nat] |->
        IF w.node = NULL THEN w
        ELSE [met |-> Append(w.met, w.node), node |-> next[w.node]]]

\* A walk does what its steps do.
LEMMA ChainSteps ==
    ASSUME NEW next, NEW n, Cardinality(DOMAIN next) \in Nat
    PROVE  \E f : /\ f[0] = [met |-> <<>>, node |-> n]
                  /\ \A k \in 1 .. Cardinality(DOMAIN next) : f[k] = ChainStep(next)[f[k - 1]]
                  /\ Chain(next, n) = f[Cardinality(DOMAIN next)].met
<1> DEFINE N == Cardinality(DOMAIN next)
           a == [met |-> <<>>, node |-> n]
           f == Iteration(a, ChainStep(next), N)
<1>1. f[0] = a /\ \A k \in 1 .. N : f[k] = ChainStep(next)[f[k - 1]]
  <2> HIDE DEF a, N
  <2>1. N \in Nat
    BY DEF N
  <2> QED BY <2>1, IterationSteps
<1>2. Chain(next, n) = f[N].met
  BY Zenon DEF Chain, Iteration, Iterates, ChainStep
<1> QED BY <1>1, <1>2

\* Where a walk from n is after k steps.
ChainAt(next, n, S, R, k, w) ==
    /\ w \in [met : Seq(S), node : S \cup {NULL}]
    /\ IsInjective(w.met)
    /\ w.met = <<>> => w.node = n
    /\ w.met # <<>> => w.met[1] = n /\ next[w.met[Len(w.met)]] = w.node
    /\ \A i \in 1 .. Len(w.met) - 1 : next[w.met[i]] = w.met[i + 1]
    /\ w.node # NULL => Len(w.met) = k /\ \A i \in 1 .. Len(w.met) : w.met[i] \notin R[w.node]

\* One more step.
LEMMA ChainOneStep ==
    ASSUME NEW next, NEW S \in SUBSET Addr, NEW n \in S,
           \A x \in S : next[x] \in S \cup {NULL},
           NEW R,
           \A x \in S : x \in R[x] /\ (next[x] # NULL => R[next[x]] \subseteq R[x] \ {x}),
           NEW k \in Nat, NEW w, ChainAt(next, n, S, R, k, w)
    PROVE  ChainAt(next, n, S, R, k + 1, ChainStep(next)[w])
<1> DEFINE v == ChainStep(next)[w]
<1>0. S \subseteq Nat /\ NULL \notin S /\ NULL \in Nat
  BY DevicesAssumption DEF Addr, NULL
<1>1. /\ w \in [met : Seq(S), node : S \cup {NULL}] /\ w.met \in Seq(S) /\ w.node \in S \cup {NULL}
      /\ w \in [met : Seq(Nat), node : Nat]
  <2>1. w \in [met : Seq(S), node : S \cup {NULL}] /\ w.met \in Seq(S) /\ w.node \in S \cup {NULL}
    BY DEF ChainAt
  <2>2. w.met \in Seq(Nat) /\ w.node \in Nat
    BY <1>0, <2>1, SeqMonotonic
  <2>3. w = [met |-> w.met, node |-> w.node]
    BY <2>1
  <2> QED BY <2>1, <2>2, <2>3
<1>2. CASE w.node = NULL
  <2>1. v = w
    BY <1>1, <1>2 DEF ChainStep
  <2> QED BY <1>2, <2>1 DEF ChainAt
<1>3. CASE w.node # NULL
  <2> DEFINE x == w.node
             s == w.met
             t == Append(s, x)
  <2>1. v = [met |-> t, node |-> next[x]]
    BY <1>1, <1>3 DEF ChainStep
  <2>2. x \in S /\ s \in Seq(S) /\ Len(s) = k /\ next[x] \in S \cup {NULL} /\ x \in R[x]
    BY <1>1, <1>3 DEF ChainAt
  <2>3. \A i \in 1 .. k : s[i] \notin R[x]
    BY <1>3, <2>2 DEF ChainAt
  <2>4. /\ t \in Seq(S) /\ Len(t) = k + 1 /\ t[k + 1] = x
        /\ \A i \in 1 .. k : t[i] = s[i]
    BY <2>2
  <2>5. /\ \A i, j \in 1 .. k : s[i] = s[j] => i = j
        /\ k = 0 => x = n
        /\ k # 0 => s[1] = n /\ next[s[k]] = x
        /\ \A i \in 1 .. k - 1 : next[s[i]] = s[i + 1]
    <3>1. k = 0 <=> s = <<>>
      BY <2>2
    <3>2. DOMAIN s = 1 .. k
      BY <2>2
    <3>3. \A i, j \in 1 .. k : s[i] = s[j] => i = j
      BY <3>2 DEF ChainAt, IsInjective
    <3>4. k = 0 => x = n
      BY <3>1 DEF ChainAt
    <3>5. k # 0 => s[1] = n /\ next[s[k]] = x
      BY <2>2, <3>1 DEF ChainAt
    <3>6. \A i \in 1 .. k - 1 : next[s[i]] = s[i + 1]
      BY <2>2 DEF ChainAt
    <3> QED BY <3>3, <3>4, <3>5, <3>6
  <2> HIDE DEF x, s, t
  <2>6. IsInjective(t)
    <3>1. DOMAIN t = 1 .. k + 1
      BY <2>4
    <3>2. ASSUME NEW i \in 1 .. k + 1, NEW j \in 1 .. k + 1, t[i] = t[j] PROVE i = j
      <4>1. \A l \in 1 .. k + 1 : l = k + 1 \/ l \in 1 .. k
        OBVIOUS
      <4>2. \A l \in 1 .. k : t[l] # x
        BY <2>2, <2>3, <2>4
      <4> QED BY <2>4, <2>5, <3>2, <4>1, <4>2
    <3> QED BY <3>1, <3>2 DEF IsInjective
  <2>7. t # <<>> /\ t[1] = n /\ next[t[Len(t)]] = next[x]
    <3>1. CASE k = 0
      BY <2>4, <2>5, <3>1
    <3>2. CASE k # 0
      <4>1. 1 \in 1 .. k
        BY <3>2
      <4> QED BY <2>4, <2>5, <3>2, <4>1
    <3> QED BY <3>1, <3>2
  <2>8. ASSUME NEW i \in 1 .. Len(t) - 1 PROVE next[t[i]] = t[i + 1]
    <3>1. i \in 1 .. k
      BY <2>4
    <3>2. CASE i = k
      BY <2>4, <2>5, <3>1, <3>2
    <3>3. CASE i # k
      <4>1. i \in 1 .. k - 1 /\ i + 1 \in 1 .. k
        BY <3>1, <3>3
      <4> QED BY <2>4, <2>5, <3>1, <4>1
    <3> QED BY <3>2, <3>3
  <2>9. next[x] # NULL => \A i \in 1 .. Len(t) : t[i] \notin R[next[x]]
    <3> SUFFICES ASSUME next[x] # NULL, NEW i \in 1 .. k + 1 PROVE t[i] \notin R[next[x]]
      BY <2>4
    <3>1. R[next[x]] \subseteq R[x] \ {x}
      BY <2>2
    <3>2. CASE i = k + 1
      BY <2>4, <3>1, <3>2
    <3>3. CASE i # k + 1
      <4>1. i \in 1 .. k
        BY <3>3
      <4> QED BY <2>3, <2>4, <3>1, <4>1
    <3> QED BY <3>2, <3>3
  <2>10. v.met = t /\ v.node = next[x] /\ v \in [met : Seq(S), node : S \cup {NULL}]
    BY <2>1, <2>2, <2>4
  <2> HIDE DEF v
  <2>11. ChainAt(next, n, S, R, k + 1, v)
    BY <2>4, <2>6, <2>7, <2>8, <2>9, <2>10 DEF ChainAt
  <2> QED BY <2>11 DEF v
<1> QED BY <1>2, <1>3

\* A walk along next from n to where there is no more.
IsWalk(next, n, S, c) ==
    /\ c \in Seq(S) /\ IsInjective(c)
    /\ Len(c) \in Nat \ {0} /\ c[1] = n
    /\ next[c[Len(c)]] = NULL
    /\ \A i \in 1 .. Len(c) - 1 : next[c[i]] = c[i + 1]

(***************************************************************************)
(* A walk that only goes on to where there is less before it ends, and     *)
(* meets a chain of different cells.                                       *)
(***************************************************************************)
LEMMA ChainWalk ==
    ASSUME NEW next, DOMAIN next \subseteq Addr, NEW S \in SUBSET DOMAIN next, NEW n \in S,
           \A x \in S : next[x] \in S \cup {NULL},
           NEW R,
           \A x \in S : x \in R[x] /\ (next[x] # NULL => R[next[x]] \subseteq R[x] \ {x})
    PROVE  IsWalk(next, n, S, Chain(next, n))
<1> DEFINE D == DOMAIN next
           N == Cardinality(D)
<1>1. IsFiniteSet(D) /\ N \in Nat /\ S \in SUBSET Addr
  BY CellsFinite
<1>2. PICK f : /\ f[0] = [met |-> <<>>, node |-> n]
               /\ \A k \in 1 .. N : f[k] = ChainStep(next)[f[k - 1]]
               /\ Chain(next, n) = f[N].met
  BY <1>1, ChainSteps
<1> DEFINE Good == {k \in Nat : ChainAt(next, n, S, R, k, f[k])}
<1>3. 0 \in Good
  <2>1. f[0].met = <<>> /\ f[0].node = n /\ f[0] \in [met : Seq(S), node : S \cup {NULL}]
    BY <1>2
  <2>2. IsInjective(<<>>) /\ Len(<<>>) = 0
    BY DEF IsInjective
  <2> QED BY <2>1, <2>2 DEF ChainAt
<1>4. ASSUME NEW k \in 1 .. N, k - 1 \in Good PROVE k \in Good
  <2>1. ChainAt(next, n, S, R, k - 1, f[k - 1]) /\ k - 1 \in Nat /\ (k - 1) + 1 = k
    BY <1>4
  <2>2. ChainAt(next, n, S, R, (k - 1) + 1, ChainStep(next)[f[k - 1]])
    BY <1>1, <2>1, ChainOneStep
  <2>3. ChainAt(next, n, S, R, k, f[k])
    BY <1>2, <2>1, <2>2
  <2> QED BY <2>3
<1> HIDE DEF Good
<1>5. N \in Good
  BY <1>1, <1>3, <1>4, UpTo
<1> DEFINE w == f[N]
<1>6. ChainAt(next, n, S, R, N, w)
  BY <1>5 DEF Good
<1> HIDE DEF w, N, D
<1>7. w.met \in Seq(S) /\ IsInjective(w.met) /\ w.node \in S \cup {NULL}
  BY <1>6 DEF ChainAt
<1>8. w.node = NULL
  <2> SUFFICES ASSUME w.node # NULL PROVE FALSE
    OBVIOUS
  <2>1. Len(w.met) = N /\ w.node \in S /\ \A i \in 1 .. Len(w.met) : w.met[i] \notin R[w.node]
    BY <1>6, <1>7 DEF ChainAt
  <2>2. w.node \in R[w.node] /\ w.node \in D
    BY <2>1 DEF D
  <2>3. Range(w.met) \subseteq D \ {w.node}
    <3>1. \A i \in DOMAIN w.met : w.met[i] \in S /\ w.met[i] # w.node
      BY <1>7, <2>1, <2>2
    <3> QED BY <3>1 DEF Range, D
  <2>4. Cardinality(Range(w.met)) = N
    BY <1>7, <2>1, LengthIsCardinality
  <2>5. Range(w.met) \subseteq D /\ Cardinality(Range(w.met)) = Cardinality(D)
    BY <2>3, <2>4 DEF N
  <2>6. Range(w.met) = D
    BY <1>1, <2>5, FS_Subset
  <2> QED BY <2>2, <2>3, <2>6
<1>9. w.met # <<>>
  <2>1. NULL \notin S
    BY <1>1, DevicesAssumption DEF Addr, NULL
  <2> QED BY <1>6, <1>8, <2>1 DEF ChainAt
<1>10. Len(w.met) \in Nat \ {0}
  BY <1>7, <1>9
<1>11. Chain(next, n) = w.met
  BY <1>2 DEF w, N, D
<1> QED BY <1>6, <1>7, <1>8, <1>9, <1>10, <1>11 DEF ChainAt, IsWalk

-----------------------------------------------------------------------------
(* Walks through a tree *)

\* The region at a pointer.
Reach(R, n) == IF n = NULL THEN {} ELSE R[n]

\* A cell has its own region: itself and the regions at its two pointers, apart
\* from each other.
Parted(R, n, c, s) ==
    /\ R[n] = {n} \cup Reach(R, c) \cup Reach(R, s)
    /\ n \notin Reach(R, c) /\ n \notin Reach(R, s)
    /\ Reach(R, c) \cap Reach(R, s) = {}

SlideIn(m, x, n) == IF n = x THEN NULL ELSE m[n].slide

VisitStep(m, x) ==
    [w \in [met : Seq(Nat), todo : Seq(Nat)] |->
        IF w.todo = <<>> THEN w
        ELSE LET n == Head(w.todo)
                 slide == IF n = x THEN NULL ELSE m[n].slide
             IN [met |-> Append(w.met, n),
                 todo |-> Pointer(m[n].child) \o Pointer(slide) \o Tail(w.todo)]]

\* A visit does what its steps do.
LEMMA VisitSteps ==
    ASSUME NEW m, NEW x, Cardinality(DOMAIN m) \in Nat
    PROVE  \E f : /\ f[0] = [met |-> <<>>, todo |-> Pointer(x)]
                  /\ \A k \in 1 .. Cardinality(DOMAIN m) : f[k] = VisitStep(m, x)[f[k - 1]]
                  /\ Visit(m, x) = f[Cardinality(DOMAIN m)].met
<1> DEFINE N == Cardinality(DOMAIN m)
           a == [met |-> <<>>, todo |-> Pointer(x)]
           f == Iteration(a, VisitStep(m, x), N)
<1>1. f[0] = a /\ \A k \in 1 .. N : f[k] = VisitStep(m, x)[f[k - 1]]
  <2> HIDE DEF a, N
  <2>1. N \in Nat
    BY DEF N
  <2> QED BY <2>1, IterationSteps
<1>2. Visit(m, x) = f[N].met
  BY Zenon DEF Visit, Iteration, Iterates, VisitStep
<1> QED BY <1>1, <1>2

\* What two pointers give to visit.
Pair(S, c, s, h) ==
    /\ h \in Seq(S) /\ Len(h) \in Nat
    /\ \A i \in 1 .. Len(h) : h[i] \in {c, s}
    /\ \A i, j \in 1 .. Len(h) : i # j => (h[i] = c /\ h[j] = s) \/ (h[i] = s /\ h[j] = c)
    /\ c # NULL => \E i \in 1 .. Len(h) : h[i] = c
    /\ s # NULL => \E i \in 1 .. Len(h) : h[i] = s

\* The pointers put on the stack are those that are not NULL.
LEMMA TwoPointers ==
    ASSUME NEW S \in SUBSET Nat, NULL \notin S, NEW c \in S \cup {NULL}, NEW s \in S \cup {NULL},
           NEW h, h = Pointer(c) \o Pointer(s)
    PROVE  Pair(S, c, s, h)
<1>1. CASE c = NULL /\ s = NULL
  <2>1. h = <<>>
    BY <1>1 DEF Pointer
  <2>2. h \in Seq(S) /\ Len(h) = 0 /\ 1 .. 0 = {}
    BY <2>1
  <2> QED BY <1>1, <2>2 DEF Pair
<1>2. CASE c = NULL /\ s # NULL
  <2>1. h = <<s>> /\ s \in S
    BY <1>2 DEF Pointer
  <2>2. h \in Seq(S) /\ Len(h) = 1 /\ h[1] = s
    BY <2>1
  <2> QED BY <1>2, <2>2 DEF Pair
<1>3. CASE c # NULL /\ s = NULL
  <2>1. h = <<c>> /\ c \in S
    BY <1>3 DEF Pointer
  <2>2. h \in Seq(S) /\ Len(h) = 1 /\ h[1] = c
    BY <2>1
  <2> QED BY <1>3, <2>2 DEF Pair
<1>4. CASE c # NULL /\ s # NULL
  <2> DEFINE u == <<c>>
             v == <<s>>
  <2>1. h = u \o v /\ c \in S /\ s \in S
    BY <1>4 DEF Pointer
  <2>2. u \in Seq(S) /\ v \in Seq(S) /\ Len(u) = 1 /\ Len(v) = 1 /\ u[1] = c /\ v[1] = s
    BY <2>1
  <2> HIDE DEF u, v
  <2>3. h \in Seq(S) /\ Len(h) = 2 /\ h[1] = c /\ h[2] = s
    <3>1. h \in Seq(S) /\ Len(h) = Len(u) + Len(v)
          /\ \A i \in 1 .. Len(u) + Len(v) : h[i] = IF i <= Len(u) THEN u[i] ELSE v[i - Len(u)]
      <4>1. /\ u \o v \in Seq(S) /\ Len(u \o v) = Len(u) + Len(v)
            /\ \A i \in 1 .. Len(u) + Len(v) : (u \o v)[i] = IF i <= Len(u) THEN u[i] ELSE v[i - Len(u)]
        BY <2>2, ConcatProperties
      <4> QED BY <2>1, <4>1
    <3>2. h[1] = u[1] /\ h[2] = v[1]
      BY <2>2, <3>1
    <3> QED BY <2>2, <3>1, <3>2
  <2> QED BY <1>4, <2>3 DEF Pair
<1> QED BY <1>1, <1>2, <1>3, <1>4

\* Where a visit from x is after k steps: what it has met and the regions still
\* to be visited make up the region of x, each cell once.
VisitAt(S, R, x, k, w) ==
    /\ w \in [met : Seq(S), todo : Seq(S)]
    /\ IsInjective(w.met)
    /\ \A i \in 1 .. Len(w.todo) : \A j \in 1 .. Len(w.met) : w.met[j] \notin R[w.todo[i]]
    /\ \A i, j \in 1 .. Len(w.todo) : i # j => R[w.todo[i]] \cap R[w.todo[j]] = {}
    /\ \A y : y \in R[x] <=> \/ \E j \in 1 .. Len(w.met) : w.met[j] = y
                             \/ \E i \in 1 .. Len(w.todo) : y \in R[w.todo[i]]
    /\ w.todo # <<>> => Len(w.met) = k

\* A sequence behind another one.
LEMMA Behind ==
    ASSUME NEW S, NEW h \in Seq(S), NEW t \in Seq(S), t # <<>>
    PROVE  LET u == h \o Tail(t)
               a == Len(h)
           IN  /\ u \in Seq(S) /\ Len(u) = a + Len(t) - 1
               /\ \A i \in 1 .. Len(u) : \/ i \in 1 .. a /\ u[i] = h[i]
                                         \/ i \notin 1 .. a /\ i - a + 1 \in 2 .. Len(t) /\ u[i] = t[i - a + 1]
               /\ \A i \in 1 .. a : i \in 1 .. Len(u) /\ u[i] = h[i]
               /\ \A i \in 2 .. Len(t) : i + a - 1 \in 1 .. Len(u) /\ u[i + a - 1] = t[i]
<1> DEFINE v == Tail(t)
           u == h \o v
           a == Len(h)
<1>1. /\ v \in Seq(S) /\ Len(v) = Len(t) - 1 /\ Len(t) \in Nat \ {0}
      /\ \A i \in 1 .. Len(v) : v[i] = t[i + 1]
  <2>1. Len(t) \in Nat \ {0}
    BY EmptySeq
  <2> QED BY <2>1, HeadTailProperties
<1> HIDE DEF v
<1>2. /\ u \in Seq(S) /\ Len(u) = a + Len(v) /\ a \in Nat
      /\ \A i \in 1 .. a + Len(v) : u[i] = IF i <= a THEN h[i] ELSE v[i - a]
  <2>1. a \in Nat
    OBVIOUS
  <2> QED BY <1>1, <2>1, ConcatProperties
<1> HIDE DEF u, a
<1>3. Len(u) = a + Len(t) - 1
  BY <1>1, <1>2
<1>4. ASSUME NEW i \in 1 .. Len(u)
      PROVE  \/ i \in 1 .. a /\ u[i] = h[i]
             \/ i \notin 1 .. a /\ i - a + 1 \in 2 .. Len(t) /\ u[i] = t[i - a + 1]
  <2>1. CASE i <= a
    BY <1>1, <1>2, <2>1
  <2>2. CASE ~(i <= a)
    <3>1. i - a \in 1 .. Len(v) /\ u[i] = v[i - a]
      BY <1>1, <1>2, <2>2
    <3>2. v[i - a] = t[i - a + 1]
      BY <1>1, <3>1
    <3> QED BY <1>1, <1>2, <2>2, <3>1, <3>2
  <2> QED BY <2>1, <2>2
<1>5. ASSUME NEW i \in 1 .. a PROVE i \in 1 .. Len(u) /\ u[i] = h[i]
  BY <1>1, <1>2
<1>6. ASSUME NEW i \in 2 .. Len(t) PROVE i + a - 1 \in 1 .. Len(u) /\ u[i + a - 1] = t[i]
  <2>1. i - 1 \in 1 .. Len(v) /\ i + a - 1 \in 1 .. a + Len(v) /\ ~(i + a - 1 <= a)
        /\ (i + a - 1) - a = i - 1 /\ (i - 1) + 1 = i
    BY <1>1, <1>2
  <2>2. u[i + a - 1] = v[i - 1]
    BY <1>2, <2>1
  <2>3. v[i - 1] = t[(i - 1) + 1]
    BY <1>1, <2>1
  <2> QED BY <1>2, <2>1, <2>2, <2>3
<1> QED BY <1>2, <1>3, <1>4, <1>5, <1>6 DEF u, a, v

\* One more step.
LEMMA VisitOneStep ==
    ASSUME NEW m, NEW S \in SUBSET Addr, NEW x \in S, NEW R \in [S -> SUBSET S],
           \A n \in S : /\ m[n].child \in S \cup {NULL} /\ SlideIn(m, x, n) \in S \cup {NULL}
                        /\ Parted(R, n, m[n].child, SlideIn(m, x, n)),
           NEW k \in Nat, NEW w, VisitAt(S, R, x, k, w)
    PROVE  VisitAt(S, R, x, k + 1, VisitStep(m, x)[w])
<1> DEFINE v == VisitStep(m, x)[w]
<1>0. S \in SUBSET Nat /\ NULL \notin S /\ NULL \in Nat
  BY DevicesAssumption DEF Addr, NULL
<1>1. /\ w.met \in Seq(S) /\ w.todo \in Seq(S)
      /\ w \in [met : Seq(Nat), todo : Seq(Nat)]
  <2>1. w \in [met : Seq(S), todo : Seq(S)] /\ w.met \in Seq(S) /\ w.todo \in Seq(S)
    BY DEF VisitAt
  <2>2. w.met \in Seq(Nat) /\ w.todo \in Seq(Nat)
    BY <1>0, <2>1, SeqMonotonic
  <2>3. w = [met |-> w.met, todo |-> w.todo]
    BY <2>1
  <2> QED BY <2>1, <2>2, <2>3
<1>2. CASE w.todo = <<>>
  <2>1. v = w
    BY <1>1, <1>2 DEF VisitStep
  <2> QED BY <1>2, <2>1 DEF VisitAt
<1>3. CASE w.todo # <<>>
  <2> DEFINE s == w.met
             t == w.todo
             n == t[1]
             c == m[n].child
             d == SlideIn(m, x, n)
             h == Pointer(c) \o Pointer(d)
             a == Len(h)
             u == h \o Tail(t)
             p == Append(s, n)
  <2>1. s \in Seq(S) /\ t \in Seq(S) /\ Len(t) \in Nat \ {0} /\ n \in S /\ Len(s) = k
    <3>1. Len(t) \in Nat \ {0}
      BY <1>1, <1>3, EmptySeq
    <3>2. Len(s) = k
      BY <1>3 DEF VisitAt
    <3> QED BY <1>1, <3>1, <3>2
  <2>2. v = [met |-> p, todo |-> u]
    <3>1. Head(t) = n
      BY <1>1, <1>3
    <3>2. v = [met |-> Append(s, Head(t)),
               todo |-> Pointer(m[Head(t)].child) \o Pointer(SlideIn(m, x, Head(t))) \o Tail(t)]
      BY <1>1, <1>3 DEF VisitStep, SlideIn
    <3> QED BY <3>1, <3>2
  <2>3. c \in S \cup {NULL} /\ d \in S \cup {NULL} /\ Parted(R, n, c, d)
    BY <2>1
  <2>4. /\ \A i, j \in 1 .. k : s[i] = s[j] => i = j
        /\ \A i \in 1 .. Len(t) : \A j \in 1 .. k : s[j] \notin R[t[i]]
        /\ \A i, j \in 1 .. Len(t) : i # j => R[t[i]] \cap R[t[j]] = {}
        /\ \A y : y \in R[x] <=> \/ \E j \in 1 .. k : s[j] = y
                                 \/ \E i \in 1 .. Len(t) : y \in R[t[i]]
    <3>1. DOMAIN s = 1 .. k
      BY <2>1
    <3>2. \A i, j \in 1 .. k : s[i] = s[j] => i = j
      BY <3>1 DEF VisitAt, IsInjective
    <3> QED BY <2>1, <3>2 DEF VisitAt
  <2>5. v.met = p /\ v.todo = u
    <3> HIDE DEF v, p, u
    <3> QED BY <2>2
  <2>6. /\ h \in Seq(S) /\ a \in Nat
        /\ \A i \in 1 .. a : h[i] \in {c, d}
        /\ \A i, j \in 1 .. a : i # j => (h[i] = c /\ h[j] = d) \/ (h[i] = d /\ h[j] = c)
        /\ c # NULL => \E i \in 1 .. a : h[i] = c
        /\ d # NULL => \E i \in 1 .. a : h[i] = d
    <3> HIDE DEF c, d
    <3>1. h = Pointer(c) \o Pointer(d)
      OBVIOUS
    <3> HIDE DEF h
    <3>2. Pair(S, c, d, h)
      BY <1>0, <2>3, <3>1, TwoPointers
    <3> QED BY <3>2 DEF Pair
  <2> HIDE DEF h, c, d
  <2>7. /\ u \in Seq(S) /\ Len(u) = a + Len(t) - 1
        /\ \A i \in 1 .. Len(u) : \/ i \in 1 .. a /\ u[i] = h[i]
                                  \/ i \notin 1 .. a /\ i - a + 1 \in 2 .. Len(t) /\ u[i] = t[i - a + 1]
        /\ \A i \in 1 .. a : i \in 1 .. Len(u) /\ u[i] = h[i]
        /\ \A i \in 2 .. Len(t) : i + a - 1 \in 1 .. Len(u) /\ u[i + a - 1] = t[i]
    <3> HIDE DEF s, t, n
    <3> QED BY <1>3, <2>1, <2>6, Behind DEF t
  <2>8. /\ p \in Seq(S) /\ Len(p) = k + 1 /\ p[k + 1] = n
        /\ \A i \in 1 .. k : p[i] = s[i]
    BY <2>1, AppendProperties
  <2>9. \A i \in 1 .. a : h[i] # NULL /\ R[h[i]] \subseteq R[n] /\ n \notin R[h[i]]
    <3> SUFFICES ASSUME NEW i \in 1 .. a PROVE h[i] # NULL /\ R[h[i]] \subseteq R[n] /\ n \notin R[h[i]]
      OBVIOUS
    <3>1. h[i] \in S /\ h[i] # NULL
      BY <1>0, <2>6
    <3>2. h[i] = c \/ h[i] = d
      BY <2>6
    <3> QED BY <2>3, <3>1, <3>2 DEF Parted, Reach
  <2> HIDE DEF v, s, t, n, a, u, p
  <2>10. 1 \in 1 .. Len(t) /\ n = t[1] /\ n \in R[n]
    <3>1. n \in R[n]
      BY <2>3 DEF Parted
    <3> QED BY <2>1, <3>1 DEF n
  <2>11. \A i \in 1 .. k : s[i] \notin R[n] /\ s[i] # n
    BY <2>4, <2>10
  <2>12. IsInjective(p)
    <3>1. DOMAIN p = 1 .. k + 1
      BY <2>8
    <3>2. ASSUME NEW i \in 1 .. k + 1, NEW j \in 1 .. k + 1, p[i] = p[j] PROVE i = j
      <4>1. \A l \in 1 .. k + 1 : l = k + 1 \/ l \in 1 .. k
        OBVIOUS
      <4>2. \A l \in 1 .. k : p[l] # n
        BY <2>8, <2>11
      <4> QED BY <2>4, <2>8, <3>2, <4>1, <4>2
    <3> QED BY <3>1, <3>2 DEF IsInjective
  <2>13. ASSUME NEW i \in 1 .. Len(u), NEW j \in 1 .. Len(p) PROVE p[j] \notin R[u[i]]
    <3>1. j = k + 1 \/ j \in 1 .. k
      BY <2>8
    <3>2. CASE i \in 1 .. a
      <4>1. u[i] = h[i]
        BY <2>7, <3>2
      <4> QED BY <2>8, <2>9, <2>11, <3>1, <3>2, <4>1
    <3>3. CASE i \notin 1 .. a
      <4>1. i - a + 1 \in 1 .. Len(t) /\ i - a + 1 # 1 /\ u[i] = t[i - a + 1]
        BY <2>1, <2>7, <3>3
      <4>2. R[t[i - a + 1]] \cap R[n] = {}
        BY <2>4, <2>10, <4>1
      <4>3. n \notin R[t[i - a + 1]]
        BY <2>10, <4>2
      <4>4. \A l \in 1 .. k : s[l] \notin R[t[i - a + 1]]
        BY <2>4, <4>1
      <4> QED BY <2>8, <3>1, <4>1, <4>3, <4>4
    <3> QED BY <3>2, <3>3
  <2>14. ASSUME NEW i \in 1 .. Len(u), NEW j \in 1 .. Len(u), i # j PROVE R[u[i]] \cap R[u[j]] = {}
    <3>1. ASSUME NEW l \in 1 .. Len(u)
          PROVE  \/ l \in 1 .. a /\ u[l] = h[l] /\ R[u[l]] \subseteq R[n]
                 \/ l \notin 1 .. a /\ l - a + 1 \in 2 .. Len(t) /\ u[l] = t[l - a + 1]
                    /\ R[u[l]] \cap R[n] = {}
      <4>1. CASE l \in 1 .. a
        BY <2>7, <2>9, <4>1
      <4>2. CASE l \notin 1 .. a
        <5>1. l - a + 1 \in 2 .. Len(t) /\ u[l] = t[l - a + 1]
          BY <2>7, <4>2
        <5>2. l - a + 1 \in 1 .. Len(t) /\ l - a + 1 # 1
          BY <2>1, <5>1
        <5> QED BY <2>4, <2>10, <4>2, <5>1, <5>2
      <4> QED BY <4>1, <4>2
    <3>2. CASE i \in 1 .. a /\ j \in 1 .. a
      <4>1. u[i] = h[i] /\ u[j] = h[j] /\ h[i] # NULL /\ h[j] # NULL
        BY <2>7, <2>9, <3>2
      <4>2. (h[i] = c /\ h[j] = d) \/ (h[i] = d /\ h[j] = c)
        BY <2>6, <2>14, <3>2
      <4> QED BY <2>3, <4>1, <4>2 DEF Parted, Reach
    <3>3. CASE i \in 1 .. a /\ j \notin 1 .. a
      <4>1. R[u[i]] \subseteq R[n] /\ R[u[j]] \cap R[n] = {}
        BY <3>1, <3>3
      <4> QED BY <4>1
    <3>4. CASE i \notin 1 .. a /\ j \in 1 .. a
      <4>1. R[u[j]] \subseteq R[n] /\ R[u[i]] \cap R[n] = {}
        BY <3>1, <3>4
      <4> QED BY <4>1
    <3>5. CASE i \notin 1 .. a /\ j \notin 1 .. a
      <4>1. u[i] = t[i - a + 1] /\ u[j] = t[j - a + 1] /\ i - a + 1 # j - a + 1
            /\ i - a + 1 \in 1 .. Len(t) /\ j - a + 1 \in 1 .. Len(t)
        BY <2>1, <2>6, <2>14, <3>1, <3>5
      <4> QED BY <2>4, <4>1
    <3> QED BY <3>2, <3>3, <3>4, <3>5
  <2>15. ASSUME NEW y PROVE y \in R[x] <=> \/ \E j \in 1 .. Len(p) : p[j] = y
                                           \/ \E i \in 1 .. Len(u) : y \in R[u[i]]
    <3>1. ASSUME NEW j \in 1 .. Len(p), p[j] = y PROVE y \in R[x]
      <4>1. CASE j = k + 1
        BY <2>4, <2>8, <2>10, <3>1, <4>1
      <4>2. CASE j # k + 1
        <5>1. j \in 1 .. k
          BY <2>8, <4>2
        <5> QED BY <2>4, <2>8, <3>1, <5>1
      <4> QED BY <4>1, <4>2
    <3>2. ASSUME NEW i \in 1 .. Len(u), y \in R[u[i]] PROVE y \in R[x]
      <4>1. CASE i \in 1 .. a
        <5>1. y \in R[n]
          BY <2>7, <2>9, <3>2, <4>1
        <5> QED BY <2>4, <2>10, <5>1
      <4>2. CASE i \notin 1 .. a
        <5>1. i - a + 1 \in 1 .. Len(t) /\ u[i] = t[i - a + 1]
          BY <2>1, <2>7, <4>2
        <5> QED BY <2>4, <3>2, <5>1
      <4> QED BY <4>1, <4>2
    <3>3. ASSUME NEW j \in 1 .. k, s[j] = y PROVE \E l \in 1 .. Len(p) : p[l] = y
      <4>1. j \in 1 .. Len(p) /\ p[j] = y
        BY <2>8, <3>3
      <4> QED BY <4>1
    <3>4. ASSUME NEW i \in 1 .. Len(t), y \in R[t[i]]
          PROVE  \/ \E j \in 1 .. Len(p) : p[j] = y
                 \/ \E l \in 1 .. Len(u) : y \in R[u[l]]
      <4>1. CASE i = 1
        <5>1. y = n \/ y \in Reach(R, c) \/ y \in Reach(R, d)
          BY <2>3, <2>10, <3>4, <4>1 DEF Parted
        <5>2. CASE y = n
          <6>1. k + 1 \in 1 .. Len(p) /\ p[k + 1] = y
            BY <2>8, <5>2
          <6> QED BY <6>1
        <5>3. ASSUME NEW g \in {c, d}, y \in Reach(R, g) PROVE \E l \in 1 .. Len(u) : y \in R[u[l]]
          <6>1. g # NULL /\ y \in R[g]
            BY <5>3 DEF Reach
          <6>2. PICK l \in 1 .. a : h[l] = g
            BY <2>6, <6>1
          <6>3. l \in 1 .. Len(u) /\ u[l] = g
            BY <2>7, <6>2
          <6> QED BY <6>1, <6>3
        <5> QED BY <5>1, <5>2, <5>3
      <4>2. CASE i # 1
        <5>1. i \in 2 .. Len(t)
          BY <2>1, <4>2
        <5>2. i + a - 1 \in 1 .. Len(u) /\ u[i + a - 1] = t[i]
          BY <2>7, <5>1
        <5> QED BY <3>4, <5>2
      <4> QED BY <4>1, <4>2
    <3>5. y \in R[x] <=> \/ \E j \in 1 .. k : s[j] = y
                         \/ \E i \in 1 .. Len(t) : y \in R[t[i]]
      BY <2>4
    <3> QED BY <3>1, <3>2, <3>3, <3>4, <3>5
  <2>16. v \in [met : Seq(S), todo : Seq(S)]
    BY <2>2, <2>7, <2>8
  <2>17. VisitAt(S, R, x, k + 1, v)
    BY <2>5, <2>8, <2>12, <2>13, <2>14, <2>15, <2>16 DEF VisitAt
  <2> QED BY <2>17 DEF v
<1> QED BY <1>2, <1>3

(***************************************************************************)
(* A visit meets every cell of the region it starts from, each once.       *)
(***************************************************************************)
LEMMA VisitWalk ==
    ASSUME NEW m, DOMAIN m \subseteq Addr, NEW S \in SUBSET DOMAIN m, NEW x \in S, NEW R \in [S -> SUBSET S],
           \A n \in S : /\ m[n].child \in S \cup {NULL} /\ SlideIn(m, x, n) \in S \cup {NULL}
                        /\ Parted(R, n, m[n].child, SlideIn(m, x, n))
    PROVE  /\ Visit(m, x) \in Seq(S) /\ IsInjective(Visit(m, x))
           /\ Range(Visit(m, x)) = R[x]
<1> DEFINE D == DOMAIN m
           N == Cardinality(D)
<1>1. IsFiniteSet(D) /\ N \in Nat /\ S \in SUBSET Addr
  BY CellsFinite
<1>2. PICK f : /\ f[0] = [met |-> <<>>, todo |-> Pointer(x)]
               /\ \A k \in 1 .. N : f[k] = VisitStep(m, x)[f[k - 1]]
               /\ Visit(m, x) = f[N].met
  BY <1>1, VisitSteps
<1> DEFINE Good == {k \in Nat : VisitAt(S, R, x, k, f[k])}
<1>3. 0 \in Good
  <2>1. x # NULL
    BY <1>1, DevicesAssumption DEF Addr, NULL
  <2>2. f[0].met = <<>> /\ f[0].todo = <<x>> /\ f[0] \in [met : Seq(S), todo : Seq(S)]
    BY <1>2, <2>1 DEF Pointer
  <2>3. IsInjective(<<>>) /\ Len(<<>>) = 0 /\ Len(<<x>>) = 1 /\ <<x>>[1] = x
    BY DEF IsInjective
  <2>4. 1 .. 0 = {} /\ 1 .. 1 = {1}
    OBVIOUS
  <2> DEFINE g == f[0]
  <2>5. g.met = <<>> /\ g.todo = <<x>> /\ Len(g.met) = 0 /\ Len(g.todo) = 1 /\ g.todo[1] = x
    BY <2>2, <2>3
  <2>6. VisitAt(S, R, x, 0, g)
    <3> HIDE DEF g
    <3>1. \A y : y \in R[x] <=> \/ \E j \in 1 .. Len(g.met) : g.met[j] = y
                                \/ \E i \in 1 .. Len(g.todo) : y \in R[g.todo[i]]
      BY <2>4, <2>5
    <3>2. \A i, j \in 1 .. Len(g.todo) : i # j => R[g.todo[i]] \cap R[g.todo[j]] = {}
      BY <2>4, <2>5
    <3>3. \A i \in 1 .. Len(g.todo) : \A j \in 1 .. Len(g.met) : g.met[j] \notin R[g.todo[i]]
      BY <2>4, <2>5
    <3>4. g \in [met : Seq(S), todo : Seq(S)] /\ IsInjective(g.met)
      BY <2>2, <2>3, <2>5 DEF g
    <3> QED BY <2>5, <3>1, <3>2, <3>3, <3>4 DEF VisitAt
  <2> QED BY <2>6
<1>4. ASSUME NEW k \in 1 .. N, k - 1 \in Good PROVE k \in Good
  <2>1. VisitAt(S, R, x, k - 1, f[k - 1]) /\ k - 1 \in Nat /\ (k - 1) + 1 = k
    BY <1>4
  <2>2. VisitAt(S, R, x, (k - 1) + 1, VisitStep(m, x)[f[k - 1]])
    BY <1>1, <2>1, VisitOneStep
  <2>3. VisitAt(S, R, x, k, f[k])
    BY <1>2, <2>1, <2>2
  <2> QED BY <2>3
<1> HIDE DEF Good
<1>5. N \in Good
  BY <1>1, <1>3, <1>4, UpTo
<1> DEFINE w == f[N]
<1>6. VisitAt(S, R, x, N, w)
  BY <1>5 DEF Good
<1> HIDE DEF w, N, D
<1>7. w.met \in Seq(S) /\ IsInjective(w.met) /\ w.todo \in Seq(S)
  BY <1>6 DEF VisitAt
<1>8. w.todo = <<>>
  <2> SUFFICES ASSUME w.todo # <<>> PROVE FALSE
    OBVIOUS
  <2> DEFINE n == w.todo[1]
  <2>1. Len(w.todo) \in Nat \ {0}
    BY <1>7, EmptySeq
  <2>2. 1 \in 1 .. Len(w.todo) /\ n \in S
    BY <1>7, <2>1
  <2>3. Len(w.met) = N /\ \A i \in 1 .. Len(w.met) : w.met[i] \notin R[n]
    BY <1>6, <2>2 DEF VisitAt
  <2>4. n \in R[n] /\ n \in D
    BY <2>2 DEF D, Parted
  <2> HIDE DEF n
  <2>5. Range(w.met) \subseteq D \ {n}
    <3>1. \A i \in DOMAIN w.met : w.met[i] \in S /\ w.met[i] # n
      BY <1>7, <2>3, <2>4
    <3> QED BY <3>1 DEF Range, D
  <2>6. Cardinality(Range(w.met)) = N
    BY <1>7, <2>3, LengthIsCardinality
  <2>7. Range(w.met) \subseteq D /\ Cardinality(Range(w.met)) = Cardinality(D)
    BY <2>5, <2>6 DEF N
  <2>8. Range(w.met) = D
    BY <1>1, <2>7, FS_Subset
  <2> QED BY <2>4, <2>5, <2>8
<1>9. Visit(m, x) = w.met
  BY <1>2 DEF w, N, D
<1>10. Range(w.met) = R[x]
  <2>1. Len(w.todo) = 0 /\ 1 .. 0 = {}
    BY <1>8
  <2>2. \A y : y \in R[x] <=> \E j \in 1 .. Len(w.met) : w.met[j] = y
    BY <1>6, <2>1 DEF VisitAt
  <2>3. DOMAIN w.met = 1 .. Len(w.met)
    BY <1>7
  <2> QED BY <2>2, <2>3 DEF Range
<1> QED BY <1>7, <1>9, <1>10

-----------------------------------------------------------------------------
(* The tree *)

TreeNode == [parent : Nat, slide : Nat, child : Nat, data : Device \cup {Computer}]

\* The two pointers of a node: what they lead to, and that the nodes there know
\* their parent.
Joined(m, r, T, B, n) ==
    /\ m[n].child \in (T \ {r}) \cup {NULL} /\ m[n].slide \in (T \ {r}) \cup {NULL}
    /\ m[n].child # NULL => m[m[n].child].parent = n
    /\ m[n].slide # NULL => n # r /\ m[m[n].slide].parent = m[n].parent
    /\ Parted(B, n, m[n].child, m[n].slide)

\* The cells T are a tree with the root r, and B[n] holds what is reached from n
\* along both its pointers: what is below n, n and its later siblings, and what
\* is below those.
TreeRep(m, r, T, B) ==
    /\ DOMAIN m = Addr /\ T \in SUBSET Addr /\ r \in T /\ B \in [T -> SUBSET T] /\ B[r] = T
    /\ \A n \in T : m[n] \in TreeNode /\ Joined(m, r, T, B, n)
    /\ \A x \in T : \A y \in B[x] : B[y] \subseteq B[x]
    /\ \A n \in T \ {r} : m[n].parent \in T /\ n \in Reach(B, m[m[n].parent].child)
    /\ \A x \in T \ {r} : \A y \in B[x] : y # r /\ m[y].parent \in B[x] \cup {m[x].parent}

\* A node and what is below it.
Sub(m, B, x) == {x} \cup Reach(B, m[x].child)

\* No cell is NULL.
LEMMA NoNull ==
    ASSUME NEW S \in SUBSET Addr
    PROVE  NULL \notin S /\ S \in SUBSET Nat
BY DevicesAssumption DEF Addr, NULL

\* What is below a node is what has it as a parent, or a node below it.
LEMMA SubFacts ==
    ASSUME NEW m, NEW r, NEW T, NEW B, TreeRep(m, r, T, B), NEW x \in T
    PROVE  /\ Sub(m, B, x) \in SUBSET T /\ x \in Sub(m, B, x) /\ Sub(m, B, x) \subseteq B[x]
           /\ \A y \in Sub(m, B, x) : Sub(m, B, y) \subseteq Sub(m, B, x)
           /\ \A n \in T \ {r} : n \in Sub(m, B, x) <=> n = x \/ m[n].parent \in Sub(m, B, x)
           /\ Sub(m, B, r) = T
<1> DEFINE k == m[x].child
<1>1. Sub(m, B, x) \in SUBSET T /\ x \in Sub(m, B, x) /\ Sub(m, B, x) \subseteq B[x]
  BY DEF TreeRep, Joined, Parted, Sub, Reach
<1>2. ASSUME NEW y \in Sub(m, B, x) PROVE Sub(m, B, y) \subseteq Sub(m, B, x)
  <2>1. CASE y = x
    BY <2>1
  <2>2. CASE y # x
    <3>1. k # NULL /\ y \in B[k] /\ k \in T /\ Sub(m, B, x) = {x} \cup B[k]
      BY <2>2 DEF Sub, Reach, TreeRep, Joined
    <3>2. B[y] \subseteq B[k] /\ y \in T
      BY <3>1 DEF TreeRep
    <3>3. Sub(m, B, y) \subseteq B[y]
      BY <3>2 DEF TreeRep, Joined, Parted, Sub
    <3> QED BY <3>1, <3>2, <3>3
  <2> QED BY <2>1, <2>2
<1>3. ASSUME NEW n \in T \ {r}, n \in Sub(m, B, x), n # x PROVE m[n].parent \in Sub(m, B, x)
  <2>1. k # NULL /\ n \in B[k] /\ k \in T \ {r} /\ m[k].parent = x /\ Sub(m, B, x) = {x} \cup B[k]
    BY <1>3 DEF Sub, Reach, TreeRep, Joined
  <2>2. m[n].parent \in B[k] \cup {m[k].parent}
    BY <2>1 DEF TreeRep
  <2> QED BY <2>1, <2>2
<1>4. ASSUME NEW n \in T \ {r}, m[n].parent \in Sub(m, B, x) PROVE n \in Sub(m, B, x)
  <2>1. n \in Reach(B, m[m[n].parent].child)
    BY DEF TreeRep
  <2>2. n \in Sub(m, B, m[n].parent)
    BY <2>1 DEF Sub
  <2> QED BY <1>2, <1>4, <2>2
<1>5. Sub(m, B, r) = T
  <2>1. m[r].slide = NULL /\ B[r] = T /\ r \in T
    BY DEF TreeRep, Joined
  <2> QED BY <2>1 DEF TreeRep, Joined, Parted, Sub, Reach
<1> QED BY <1>1, <1>2, <1>3, <1>4, <1>5

\* A visit meets a node and what is below it.
LEMMA VisitSub ==
    ASSUME NEW m, NEW r, NEW T, NEW B, TreeRep(m, r, T, B), NEW x \in T
    PROVE  /\ Visit(m, x) \in Seq(T) /\ IsInjective(Visit(m, x))
           /\ Range(Visit(m, x)) = Sub(m, B, x)
<1> DEFINE k == m[x].child
           S == Sub(m, B, x)
           R == [n \in S |-> IF n = x THEN S ELSE B[n]]
<1>1. S \in SUBSET T /\ x \in S /\ DOMAIN m = Addr /\ T \in SUBSET Addr
  BY SubFacts DEF TreeRep
<1>2. S = {x} \cup Reach(B, k) /\ x \notin Reach(B, k) /\ k \in T \cup {NULL}
  BY DEF Sub, TreeRep, Joined, Parted
<1>3. ASSUME NEW n \in S, n # x
      PROVE  k # NULL /\ k \in T /\ n \in B[k] /\ B[n] \subseteq B[k] /\ B[n] \subseteq S \ {x} /\ n \in T
  <2>1. k # NULL /\ n \in B[k] /\ k \in T /\ Reach(B, k) = B[k]
    BY <1>2, <1>3 DEF Reach
  <2>2. B[n] \subseteq B[k] /\ n \in T
    BY <2>1 DEF TreeRep
  <2> QED BY <1>2, <2>1, <2>2
<1>4. R \in [S -> SUBSET S]
  BY <1>1, <1>3
<1>5. ASSUME NEW n \in S
      PROVE  /\ m[n].child \in S \cup {NULL} /\ SlideIn(m, x, n) \in S \cup {NULL}
             /\ Parted(R, n, m[n].child, SlideIn(m, x, n))
  <2> DEFINE c == m[n].child
             s == SlideIn(m, x, n)
  <2>1. Parted(B, n, c, m[n].slide) /\ c \in T \cup {NULL} /\ m[n].slide \in T \cup {NULL} /\ n \in T
    BY <1>1 DEF TreeRep, Joined
  <2>2. \A y \in T : y \in B[y]
    BY DEF TreeRep, Joined, Parted
  <2>3. CASE n = x
    <3>1. s = NULL /\ c = k /\ R[n] = S
      BY <2>3 DEF SlideIn
    <3>2. c \in S \cup {NULL} /\ Reach(R, c) = Reach(B, k)
      <4>1. CASE k = NULL
        BY <3>1, <4>1 DEF Reach
      <4>2. CASE k # NULL
        <5>1. k \in B[k] /\ k \in S /\ k # x
          BY <1>2, <2>2, <4>2 DEF Reach
        <5>2. R[k] = B[k]
          BY <5>1
        <5> QED BY <3>1, <4>2, <5>1, <5>2 DEF Reach
      <4> QED BY <4>1, <4>2
    <3>3. Reach(R, s) = {}
      BY <3>1 DEF Reach
    <3> HIDE DEF R, S, c, s
    <3> QED BY <1>2, <2>3, <3>1, <3>2, <3>3 DEF Parted, c, s
  <2>4. CASE n # x
    <3>1. s = m[n].slide /\ R[n] = B[n] /\ B[n] \subseteq S \ {x}
      BY <1>3, <2>4 DEF SlideIn
    <3>2. ASSUME NEW g \in {c, s} PROVE g \in S \cup {NULL} /\ Reach(R, g) = Reach(B, g)
      <4>1. CASE g = NULL
        BY <4>1 DEF Reach
      <4>2. CASE g # NULL
        <5>1. g \in B[g] /\ Reach(B, g) = B[g] /\ B[g] \subseteq B[n]
          BY <2>1, <2>2, <3>1, <4>2 DEF Reach, Parted
        <5>2. g \in S \ {x}
          BY <3>1, <5>1
        <5>3. R[g] = B[g]
          BY <5>2
        <5> QED BY <4>2, <5>1, <5>2, <5>3 DEF Reach
      <4> QED BY <4>1, <4>2
    <3> HIDE DEF R, S
    <3> QED BY <2>1, <3>1, <3>2 DEF Parted
  <2> QED BY <2>3, <2>4
<1>6. S \in SUBSET DOMAIN m /\ DOMAIN m \subseteq Addr
  BY <1>1
<1>7. R[x] = S
  BY <1>1
<1> HIDE DEF R, S
<1>8. Visit(m, x) \in Seq(S) /\ IsInjective(Visit(m, x)) /\ Range(Visit(m, x)) = R[x]
  BY <1>1, <1>4, <1>5, <1>6, VisitWalk
<1>9. Visit(m, x) \in Seq(T)
  BY <1>1, <1>8, SeqMonotonic
<1> QED BY <1>7, <1>8, <1>9 DEF S

\* All of the tree is met from its root.
LEMMA VisitTree ==
    ASSUME NEW m, NEW r, NEW T, NEW B, TreeRep(m, r, T, B)
    PROVE  /\ Visit(m, r) \in Seq(T) /\ IsInjective(Visit(m, r)) /\ Range(Visit(m, r)) = T
           /\ IsFiniteSet(T) /\ Len(Visit(m, r)) = Cardinality(T)
<1>1. r \in T
  BY DEF TreeRep
<1>2. Visit(m, r) \in Seq(T) /\ IsInjective(Visit(m, r)) /\ Range(Visit(m, r)) = T
  BY <1>1, VisitSub, SubFacts
<1> QED BY <1>2, LengthIsCardinality

\* A search gives a node that is accepted, when there is one.
LEMMA FindInTree ==
    ASSUME NEW m, NEW r, NEW T, NEW B, TreeRep(m, r, T, B), NEW accepted
    PROVE  LET n == generic_tree_find(m, r, accepted)
           IN  IF \E x \in T : m[x].data \in accepted THEN n \in T /\ m[n].data \in accepted ELSE n = NULL
<1> DEFINE v == Visit(m, r)
           hits == {i \in DOMAIN v : m[v[i]].data \in accepted}
           n == generic_tree_find(m, r, accepted)
<1>1. v \in Seq(T) /\ Range(v) = T /\ T \in SUBSET Addr
  BY VisitTree DEF TreeRep
<1>2. v \in Seq(Nat)
  BY <1>1, NoNull, SeqMonotonic
<1>3. n = IF hits = {} THEN NULL ELSE v[Min(hits)]
  BY <1>2 DEF generic_tree_find
<1>4. DOMAIN v = 1 .. Len(v) /\ \A i \in DOMAIN v : v[i] \in T
  BY <1>1
<1> HIDE DEF v, n
<1>5. CASE hits = {}
  <2>1. \A x \in T : m[x].data \notin accepted
    BY <1>1, <1>5 DEF Range
  <2> QED BY <1>3, <1>5, <2>1 DEF n
<1>6. CASE hits # {}
  <2>1. hits \in SUBSET Nat
    BY <1>4
  <2>2. Min(hits) \in hits
    BY <1>6, <2>1, MinOfSet
  <2>3. n = v[Min(hits)]
    BY <1>3, <1>6
  <2> HIDE DEF hits
  <2>4. n \in T /\ m[n].data \in accepted
    BY <1>4, <2>2, <2>3 DEF hits
  <2> QED BY <2>4 DEF n
<1> QED BY <1>5, <1>6

\* The children of p in the order of their slides.
AreChildren(m, r, T, p, c) ==
    /\ c \in Seq(T \ {r}) /\ Len(c) \in Nat \ {0} /\ c[1] = m[p].child
    /\ IsInjective(c)
    /\ m[c[Len(c)]].slide = NULL
    /\ \A i \in 1 .. Len(c) - 1 : m[c[i]].slide = c[i + 1]
    /\ \A x \in T \ {r} : m[x].parent = p <=> \E i \in 1 .. Len(c) : c[i] = x

\* The siblings from the first child of p on are the nodes that have p as their
\* parent, in the order of their slides.
LEMMA SiblingsOf ==
    ASSUME NEW m, NEW r, NEW T, NEW B, TreeRep(m, r, T, B), NEW p \in T, m[p].child # NULL,
           NEW c, c = Siblings(m, m[p].child)
    PROVE  AreChildren(m, r, T, p, c)
<1> DEFINE first == m[p].child
           next == [a \in DOMAIN m |-> m[a].slide]
           S == {x \in T \ {r} : m[x].parent = p}
<1>1. DOMAIN next \subseteq Addr /\ S \in SUBSET DOMAIN next /\ first \in S /\ c = Chain(next, first)
  <2>1. DOMAIN m = Addr /\ T \in SUBSET Addr
    BY DEF TreeRep
  <2>2. first \in S
    BY DEF TreeRep, Joined
  <2> QED BY <2>1, <2>2 DEF Siblings
<1>2. \A x \in S : next[x] = m[x].slide
  BY <1>1
<1>3. \A x \in S : next[x] \in S \cup {NULL}
  BY <1>2 DEF TreeRep, Joined
<1>4. \A x \in S : x \in B[x] /\ (next[x] # NULL => B[next[x]] \subseteq B[x] \ {x})
  BY <1>2 DEF TreeRep, Joined, Parted, Reach
<1> HIDE DEF S, next
<1>5. /\ c \in Seq(S) /\ IsInjective(c)
      /\ Len(c) \in Nat \ {0} /\ c[1] = first
      /\ next[c[Len(c)]] = NULL
      /\ \A i \in 1 .. Len(c) - 1 : next[c[i]] = c[i + 1]
  <2> HIDE DEF first
  <2>1. IsWalk(next, first, S, Chain(next, first))
    BY <1>1, <1>3, <1>4, ChainWalk
  <2> QED BY <1>1, <2>1 DEF IsWalk
<1>6. \A i \in 1 .. Len(c) : c[i] \in S
  BY <1>5
<1>7. m[c[Len(c)]].slide = NULL /\ \A i \in 1 .. Len(c) - 1 : m[c[i]].slide = c[i + 1]
  <2>1. Len(c) \in 1 .. Len(c) /\ \A i \in 1 .. Len(c) - 1 : i \in 1 .. Len(c)
    BY <1>5
  <2> QED BY <1>2, <1>5, <1>6, <2>1
<1>8. c \in Seq(T \ {r})
  <2>1. S \subseteq T \ {r}
    BY DEF S
  <2> QED BY <1>5, <2>1, SeqMonotonic
<1>9. ASSUME NEW x \in S PROVE \E i \in 1 .. Len(c) : c[i] = x
  <2> DEFINE I == {j \in Nat : j < Len(c) /\ x \in B[c[Len(c) - j]]}
  <2>1. x \in B[first]
    <3>1. x \in T \ {r} /\ m[x].parent = p
      BY DEF S
    <3> QED BY <3>1 DEF TreeRep, Reach
  <2>2. Len(c) - 1 \in I
    BY <1>5, <2>1
  <2>3. PICK j \in I : \A y \in I : j <= y
    BY <2>2, LeastNumber
  <2> DEFINE i == Len(c) - j
             n == c[i]
  <2>4. i \in 1 .. Len(c) /\ x \in B[n] /\ j \in Nat
    BY <1>5, <2>3
  <2>5. x \notin Reach(B, m[n].slide)
    <3>1. CASE j = 0
      <4>1. m[n].slide = NULL
        BY <1>5, <1>7, <3>1
      <4> QED BY <4>1 DEF Reach
    <3>2. CASE j # 0
      <4>1. j - 1 \in Nat /\ j - 1 < Len(c) /\ ~(j <= j - 1) /\ i \in 1 .. Len(c) - 1 /\ Len(c) - (j - 1) = i + 1
        BY <1>5, <2>4, <3>2
      <4>2. j - 1 \notin I
        BY <2>3, <4>1
      <4>3. x \notin B[c[i + 1]]
        BY <4>1, <4>2
      <4>4. m[n].slide = c[i + 1]
        BY <1>7, <4>1
      <4>5. c[i + 1] \in S
        BY <1>5, <1>6, <4>1
      <4>6. c[i + 1] # NULL
        BY <1>1, <4>5, DevicesAssumption DEF Addr, NULL
      <4> QED BY <4>3, <4>4, <4>6 DEF Reach
    <3> QED BY <3>1, <3>2
  <2> HIDE DEF I, i, n
  <2>6. n \in S /\ n \in T \ {r} /\ m[n].parent = p /\ x \in T \ {r} /\ m[x].parent = p
    BY <1>6, <2>4 DEF n, S
  <2>7. x \in Sub(m, B, n)
    BY <2>4, <2>5, <2>6 DEF TreeRep, Joined, Parted, Sub
  <2>8. CASE x = n
    BY <2>4, <2>8 DEF n
  <2>9. CASE x # n
    <3>1. p \in Sub(m, B, n)
      BY <2>6, <2>7, <2>9, SubFacts
    <3>2. Sub(m, B, n) \subseteq B[n]
      BY <2>6, SubFacts
    <3>3. n \in Reach(B, first) /\ first \in T /\ first # NULL
      BY <1>1, <2>6 DEF TreeRep, Joined
    <3>4. n \in B[first] /\ Reach(B, first) = B[first]
      BY <3>3 DEF Reach
    <3>5. B[n] \subseteq B[first]
      BY <3>3, <3>4 DEF TreeRep
    <3>6. p \notin Reach(B, first)
      BY DEF TreeRep, Joined, Parted
    <3> QED BY <3>1, <3>2, <3>4, <3>5, <3>6
  <2> QED BY <2>8, <2>9
<1>10. ASSUME NEW x \in T \ {r} PROVE m[x].parent = p <=> \E i \in 1 .. Len(c) : c[i] = x
  <2>1. m[x].parent = p <=> x \in S
    BY DEF S
  <2> QED BY <1>6, <1>9, <2>1
<1> QED BY <1>5, <1>7, <1>8, <1>10 DEF AreChildren

-----------------------------------------------------------------------------
(* A node comes into the tree *)

\* Only the nodes of the tree matter.
LEMMA TreeFrame ==
    ASSUME NEW m, NEW r, NEW T, NEW B, TreeRep(m, r, T, B),
           NEW m1, DOMAIN m1 = Addr, \A n \in T : m1[n] = m[n]
    PROVE  TreeRep(m1, r, T, B)
<1>1. ASSUME NEW n \in T PROVE m1[n] \in TreeNode /\ Joined(m1, r, T, B, n)
  <2>1. m[n] \in TreeNode /\ Joined(m, r, T, B, n) /\ m1[n] = m[n]
    BY DEF TreeRep
  <2>2. \A g \in (T \ {r}) \cup {NULL} : g # NULL => m1[g] = m[g]
    OBVIOUS
  <2> QED BY <2>1, <2>2 DEF Joined
<1>2. ASSUME NEW n \in T \ {r} PROVE m1[n].parent \in T /\ n \in Reach(B, m1[m1[n].parent].child)
  <2>1. m[n].parent \in T /\ n \in Reach(B, m[m[n].parent].child)
    BY DEF TreeRep
  <2> QED BY <2>1
<1>3. ASSUME NEW x \in T \ {r}, NEW y \in B[x] PROVE y # r /\ m1[y].parent \in B[x] \cup {m1[x].parent}
  <2>1. y \in T /\ y # r /\ m[y].parent \in B[x] \cup {m[x].parent}
    BY DEF TreeRep
  <2> QED BY <2>1
<1> QED BY <1>1, <1>2, <1>3 DEF TreeRep

\* The cell c hangs at the node Q, with p as its parent.
Grown(m, m1, r, T, Q, p, c) ==
    /\ DOMAIN m1 = Addr /\ Q \in T /\ p \in T
    /\ \A n \in T : m1[n] \in TreeNode /\ m1[n].parent = m[n].parent
    /\ m1[c] \in TreeNode /\ m1[c].parent = p /\ m1[c].slide = NULL /\ m1[c].child = NULL
    /\ \A n \in T \ {Q} : m1[n].child = m[n].child /\ m1[n].slide = m[n].slide
    /\ \/ /\ Q = p /\ m[p].child = NULL /\ m1[p].child = c /\ m1[p].slide = m[p].slide
       \/ /\ Q # r /\ m[Q].parent = p /\ m[Q].slide = NULL /\ m[p].child # NULL
          /\ m1[Q].slide = c /\ m1[Q].child = m[Q].child

\* A tree stays a tree when a new leaf is hung at a free pointer.
LEMMA GrownTree ==
    ASSUME NEW m, NEW r, NEW T, NEW B, TreeRep(m, r, T, B), NEW c \in Addr \ T,
           NEW m1, NEW Q, NEW p, Grown(m, m1, r, T, Q, p, c)
    PROVE  \E B1 : TreeRep(m1, r, T \cup {c}, B1)
<1> DEFINE T1 == T \cup {c}
           B1 == [x \in T1 |-> IF x = c THEN {c} ELSE IF Q \in B[x] THEN B[x] \cup {c} ELSE B[x]]
<1>1. /\ T \in SUBSET Addr /\ c \notin T /\ r \in T /\ r # c /\ Q \in T /\ p \in T /\ Q # c /\ p # c
      /\ B \in [T -> SUBSET T] /\ B[r] = T /\ DOMAIN m1 = Addr
      /\ NULL \notin T1 /\ T1 \in SUBSET Addr
  <2>1. T1 \in SUBSET Addr
    BY DEF TreeRep
  <2> QED BY <2>1, NoNull DEF TreeRep, Grown
<1>2. B1[c] = {c} /\ \A x \in T : B1[x] = IF Q \in B[x] THEN B[x] \cup {c} ELSE B[x]
  BY <1>1
<1>20. \A x \in T : B[x] \subseteq T /\ \A y : y \in B1[x] <=> y \in B[x] \/ (y = c /\ Q \in B[x])
  <2>1. \A x \in T : B[x] \subseteq T
    BY <1>1
  <2> HIDE DEF B1
  <2> QED BY <1>2, <2>1
<1>3. B1 \in [T1 -> SUBSET T1] /\ B1[r] = T1
  <2>1. \A x \in T1 : (IF x = c THEN {c} ELSE IF Q \in B[x] THEN B[x] \cup {c} ELSE B[x]) \in SUBSET T1
    BY <1>1
  <2> QED BY <1>1, <2>1
<1> HIDE DEF B1
<1>4. ASSUME NEW g \in T \cup {NULL}
      PROVE  Reach(B1, g) = (IF Q \in Reach(B, g) THEN Reach(B, g) \cup {c} ELSE Reach(B, g)) /\ c \notin Reach(B, g)
  BY <1>1, <1>2 DEF Reach
<1>5. ASSUME NEW n \in T1 PROVE m1[n] \in TreeNode /\ Joined(m1, r, T1, B1, n)
  <2>1. m1[n] \in TreeNode
    BY DEF Grown
  <2>2. CASE n = c
    <3>1. m1[n].child = NULL /\ m1[n].slide = NULL
      BY <2>2 DEF Grown
    <3>2. Parted(B1, n, NULL, NULL)
      BY <1>2, <2>2 DEF Parted, Reach
    <3> QED BY <2>1, <3>1, <3>2 DEF Joined
  <2>3. CASE n \in T
    <3> DEFINE k == m[n].child
               s == m[n].slide
    <3>1. /\ k \in (T \ {r}) \cup {NULL} /\ s \in (T \ {r}) \cup {NULL}
          /\ k # NULL => m[k].parent = n
          /\ s # NULL => n # r /\ m[s].parent = m[n].parent
          /\ Parted(B, n, k, s)
      BY <2>3 DEF TreeRep, Joined
    <3> HIDE DEF k, s
    <3>2. /\ k # NULL => m1[k].parent = n
          /\ s # NULL => n # r /\ m1[s].parent = m1[n].parent
      <4>1. \A g \in T : m1[g].parent = m[g].parent
        BY DEF Grown
      <4> QED BY <2>3, <3>1, <4>1
    <3>3. CASE n # Q
      <4>1. m1[n].child = k /\ m1[n].slide = s
        BY <2>3, <3>3 DEF Grown, k, s
      <4>2. Parted(B1, n, k, s)
        <5>1. Q \in B[n] <=> Q \in Reach(B, k) \/ Q \in Reach(B, s)
          BY <3>1, <3>3 DEF Parted
        <5>2. Reach(B1, k) = (IF Q \in Reach(B, k) THEN Reach(B, k) \cup {c} ELSE Reach(B, k)) /\ c \notin Reach(B, k)
          BY <1>4, <3>1
        <5>3. Reach(B1, s) = (IF Q \in Reach(B, s) THEN Reach(B, s) \cup {c} ELSE Reach(B, s)) /\ c \notin Reach(B, s)
          BY <1>4, <3>1
        <5>4. B1[n] = (IF Q \in B[n] THEN B[n] \cup {c} ELSE B[n]) /\ n # c
          BY <1>1, <1>2, <2>3
        <5>5. B[n] = {n} \cup Reach(B, k) \cup Reach(B, s) /\ n \notin Reach(B, k) /\ n \notin Reach(B, s)
              /\ Reach(B, k) \cap Reach(B, s) = {}
          BY <3>1 DEF Parted
        <5>6. CASE Q \in Reach(B, k)
          <6>1. Q \notin Reach(B, s)
            BY <5>5, <5>6
          <6> QED BY <5>1, <5>2, <5>3, <5>4, <5>5, <5>6, <6>1 DEF Parted
        <5>7. CASE Q \in Reach(B, s)
          <6>1. Q \notin Reach(B, k)
            BY <5>5, <5>7
          <6> QED BY <5>1, <5>2, <5>3, <5>4, <5>5, <5>7, <6>1 DEF Parted
        <5>8. CASE Q \notin Reach(B, k) /\ Q \notin Reach(B, s)
          BY <5>1, <5>2, <5>3, <5>4, <5>5, <5>8 DEF Parted
        <5> QED BY <5>6, <5>7, <5>8
      <4> QED BY <2>1, <3>1, <3>2, <4>1, <4>2 DEF Joined
    <3>4. CASE n = Q
      <4>1. Q \notin Reach(B, k) /\ Q \notin Reach(B, s) /\ Q \in B[Q]
        BY <3>1, <3>4 DEF Parted
      <4>2. Reach(B1, k) = Reach(B, k) /\ Reach(B1, s) = Reach(B, s) /\ c \notin Reach(B, k) /\ c \notin Reach(B, s)
        BY <1>4, <3>1, <4>1
      <4>3. B1[n] = B[n] \cup {c} /\ Reach(B1, c) = {c} /\ n # c
        BY <1>1, <1>2, <3>4, <4>1 DEF Reach
      <4>4. CASE Q = p /\ m[p].child = NULL /\ m1[p].child = c /\ m1[p].slide = m[p].slide
        <5>1. m1[n].child = c /\ m1[n].slide = s /\ k = NULL /\ m1[c].parent = n
          BY <3>4, <4>4 DEF k, s, Grown
        <5>2. Reach(B, k) = {}
          BY <5>1 DEF Reach
        <5>3. Parted(B1, n, c, s)
          BY <3>1, <4>2, <4>3, <5>2 DEF Parted
        <5> QED BY <1>1, <2>1, <3>1, <3>2, <5>1, <5>3 DEF Joined
      <4>5. CASE /\ Q # r /\ m[Q].parent = p /\ m[Q].slide = NULL
                 /\ m1[Q].slide = c /\ m1[Q].child = m[Q].child
        <5>1. m1[n].child = k /\ m1[n].slide = c /\ s = NULL /\ m1[c].parent = p /\ m1[n].parent = p
          BY <3>4, <4>5 DEF k, s, Grown
        <5>2. Reach(B, s) = {}
          BY <5>1 DEF Reach
        <5>3. Parted(B1, n, k, c)
          BY <3>1, <4>2, <4>3, <5>2 DEF Parted
        <5> QED BY <1>1, <2>1, <3>1, <3>2, <3>4, <4>5, <5>1, <5>3 DEF Joined
      <4> QED BY <4>4, <4>5 DEF Grown
    <3> QED BY <3>3, <3>4
  <2> QED BY <2>2, <2>3
<1>6. ASSUME NEW x \in T1, NEW y \in B1[x] PROVE B1[y] \subseteq B1[x]
  <2>1. CASE x = c
    BY <1>2, <2>1
  <2>2. CASE x \in T /\ y = c
    BY <1>1, <1>2, <2>2
  <2>3. CASE x \in T /\ y # c
    <3>1. y \in B[x] /\ y \in T
      BY <1>20, <2>3
    <3>2. B[y] \subseteq B[x]
      BY <2>3, <3>1 DEF TreeRep
    <3> QED BY <1>20, <2>3, <3>1, <3>2
  <2> QED BY <2>1, <2>2, <2>3
<1>7. \A n \in T : n \in B[n] /\ n \in B1[n]
  BY <1>20 DEF TreeRep, Joined, Parted
<1>8. ASSUME NEW n \in T1 \ {r} PROVE m1[n].parent \in T1 /\ n \in Reach(B1, m1[m1[n].parent].child)
  <2>1. CASE n = c
    <3>1. m1[n].parent = p
      BY <2>1 DEF Grown
    <3>2. CASE m1[p].child = c
      BY <1>1, <1>2, <2>1, <3>1, <3>2 DEF Reach
    <3>3. CASE /\ Q # r /\ m[Q].parent = p /\ m[Q].slide = NULL /\ m[p].child # NULL
               /\ m1[Q].slide = c /\ m1[Q].child = m[Q].child
      <4>1. Q \in Reach(B, m[p].child) /\ m[p].child \in T
        BY <1>1, <3>3 DEF TreeRep, Joined
      <4>2. m1[p].child = m[p].child
        BY <1>1, <3>3 DEF Grown
      <4> QED BY <1>1, <1>4, <2>1, <3>1, <4>1, <4>2
    <3> QED BY <3>2, <3>3 DEF Grown
  <2>2. CASE n \in T
    <3> DEFINE q == m[n].parent
    <3>1. q \in T /\ n \in Reach(B, m[q].child) /\ m1[n].parent = q /\ m[q].child \in T \cup {NULL}
      BY <2>2 DEF TreeRep, Joined, Grown
    <3>2. m[q].child # NULL
      BY <3>1 DEF Reach
    <3>3. m1[q].child = m[q].child
      BY <3>1, <3>2 DEF Grown
    <3>4. n \in Reach(B1, m[q].child)
      BY <1>4, <3>1
    <3> HIDE DEF q
    <3> QED BY <3>1, <3>3, <3>4
  <2> QED BY <2>1, <2>2
<1>9. ASSUME NEW x \in T1 \ {r}, NEW y \in B1[x] PROVE y # r /\ m1[y].parent \in B1[x] \cup {m1[x].parent}
  <2>1. CASE x = c
    BY <1>1, <1>2, <2>1
  <2>2. CASE x \in T /\ y # c
    <3>1. y \in B[x] /\ B[x] \subseteq B1[x] /\ y \in T
      BY <1>20, <2>2
    <3>2. y # r /\ m[y].parent \in B[x] \cup {m[x].parent}
      BY <2>2, <3>1 DEF TreeRep
    <3>3. m1[y].parent = m[y].parent /\ m1[x].parent = m[x].parent
      BY <2>2, <3>1 DEF Grown
    <3> QED BY <3>1, <3>2, <3>3
  <2>3. CASE x \in T /\ y = c
    <3>1. Q \in B[x] /\ B[x] \subseteq B1[x] /\ m1[y].parent = p /\ m1[x].parent = m[x].parent
      BY <1>1, <1>2, <2>3 DEF Grown
    <3>2. Q = p \/ m[Q].parent = p
      BY DEF Grown
    <3>3. m[Q].parent \in B[x] \cup {m[x].parent}
      BY <2>3, <3>1 DEF TreeRep
    <3> QED BY <1>1, <2>3, <3>1, <3>2, <3>3
  <2> QED BY <2>1, <2>2, <2>3
<1> HIDE DEF T1
<1>10. r \in T1
  BY <1>1 DEF T1
<1>11. TreeRep(m1, r, T1, B1)
  BY <1>1, <1>3, <1>5, <1>6, <1>8, <1>9, <1>10 DEF TreeRep
<1> QED BY <1>11 DEF T1

\* The tree with the cell c below p, and d in that cell.
Inserted(m, r, T, c, p, d, m1) ==
    /\ \E B1 : TreeRep(m1, r, T \cup {c}, B1)
    /\ DOMAIN m1 = Addr
    /\ \A n \in T : m1[n].parent = m[n].parent /\ m1[n].data = m[n].data
    /\ m1[c].parent = p /\ m1[c].data = d
    /\ \A a \in Addr \ (T \cup {c}) : m1[a] = m[a]

(***************************************************************************)
(* A node that is inserted is the last child of its parent in a tree that  *)
(* is otherwise as it was (generic_tree_insert).                           *)
(***************************************************************************)
LEMMA InsertTree ==
    ASSUME NEW m, NEW r, NEW T, NEW B, TreeRep(m, r, T, B), NEW c \in Addr \ T, NEW p \in T,
           NEW d \in Device \cup {Computer},
           NEW m1, m1 = generic_tree_insert([m EXCEPT ![c] = generic_tree_node_init(d)], p, c)
    PROVE  Inserted(m, r, T, c, p, d, m1)
<1> DEFINE m0 == [m EXCEPT ![c] = generic_tree_node_init(d)]
           Q == IF m0[p].child = NULL THEN p ELSE LastSlide(m0, m0[p].child)
<1>1. /\ T \in SUBSET Addr /\ DOMAIN m = Addr /\ p \in Addr /\ p # c /\ NULL \in Nat /\ Addr \in SUBSET Nat
      /\ \A n \in T : m[n] \in TreeNode
  BY NoNull DEF TreeRep, NULL
<1>2. /\ DOMAIN m0 = Addr /\ \A n \in T : m0[n] = m[n]
      /\ m0[c] = [parent |-> NULL, slide |-> NULL, child |-> NULL, data |-> d]
      /\ \A a \in Addr \ {c} : m0[a] = m[a]
  BY <1>1 DEF generic_tree_node_init
<1>3. TreeRep(m0, r, T, B)
  BY <1>2, TreeFrame
<1>4. m1 = IF m0[p].child = NULL
           THEN [m0 EXCEPT ![p].child = c, ![c].parent = p]
           ELSE [m0 EXCEPT ![Q].slide = c, ![c].parent = p]
  BY DEF generic_tree_insert
<1> HIDE DEF m0
<1>5. Q \in T /\ (m0[p].child # NULL => Q # r /\ m[Q].parent = p /\ m[Q].slide = NULL)
  <2>1. CASE m0[p].child = NULL
    BY <2>1
  <2>2. CASE m0[p].child # NULL
    <3> DEFINE s == Siblings(m0, m0[p].child)
    <3>0. s = Siblings(m0, m0[p].child)
      OBVIOUS
    <3>1. /\ s \in Seq(T \ {r}) /\ Len(s) \in Nat \ {0} /\ m0[s[Len(s)]].slide = NULL
          /\ \A x \in T \ {r} : m0[x].parent = p <=> \E i \in 1 .. Len(s) : s[i] = x
      <4> HIDE DEF s, Q
      <4>1. AreChildren(m0, r, T, p, s)
        BY <1>3, <2>2, <3>0, SiblingsOf
      <4> QED BY <4>1 DEF AreChildren
    <3>2. Q = s[Len(s)]
      BY <2>2 DEF LastSlide
    <3> HIDE DEF s, Q
    <3>3. Len(s) \in 1 .. Len(s) /\ Q \in T \ {r}
      BY <3>1, <3>2
    <3>4. m0[Q].parent = p /\ m0[Q].slide = NULL
      BY <3>1, <3>2, <3>3
    <3> QED BY <1>2, <3>3, <3>4
  <2> QED BY <2>1, <2>2
<1> HIDE DEF Q
<1>6. m0[p] = m[p] /\ Q # c /\ Q \in Addr
  BY <1>1, <1>2, <1>5
<1>7. m1[c] = [parent |-> p, slide |-> NULL, child |-> NULL, data |-> d]
  <2>1. m1[c] = [m0[c] EXCEPT !.parent = p]
    <3>1. CASE m0[p].child = NULL
      BY <1>1, <1>2, <1>4, <3>1
    <3>2. CASE m0[p].child # NULL
      BY <1>1, <1>2, <1>4, <1>6, <3>2
    <3> QED BY <3>1, <3>2
  <2> QED BY <1>2, <2>1
<1>8. /\ DOMAIN m1 = Addr /\ \A a \in Addr \ {c, Q} : m1[a] = m[a]
      /\ m1[Q] = IF m[p].child = NULL THEN [m[Q] EXCEPT !.child = c] ELSE [m[Q] EXCEPT !.slide = c]
  <2>1. CASE m[p].child = NULL
    <3>1. Q = p
      BY <1>6, <2>1 DEF Q
    <3> QED BY <1>1, <1>2, <1>4, <1>6, <2>1, <3>1
  <2>2. CASE m[p].child # NULL
    <3>1. m1 = [m0 EXCEPT ![Q].slide = c, ![c].parent = p]
      BY <1>4, <1>6, <2>2
    <3> QED BY <1>1, <1>2, <1>5, <1>6, <2>2, <3>1
  <2> QED BY <2>1, <2>2
<1>9. m[Q] \in TreeNode /\ c \in Nat
  BY <1>1, <1>5
<1>10. /\ m1[Q] \in TreeNode /\ m1[Q].parent = m[Q].parent /\ m1[Q].data = m[Q].data
       /\ m[p].child = NULL => m1[Q].child = c /\ m1[Q].slide = m[Q].slide
       /\ m[p].child # NULL => m1[Q].slide = c /\ m1[Q].child = m[Q].child
  BY <1>8, <1>9 DEF TreeNode
<1>11. m1[c] \in TreeNode /\ m1[c].parent = p /\ m1[c].slide = NULL /\ m1[c].child = NULL /\ m1[c].data = d
  BY <1>1, <1>7 DEF TreeNode
<1>12. ASSUME NEW n \in T \ {Q} PROVE m1[n] = m[n] /\ m1[n] \in TreeNode
  BY <1>1, <1>8
<1>13. Grown(m, m1, r, T, Q, p, c)
  <2>1. \A n \in T : m1[n] \in TreeNode /\ m1[n].parent = m[n].parent
    BY <1>10, <1>12
  <2>2. \A n \in T \ {Q} : m1[n].child = m[n].child /\ m1[n].slide = m[n].slide
    BY <1>12
  <2>3. m[p].child = NULL => Q = p
    BY <1>6 DEF Q
  <2> QED BY <1>5, <1>6, <1>8, <1>10, <1>11, <2>1, <2>2, <2>3 DEF Grown
<1>14. \E B1 : TreeRep(m1, r, T \cup {c}, B1)
  BY <1>13, GrownTree
<1>15. \A n \in T : m1[n].parent = m[n].parent /\ m1[n].data = m[n].data
  BY <1>10, <1>12
<1>16. \A a \in Addr \ (T \cup {c}) : m1[a] = m[a]
  BY <1>5, <1>8
<1> QED BY <1>8, <1>11, <1>14, <1>15, <1>16 DEF Inserted

-----------------------------------------------------------------------------
(* A node is taken out of the tree *)

\* The node d is taken off the node Q.
Cut(m, m1, r, T, Q, d) ==
    /\ DOMAIN m1 = Addr /\ d \in T \ {r} /\ Q \in T
    /\ \A n \in T \ {d} : m1[n] \in TreeNode /\ m1[n].parent = m[n].parent
    /\ \A n \in T \ {d, Q} : /\ m1[n].child = m[n].child /\ m1[n].slide = m[n].slide
                             /\ m[n].child # d /\ m[n].slide # d
    /\ \/ /\ m[Q].child = d /\ m1[Q].child = m[d].slide
          /\ m1[Q].slide = m[Q].slide /\ m[Q].slide # d
       \/ /\ m[Q].slide = d /\ m1[Q].slide = m[d].slide
          /\ m1[Q].child = m[Q].child /\ m[Q].child # d

\* A tree without a node and all below it is a tree.
LEMMA CutTree ==
    ASSUME NEW m, NEW r, NEW T, NEW B, TreeRep(m, r, T, B),
           NEW m1, NEW Q, NEW d \in T \ {r}, Cut(m, m1, r, T, Q, d)
    PROVE  \E B1 : TreeRep(m1, r, T \ Sub(m, B, d), B1)
<1> DEFINE D == Sub(m, B, d)
           T1 == T \ D
           B1 == [x \in T1 |-> B[x] \ D]
           e == m[d].slide
<1>1. /\ T \in SUBSET Addr /\ r \in T /\ Q \in T /\ d \in T
      /\ B \in [T -> SUBSET T] /\ B[r] = T /\ DOMAIN m1 = Addr
      /\ NULL \notin T /\ T1 \in SUBSET Addr /\ T1 \subseteq T
  <2>1. T \in SUBSET Addr
    BY DEF TreeRep
  <2> QED BY <2>1, NoNull DEF TreeRep, Cut
<1>2. /\ D \in SUBSET T /\ d \in D /\ D \subseteq B[d]
      /\ \A n \in T \ {r} : n \in D <=> n = d \/ m[n].parent \in D
  BY <1>1, SubFacts
<1>3. r \notin D
  <2>1. m[d].child \in (T \ {r}) \cup {NULL}
    BY DEF TreeRep, Joined
  <2>2. m[d].child # NULL => r \notin B[m[d].child]
    BY <2>1 DEF TreeRep
  <2> QED BY <2>2 DEF Sub, Reach
<1>4. /\ e \in (T \ {r}) \cup {NULL} /\ B[d] = D \cup Reach(B, e) /\ D \cap Reach(B, e) = {}
      /\ e # NULL => m[e].parent = m[d].parent
      /\ e # NULL => e \in Reach(B, e)
  <2>1. Joined(m, r, T, B, d) /\ e \in (T \ {r}) \cup {NULL}
    BY DEF TreeRep, Joined
  <2>2. e # NULL => e \in Reach(B, e)
    BY <2>1 DEF TreeRep, Joined, Parted, Reach
  <2> QED BY <2>1, <2>2 DEF Joined, Parted, Sub
<1>5. e \in (T1 \ {r}) \cup {NULL}
  BY <1>4
<1>6. ASSUME NEW n \in T1
      PROVE  /\ m[n].child # d => m[n].child \in (T1 \ {r}) \cup {NULL}
             /\ m[n].slide # d => m[n].slide \in (T1 \ {r}) \cup {NULL}
  <2>1. Joined(m, r, T, B, n) /\ n \in T /\ n \notin D
    BY DEF TreeRep
  <2>2. ASSUME m[n].child # d, m[n].child # NULL PROVE m[n].child \in T1 \ {r}
    <3>1. m[n].child \in T \ {r} /\ m[m[n].child].parent = n
      BY <2>1, <2>2 DEF Joined
    <3> QED BY <1>2, <2>1, <2>2, <3>1
  <2>3. ASSUME m[n].slide # d, m[n].slide # NULL PROVE m[n].slide \in T1 \ {r}
    <3>1. m[n].slide \in T \ {r} /\ m[m[n].slide].parent = m[n].parent /\ n # r
      BY <2>1, <2>3 DEF Joined
    <3> QED BY <1>2, <2>1, <2>3, <3>1
  <2> QED BY <2>2, <2>3
<1>7. Q \notin D /\ Q \in T1
  <2>1. Joined(m, r, T, B, Q) /\ d # NULL
    BY <1>1 DEF TreeRep
  <2>2. Q \notin B[d]
    BY <2>1 DEF Cut, Joined, Parted, Reach
  <2> QED BY <1>1, <1>2, <2>2
<1>8. r \in T1 /\ \A x \in T1 : B1[x] = B[x] \ D
  BY <1>1, <1>3
<1>9. B1 \in [T1 -> SUBSET T1] /\ B1[r] = T1
  BY <1>1, <1>3
<1> HIDE DEF B1, D
<1>10. ASSUME NEW g \in T1 \cup {NULL} PROVE Reach(B1, g) = Reach(B, g) \ D
  BY <1>1, <1>8 DEF Reach
<1>11. ASSUME NEW n \in T1 PROVE m1[n] \in TreeNode /\ Joined(m1, r, T1, B1, n)
  <2> DEFINE k == m[n].child
             s == m[n].slide
  <2>1. /\ n \in T /\ n # d /\ n \notin D /\ m1[n] \in TreeNode
    BY <1>1, <1>2 DEF Cut
  <2>2. /\ k # NULL => k \in T /\ m[k].parent = n
        /\ s # NULL => s \in T /\ n # r /\ m[s].parent = m[n].parent
        /\ Parted(B, n, k, s)
    BY <2>1 DEF TreeRep, Joined
  <2>3. \A g \in T \ {d} : m1[g].parent = m[g].parent
    BY DEF Cut
  <2>4. B1[n] = B[n] \ D
    BY <1>8
  <2>5. \A g \in T1 : g \in T \ {d}
    BY <1>2
  <2>6. CASE n # Q
    <3>1. m1[n].child = k /\ m1[n].slide = s /\ k # d /\ s # d
      BY <2>1, <2>6 DEF Cut
    <3>2. k \in (T1 \ {r}) \cup {NULL} /\ s \in (T1 \ {r}) \cup {NULL}
      BY <1>6, <3>1
    <3> HIDE DEF k, s
    <3>3. Reach(B1, k) = Reach(B, k) \ D /\ Reach(B1, s) = Reach(B, s) \ D
      BY <1>10, <3>2
    <3>4. Parted(B1, n, k, s)
      BY <2>1, <2>2, <2>4, <3>3 DEF Parted
    <3>5. /\ k # NULL => m1[k].parent = n
          /\ s # NULL => n # r /\ m1[s].parent = m1[n].parent
      BY <2>1, <2>2, <2>3, <2>5, <3>2
    <3> QED BY <2>1, <3>1, <3>2, <3>4, <3>5 DEF Joined
  <2>7. CASE n = Q /\ k = d
    <3>1. m1[n].child = e /\ m1[n].slide = s /\ s # d
      <4>1. m[Q].child = d
        BY <2>7
      <4> QED BY <2>7, <4>1 DEF Cut
    <3>2. s \in (T1 \ {r}) \cup {NULL} /\ d # NULL
      BY <1>1, <1>6, <3>1
    <3>3. B[n] = {n} \cup B[d] \cup Reach(B, s) /\ n \notin B[d] /\ n \notin Reach(B, s) /\ B[d] \cap Reach(B, s) = {}
      BY <2>2, <2>7, <3>2 DEF Parted, Reach
    <3>4. m[d].parent = n
      BY <2>2, <2>7, <3>2
    <3> HIDE DEF k, s, e
    <3>5. Reach(B1, e) = Reach(B, e) \ D /\ Reach(B1, s) = Reach(B, s) \ D
      BY <1>5, <1>10, <3>2
    <3>6. Parted(B1, n, e, s)
      BY <1>4, <2>1, <2>4, <3>3, <3>5 DEF Parted
    <3>7. /\ e # NULL => m1[e].parent = n
          /\ s # NULL => n # r /\ m1[s].parent = m1[n].parent
      BY <1>4, <1>5, <2>1, <2>2, <2>3, <2>5, <3>2, <3>4
    <3> QED BY <1>5, <2>1, <3>1, <3>2, <3>6, <3>7 DEF Joined
  <2>8. CASE n = Q /\ k # d
    <3>1. m1[n].child = k /\ m1[n].slide = e /\ s = d
      BY <2>8 DEF Cut
    <3>2. k \in (T1 \ {r}) \cup {NULL} /\ d # NULL
      BY <1>1, <1>6, <2>8
    <3>3. B[n] = {n} \cup Reach(B, k) \cup B[d] /\ n \notin B[d] /\ n \notin Reach(B, k) /\ B[d] \cap Reach(B, k) = {}
      BY <2>2, <3>1, <3>2 DEF Parted, Reach
    <3>4. n # r /\ m[d].parent = m[n].parent
      BY <2>2, <3>1, <3>2
    <3> HIDE DEF k, s, e
    <3>5. Reach(B1, e) = Reach(B, e) \ D /\ Reach(B1, k) = Reach(B, k) \ D
      BY <1>5, <1>10, <3>2
    <3>6. Parted(B1, n, k, e)
      BY <1>4, <2>1, <2>4, <3>3, <3>5 DEF Parted
    <3>7. /\ k # NULL => m1[k].parent = n
          /\ e # NULL => n # r /\ m1[e].parent = m1[n].parent
      BY <1>4, <1>5, <2>1, <2>2, <2>3, <2>5, <3>2, <3>4
    <3> QED BY <1>5, <2>1, <3>1, <3>2, <3>6, <3>7 DEF Joined
  <2> QED BY <2>6, <2>7, <2>8
<1>12. ASSUME NEW x \in T1, NEW y \in B1[x] PROVE B1[y] \subseteq B1[x]
  <2>1. y \in B[x] \ D /\ x \in T /\ y \in T1
    BY <1>1, <1>8, <1>9
  <2>2. B[y] \subseteq B[x]
    BY <2>1 DEF TreeRep
  <2> QED BY <1>8, <2>1, <2>2
<1>13. ASSUME NEW n \in T1 \ {r} PROVE m1[n].parent \in T1 /\ n \in Reach(B1, m1[m1[n].parent].child)
  <2> DEFINE q == m[n].parent
  <2>1. n \in T \ {r} /\ n \notin D /\ n # d
    BY <1>2
  <2>2. q \in T /\ n \in Reach(B, m[q].child) /\ q \notin D
    BY <1>2, <2>1 DEF TreeRep
  <2>3. m1[n].parent = q /\ q \in T1 /\ q # d
    BY <1>2, <2>1, <2>2 DEF Cut
  <2>4. CASE m[q].child # d
    <3>1. m1[q].child = m[q].child
      BY <2>2, <2>3, <2>4 DEF Cut
    <3>2. m[q].child \in T1 \cup {NULL}
      BY <1>6, <2>3, <2>4
    <3>3. Reach(B1, m[q].child) = Reach(B, m[q].child) \ D
      BY <1>10, <3>2
    <3> HIDE DEF q
    <3> QED BY <2>1, <2>2, <2>3, <3>1, <3>3
  <2>5. CASE m[q].child = d
    <3>1. q = Q
      BY <2>2, <2>3, <2>5 DEF Cut
    <3>2. m1[q].child = e
      BY <2>5, <3>1 DEF Cut
    <3>3. n \in B[d]
      BY <1>1, <2>2, <2>5 DEF Reach
    <3>4. n \in Reach(B, e)
      BY <1>4, <2>1, <3>3
    <3>5. n \in Reach(B1, e)
      BY <1>5, <1>10, <2>1, <3>4
    <3> HIDE DEF q, e
    <3> QED BY <2>3, <3>2, <3>5
  <2> QED BY <2>4, <2>5
<1>14. ASSUME NEW x \in T1 \ {r}, NEW y \in B1[x] PROVE y # r /\ m1[y].parent \in B1[x] \cup {m1[x].parent}
  <2>1. y \in B[x] \ D /\ x \in T \ {r} /\ x \notin D /\ y \in T
    BY <1>1, <1>8, <1>9
  <2>2. y # r /\ m[y].parent \in B[x] \cup {m[x].parent}
    BY <2>1 DEF TreeRep
  <2>3. m1[y].parent = m[y].parent /\ m1[x].parent = m[x].parent
    BY <1>2, <2>1 DEF Cut
  <2>4. m[y].parent \notin D
    BY <1>2, <2>1, <2>2
  <2> QED BY <1>8, <2>2, <2>3, <2>4
<1> HIDE DEF T1
<1>15. TreeRep(m1, r, T1, B1)
  BY <1>1, <1>8, <1>9, <1>11, <1>12, <1>13, <1>14 DEF TreeRep
<1> QED BY <1>15 DEF T1, D

\* A node other than the root is the first child of its parent or comes right
\* after one other node, and no other pointer leads to it.
LEMMA PointedOnce ==
    ASSUME NEW m, NEW r, NEW T, NEW B, TreeRep(m, r, T, B), NEW d \in T \ {r},
           NEW p \in T, m[d].parent = p, NEW c, AreChildren(m, r, T, p, c)
    PROVE  /\ p # d
           /\ \A n \in T : m[n].child = d => n = p
           /\ m[p].child = d => \A n \in T : m[n].slide # d
           /\ m[p].child # d => \E k \in Range(c) : /\ k \in T \ {d} /\ m[k].slide = d
                                                    /\ \A n \in T : m[n].slide = d => n = k
<1>1. d \in Reach(B, m[p].child) /\ T \in SUBSET Addr
  BY DEF TreeRep
<1>2. d # NULL
  BY <1>1, NoNull
<1>4. p # d
  BY <1>1 DEF TreeRep, Joined, Parted
<1>5. \A n \in T : m[n].child = d => n = p
  BY <1>2 DEF TreeRep, Joined
<1>7. PICK i \in 1 .. Len(c) : c[i] = d
  BY DEF AreChildren
<1>8. /\ c \in Seq(T \ {r}) /\ Len(c) \in Nat \ {0} /\ c[1] = m[p].child
      /\ IsInjective(c) /\ m[c[Len(c)]].slide = NULL
      /\ \A j \in 1 .. Len(c) - 1 : m[c[j]].slide = c[j + 1]
  BY DEF AreChildren
<1>20. DOMAIN c = 1 .. Len(c) /\ \A j \in 1 .. Len(c) : c[j] \in T
  BY <1>8, LenProperties
<1>21. \A j, l \in 1 .. Len(c) : c[j] = c[l] => j = l
  BY <1>8, <1>20 DEF IsInjective
<1>9. ASSUME NEW n \in T, m[n].slide = d PROVE \E j \in 1 .. Len(c) - 1 : c[j] = n /\ j + 1 = i
  <2>1. n \in T \ {r} /\ m[n].parent = p
    BY <1>2, <1>9 DEF TreeRep, Joined
  <2>2. PICK j \in 1 .. Len(c) : c[j] = n
    BY <2>1 DEF AreChildren
  <2>3. j # Len(c)
    BY <1>2, <1>8, <1>9, <2>2
  <2>4. j \in 1 .. Len(c) - 1 /\ j + 1 \in 1 .. Len(c)
    BY <1>8, <2>2, <2>3
  <2>5. c[j + 1] = d
    BY <1>8, <1>9, <2>2, <2>4
  <2>6. j + 1 = i
    BY <1>7, <1>21, <2>4, <2>5
  <2> QED BY <2>2, <2>4, <2>6
<1>10. m[p].child = d => i = 1
  <2>1. c[1] = m[p].child /\ 1 \in 1 .. Len(c)
    BY <1>8
  <2> QED BY <1>7, <1>21, <2>1
<1>11. m[p].child = d => \A n \in T : m[n].slide # d
  BY <1>9, <1>10
<1>12. ASSUME m[p].child # d
       PROVE  \E k \in Range(c) : k \in T \ {d} /\ m[k].slide = d /\ \A n \in T : m[n].slide = d => n = k
  <2>1. i # 1
    BY <1>7, <1>8, <1>12
  <2> DEFINE j == i - 1
  <2>2. j \in 1 .. Len(c) - 1 /\ j \in 1 .. Len(c) /\ j + 1 = i
    BY <1>7, <1>8, <2>1
  <2> HIDE DEF j
  <2>3. c[j] \in Range(c) /\ c[j] \in T /\ m[c[j]].slide = d
    <3>1. c[j] \in Range(c)
      BY <1>20, <2>2 DEF Range
    <3>2. m[c[j]].slide = c[j + 1]
      BY <1>8, <2>2
    <3> QED BY <1>7, <1>20, <2>2, <3>1, <3>2
  <2>4. c[j] # d
    BY <1>1, <1>2, <2>3 DEF TreeRep, Joined, Parted, Reach
  <2>5. ASSUME NEW n \in T, m[n].slide = d PROVE n = c[j]
    <3>1. PICK l \in 1 .. Len(c) - 1 : c[l] = n /\ l + 1 = i
      BY <1>9, <2>5
    <3>2. l = j
      BY <2>2, <3>1
    <3> QED BY <3>1, <3>2
  <2> QED BY <2>3, <2>4, <2>5
<1> QED BY <1>4, <1>5, <1>11, <1>12

\* The tree without the node d and what is below it.
Removed(m, r, T, B, d, m1) ==
    /\ \E B1 : TreeRep(m1, r, T \ Sub(m, B, d), B1)
    /\ DOMAIN m1 = Addr
    /\ \A n \in T \ {d} : m1[n].parent = m[n].parent /\ m1[n].data = m[n].data
    /\ \A a \in Addr \ T : m1[a] = m[a]

(***************************************************************************)
(* A node that is taken out goes with what is below it, and the rest of    *)
(* the tree is as it was (generic_tree_remove).                            *)
(***************************************************************************)
LEMMA RemoveTree ==
    ASSUME NEW m, NEW r, NEW T, NEW B, TreeRep(m, r, T, B), NEW d \in T \ {r},
           NEW m1, m1 = generic_tree_remove(m, d)
    PROVE  Removed(m, r, T, B, d, m1)
<1> DEFINE p == m[d].parent
           c == Siblings(m, m[p].child)
           Q == IF m[p].child = d THEN p ELSE PrevSlide(m, m[p].child, d)
           e == m[d].slide
<1>1. /\ p \in T /\ p # d
      /\ \A n \in T : m[n].child = d => n = p
      /\ m[p].child = d => \A n \in T : m[n].slide # d
      /\ m[p].child # d => \E k \in Range(c) : /\ k \in T \ {d} /\ m[k].slide = d
                                               /\ \A n \in T : m[n].slide = d => n = k
  <2>1. p \in T /\ m[p].child # NULL
    BY DEF TreeRep, Reach
  <2>2. AreChildren(m, r, T, p, c)
    BY <2>1, SiblingsOf
  <2>3. m[d].parent = p
    OBVIOUS
  <2> HIDE DEF p, c
  <2> QED BY <2>1, <2>2, <2>3, PointedOnce
<1>2. T \in SUBSET Addr /\ DOMAIN m = Addr /\ (\A n \in T : m[n] \in TreeNode) /\ p # NULL /\ d # NULL /\ NULL \in Nat
  BY <1>1, NoNull DEF TreeRep, NULL
<1>3. /\ Q \in T \ {d}
      /\ m[p].child # d => m[Q].slide = d /\ \A n \in T : m[n].slide = d => n = Q
  <2>1. CASE m[p].child = d
    BY <1>1, <2>1
  <2>2. CASE m[p].child # d
    <3>1. Q = CHOOSE k \in Range(c) : m[k].slide = d
      BY <2>2 DEF PrevSlide
    <3>2. PICK k \in Range(c) : /\ k \in T \ {d} /\ m[k].slide = d
                                /\ \A n \in T : m[n].slide = d => n = k
      BY <1>1, <2>2
    <3>3. Range(c) \subseteq T
      <4>1. m[p].child # NULL
        BY DEF TreeRep, Reach
      <4>2. AreChildren(m, r, T, p, c)
        BY <1>1, <4>1, SiblingsOf
      <4> HIDE DEF c, p
      <4>3. c \in Seq(T \ {r})
        BY <4>2 DEF AreChildren
      <4> QED BY <4>3 DEF Range
    <3> HIDE DEF c, p
    <3>4. Q \in Range(c) /\ m[Q].slide = d
      <4> HIDE DEF Q
      <4> QED BY <3>1, <3>2
    <3> QED BY <3>2, <3>3, <3>4
  <2> QED BY <2>1, <2>2
<1>4. m1 = IF m[p].child = d
           THEN [[m EXCEPT ![p].child = e] EXCEPT ![d].parent = NULL, ![d].slide = NULL]
           ELSE [[m EXCEPT ![Q].slide = e] EXCEPT ![d].parent = NULL, ![d].slide = NULL]
  BY <1>2 DEF generic_tree_remove
<1>5. m[p].child = d => Q = p
  OBVIOUS
<1> HIDE DEF Q, p, c, e
<1>6. /\ DOMAIN m1 = Addr /\ \A a \in Addr \ {d, Q} : m1[a] = m[a]
      /\ m1[Q] = IF m[p].child = d THEN [m[Q] EXCEPT !.child = e] ELSE [m[Q] EXCEPT !.slide = e]
  <2>1. CASE m[p].child = d
    BY <1>2, <1>3, <1>4, <1>5, <2>1
  <2>2. CASE m[p].child # d
    BY <1>2, <1>3, <1>4, <2>2
  <2> QED BY <2>1, <2>2
<1>7. m[Q] \in TreeNode /\ e \in Nat
  <2>1. m[d] \in TreeNode
    BY <1>2
  <2> QED BY <1>2, <1>3, <2>1 DEF TreeNode, e
<1>8. /\ m1[Q] \in TreeNode /\ m1[Q].parent = m[Q].parent /\ m1[Q].data = m[Q].data
      /\ m[p].child = d => m1[Q].child = e /\ m1[Q].slide = m[Q].slide
      /\ m[p].child # d => m1[Q].slide = e /\ m1[Q].child = m[Q].child
  BY <1>6, <1>7 DEF TreeNode
<1>9. \A n \in T \ {d, Q} : m1[n] = m[n] /\ m1[n] \in TreeNode
  BY <1>2, <1>6
<1>10. Cut(m, m1, r, T, Q, d)
  <2>1. \A n \in T \ {d} : m1[n] \in TreeNode /\ m1[n].parent = m[n].parent
    BY <1>8, <1>9
  <2>2. \A n \in T \ {d, Q} : /\ m1[n].child = m[n].child /\ m1[n].slide = m[n].slide
                              /\ m[n].child # d /\ m[n].slide # d
    BY <1>1, <1>3, <1>5, <1>9
  <2>3. CASE m[p].child = d
    BY <1>1, <1>3, <1>5, <1>6, <1>8, <2>1, <2>2, <2>3 DEF Cut, e
  <2>4. CASE m[p].child # d
    <3>1. m[Q].child # d
      BY <1>1, <1>3, <2>4
    <3> QED BY <1>3, <1>6, <1>8, <2>1, <2>2, <2>4, <3>1 DEF Cut, e
  <2> QED BY <2>3, <2>4
<1>11. \E B1 : TreeRep(m1, r, T \ Sub(m, B, d), B1)
  BY <1>10, CutTree
<1>12. \A n \in T \ {d} : m1[n].parent = m[n].parent /\ m1[n].data = m[n].data
  BY <1>8, <1>9
<1>13. \A a \in Addr \ T : m1[a] = m[a]
  BY <1>3, <1>6
<1> QED BY <1>6, <1>11, <1>12, <1>13 DEF Removed

-----------------------------------------------------------------------------
(* The list *)

\* The element at a position, NULL where there is none.
At(s, i) == IF i \in 1 .. Len(s) THEN s[i] ELSE NULL

\* Pointers that go from each element of a sequence to the next one.
IsChain(next, s) ==
    /\ DOMAIN next = Addr /\ s \in Seq(Addr) /\ IsInjective(s)
    /\ \A i \in 1 .. Len(s) : next[s[i]] = At(s, i + 1)

\* A walk along a chain meets the cells of the chain.
LEMMA ChainOf ==
    ASSUME NEW next, NEW s, IsChain(next, s)
    PROVE  Chain(next, At(s, 1)) = s
<1> DEFINE N == Cardinality(DOMAIN next)
           n == At(s, 1)
           L == Len(s)
           Min2(k) == IF k < L THEN k ELSE L
<1>1. IsFiniteSet(Addr) /\ N \in Nat /\ N = Cardinality(Addr) /\ Addr \in SUBSET Nat /\ NULL \notin Addr /\ NULL \in Nat
  <2>1. DOMAIN next = Addr /\ Addr \subseteq Addr
    BY DEF IsChain
  <2>2. IsFiniteSet(Addr) /\ Cardinality(Addr) \in Nat
    BY CellsFinite
  <2> QED BY <2>1, <2>2, NoNull DEF NULL
<1>2. s \in Seq(Addr) /\ L \in Nat /\ (\A i \in 1 .. L : s[i] \in Addr /\ s[i] # NULL) /\ IsInjective(s)
      /\ \A i \in 1 .. L : next[s[i]] = At(s, i + 1)
  BY <1>1 DEF IsChain
<1>3. L <= N
  <2>1. IsFiniteSet(Range(s)) /\ Cardinality(Range(s)) = L
    BY <1>2, LengthIsCardinality
  <2>2. Range(s) \subseteq Addr
    BY <1>2 DEF Range
  <2>3. Cardinality(Range(s)) <= Cardinality(Addr)
    BY <1>1, <2>2, FS_Subset
  <2> QED BY <1>1, <2>1, <2>3
<1>4. PICK f : /\ f[0] = [met |-> <<>>, node |-> n]
               /\ \A k \in 1 .. N : f[k] = ChainStep(next)[f[k - 1]]
               /\ Chain(next, n) = f[N].met
  BY <1>1, ChainSteps
<1> DEFINE Done(k, w) == /\ w \in [met : Seq(Addr), node : Nat] /\ Len(w.met) = Min2(k)
                         /\ \A i \in 1 .. Min2(k) : w.met[i] = s[i]
                         /\ w.node = At(s, k + 1)
           Good == {k \in Nat : Done(k, f[k])}
<1>5. \A k \in Nat : At(s, k + 1) \in Nat /\ (At(s, k + 1) = NULL <=> k >= L)
  <2> SUFFICES ASSUME NEW k \in Nat PROVE At(s, k + 1) \in Nat /\ (At(s, k + 1) = NULL <=> k >= L)
    OBVIOUS
  <2>1. CASE k >= L
    <3>1. k + 1 \notin 1 .. L
      BY <1>2, <2>1
    <3> QED BY <1>1, <2>1, <3>1 DEF At
  <2>2. CASE ~(k >= L)
    <3>1. k + 1 \in 1 .. L
      BY <1>2, <2>2
    <3>2. s[k + 1] \in Nat /\ s[k + 1] # NULL
      BY <1>1, <1>2, <3>1
    <3> QED BY <2>2, <3>1, <3>2 DEF At
  <2> QED BY <2>1, <2>2
<1> HIDE DEF n, L
<1>6. 0 \in Good
  <2>1. f[0].met = <<>> /\ f[0].node = n /\ f[0] \in [met : Seq(Addr), node : Nat]
    <3>1. n \in Nat
      BY <1>5 DEF n
    <3> QED BY <1>4, <3>1
  <2>2. n = At(s, 0 + 1) /\ Min2(0) = 0
    BY <1>2 DEF n
  <2> QED BY <2>1, <2>2
<1>7. ASSUME NEW k \in 1 .. N, k - 1 \in Good PROVE k \in Good
  <2> DEFINE w == f[k - 1]
             v == f[k]
             x == w.node
             t == Append(w.met, x)
  <2>1. k - 1 \in Nat /\ k \in Nat /\ v = ChainStep(next)[w] /\ (k - 1) + 1 = k
    BY <1>1, <1>4
  <2>2. w \in [met : Seq(Addr), node : Nat] /\ w.met \in Seq(Addr) /\ Len(w.met) = Min2(k - 1)
        /\ (\A i \in 1 .. Min2(k - 1) : w.met[i] = s[i]) /\ w.node = At(s, k)
    BY <1>7, <2>1
  <2>3. w \in [met : Seq(Nat), node : Nat]
    <3>1. w.met \in Seq(Nat)
      BY <1>1, <2>2, SeqMonotonic
    <3> QED BY <2>2, <3>1
  <2> HIDE DEF w, v
  <2>4. CASE w.node = NULL
    <3>1. v = w
      BY <2>1, <2>3, <2>4 DEF ChainStep
    <3>2. k - 1 >= L
      BY <1>5, <2>1, <2>2, <2>4
    <3>3. Min2(k) = L /\ Min2(k - 1) = L /\ k >= L
      BY <1>2, <2>1, <3>2
    <3>4. At(s, k + 1) = NULL
      BY <1>5, <2>1, <3>3
    <3>5. Done(k, v)
      BY <2>2, <2>4, <3>1, <3>3, <3>4
    <3> QED BY <2>1, <3>5 DEF v
  <2>5. CASE w.node # NULL
    <3>1. v = [met |-> t, node |-> next[x]]
      BY <2>1, <2>3, <2>5 DEF ChainStep
    <3>2. ~(k - 1 >= L)
      BY <1>5, <2>1, <2>2, <2>5
    <3>3. k \in 1 .. L /\ Min2(k - 1) = k - 1 /\ Min2(k) = k
      BY <1>2, <2>1, <3>2
    <3>4. x = s[k] /\ x \in Addr /\ next[x] = At(s, k + 1)
      BY <1>2, <2>2, <3>3 DEF At, L
    <3>5. t \in Seq(Addr) /\ Len(t) = k /\ t[k] = s[k] /\ \A i \in 1 .. k - 1 : t[i] = w.met[i]
      <4>1. Len(w.met) = k - 1 /\ (k - 1) + 1 = k
        BY <2>1, <2>2, <3>3
      <4> HIDE DEF x
      <4> QED BY <2>2, <3>4, <4>1, AppendProperties
    <3>6. \A i \in 1 .. k : t[i] = s[i]
      <4>1. \A i \in 1 .. k : i = k \/ i \in 1 .. k - 1
        BY <2>1
      <4> QED BY <2>2, <3>3, <3>5, <4>1
    <3> HIDE DEF t
    <3>7. v.met = t /\ v.node = At(s, k + 1) /\ v \in [met : Seq(Addr), node : Nat]
      BY <1>5, <2>1, <3>1, <3>4, <3>5
    <3>8. Done(k, v)
      BY <3>3, <3>5, <3>6, <3>7
    <3> QED BY <2>1, <3>8 DEF v
  <2> QED BY <2>4, <2>5
<1> HIDE DEF Good, N
<1>8. N \in Good
  BY <1>1, <1>6, <1>7, UpTo
<1>9. f[N].met \in Seq(Addr) /\ Len(f[N].met) = L /\ \A i \in 1 .. L : f[N].met[i] = s[i]
  <2>1. Min2(N) = L
    BY <1>1, <1>2, <1>3
  <2> QED BY <1>8, <2>1 DEF Good
<1>10. f[N].met = s
  BY <1>2, <1>9, SeqEqual DEF L
<1> QED BY <1>4, <1>10 DEF n

ListNode == [prev : Nat, next : Nat, data : Device]

\* The nodes s of the list l, in their order.
ListRep(m, l, s) ==
    /\ DOMAIN m = Addr /\ s \in Seq(Addr) /\ IsInjective(s)
    /\ l = [head |-> At(s, 1), tail |-> At(s, Len(s)), size |-> Len(s)]
    /\ \A i \in 1 .. Len(s) : /\ m[s[i]] \in ListNode
                              /\ m[s[i]].next = At(s, i + 1) /\ m[s[i]].prev = At(s, i - 1)
    /\ \A i, j \in 1 .. Len(s) : m[s[i]].data = m[s[j]].data => i = j

\* A list is read from its head as it is.
LEMMA ListForward ==
    ASSUME NEW m, NEW l, NEW s, ListRep(m, l, s)
    PROVE  Forward(m, l.head) = s
<1> DEFINE next == [a \in DOMAIN m |-> m[a].next]
<1>1. DOMAIN m = Addr /\ s \in Seq(Addr) /\ l.head = At(s, 1)
  BY DEF ListRep
<1>2. IsChain(next, s)
  <2>1. \A i \in 1 .. Len(s) : s[i] \in Addr
    BY <1>1
  <2> QED BY <1>1, <2>1 DEF IsChain, ListRep
<1>3. Forward(m, l.head) = Chain(next, At(s, 1))
  BY <1>1 DEF Forward
<1> QED BY <1>2, <1>3, ChainOf

\* From its tail it is read the other way round.
LEMMA ListBackward ==
    ASSUME NEW m, NEW l, NEW s, ListRep(m, l, s)
    PROVE  /\ Backward(m, l.tail) = [i \in 1 .. Len(s) |-> s[Len(s) + 1 - i]]
           /\ Len(Backward(m, l.tail)) = Len(s)
<1> DEFINE prev == [a \in DOMAIN m |-> m[a].prev]
           L == Len(s)
           b == [i \in 1 .. L |-> s[L + 1 - i]]
<1>1. DOMAIN m = Addr /\ s \in Seq(Addr) /\ l.tail = At(s, L) /\ L \in Nat /\ \A i \in 1 .. L : s[i] \in Addr
  BY DEF ListRep
<1>2. \A i \in 1 .. L : L + 1 - i \in 1 .. L
  BY <1>1
<1> HIDE DEF L
<1>3. b \in Seq(Addr) /\ Len(b) = L /\ \A i \in 1 .. L : b[i] = s[L + 1 - i]
  <2>1. \A i \in 1 .. L : s[L + 1 - i] \in Addr
    BY <1>1, <1>2
  <2>2. b \in [1 .. L -> Addr] /\ L \in Nat
    BY <1>1, <2>1
  <2>3. b \in Seq(Addr) /\ Len(b) = L
    <3> HIDE DEF b
    <3> QED BY <2>2
  <2> QED
    BY <2>3
<1>4. IsInjective(b)
  <2>1. \A i, j \in 1 .. L : s[i] = s[j] => i = j
    BY <1>1 DEF ListRep, IsInjective, L
  <2>2. ASSUME NEW i \in 1 .. L, NEW j \in 1 .. L, b[i] = b[j] PROVE i = j
    <3>1. L + 1 - i = L + 1 - j
      BY <1>2, <1>3, <2>1, <2>2
    <3> QED BY <1>1, <3>1
  <2> QED BY <2>2 DEF IsInjective
<1> HIDE DEF b
<1>5. ASSUME NEW i \in 1 .. L PROVE prev[b[i]] = At(b, i + 1)
  <2> DEFINE k == L + 1 - i
  <2>1. k \in 1 .. L /\ b[i] = s[k] /\ s[k] \in Addr
    BY <1>1, <1>2, <1>3
  <2>2. prev[b[i]] = At(s, k - 1)
    BY <1>1, <2>1 DEF ListRep, L
  <2>3. CASE i = L
    <3>1. k - 1 \notin 1 .. L /\ i + 1 \notin 1 .. L
      BY <1>1, <2>3
    <3> QED BY <1>3, <2>2, <3>1 DEF At, L
  <2>4. CASE i # L
    <3>1. k - 1 \in 1 .. L /\ i + 1 \in 1 .. L /\ L + 1 - (i + 1) = k - 1
      BY <1>1, <2>4
    <3>2. b[i + 1] = s[k - 1]
      BY <1>3, <3>1
    <3> QED BY <1>3, <2>2, <3>1, <3>2 DEF At, L
  <2> QED BY <2>3, <2>4
<1>6. IsChain(prev, b)
  BY <1>1, <1>3, <1>4, <1>5 DEF IsChain
<1>7. At(b, 1) = At(s, L)
  <2>1. CASE L = 0
    BY <1>3, <2>1 DEF At, L
  <2>2. CASE L # 0
    <3>1. 1 \in 1 .. L /\ L \in 1 .. L /\ L + 1 - 1 = L
      BY <1>1, <2>2
    <3>2. b[1] = s[L]
      BY <1>3, <3>1
    <3> QED BY <1>3, <3>1, <3>2 DEF At, L
  <2> QED BY <2>1, <2>2
<1>8. Backward(m, l.tail) = Chain(prev, At(b, 1))
  BY <1>1, <1>7 DEF Backward
<1>9. Backward(m, l.tail) = b
  BY <1>6, <1>8, ChainOf
<1> QED BY <1>3, <1>9 DEF b, L

\* What a list node is after an operation that leaves the cell alone.
LEMMA ListFrame ==
    ASSUME NEW m, NEW l, NEW s, ListRep(m, l, s),
           NEW m1, DOMAIN m1 = Addr, \A a \in Range(s) : m1[a] = m[a]
    PROVE  ListRep(m1, l, s)
<1>1. s \in Seq(Addr)
  BY DEF ListRep
<1>2. \A i \in 1 .. Len(s) : m1[s[i]] = m[s[i]]
  BY <1>1 DEF Range
<1> QED BY <1>2 DEF ListRep

\* The list with the cell c behind its nodes s, and d in that cell.
Appended(m, s, c, d, m1, l1) ==
    /\ ListRep(m1, l1, Append(s, c))
    /\ Range(Append(s, c)) = Range(s) \cup {c}
    /\ \A a \in Addr \ (Range(s) \cup {c}) : m1[a] = m[a]
    /\ \A i \in 1 .. Len(s) : m1[s[i]].data = m[s[i]].data
    /\ m1[c].data = d

(***************************************************************************)
(* A new node comes to the end of the list (linked_list_append).           *)
(***************************************************************************)
LEMMA AppendToList ==
    ASSUME NEW m, NEW l, NEW s, ListRep(m, l, s), NEW c \in Addr \ Range(s), NEW d \in Device,
           \A i \in 1 .. Len(s) : m[s[i]].data # d,
           NEW m1, NEW l1,
           [mem |-> m1, list |-> l1] = linked_list_append([m EXCEPT ![c] = linked_list_node_init(d)], l, c)
    PROVE  Appended(m, s, c, d, m1, l1)
<1> DEFINE m0 == [m EXCEPT ![c] = linked_list_node_init(d)]
           L == Len(s)
           t == Append(s, c)
           z == At(s, L)
<1>1. /\ DOMAIN m = Addr /\ s \in Seq(Addr) /\ L \in Nat /\ Addr \in SUBSET Nat /\ NULL \notin Addr /\ NULL \in Nat
      /\ \A i \in 1 .. L : s[i] \in Addr /\ s[i] \in Range(s) /\ s[i] # c
      /\ l.head = At(s, 1) /\ l.tail = z /\ l.size = L
      /\ l = [head |-> At(s, 1), tail |-> z, size |-> L]
  <2>1. DOMAIN m = Addr /\ s \in Seq(Addr) /\ l = [head |-> At(s, 1), tail |-> z, size |-> L]
    BY DEF ListRep
  <2>2. L \in Nat /\ \A i \in 1 .. L : s[i] \in Addr /\ s[i] \in Range(s)
    BY <2>1 DEF Range
  <2>3. \A i \in 1 .. L : s[i] # c
    BY <2>2
  <2> HIDE DEF z, L
  <2> QED BY <2>1, <2>2, <2>3, NoNull DEF NULL
<1>2. /\ t \in Seq(Addr) /\ Len(t) = L + 1 /\ t[L + 1] = c /\ \A i \in 1 .. L : t[i] = s[i]
  BY <1>1, AppendProperties
<1>3. /\ \A i \in 1 .. L : m[s[i]] \in ListNode /\ m[s[i]].next = At(s, i + 1) /\ m[s[i]].prev = At(s, i - 1)
      /\ \A i, j \in 1 .. L : m[s[i]].data = m[s[j]].data => i = j
      /\ \A i, j \in 1 .. L : s[i] = s[j] => i = j
  BY <1>1 DEF ListRep, IsInjective
<1>4. /\ DOMAIN m0 = Addr /\ m0[c] = [prev |-> NULL, next |-> NULL, data |-> d]
      /\ \A a \in Addr \ {c} : m0[a] = m[a]
  BY <1>1 DEF linked_list_node_init
<1>5. [mem |-> m1, list |-> l1] = IF l.head = NULL
          THEN [mem |-> [m0 EXCEPT ![c].prev = NULL, ![c].next = NULL],
                list |-> [head |-> c, tail |-> c, size |-> l.size + 1]]
          ELSE [mem |-> [m0 EXCEPT ![c].prev = l.tail, ![c].next = NULL, ![l.tail].next = c],
                list |-> [l EXCEPT !.tail = c, !.size = @ + 1]]
  BY DEF linked_list_append
<1> HIDE DEF m0, L, t, z
<1>6. l.head = NULL <=> L = 0
  <2>1. CASE L = 0
    <3>1. 1 \notin 1 .. L
      BY <2>1
    <3> QED BY <1>1, <2>1, <3>1 DEF At, L
  <2>2. CASE L # 0
    <3>1. 1 \in 1 .. L
      BY <1>1, <2>2
    <3>2. s[1] # NULL
      BY <1>1, <3>1
    <3> QED BY <1>1, <2>2, <3>1, <3>2 DEF At, L
  <2> QED BY <2>1, <2>2
<1>7. z = IF L = 0 THEN NULL ELSE s[L]
  <2>1. L = 0 => L \notin 1 .. L
    OBVIOUS
  <2>2. L # 0 => L \in 1 .. L
    BY <1>1
  <2> QED BY <2>1, <2>2 DEF At, L, z
<1>8. /\ DOMAIN m1 = Addr /\ m1[c] = [prev |-> z, next |-> NULL, data |-> d]
      /\ \A a \in Addr \ {c, z} : m1[a] = m[a]
      /\ L # 0 => m1[z] = [m[z] EXCEPT !.next = c]
      /\ l1 = [head |-> IF L = 0 THEN c ELSE s[1], tail |-> c, size |-> L + 1]
  <2>1. CASE L = 0
    <3>1. z = NULL /\ l.head = NULL
      BY <1>6, <1>7, <2>1
    <3>2. m1 = [m0 EXCEPT ![c].prev = NULL, ![c].next = NULL] /\ l1 = [head |-> c, tail |-> c, size |-> l.size + 1]
      BY <1>5, <3>1
    <3>3. DOMAIN m1 = Addr /\ m1[c] = [prev |-> z, next |-> NULL, data |-> d]
      <4>1. DOMAIN m1 = Addr /\ m1[c] = [[m0[c] EXCEPT !.prev = NULL] EXCEPT !.next = NULL]
        BY <1>1, <1>4, <3>2
      <4>2. [m0[c] EXCEPT !.prev = NULL] = [prev |-> NULL, next |-> NULL, data |-> d]
        BY <1>4
      <4> QED BY <3>1, <4>1, <4>2
    <3>4. \A a \in Addr \ {c} : m1[a] = m[a]
      BY <1>1, <1>4, <3>2
    <3> QED BY <1>1, <2>1, <3>2, <3>3, <3>4
  <2>2. CASE L # 0
    <3>1. z = s[L] /\ z \in Addr /\ z # c /\ l.head # NULL /\ l.tail = z /\ l.head = s[1]
      <4>1. L \in 1 .. L /\ 1 \in 1 .. L
        BY <1>1, <2>2
      <4> QED BY <1>1, <1>6, <1>7, <2>2, <4>1 DEF At, L
    <3>2. /\ m1 = [m0 EXCEPT ![c].prev = z, ![c].next = NULL, ![z].next = c]
          /\ l1 = [l EXCEPT !.tail = c, !.size = @ + 1]
      BY <1>5, <3>1
    <3>3. m1[c] = [[m0[c] EXCEPT !.prev = z] EXCEPT !.next = NULL] /\ m1[z] = [m0[z] EXCEPT !.next = c] /\ DOMAIN m1 = Addr
      BY <1>1, <1>4, <3>1, <3>2
    <3>4. \A a \in Addr \ {c, z} : m1[a] = m[a]
      BY <1>1, <1>4, <3>1, <3>2
    <3>5. m1[c] = [prev |-> z, next |-> NULL, data |-> d]
      <4>1. [m0[c] EXCEPT !.prev = z] = [prev |-> z, next |-> NULL, data |-> d]
        BY <1>4
      <4> QED BY <3>3, <4>1
    <3>6. l1 = [head |-> s[1], tail |-> c, size |-> L + 1]
      BY <1>1, <3>1, <3>2
    <3> QED BY <1>4, <2>2, <3>1, <3>3, <3>4, <3>5, <3>6
  <2> QED BY <2>1, <2>2
<1>9. \A k \in 0 .. L : At(t, k) = At(s, k)
  BY <1>1, <1>2 DEF At, L
<1>10. At(t, L + 1) = c /\ At(t, L + 2) = NULL /\ At(t, 1) = (IF L = 0 THEN c ELSE s[1])
  BY <1>1, <1>2 DEF At, L
<1>11. ASSUME NEW i \in 1 .. L
       PROVE  /\ m1[s[i]] \in ListNode /\ m1[s[i]].next = At(t, i + 1) /\ m1[s[i]].prev = At(t, i - 1)
              /\ m1[s[i]].data = m[s[i]].data
  <2>1. m[s[i]] \in ListNode /\ m[s[i]].next = At(s, i + 1) /\ m[s[i]].prev = At(s, i - 1)
    BY <1>3
  <2>2. i - 1 \in 0 .. L /\ i # 0 /\ L # 0
    BY <1>1
  <2>3. At(t, i - 1) = At(s, i - 1)
    BY <1>9, <2>2
  <2>4. CASE i = L
    <3>1. s[i] = z
      BY <1>7, <2>2, <2>4
    <3>2. m1[s[i]] = [m[s[i]] EXCEPT !.next = c]
      BY <1>8, <2>2, <3>1
    <3>3. c \in Nat
      BY <1>1
    <3> QED BY <1>10, <2>1, <2>3, <2>4, <3>2, <3>3 DEF ListNode
  <2>5. CASE i # L
    <3>1. L \in 1 .. L /\ i + 1 \in 0 .. L
      BY <1>1, <2>5
    <3>2. s[i] # z /\ s[i] # c /\ s[i] \in Addr
      BY <1>1, <1>3, <1>7, <2>2, <2>5, <3>1
    <3>3. m1[s[i]] = m[s[i]]
      BY <1>8, <3>2
    <3>4. At(t, i + 1) = At(s, i + 1)
      BY <1>9, <3>1
    <3> QED BY <2>1, <2>3, <3>3, <3>4
  <2> QED BY <2>4, <2>5
<1>12. m1[c] \in ListNode /\ m1[c].next = NULL /\ m1[c].prev = At(t, L) /\ m1[c].data = d
  <2>1. At(t, L) = z
    <3>1. L \in 0 .. L
      BY <1>1
    <3> QED BY <1>9, <3>1 DEF z
  <2>2. z \in Nat
    <3>1. L # 0 => L \in 1 .. L
      BY <1>1
    <3> QED BY <1>1, <1>7, <3>1
  <2> QED BY <1>1, <1>8, <2>1, <2>2 DEF ListNode
<1>13. \A i \in 1 .. L + 1 : i = L + 1 \/ i \in 1 .. L
  BY <1>1
<1>14. ASSUME NEW i \in 1 .. L + 1
       PROVE  m1[t[i]] \in ListNode /\ m1[t[i]].next = At(t, i + 1) /\ m1[t[i]].prev = At(t, i - 1)
  <2>1. CASE i = L + 1
    <3>1. i + 1 = L + 2 /\ i - 1 = L
      BY <1>1, <2>1
    <3> QED BY <1>2, <1>10, <1>12, <2>1, <3>1
  <2>2. CASE i \in 1 .. L
    BY <1>2, <1>11, <2>2
  <2> QED BY <1>13, <2>1, <2>2
<1>15. \A i \in 1 .. L : m1[t[i]].data = m[s[i]].data /\ m[s[i]].data # d
  BY <1>2, <1>11 DEF L
<1>16. \A i, j \in 1 .. L + 1 : m1[t[i]].data = m1[t[j]].data => i = j
  <2>1. m1[t[L + 1]].data = d
    BY <1>2, <1>12
  <2>2. \A i, j \in 1 .. L : m[s[i]].data = m[s[j]].data => i = j
    BY <1>3
  <2> HIDE DEF t
  <2>3. SUFFICES ASSUME NEW i \in 1 .. L + 1, NEW j \in 1 .. L + 1, m1[t[i]].data = m1[t[j]].data
                 PROVE  i = j
    OBVIOUS
  <2>4. CASE i \in 1 .. L /\ j \in 1 .. L
    <3>1. m1[t[i]].data = m[s[i]].data /\ m1[t[j]].data = m[s[j]].data
      BY <1>15, <2>4
    <3> QED BY <2>2, <2>3, <2>4, <3>1
  <2>5. CASE i \in 1 .. L /\ j = L + 1
    <3>1. m1[t[i]].data # d /\ m1[t[j]].data = d
      BY <1>15, <2>1, <2>5
    <3> QED BY <2>3, <3>1
  <2>6. CASE i = L + 1 /\ j \in 1 .. L
    <3>1. m1[t[j]].data # d /\ m1[t[i]].data = d
      BY <1>15, <2>1, <2>6
    <3> QED BY <2>3, <3>1
  <2> QED BY <1>13, <2>4, <2>5, <2>6
<1>17. IsInjective(t)
  <2>1. DOMAIN t = 1 .. L + 1
    BY <1>2
  <2>2. \A i, j \in 1 .. L + 1 : t[i] = t[j] => i = j
    <3>1. \A i \in 1 .. L : t[i] # c
      BY <1>1, <1>2
    <3>2. \A i, j \in 1 .. L : t[i] = t[j] => i = j
      BY <1>2, <1>3
    <3> QED BY <1>2, <1>13, <3>1, <3>2
  <2> QED BY <2>1, <2>2 DEF IsInjective
<1>18. l1 = [head |-> At(t, 1), tail |-> At(t, Len(t)), size |-> Len(t)]
  BY <1>2, <1>8, <1>10
<1>19. ListRep(m1, l1, t)
  BY <1>2, <1>8, <1>14, <1>16, <1>17, <1>18 DEF ListRep
<1>20. Range(t) = Range(s) \cup {c}
  <2>1. DOMAIN t = 1 .. L + 1 /\ DOMAIN s = 1 .. L /\ L + 1 \in 1 .. L + 1 /\ \A i \in 1 .. L : i \in 1 .. L + 1
    BY <1>1, <1>2 DEF L
  <2>2. Range(t) \subseteq Range(s) \cup {c}
    BY <1>1, <1>2, <1>13, <2>1 DEF Range
  <2>3. Range(s) \subseteq Range(t)
    BY <1>2, <2>1 DEF Range
  <2>4. c \in Range(t)
    BY <1>2, <2>1 DEF Range
  <2> QED BY <2>2, <2>3, <2>4
<1>21. \A a \in Addr \ (Range(s) \cup {c}) : m1[a] = m[a]
  <2>1. L # 0 => z \in Range(s)
    <3>1. L # 0 => L \in 1 .. L
      BY <1>1
    <3> QED BY <1>1, <1>7, <3>1
  <2>2. L = 0 => z \notin Addr
    BY <1>1, <1>7
  <2> QED BY <1>8, <2>1, <2>2
<1> QED BY <1>11, <1>12, <1>19, <1>20, <1>21 DEF t, L, Appended

\* The sequence without the element at i.
Without(s, i) == [j \in 1 .. Len(s) - 1 |-> IF j < i THEN s[j] ELSE s[j + 1]]

\* Where the elements are after that.
LEMMA WithoutFacts ==
    ASSUME NEW S, NEW s \in Seq(S), NEW i \in 1 .. Len(s), NEW t, t = Without(s, i)
    PROVE  /\ t \in Seq(S) /\ Len(t) = Len(s) - 1 /\ Len(s) \in Nat
           /\ \A j \in 1 .. Len(s) - 1 : t[j] = IF j < i THEN s[j] ELSE s[j + 1]
<1>1. Len(s) \in Nat /\ \A j \in 1 .. Len(s) : s[j] \in S
  OBVIOUS
<1> DEFINE n == Len(s) - 1
<1>2. n \in Nat /\ \A j \in 1 .. n : j \in 1 .. Len(s) /\ j + 1 \in 1 .. Len(s)
  BY <1>1
<1>3. \A j \in 1 .. n : (IF j < i THEN s[j] ELSE s[j + 1]) \in S
  BY <1>1, <1>2
<1>4. t = [j \in 1 .. n |-> IF j < i THEN s[j] ELSE s[j + 1]]
  BY DEF Without
<1> HIDE DEF n
<1>5. t \in Seq(S) /\ Len(t) = n /\ \A j \in 1 .. n : t[j] = IF j < i THEN s[j] ELSE s[j + 1]
  BY <1>2, <1>3, <1>4
<1> QED BY <1>1, <1>5 DEF n

\* The list without its i-th node.
Dropped(m, s, i, m1, l1) ==
    /\ ListRep(m1, l1, Without(s, i))
    /\ Range(Without(s, i)) = Range(s) \ {s[i]}
    /\ \A a \in Addr \ Range(s) : m1[a] = m[a]
    /\ \A a \in Range(s) : m1[a].data = m[a].data

(***************************************************************************)
(* A node is taken out of the list (linked_list_remove).                   *)
(***************************************************************************)
LEMMA RemoveFromList ==
    ASSUME NEW m, NEW l, NEW s, ListRep(m, l, s), NEW i \in 1 .. Len(s),
           NEW m1, NEW l1, [mem |-> m1, list |-> l1] = linked_list_remove(m, l, s[i])
    PROVE  Dropped(m, s, i, m1, l1)
<1> DEFINE L == Len(s)
           c == s[i]
           p == At(s, i - 1)
           n == At(s, i + 1)
           t == Without(s, i)
           fwd == IF p = NULL THEN m ELSE [m EXCEPT ![p].next = n]
           bwd == IF n = NULL THEN fwd ELSE [fwd EXCEPT ![n].prev = p]
<1>1. /\ DOMAIN m = Addr /\ s \in Seq(Addr) /\ L \in Nat /\ Addr \in SUBSET Nat /\ NULL \notin Addr /\ NULL \in Nat
      /\ \A j \in 1 .. L : s[j] \in Addr /\ s[j] \in Range(s) /\ s[j] # NULL
      /\ l.head = At(s, 1) /\ l.tail = At(s, L) /\ l.size = L /\ i \in 1 .. L
  <2>1. DOMAIN m = Addr /\ s \in Seq(Addr) /\ l = [head |-> At(s, 1), tail |-> At(s, L), size |-> L]
    BY DEF ListRep
  <2>2. L \in Nat /\ \A j \in 1 .. L : s[j] \in Addr /\ s[j] \in Range(s)
    BY <2>1 DEF Range
  <2> HIDE DEF L
  <2> QED BY <2>1, <2>2, NoNull DEF NULL, L
<1>2. /\ \A j \in 1 .. L : m[s[j]] \in ListNode /\ m[s[j]].next = At(s, j + 1) /\ m[s[j]].prev = At(s, j - 1)
      /\ \A j, k \in 1 .. L : m[s[j]].data = m[s[k]].data => j = k
      /\ \A j, k \in 1 .. L : s[j] = s[k] => j = k
  BY <1>1 DEF ListRep, IsInjective
<1>3. /\ t \in Seq(Addr) /\ Len(t) = L - 1
      /\ \A j \in 1 .. L - 1 : t[j] = IF j < i THEN s[j] ELSE s[j + 1]
  BY <1>1, WithoutFacts
<1>4. [mem |-> m1, list |-> l1] =
        [mem |-> [bwd EXCEPT ![c].prev = NULL, ![c].next = NULL],
         list |-> [head |-> IF l.head = c THEN n ELSE l.head,
                   tail |-> IF l.tail = c THEN p ELSE l.tail,
                   size |-> l.size - 1]]
  <2>1. m[c].prev = p /\ m[c].next = n
    BY <1>1, <1>2
  <2> HIDE DEF c, p, n
  <2> QED BY SMTT(40), <2>1 DEF linked_list_remove, c
<1> HIDE DEF L, c, p, n, t
<1>5. /\ \A k \in 1 .. L : At(s, k) = s[k] /\ s[k] # NULL /\ s[k] \in Addr
      /\ \A k \in Int : k \notin 1 .. L => At(s, k) = NULL
  BY <1>1 DEF At, L
<1>6. c = s[i] /\ p = At(s, i - 1) /\ n = At(s, i + 1) /\ i - 1 \in 0 .. L + 1 /\ i + 1 \in 0 .. L + 1 /\ c \in Addr
  BY <1>1 DEF c, p, n
<1>7. /\ p # NULL <=> i # 1
      /\ p # NULL => p = s[i - 1] /\ p \in Addr /\ p # c /\ i - 1 \in 1 .. L
      /\ n # NULL <=> i # L
      /\ n # NULL => n = s[i + 1] /\ n \in Addr /\ n # c /\ i + 1 \in 1 .. L
      /\ p # NULL /\ n # NULL => p # n
  <2>1. CASE i = 1 /\ i = L
    <3>1. i - 1 \notin 1 .. L /\ i + 1 \notin 1 .. L /\ i - 1 \in Int /\ i + 1 \in Int
      BY <1>1, <2>1
    <3> QED BY <1>5, <1>6, <2>1, <3>1
  <2>2. CASE i = 1 /\ i # L
    <3>1. i - 1 \notin 1 .. L /\ i - 1 \in Int /\ i + 1 \in 1 .. L /\ i + 1 # i
      BY <1>1, <2>2
    <3>2. p = NULL /\ n = s[i + 1] /\ n # NULL /\ n \in Addr
      BY <1>5, <1>6, <3>1
    <3>3. n # c
      BY <1>1, <1>2, <1>6, <3>1, <3>2
    <3> QED BY <2>2, <3>1, <3>2, <3>3
  <2>3. CASE i # 1 /\ i = L
    <3>1. i - 1 \in 1 .. L /\ i + 1 \in Int /\ i + 1 \notin 1 .. L /\ i - 1 # i
      BY <1>1, <2>3
    <3>2. n = NULL /\ p = s[i - 1] /\ p # NULL /\ p \in Addr
      BY <1>5, <1>6, <3>1
    <3>3. p # c
      BY <1>1, <1>2, <1>6, <3>1, <3>2
    <3> QED BY <2>3, <3>1, <3>2, <3>3
  <2>4. CASE i # 1 /\ i # L
    <3>1. i - 1 \in 1 .. L /\ i + 1 \in 1 .. L /\ i - 1 # i /\ i + 1 # i /\ i - 1 # i + 1
      BY <1>1, <2>4
    <3>2. p = s[i - 1] /\ n = s[i + 1] /\ p # NULL /\ n # NULL
      BY <1>5, <1>6, <3>1
    <3> QED BY <1>1, <1>2, <1>6, <2>4, <3>1, <3>2
  <2> QED BY <2>1, <2>2, <2>3, <2>4
<1>8. m1 = [bwd EXCEPT ![c].prev = NULL, ![c].next = NULL]
      /\ l1 = [head |-> IF l.head = c THEN n ELSE l.head, tail |-> IF l.tail = c THEN p ELSE l.tail, size |-> l.size - 1]
  <2> HIDE DEF bwd
  <2> QED BY <1>4
<1>9. /\ DOMAIN fwd = Addr /\ \A a \in Addr \ {p} : fwd[a] = m[a]
      /\ p # NULL => fwd[p] = [m[p] EXCEPT !.next = n]
  BY <1>1, <1>7
<1> HIDE DEF fwd
<1>10. /\ DOMAIN bwd = Addr /\ \A a \in Addr \ {n} : bwd[a] = fwd[a]
       /\ n # NULL => bwd[n] = [fwd[n] EXCEPT !.prev = p]
  BY <1>7, <1>9
<1> HIDE DEF bwd
<1>11. /\ DOMAIN m1 = Addr /\ \A a \in Addr \ {c, p, n} : m1[a] = m[a]
       /\ p # NULL => m1[p] = [m[p] EXCEPT !.next = n]
       /\ n # NULL => m1[n] = [m[n] EXCEPT !.prev = p]
       /\ m1[c] = [[m[c] EXCEPT !.prev = NULL] EXCEPT !.next = NULL]
  <2>1. DOMAIN m1 = Addr /\ \A a \in Addr \ {c} : m1[a] = bwd[a]
    BY <1>6, <1>8, <1>10
  <2>2. m1[c] = [[bwd[c] EXCEPT !.prev = NULL] EXCEPT !.next = NULL]
    BY <1>6, <1>8, <1>10
  <2>3. c # p /\ c # n
    BY <1>1, <1>6, <1>7
  <2>4. bwd[c] = m[c]
    BY <1>6, <1>9, <1>10, <2>3
  <2>5. ASSUME NEW a \in Addr \ {c, p, n} PROVE m1[a] = m[a]
    BY <1>9, <1>10, <2>1
  <2>6. p # NULL => m1[p] = [m[p] EXCEPT !.next = n]
    BY <1>1, <1>7, <1>9, <1>10, <2>1
  <2>7. n # NULL => m1[n] = [m[n] EXCEPT !.prev = p]
    BY <1>1, <1>7, <1>9, <1>10, <2>1
  <2> QED BY <2>1, <2>2, <2>4, <2>5, <2>6, <2>7
<1>12. p \in Nat /\ n \in Nat
  BY <1>1, <1>7
<1>13. ASSUME NEW k \in 1 .. L, k # i
       PROVE  /\ m1[s[k]] \in ListNode /\ m1[s[k]].data = m[s[k]].data
              /\ m1[s[k]].next = IF k = i - 1 THEN n ELSE At(s, k + 1)
              /\ m1[s[k]].prev = IF k = i + 1 THEN p ELSE At(s, k - 1)
  <2>1. m[s[k]] \in ListNode /\ m[s[k]].next = At(s, k + 1) /\ m[s[k]].prev = At(s, k - 1) /\ s[k] \in Addr
    BY <1>1, <1>2
  <2>2. CASE k = i - 1
    <3>1. k # i + 1 /\ i # 1
      BY <1>1, <2>2
    <3>2. p # NULL /\ p = s[k]
      BY <1>7, <2>2, <3>1
    <3>3. m1[s[k]] = [m[s[k]] EXCEPT !.next = n]
      BY <1>11, <3>2
    <3> QED BY <1>12, <2>1, <2>2, <3>1, <3>3 DEF ListNode
  <2>3. CASE k = i + 1
    <3>1. k # i - 1 /\ i # L
      BY <1>1, <2>3
    <3>2. n # NULL /\ n = s[k]
      BY <1>7, <2>3, <3>1
    <3>3. m1[s[k]] = [m[s[k]] EXCEPT !.prev = p]
      BY <1>11, <3>2
    <3> QED BY <1>12, <2>1, <2>3, <3>1, <3>3 DEF ListNode
  <2>4. CASE k # i - 1 /\ k # i + 1
    <3>1. s[k] # c
      BY <1>1, <1>2, <1>6, <1>13
    <3>2. s[k] # p
      BY <1>1, <1>2, <1>7, <2>4
    <3>3. s[k] # n
      BY <1>1, <1>2, <1>7, <2>4
    <3>4. m1[s[k]] = m[s[k]]
      BY <1>11, <2>1, <3>1, <3>2, <3>3
    <3> QED BY <2>1, <2>4, <3>4
  <2> QED BY <2>2, <2>3, <2>4
<1> DEFINE Old(j) == IF j < i THEN j ELSE j + 1
<1>14. ASSUME NEW j \in 1 .. L - 1
       PROVE  Old(j) \in 1 .. L /\ Old(j) # i /\ t[j] = s[Old(j)]
  BY SMTT(40), <1>1, <1>3
<1>15. \A j, k \in 1 .. L - 1 : Old(j) = Old(k) => j = k
  BY <1>1
<1>16. ASSUME NEW k \in 0 .. L
       PROVE  At(t, k) = IF k \in 1 .. L - 1 THEN s[Old(k)] ELSE NULL
  BY <1>1, <1>3, <1>14 DEF At
<1>17. ASSUME NEW j \in 1 .. L - 1
       PROVE  m1[t[j]] \in ListNode /\ m1[t[j]].next = At(t, j + 1) /\ m1[t[j]].prev = At(t, j - 1)
  <2> DEFINE k == Old(j)
  <2>1. k \in 1 .. L /\ k # i /\ t[j] = s[k] /\ k + 1 \in 0 .. L + 1 /\ k - 1 \in 0 .. L + 1
        /\ j + 1 \in 0 .. L /\ j - 1 \in 0 .. L
    BY <1>1, <1>14
  <2>2. /\ m1[s[k]] \in ListNode
        /\ m1[s[k]].next = IF k = i - 1 THEN n ELSE At(s, k + 1)
        /\ m1[s[k]].prev = IF k = i + 1 THEN p ELSE At(s, k - 1)
    BY <1>13, <2>1
  <2>3. m1[s[k]].next = At(t, j + 1)
    <3>1. CASE j = L - 1
      <4>1. At(t, j + 1) = NULL
        <5>1. j + 1 \notin 1 .. L - 1
          BY <1>1, <3>1
        <5> QED BY <1>16, <2>1, <5>1
      <4>2. CASE k = i - 1
        <5>1. i = L
          BY <1>1, <3>1, <4>2
        <5> QED BY <1>7, <2>2, <4>1, <4>2, <5>1
      <4>3. CASE k # i - 1
        <5>1. k = L /\ k + 1 \notin 1 .. L /\ k + 1 \in Int
          BY <1>1, <3>1, <4>3
        <5> QED BY <1>5, <2>1, <2>2, <4>1, <4>3, <5>1
      <4> QED BY <4>2, <4>3
    <3>2. CASE j # L - 1
      <4>1. j + 1 \in 1 .. L - 1
        BY SMTT(40), <1>1, <3>2
      <4>2. At(t, j + 1) = s[Old(j + 1)]
        BY <1>16, <2>1, <4>1
      <4>3. CASE k = i - 1
        <5>1. Old(j + 1) = i + 1 /\ i # L
          BY <1>1, <3>2, <4>3
        <5> QED BY <1>7, <2>2, <4>2, <4>3, <5>1
      <4>4. CASE k # i - 1
        <5>1. Old(j + 1) = k + 1 /\ k + 1 \in 1 .. L
          <6>1. CASE j < i
            <7>1. k = j /\ j + 1 < i /\ j + 1 \in 1 .. L
              BY <1>1, <4>4, <6>1
            <7> QED BY <7>1
          <6>2. CASE ~(j < i)
            <7>1. k = j + 1 /\ ~(j + 1 < i) /\ (j + 1) + 1 \in 1 .. L
              BY <1>1, <4>1, <6>2
            <7> QED BY <7>1
          <6> QED BY <6>1, <6>2
        <5> HIDE DEF k, Old
        <5> QED BY <1>5, <2>2, <4>2, <4>4, <5>1
      <4> QED BY <4>3, <4>4
    <3> QED BY <3>1, <3>2
  <2>4. m1[s[k]].prev = At(t, j - 1)
    <3>1. CASE j = 1
      <4>1. At(t, j - 1) = NULL
        <5>1. j - 1 \notin 1 .. L - 1
          BY <1>1, <3>1
        <5> QED BY <1>16, <2>1, <5>1
      <4>2. CASE k = i + 1
        <5>1. i = 1
          BY <1>1, <3>1, <4>2
        <5> QED BY <1>7, <2>2, <4>1, <4>2, <5>1
      <4>3. CASE k # i + 1
        <5>1. k = 1 /\ k - 1 \notin 1 .. L /\ k - 1 \in Int
          BY <1>1, <3>1, <4>3
        <5> QED BY <1>5, <2>1, <2>2, <4>1, <4>3, <5>1
      <4> QED BY <4>2, <4>3
    <3>2. CASE j # 1
      <4>1. j - 1 \in 1 .. L - 1
        BY <1>1, <3>2
      <4>2. At(t, j - 1) = s[Old(j - 1)]
        BY <1>16, <2>1, <4>1
      <4>3. CASE k = i + 1
        <5>1. Old(j - 1) = i - 1 /\ i # 1
          BY <1>1, <3>2, <4>3
        <5> QED BY <1>7, <2>2, <4>2, <4>3, <5>1
      <4>4. CASE k # i + 1
        <5>1. Old(j - 1) = k - 1 /\ k - 1 \in 1 .. L
          <6>1. CASE j < i
            <7>1. k = j /\ j - 1 < i /\ j - 1 \in 1 .. L
              BY <1>1, <4>1, <6>1
            <7> QED BY <7>1
          <6>2. CASE ~(j < i)
            <7>1. k = j + 1 /\ ~(j - 1 < i) /\ (j - 1) + 1 = j /\ (j + 1) - 1 = j /\ j \in 1 .. L
              BY <1>1, <4>4, <6>2
            <7> QED BY <7>1
          <6> QED BY <6>1, <6>2
        <5> HIDE DEF k, Old
        <5> QED BY <1>5, <2>2, <4>2, <4>4, <5>1
      <4> QED BY <4>3, <4>4
    <3> QED BY <3>1, <3>2
  <2> QED BY <2>1, <2>2, <2>3, <2>4
<1>18. l1 = [head |-> At(t, 1), tail |-> At(t, L - 1), size |-> L - 1]
  <2>1. (IF l.head = c THEN n ELSE l.head) = At(t, 1)
    <3>0. 1 \in 1 .. L /\ 1 \in 0 .. L /\ l.head = s[1] /\ l.head # NULL
      <4>1. 1 \in 1 .. L /\ 1 \in 0 .. L /\ 1 \in 0 .. L + 1
        BY <1>1
      <4> QED BY <1>1, <1>5, <4>1
    <3>1. CASE i = 1 /\ L = 1
      <4>1. 1 \notin 1 .. L - 1 /\ i = L
        BY <3>1
      <4> QED BY <1>6, <1>7, <1>16, <3>0, <3>1, <4>1
    <3>2. CASE i = 1 /\ L # 1
      <4>1. 1 \in 1 .. L - 1 /\ Old(1) = 2 /\ i # L /\ i + 1 = 2
        BY <1>1, <3>2
      <4> QED BY <1>6, <1>7, <1>16, <3>0, <3>2, <4>1
    <3>3. CASE i # 1
      <4>1. 1 \in 1 .. L - 1 /\ Old(1) = 1
        BY <1>1, <3>3
      <4>2. l.head # c
        BY <1>1, <1>2, <1>6, <3>0, <3>3
      <4> QED BY <1>16, <3>0, <4>1, <4>2
    <3> QED BY <3>1, <3>2, <3>3
  <2>2. (IF l.tail = c THEN p ELSE l.tail) = At(t, L - 1)
    <3>0. L \in 1 .. L /\ L - 1 \in 0 .. L /\ l.tail = s[L] /\ l.tail # NULL
      <4>1. L \in 1 .. L /\ L - 1 \in 0 .. L /\ L \in 0 .. L + 1
        BY <1>1
      <4> QED BY <1>1, <1>5, <4>1
    <3>1. CASE i = L /\ L = 1
      <4>1. L - 1 \notin 1 .. L - 1 /\ i = 1
        BY <3>1
      <4> QED BY <1>6, <1>7, <1>16, <3>0, <3>1, <4>1
    <3>2. CASE i = L /\ L # 1
      <4>1. L - 1 \in 1 .. L - 1 /\ Old(L - 1) = L - 1 /\ i # 1 /\ i - 1 = L - 1
        BY <1>1, <3>2
      <4> QED BY <1>6, <1>7, <1>16, <3>0, <3>2, <4>1
    <3>3. CASE i # L
      <4>1. L - 1 \in 1 .. L - 1 /\ Old(L - 1) = L
        BY <1>1, <3>3
      <4>2. l.tail # c
        BY <1>1, <1>2, <1>6, <3>0, <3>3
      <4> QED BY <1>16, <3>0, <4>1, <4>2
    <3> QED BY <3>1, <3>2, <3>3
  <2> QED BY <1>1, <1>8, <2>1, <2>2
<1>19. \A j, k \in 1 .. L - 1 : t[j] = t[k] => j = k
  <2> HIDE DEF Old
  <2> QED BY <1>2, <1>14, <1>15
<1>20. \A j, k \in 1 .. L - 1 : m1[t[j]].data = m1[t[k]].data => j = k
  <2> HIDE DEF Old
  <2>1. ASSUME NEW j \in 1 .. L - 1, NEW k \in 1 .. L - 1, m1[t[j]].data = m1[t[k]].data PROVE j = k
    <3>1. m1[t[j]].data = m[s[Old(j)]].data /\ m1[t[k]].data = m[s[Old(k)]].data
      BY <1>13, <1>14
    <3>2. Old(j) \in 1 .. L /\ Old(k) \in 1 .. L
      BY <1>14
    <3>3. Old(j) = Old(k)
      BY <1>2, <2>1, <3>1, <3>2
    <3> QED BY <1>15, <3>3
  <2> QED BY <2>1
<1>21. IsInjective(t)
  BY <1>3, <1>19 DEF IsInjective
<1>22. ListRep(m1, l1, t)
  BY <1>3, <1>11, <1>17, <1>18, <1>20, <1>21 DEF ListRep
<1>23. Range(t) = Range(s) \ {c}
  <2>1. DOMAIN t = 1 .. L - 1 /\ DOMAIN s = 1 .. L
    BY <1>1, <1>3 DEF L
  <2>2. ASSUME NEW a \in Range(t) PROVE a \in Range(s) /\ a # c
    <3>1. PICK j \in 1 .. L - 1 : a = t[j]
      BY <2>1 DEF Range
    <3> HIDE DEF Old
    <3> QED BY <1>1, <1>2, <1>6, <1>14, <3>1
  <2>3. ASSUME NEW a \in Range(s), a # c PROVE a \in Range(t)
    <3>1. PICK k \in 1 .. L : a = s[k]
      BY <2>1 DEF Range
    <3>2. k # i
      BY <1>6, <2>3, <3>1
    <3> DEFINE j == IF k < i THEN k ELSE k - 1
    <3>3. j \in 1 .. L - 1 /\ Old(j) = k
      BY <1>1, <3>1, <3>2
    <3>4. t[j] = a
      BY <1>14, <3>1, <3>3
    <3> HIDE DEF j
    <3> QED BY <2>1, <3>3, <3>4 DEF Range
  <2> QED BY <2>2, <2>3
<1>24. \A a \in Addr \ Range(s) : m1[a] = m[a]
  <2>1. c \in Range(s) /\ p \in Range(s) \cup {NULL} /\ n \in Range(s) \cup {NULL}
    BY <1>1, <1>6, <1>7
  <2> QED BY <1>1, <1>11, <2>1
<1>25. ASSUME NEW a \in Range(s) PROVE m1[a].data = m[a].data
  <2>1. PICK k \in 1 .. L : a = s[k]
    BY <1>1 DEF Range, L
  <2>2. CASE k = i
    <3>1. m[c] \in ListNode /\ a = c
      BY <1>1, <1>2, <1>6, <2>1, <2>2
    <3> QED BY <1>1, <1>11, <3>1 DEF ListNode
  <2>3. CASE k # i
    BY <1>13, <2>1, <2>3
  <2> QED BY <2>2, <2>3
<1> QED BY <1>22, <1>23, <1>24, <1>25 DEF t, c, Dropped

\* One comparison of the two nested loops.
SortStep(n, behind, k, t) ==
    LET i == ((k - 1) \div n) + 1
        j == ((k - 1) % n) + 1
    IN IF i < j /\ <<t[i], t[j]>> \in behind THEN linked_list_node_swap(t, i, j) ELSE t

Sorts(s, behind, N, f) == f = [k \in 0 .. N |-> IF k = 0 THEN s ELSE SortStep(Len(s), behind, k, f[k - 1])]

\* The loops have a result.
LEMMA SortsExist ==
    ASSUME NEW s, NEW behind, NEW n \in Nat
    PROVE  \E f : Sorts(s, behind, n, f)
<1> DEFINE Good == {m \in Nat : \E f : Sorts(s, behind, m, f)}
<1>1. 0 \in Good
  <2> DEFINE g == [k \in 0 .. 0 |-> s]
  <2>1. g = [k \in 0 .. 0 |-> IF k = 0 THEN s ELSE SortStep(Len(s), behind, k, g[k - 1])]
    OBVIOUS
  <2>2. Sorts(s, behind, 0, g)
    BY <2>1 DEF Sorts
  <2> QED BY <2>2
<1>2. ASSUME NEW m \in 1 .. n, m - 1 \in Good PROVE m \in Good
  <2>1. PICK f : Sorts(s, behind, m - 1, f)
    BY <1>2
  <2> DEFINE last == SortStep(Len(s), behind, m, f[m - 1])
             g == [k \in 0 .. m |-> IF k = m THEN last ELSE f[k]]
  <2>2. \A k \in 0 .. m - 1 : g[k] = f[k]
    OBVIOUS
  <2>3. \A k \in 0 .. m - 1 : f[k] = IF k = 0 THEN s ELSE SortStep(Len(s), behind, k, f[k - 1])
    BY <2>1 DEF Sorts
  <2>4. ASSUME NEW k \in 0 .. m PROVE g[k] = IF k = 0 THEN s ELSE SortStep(Len(s), behind, k, g[k - 1])
    <3>1. CASE k = m
      <4>1. g[k] = last /\ g[k - 1] = f[m - 1] /\ k # 0
        BY <2>2, <3>1
      <4> QED BY <3>1, <4>1
    <3>2. CASE k # m
      <4>1. k \in 0 .. m - 1 /\ (k # 0 => k - 1 \in 0 .. m - 1)
        BY <3>2
      <4>2. g[k] = f[k] /\ (k # 0 => g[k - 1] = f[k - 1])
        BY <2>2, <4>1
      <4> HIDE DEF g
      <4> QED BY <2>3, <4>1, <4>2
    <3> QED BY <3>1, <3>2
  <2>5. g = [k \in 0 .. m |-> g[k]]
    OBVIOUS
  <2> HIDE DEF g
  <2>6. Sorts(s, behind, m, g)
    BY <2>4, <2>5 DEF Sorts
  <2> QED BY <2>6
<1> HIDE DEF Good
<1>3. n \in Good
  BY <1>1, <1>2, UpTo
<1> QED BY <1>3 DEF Good

\* Data without repetitions, all of it from D.
Spread(n, D, t) == t \in [1 .. n -> D] /\ \A i, j \in 1 .. n : t[i] = t[j] => i = j

\* One turn of the loops only exchanges data.
LEMMA SortStepSpread ==
    ASSUME NEW n \in Nat \ {0}, NEW D, NEW behind, NEW k \in Nat \ {0}, NEW t, Spread(n, D, t)
    PROVE  Spread(n, D, SortStep(n, behind, k, t))
<1> DEFINE i == ((k - 1) \div n) + 1
           j == ((k - 1) % n) + 1
           u == [t EXCEPT ![i] = t[j], ![j] = t[i]]
<1>1. i \in Nat \ {0} /\ j \in 1 .. n
  <2>1. k - 1 \in Nat
    OBVIOUS
  <2>2. (k - 1) \div n \in Nat /\ (k - 1) % n \in 0 .. n - 1
    BY <2>1, Quotient
  <2> QED BY <2>2
<1>2. SortStep(n, behind, k, t) = IF i < j /\ <<t[i], t[j]>> \in behind THEN u ELSE t
  BY DEF SortStep, linked_list_node_swap
<1> HIDE DEF i, j
<1>3. ASSUME i < j PROVE Spread(n, D, u)
  <2>1. i \in 1 .. n /\ i # j
    BY <1>1, <1>3
  <2>2. t \in [1 .. n -> D] /\ \A x, y \in 1 .. n : t[x] = t[y] => x = y
    BY DEF Spread
  <2>3. u \in [1 .. n -> D] /\ u[i] = t[j] /\ u[j] = t[i] /\ \A x \in (1 .. n) \ {i, j} : u[x] = t[x]
    BY <1>1, <2>1, <2>2
  <2> HIDE DEF u
  <2>4. ASSUME NEW x \in 1 .. n, NEW y \in 1 .. n, u[x] = u[y] PROVE x = y
    <3>1. CASE x = i
      BY <1>1, <2>1, <2>2, <2>3, <2>4, <3>1
    <3>2. CASE x = j
      BY <1>1, <2>1, <2>2, <2>3, <2>4, <3>2
    <3>3. CASE x \notin {i, j}
      <4>1. u[x] = t[x]
        BY <2>3, <3>3
      <4> QED BY <1>1, <2>1, <2>2, <2>3, <2>4, <3>3, <4>1
    <3> QED BY <3>1, <3>2, <3>3
  <2> QED BY <2>3, <2>4 DEF Spread
<1> QED BY <1>2, <1>3

\* Sorting only exchanges data.
LEMMA SortedSpread ==
    ASSUME NEW s, NEW D, NEW behind, s \in Seq(D), Spread(Len(s), D, s)
    PROVE  Spread(Len(s), D, SortedData(s, behind))
<1> DEFINE n == Len(s)
           N == n * n
           f == CHOOSE f : Sorts(s, behind, N, f)
<1>1. n \in Nat
  BY LenProperties
<1>2. N \in Nat
  BY <1>1
<1>3. SortedData(s, behind) = f[N]
  BY Zenon DEF SortedData, Sorts, SortStep
<1>4. Sorts(s, behind, N, f)
  <2> HIDE DEF N
  <2> QED BY <1>2, SortsExist
<1> HIDE DEF f, N
<1>5. \A k \in 0 .. N : f[k] = IF k = 0 THEN s ELSE SortStep(n, behind, k, f[k - 1])
  BY <1>4 DEF Sorts
<1>6. CASE n = 0
  <2>1. N = 0
    BY <1>6 DEF N
  <2>2. f[N] = s
    BY <1>5, <2>1
  <2> QED BY <1>3, <2>2
<1>7. CASE n # 0
  <2> HIDE DEF n
  <2> DEFINE Good == {k \in Nat : Spread(n, D, f[k])}
  <2>1. 0 \in Good
    BY <1>2, <1>5 DEF n
  <2>2. ASSUME NEW k \in 1 .. N, k - 1 \in Good PROVE k \in Good
    <3>1. n \in Nat \ {0} /\ k \in Nat \ {0} /\ k \in 0 .. N
      BY <1>1, <1>2, <1>7
    <3>2. f[k] = SortStep(n, behind, k, f[k - 1])
      BY <1>5, <3>1
    <3>3. Spread(n, D, f[k - 1])
      BY <2>2
    <3>4. Spread(n, D, SortStep(n, behind, k, f[k - 1]))
      BY <3>1, <3>3, SortStepSpread
    <3> QED BY <3>1, <3>2, <3>4
  <2> HIDE DEF Good
  <2>3. \A k \in 1 .. N : k - 1 \in Good => k \in Good
    BY <2>2
  <2>4. N \in Nat /\ N \in 0 .. N
    BY <1>2
  <2>5. N \in Good
    BY <2>1, <2>3, <2>4, UpTo
  <2>6. Spread(n, D, f[N])
    BY <2>5 DEF Good
  <2> QED BY <1>3, <2>6 DEF n
<1> QED BY <1>6, <1>7

(***************************************************************************)
(* A sorted list has the nodes it had, with its data in another order      *)
(* (linked_list_sort).                                                     *)
(***************************************************************************)
LEMMA SortOfList ==
    ASSUME NEW m, NEW l, NEW s, ListRep(m, l, s), NEW behind,
           NEW m1, m1 = linked_list_sort(m, l, behind)
    PROVE  /\ ListRep(m1, l, s)
           /\ \A a \in Addr \ Range(s) : m1[a] = m[a]
<1> DEFINE L == Len(s)
           old == [i \in DOMAIN s |-> m[s[i]].data]
           new == SortedData(old, behind)
<1>1. DOMAIN m = Addr /\ s \in Seq(Addr) /\ L \in Nat /\ DOMAIN s = 1 .. L /\ \A i \in 1 .. L : s[i] \in Addr
  BY DEF ListRep
<1>2. /\ \A i \in 1 .. L : m[s[i]] \in ListNode /\ m[s[i]].next = At(s, i + 1) /\ m[s[i]].prev = At(s, i - 1)
      /\ \A i, j \in 1 .. L : m[s[i]].data = m[s[j]].data => i = j
      /\ \A i, j \in 1 .. L : s[i] = s[j] => i = j
  BY <1>1 DEF ListRep, IsInjective
<1>3. Forward(m, l.head) = s
  BY ListForward
<1>4. m1 = [a \in Addr |-> IF \E i \in DOMAIN s : s[i] = a
                            THEN [m[a] EXCEPT !.data = new[CHOOSE i \in DOMAIN s : s[i] = a]]
                            ELSE m[a]]
  BY <1>1, <1>3, Zenon DEF linked_list_sort
<1> HIDE DEF L
<1>5. Spread(L, Device, new)
  <2>1. \A i \in 1 .. L : m[s[i]].data \in Device
    BY <1>2 DEF ListNode
  <2>2. old \in Seq(Device) /\ Len(old) = L /\ \A i \in 1 .. L : old[i] = m[s[i]].data
    BY <1>1, <2>1
  <2> HIDE DEF old
  <2>3. Spread(Len(old), Device, old)
    <3>1. old \in [1 .. L -> Device]
      BY <2>2
    <3>2. \A i, j \in 1 .. L : old[i] = old[j] => i = j
      BY SMTT(40), <1>2, <2>2
    <3> QED BY <2>2, <3>1, <3>2 DEF Spread
  <2> QED BY <2>2, <2>3, SortedSpread
<1> HIDE DEF new, old
<1>6. ASSUME NEW i \in 1 .. L PROVE m1[s[i]] = [m[s[i]] EXCEPT !.data = new[i]]
  <2>1. (CHOOSE j \in DOMAIN s : s[j] = s[i]) = i
    <3>1. \A j \in DOMAIN s : s[j] = s[i] => j = i
      BY <1>1, <1>2
    <3>2. i \in DOMAIN s
      BY <1>1
    <3> QED BY <3>1, <3>2
  <2>2. \E j \in DOMAIN s : s[j] = s[i]
    BY <1>1
  <2>3. s[i] \in Addr
    BY <1>1
  <2>4. m1[s[i]] = IF \E j \in DOMAIN s : s[j] = s[i]
                   THEN [m[s[i]] EXCEPT !.data = new[CHOOSE j \in DOMAIN s : s[j] = s[i]]] ELSE m[s[i]]
    BY <1>4, <2>3
  <2> QED BY <2>1, <2>2, <2>4
<1>7. ASSUME NEW i \in 1 .. L
      PROVE  m1[s[i]] \in ListNode /\ m1[s[i]].next = At(s, i + 1) /\ m1[s[i]].prev = At(s, i - 1) /\ m1[s[i]].data = new[i]
  <2>1. new[i] \in Device
    BY <1>5 DEF Spread
  <2>2. m[s[i]] \in ListNode
    BY <1>2
  <2> QED BY ZenonT(60), <1>2, <1>6, <2>1, <2>2 DEF ListNode
<1>8. \A i, j \in 1 .. L : m1[s[i]].data = m1[s[j]].data => i = j
  BY <1>5, <1>7 DEF Spread
<1>9. DOMAIN m1 = Addr
  BY <1>4
<1>10. ListRep(m1, l, s)
  BY <1>7, <1>8, <1>9 DEF ListRep, L
<1>11. ASSUME NEW a \in Addr \ Range(s) PROVE m1[a] = m[a]
  <2>1. ~\E i \in DOMAIN s : s[i] = a
    BY DEF Range
  <2> QED BY <1>4, <2>1
<1> QED BY <1>10, <1>11

-----------------------------------------------------------------------------
(* The lists of devices that are handed out *)

\* What the callback does at the k-th node.
FoundStep(wanted, k, b) ==
    LET d == mem[Nodes[k]].data
        cell == Min(Addr \ b.used)
        r == linked_list_append([b.mem EXCEPT ![cell] = linked_list_node_init(d)], b.list, cell)
    IN IF d \notin wanted THEN b
       ELSE [mem |-> r.mem, used |-> b.used \cup {cell}, list |-> r.list]

Founds(wanted, N, f) ==
    f = [k \in 0 .. N |->
            IF k = 0 THEN [mem |-> mem, used |-> used, list |-> linked_list_init] ELSE FoundStep(wanted, k, f[k - 1])]

\* The visit with the callback has a result.
LEMMA FoundsExist ==
    ASSUME NEW wanted, NEW n \in Nat
    PROVE  \E f : Founds(wanted, n, f)
<1> DEFINE Good == {m \in Nat : \E f : Founds(wanted, m, f)}
           a == [mem |-> mem, used |-> used, list |-> linked_list_init]
<1>1. 0 \in Good
  <2> DEFINE g == [k \in 0 .. 0 |-> a]
  <2>1. g = [k \in 0 .. 0 |-> IF k = 0 THEN a ELSE FoundStep(wanted, k, g[k - 1])]
    OBVIOUS
  <2>2. Founds(wanted, 0, g)
    BY <2>1 DEF Founds
  <2> QED BY <2>2
<1>2. ASSUME NEW m \in 1 .. n, m - 1 \in Good PROVE m \in Good
  <2>1. PICK f : Founds(wanted, m - 1, f)
    BY <1>2
  <2> DEFINE last == FoundStep(wanted, m, f[m - 1])
             g == [k \in 0 .. m |-> IF k = m THEN last ELSE f[k]]
  <2> HIDE DEF a
  <2>2. \A k \in 0 .. m - 1 : g[k] = f[k]
    OBVIOUS
  <2>3. \A k \in 0 .. m - 1 : f[k] = IF k = 0 THEN a ELSE FoundStep(wanted, k, f[k - 1])
    BY <2>1 DEF Founds, a
  <2>4. ASSUME NEW k \in 0 .. m PROVE g[k] = IF k = 0 THEN a ELSE FoundStep(wanted, k, g[k - 1])
    <3>1. CASE k = m
      <4>1. g[k] = last /\ g[k - 1] = f[m - 1] /\ k # 0
        BY <2>2, <3>1
      <4> QED BY <3>1, <4>1
    <3>2. CASE k # m
      <4>1. k \in 0 .. m - 1 /\ (k # 0 => k - 1 \in 0 .. m - 1)
        BY <3>2
      <4>2. g[k] = f[k] /\ (k # 0 => g[k - 1] = f[k - 1])
        BY <2>2, <4>1
      <4> HIDE DEF g
      <4> QED BY <2>3, <4>1, <4>2
    <3> QED BY <3>1, <3>2
  <2>5. g = [k \in 0 .. m |-> g[k]]
    OBVIOUS
  <2> HIDE DEF g
  <2>6. Founds(wanted, m, g)
    BY <2>4, <2>5 DEF Founds, a
  <2> QED BY <2>6
<1> HIDE DEF Good
<1>3. n \in Good
  BY <1>1, <1>2, UpTo
<1> QED BY <1>3 DEF Good

\* The nodes among the first k that are wanted.
Hits(wanted, k) == {Nodes[i] : i \in {j \in 1 .. k : mem[Nodes[j]].data \in wanted}}

\* After k nodes: the list has a new cell for each hit, and no other cell has
\* changed.
FoundAt(wanted, k, b, s) ==
    /\ ListRep(b.mem, b.list, s)
    /\ Range(s) \cap used = {} /\ b.used = used \cup Range(s)
    /\ \A a \in used : b.mem[a] = mem[a]
    /\ \A i \in 1 .. Len(s) : \E n \in Hits(wanted, k) : b.mem[s[i]].data = mem[n].data
    /\ Len(s) = Cardinality(Hits(wanted, k))

\* One more node is visited by the callback.
LEMMA FoundOneStep ==
    ASSUME NEW T, NEW B, TreeRep(mem, root, T, B), T \subseteq used, used \in SUBSET Addr,
           \A x, y \in T : mem[x].data = mem[y].data => x = y,
           NEW wanted, wanted \subseteq Device, RoomFor(wanted),
           NEW k \in 1 .. Len(Nodes), NEW b, NEW s, FoundAt(wanted, k - 1, b, s)
    PROVE  \E t : FoundAt(wanted, k, FoundStep(wanted, k, b), t)
<1> DEFINE v == Nodes
           n == v[k]
           d == mem[n].data
           H == Hits(wanted, k - 1)
           G == Hits(wanted, k)
           b1 == FoundStep(wanted, k, b)
<1>1. v \in Seq(T) /\ IsInjective(v) /\ Range(v) = T /\ DOMAIN v = 1 .. Len(v) /\ Len(v) \in Nat
  BY VisitTree DEF Nodes
<1>2. /\ n \in T /\ k \in Nat \ {0} /\ k - 1 \in Nat /\ k - 1 <= Len(v) /\ k <= Len(v)
      /\ \A i \in 1 .. Len(v) : v[i] \in T /\ (v[i] = n => i = k)
  BY <1>1 DEF IsInjective
<1>3. \A i : i \in 1 .. k <=> i \in 1 .. k - 1 \/ i = k
  BY <1>2
<1>4. n \notin H /\ H \subseteq T
  <2>1. \A i \in 1 .. k - 1 : i \in 1 .. Len(v) /\ i # k
    BY <1>2
  <2> QED BY <1>2, <2>1 DEF Hits
<1>5. G = IF d \in wanted THEN H \cup {n} ELSE H
  BY <1>3 DEF Hits
<1>6. /\ ListRep(b.mem, b.list, s) /\ Range(s) \cap used = {} /\ b.used = used \cup Range(s)
      /\ \A a \in used : b.mem[a] = mem[a]
      /\ \A i \in 1 .. Len(s) : \E x \in H : b.mem[s[i]].data = mem[x].data
      /\ Len(s) = Cardinality(H)
  BY DEF FoundAt
<1>7. b1 = IF d \notin wanted THEN b
           ELSE LET cell == Min(Addr \ b.used)
                    r == linked_list_append([b.mem EXCEPT ![cell] = linked_list_node_init(d)], b.list, cell)
                IN [mem |-> r.mem, used |-> b.used \cup {cell}, list |-> r.list]
  BY DEF FoundStep
<1> HIDE DEF v, n, H, G, b1
<1>8. CASE d \notin wanted
  <2>1. b1 = b /\ G = H
    BY <1>5, <1>7, <1>8
  <2>2. FoundAt(wanted, k, b1, s)
    BY <1>6, <2>1 DEF FoundAt, G, H
  <2> QED BY <2>2 DEF b1
<1>9. CASE d \in wanted
  <2>1. G = H \cup {n} /\ d \in Device
    BY <1>5, <1>9
  <2>2. s \in Seq(Addr) /\ IsInjective(s) /\ Len(s) \in Nat /\ DOMAIN s = 1 .. Len(s)
    BY <1>6 DEF ListRep
  <2>3. IsFiniteSet(H) /\ Cardinality(G) = Cardinality(H) + 1 /\ Cardinality(H) \in Nat /\ IsFiniteSet(G)
    <3>1. H \subseteq Addr
      BY <1>4
    <3>2. IsFiniteSet(H)
      BY <3>1, CellsFinite
    <3> QED BY <1>4, <2>1, <3>2, FS_AddElement, FS_CardinalityType
  <2> DEFINE All == {x \in Range(v) : mem[x].data \in wanted}
             free == Addr \ used
  <2>4. Cardinality(G) <= Cardinality(All)
    <3>1. G \subseteq All
      <4>1. \A i \in 1 .. k : v[i] \in Range(v)
        BY <1>1, <1>2 DEF Range
      <4> QED BY <4>1 DEF G, Hits, v
    <3>2. All \subseteq Addr
      BY <1>1
    <3>3. IsFiniteSet(All)
      BY <3>2, CellsFinite
    <3> QED BY <3>1, <3>3, FS_Subset
  <2>5. Cardinality(free) >= Cardinality(All)
    BY DEF RoomFor, v
  <2>6. Addr \ b.used # {}
    <3> SUFFICES ASSUME Addr \ b.used = {} PROVE FALSE
      OBVIOUS
    <3>1. free \subseteq Range(s)
      BY <1>6
    <3>2. IsFiniteSet(Range(s)) /\ Cardinality(Range(s)) = Len(s)
      BY <2>2, LengthIsCardinality
    <3>3. Cardinality(free) <= Len(s)
      BY <3>1, <3>2, FS_Subset
    <3>4. Cardinality(free) \in Nat /\ Cardinality(All) \in Nat
      <4>1. free \subseteq Addr /\ All \subseteq Addr
        BY <1>1
      <4> QED BY <4>1, CellsFinite
    <3> HIDE DEF free, All
    <3> QED BY <1>6, <2>3, <2>4, <2>5, <3>3, <3>4
  <2> HIDE DEF free, All
  <2> DEFINE c == Min(Addr \ b.used)
             r == linked_list_append([b.mem EXCEPT ![c] = linked_list_node_init(d)], b.list, c)
  <2>7. c \in Addr \ b.used
    BY <2>6, NoNull, MinOfSet
  <2>8. b1 = [mem |-> r.mem, used |-> b.used \cup {c}, list |-> r.list]
    BY <1>7, <1>9
  <2>9. [mem |-> r.mem, list |-> r.list] = r
    BY DEF linked_list_append
  <2> HIDE DEF c
  <2>10. c \in Addr \ Range(s)
    BY <1>6, <2>7
  <2>11. ASSUME NEW i \in 1 .. Len(s) PROVE b.mem[s[i]].data # d
    <3>1. PICK x \in H : b.mem[s[i]].data = mem[x].data
      BY <1>6
    <3> QED BY <1>2, <1>4, <3>1
  <2> DEFINE m1 == r.mem
             l1 == r.list
  <2>12. [mem |-> m1, list |-> l1] = linked_list_append([b.mem EXCEPT ![c] = linked_list_node_init(d)], b.list, c)
    BY <2>9
  <2> HIDE DEF m1, l1, d
  <2>13. /\ ListRep(m1, l1, Append(s, c))
         /\ Range(Append(s, c)) = Range(s) \cup {c}
         /\ \A a \in Addr \ (Range(s) \cup {c}) : m1[a] = b.mem[a]
         /\ \A i \in 1 .. Len(s) : m1[s[i]].data = b.mem[s[i]].data
         /\ m1[c].data = d
    <3> DEFINE m0 == b.mem
               l0 == b.list
    <3>1. ListRep(m0, l0, s) /\ \A i \in 1 .. Len(s) : m0[s[i]].data # d
      BY <1>6, <2>11
    <3>2. [mem |-> m1, list |-> l1] = linked_list_append([m0 EXCEPT ![c] = linked_list_node_init(d)], l0, c)
      BY <2>12
    <3>3. d \in Device
      BY <2>1
    <3> HIDE DEF m0, l0
    <3>4. Appended(m0, s, c, d, m1, l1)
      BY <2>10, <3>1, <3>2, <3>3, AppendToList
    <3> QED BY <3>4 DEF m0, Appended
  <2> DEFINE t == Append(s, c)
  <2>14. Len(t) = Len(s) + 1 /\ t[Len(s) + 1] = c /\ \A i \in 1 .. Len(s) : t[i] = s[i]
    BY <2>2, <2>10
  <2> HIDE DEF t
  <2>15. b1.mem = m1 /\ b1.list = l1 /\ b1.used = b.used \cup {c}
    BY <2>8 DEF m1, l1
  <2>16. Range(t) \cap used = {} /\ b1.used = used \cup Range(t)
    BY <1>6, <2>7, <2>13, <2>15 DEF t
  <2>17. ASSUME NEW a \in used PROVE m1[a] = mem[a]
    <3>1. a \in Addr \ (Range(s) \cup {c})
      BY <1>6, <2>7
    <3> QED BY <1>6, <2>13, <3>1
  <2>18. ASSUME NEW i \in 1 .. Len(t) PROVE \E x \in G : m1[t[i]].data = mem[x].data
    <3>1. CASE i = Len(s) + 1
      <4>1. m1[t[i]].data = mem[n].data
        BY <2>13, <2>14, <3>1 DEF d
      <4> QED BY <2>1, <4>1
    <3>2. CASE i # Len(s) + 1
      <4>1. i \in 1 .. Len(s)
        BY <2>2, <2>14, <3>2
      <4>2. m1[t[i]].data = b.mem[s[i]].data
        BY <2>13, <2>14, <4>1
      <4>3. PICK x \in H : b.mem[s[i]].data = mem[x].data
        BY <1>6, <4>1
      <4> QED BY <2>1, <4>2, <4>3
    <3> QED BY <3>1, <3>2
  <2>19. Len(t) = Cardinality(G)
    BY <1>6, <2>3, <2>14
  <2>20. FoundAt(wanted, k, b1, t)
    BY <2>13, <2>15, <2>16, <2>17, <2>18, <2>19 DEF FoundAt, G, t
  <2> QED BY <2>20 DEF b1
<1> QED BY <1>8, <1>9

(***************************************************************************)
(* The list that is handed out is in new cells, and nothing else has       *)
(* changed (device_find_all_by_type, device_find_all_by_bustype).          *)
(***************************************************************************)
LEMMA FoundListIs ==
    ASSUME NEW T, NEW B, TreeRep(mem, root, T, B), T \subseteq used, used \in SUBSET Addr,
           \A x, y \in T : mem[x].data = mem[y].data => x = y,
           NEW wanted, wanted \subseteq Device, RoomFor(wanted)
    PROVE  \E s : /\ ListRep(FoundList(wanted).mem, FoundList(wanted).list, s)
                  /\ Range(s) \cap used = {} /\ FoundList(wanted).used = used \cup Range(s)
                  /\ \A a \in used : FoundList(wanted).mem[a] = mem[a]
<1> DEFINE N == Len(Nodes)
           f == CHOOSE f : Founds(wanted, N, f)
<1>1. N \in Nat
  BY VisitTree DEF Nodes
<1>2. FoundList(wanted) = f[N]
  BY Zenon DEF FoundList, Founds, FoundStep
<1>3. Founds(wanted, N, f)
  <2> HIDE DEF N
  <2> QED BY <1>1, FoundsExist
<1> HIDE DEF f, N
<1> DEFINE a == [mem |-> mem, used |-> used, list |-> linked_list_init]
<1>4. \A k \in 0 .. N : f[k] = IF k = 0 THEN a ELSE FoundStep(wanted, k, f[k - 1])
  BY <1>3 DEF Founds
<1> DEFINE Good == {k \in Nat : \E s : FoundAt(wanted, k, f[k], s)}
<1>5. 0 \in Good
  <2>1. f[0] = a
    BY <1>1, <1>4
  <2>2. Hits(wanted, 0) = {}
    BY DEF Hits
  <2>3. ListRep(mem, linked_list_init, <<>>)
    BY DEF TreeRep, ListRep, linked_list_init, At, IsInjective
  <2>4. Range(<<>>) = {} /\ Len(<<>>) = 0
    BY DEF Range
  <2>5. Cardinality({}) = 0
    BY FS_EmptySet
  <2>6. f[0].mem = mem /\ f[0].used = used /\ f[0].list = linked_list_init
    BY <2>1
  <2>7. FoundAt(wanted, 0, f[0], <<>>)
    <3>1. ListRep(f[0].mem, f[0].list, <<>>)
      BY <2>3, <2>6
    <3>2. Range(<<>>) \cap used = {} /\ f[0].used = used \cup Range(<<>>) /\ \A x \in used : f[0].mem[x] = mem[x]
      BY <2>4, <2>6
    <3>3. Len(<<>>) = Cardinality(Hits(wanted, 0)) /\ \A i \in 1 .. Len(<<>>) : FALSE
      <4>1. \A i \in 1 .. 0 : FALSE
        OBVIOUS
      <4>2. Cardinality(Hits(wanted, 0)) = 0
        BY <2>2, <2>5, Zenon
      <4> QED BY <2>4, <4>1, <4>2, Zenon
    <3> QED BY <3>1, <3>2, <3>3 DEF FoundAt
  <2> QED BY <2>7
<1>6. ASSUME NEW k \in 1 .. N, k - 1 \in Good PROVE k \in Good
  <2>1. PICK s : FoundAt(wanted, k - 1, f[k - 1], s)
    BY <1>6
  <2>2. f[k] = FoundStep(wanted, k, f[k - 1]) /\ k \in 1 .. Len(Nodes) /\ k \in Nat
    BY <1>1, <1>4 DEF N
  <2>3. \E t : FoundAt(wanted, k, f[k], t)
    BY <2>1, <2>2, FoundOneStep
  <2> QED BY <2>2, <2>3
<1> HIDE DEF Good
<1>7. \A k \in 1 .. N : k - 1 \in Good => k \in Good
  BY <1>6
<1>8. N \in Good
  BY <1>1, <1>5, <1>7, UpTo
<1>9. PICK s : FoundAt(wanted, N, f[N], s)
  BY <1>8 DEF Good
<1> QED BY <1>2, <1>9 DEF FoundAt

-----------------------------------------------------------------------------
(* The registry *)

\* Every node holds another device.
Distinct(m, T) == \A x, y \in T : m[x].data = m[y].data => x = y

(***************************************************************************)
(* The registry at any time after device_init: the nodes T are a tree,     *)
(* the nodes s the list that is handed out, if there is one, and every     *)
(* allocated cell is one of these or an orphan, and only one of them.      *)
(***************************************************************************)
Shape(m, u, r, l, o, T, B, s) ==
    /\ TreeRep(m, r, T, B) /\ Distinct(m, T) /\ m[r].data = Computer
    /\ IF l = NoList THEN s = <<>> ELSE ListRep(m, l, s)
    /\ u \in SUBSET Addr /\ u = T \cup o \cup Range(s)
    /\ T \cap o = {} /\ T \cap Range(s) = {} /\ o \cap Range(s) = {}

Shaped(m, u, r, l, o) == \E T, B, s : Shape(m, u, r, l, o, T, B, s)

\* What each device is below, on the pointers.
Under(m, r) ==
    [d \in {m[n].data : n \in Range(Visit(m, r))} \ {Computer} |->
        m[m[generic_tree_find(m, r, {d})].parent].data]

IsUnder(m, r, T, U) ==
    /\ U = [d \in DOMAIN U |-> U[d]] /\ DOMAIN U = {m[x].data : x \in T \ {r}}
    /\ \A x \in T \ {r} : U[m[x].data] = m[m[x].parent].data
    /\ DOMAIN U \subseteq Device /\ Computer \notin DOMAIN U
    /\ \A x \in T : m[x].data \in DOMAIN U \/ (m[x].data = Computer /\ x = r)

\* The nodes of the tree say which device is below which.
LEMMA UnderOf ==
    ASSUME NEW m, NEW r, NEW T, NEW B, TreeRep(m, r, T, B), Distinct(m, T), m[r].data = Computer
    PROVE  IsUnder(m, r, T, Under(m, r))
<1> DEFINE all == {m[n].data : n \in Range(Visit(m, r))}
           U == Under(m, r)
<1>1. Range(Visit(m, r)) = T /\ r \in T
  BY VisitTree DEF TreeRep
<1>2. all = {m[n].data : n \in T}
  BY <1>1
<1>3. ASSUME NEW x \in T \ {r} PROVE m[x].data # Computer
  BY <1>1, <1>3 DEF Distinct
<1>4. all \ {Computer} = {m[x].data : x \in T \ {r}}
  BY <1>1, <1>2, <1>3
<1>5. DOMAIN U = all \ {Computer} /\ U = [d \in DOMAIN U |-> U[d]]
  BY DEF Under
<1>6. ASSUME NEW x \in T \ {r} PROVE U[m[x].data] = m[m[x].parent].data
  <2> DEFINE d == m[x].data
             n == generic_tree_find(m, r, {d})
  <2>1. n \in T /\ m[n].data \in {d}
    <3>1. \E y \in T : m[y].data \in {d}
      OBVIOUS
    <3> HIDE DEF d
    <3> QED BY <3>1, FindInTree
  <2>2. n = x
    BY <2>1 DEF Distinct
  <2>3. d \in all \ {Computer}
    BY <1>4
  <2>4. U[d] = m[m[n].parent].data
    BY <2>3 DEF Under
  <2> QED BY <2>2, <2>4
<1>7. \A x \in T \ {r} : m[x].data \in Device
  BY <1>3 DEF TreeRep, TreeNode
<1> HIDE DEF U, all
<1>8. DOMAIN U = {m[x].data : x \in T \ {r}}
  BY <1>4, <1>5
<1>9. DOMAIN U \subseteq Device /\ Computer \notin DOMAIN U
  BY <1>3, <1>7, <1>8
<1>10. \A x \in T : m[x].data \in DOMAIN U \/ (m[x].data = Computer /\ x = r)
  BY <1>8
<1>11. IsUnder(m, r, T, U)
  BY <1>5, <1>6, <1>8, <1>9, <1>10 DEF IsUnder
<1> QED BY <1>11 DEF U

\* A search for one device finds it, or there is none.
LEMMA FindDevice ==
    ASSUME NEW m, NEW r, NEW T, NEW B, TreeRep(m, r, T, B), Distinct(m, T), m[r].data = Computer, NEW d
    PROVE  IF d \in DOMAIN Under(m, r) \cup {Computer}
           THEN generic_tree_find(m, r, {d}) \in T /\ m[generic_tree_find(m, r, {d})].data = d
           ELSE generic_tree_find(m, r, {d}) = NULL
<1> DEFINE n == generic_tree_find(m, r, {d})
           U == Under(m, r)
<1>1. IF \E x \in T : m[x].data \in {d} THEN n \in T /\ m[n].data \in {d} ELSE n = NULL
  BY FindInTree
<1>2. IsUnder(m, r, T, U) /\ r \in T
  BY UnderOf DEF TreeRep
<1> HIDE DEF n, U
<1>3. (\E x \in T : m[x].data \in {d}) <=> d \in DOMAIN U \cup {Computer}
  BY <1>2 DEF IsUnder
<1> QED BY <1>1, <1>3 DEF n, U

\* The node to insert below: the root, or the one that was found for q.
Parent(m, r, q, p) == (p = r /\ q = Computer) \/ (p # NULL /\ p = generic_tree_find(m, r, {q}))

(***************************************************************************)
(* A device that is not registered comes below another one (InsertBelow).  *)
(***************************************************************************)
LEMMA ShapedInsert ==
    ASSUME NEW m, NEW u, NEW r, NEW l, NEW o, Shaped(m, u, r, l, o),
           NEW d \in Device, d \notin DOMAIN Under(m, r), NEW q, NEW p, Parent(m, r, q, p),
           NEW c \in Addr \ u,
           NEW m1, m1 = generic_tree_insert([m EXCEPT ![c] = generic_tree_node_init(d)], p, c)
    PROVE  /\ Shaped(m1, u \cup {c}, r, l, o)
           /\ q \in DOMAIN Under(m, r) \cup {Computer}
           /\ Under(m1, r) = [e \in DOMAIN Under(m, r) \cup {d} |-> IF e = d THEN q ELSE Under(m, r)[e]]
<1>1. PICK T, B, s : Shape(m, u, r, l, o, T, B, s)
  BY DEF Shaped
<1>2. /\ TreeRep(m, r, T, B) /\ Distinct(m, T) /\ m[r].data = Computer
      /\ u \in SUBSET Addr /\ u = T \cup o \cup Range(s)
      /\ T \cap o = {} /\ T \cap Range(s) = {} /\ o \cap Range(s) = {} /\ r \in T
      /\ IF l = NoList THEN s = <<>> ELSE ListRep(m, l, s)
  BY <1>1 DEF Shape, TreeRep
<1> DEFINE U == Under(m, r)
<1>3. IsUnder(m, r, T, U)
  BY <1>2, UnderOf
<1>4. p \in T /\ m[p].data = q /\ q \in DOMAIN U \cup {Computer}
  <2>1. CASE p = r /\ q = Computer
    BY <1>2, <2>1
  <2>2. CASE p # NULL /\ p = generic_tree_find(m, r, {q})
    BY <1>2, <2>2, FindDevice
  <2> QED BY <2>1, <2>2 DEF Parent
<1> HIDE DEF U
<1>5. c \in Addr \ T /\ d \in Device \cup {Computer} /\ d # Computer
  BY <1>2, DevicesAssumption
<1>6. /\ \E B1 : TreeRep(m1, r, T \cup {c}, B1)
      /\ DOMAIN m1 = Addr
      /\ \A n \in T : m1[n].parent = m[n].parent /\ m1[n].data = m[n].data
      /\ m1[c].parent = p /\ m1[c].data = d
      /\ \A a \in Addr \ (T \cup {c}) : m1[a] = m[a]
  <2>1. Inserted(m, r, T, c, p, d, m1)
    BY <1>2, <1>4, <1>5, InsertTree
  <2> QED BY <2>1 DEF Inserted
<1>7. PICK B1 : TreeRep(m1, r, T \cup {c}, B1)
  BY <1>6
<1> DEFINE T1 == T \cup {c}
<1>8. \A x \in T : m[x].data # d
  <2>1. d \notin DOMAIN U
    BY DEF U
  <2> QED BY <1>3, <1>5, <2>1 DEF IsUnder
<1>9. Distinct(m1, T1) /\ m1[r].data = Computer /\ c # r
  <2>1. m1[r].data = Computer /\ c # r
    BY <1>2, <1>5, <1>6
  <2>2. ASSUME NEW x \in T1, NEW y \in T1, m1[x].data = m1[y].data PROVE x = y
    <3>1. CASE x = c \/ y = c
      BY ZenonT(60), <1>6, <1>8, <2>2, <3>1
    <3>2. CASE x # c /\ y # c
      <4>1. x \in T /\ y \in T /\ m[x].data = m[y].data
        BY <1>6, <2>2, <3>2
      <4> QED BY <1>2, <4>1 DEF Distinct
    <3> QED BY <3>1, <3>2
  <2> QED BY <2>1, <2>2 DEF Distinct
<1>10. IF l = NoList THEN s = <<>> ELSE ListRep(m1, l, s)
  <2>1. \A a \in Range(s) : a \in Addr \ (T \cup {c})
    BY <1>2
  <2>2. \A a \in Range(s) : m1[a] = m[a]
    BY <1>6, <2>1
  <2> QED BY <1>2, <1>6, <2>2, ListFrame
<1>11. /\ u \cup {c} \in SUBSET Addr /\ u \cup {c} = T1 \cup o \cup Range(s)
       /\ T1 \cap o = {} /\ T1 \cap Range(s) = {}
  BY <1>2
<1>12. Shape(m1, u \cup {c}, r, l, o, T1, B1, s)
  BY <1>2, <1>7, <1>9, <1>10, <1>11 DEF Shape
<1> DEFINE V == Under(m1, r)
<1>13. IsUnder(m1, r, T1, V)
  BY <1>7, <1>9, UnderOf
<1> HIDE DEF V
<1>14. DOMAIN V = DOMAIN U \cup {d}
  <2>1. T1 \ {r} = (T \ {r}) \cup {c}
    BY <1>9
  <2>2. DOMAIN V = {m1[x].data : x \in (T \ {r}) \cup {c}} /\ DOMAIN U = {m[x].data : x \in T \ {r}}
    BY <1>3, <1>13, <2>1 DEF IsUnder
  <2>3. {m1[x].data : x \in (T \ {r}) \cup {c}} = {m1[x].data : x \in T \ {r}} \cup {m1[c].data}
    OBVIOUS
  <2>4. {m1[x].data : x \in T \ {r}} = {m[x].data : x \in T \ {r}}
    BY ZenonT(60), <1>6
  <2> QED BY <1>6, <2>2, <2>3, <2>4
<1>15. ASSUME NEW e \in DOMAIN V PROVE V[e] = IF e = d THEN q ELSE U[e]
  <2>1. PICK x \in T1 \ {r} : m1[x].data = e
    BY <1>13 DEF IsUnder
  <2>2. V[e] = m1[m1[x].parent].data
    BY <1>13, <2>1 DEF IsUnder
  <2>3. CASE x = c
    BY <1>4, <1>6, <2>1, <2>2, <2>3
  <2>4. CASE x # c
    <3>1. x \in T \ {r} /\ m[x].data = e /\ m1[x].parent = m[x].parent /\ m[x].parent \in T
      BY <1>2, <1>6, <2>1, <2>4 DEF TreeRep
    <3>2. U[e] = m[m[x].parent].data /\ e # d
      BY <1>3, <1>8, <3>1 DEF IsUnder
    <3> QED BY <1>6, <2>2, <3>1, <3>2
  <2> QED BY <2>3, <2>4
<1>16. V = [e \in DOMAIN U \cup {d} |-> IF e = d THEN q ELSE U[e]]
  <2>1. V = [e \in DOMAIN V |-> V[e]]
    BY <1>13 DEF IsUnder
  <2> QED BY <1>14, <1>15, <2>1
<1> QED BY <1>4, <1>12, <1>16 DEF Shaped, U, V

(***************************************************************************)
(* A device is taken out with all that is below it: what is below it       *)
(* becomes orphans (device_unregister).                                    *)
(***************************************************************************)
Unregistered(m, u, r, l, o, d, n, m1) ==
    LET U == Under(m, r)
        V == Under(m1, r)
        gone == DOMAIN U \ DOMAIN V
    IN /\ Shaped(m1, u \ {n}, r, l, o \cup (Range(Visit(m, n)) \ {n}))
       /\ d \in gone /\ DOMAIN V \subseteq DOMAIN U
       /\ \A e \in DOMAIN U : e \in gone <=> e = d \/ U[e] \in gone
       /\ V = [e \in DOMAIN U \ gone |-> U[e]]

\* generic_tree_remove leaves the registry in shape, without the node and all below it.
LEMMA ShapedRemove ==
    ASSUME NEW m, NEW u, NEW r, NEW l, NEW o, Shaped(m, u, r, l, o),
           NEW d \in Device, NEW n, n = generic_tree_find(m, r, {d}), n # NULL,
           NEW m1, m1 = generic_tree_remove(m, n)
    PROVE  Unregistered(m, u, r, l, o, d, n, m1)
<1>1. PICK T, B, s : Shape(m, u, r, l, o, T, B, s)
  BY DEF Shaped
<1>2. /\ TreeRep(m, r, T, B) /\ Distinct(m, T) /\ m[r].data = Computer
      /\ u \in SUBSET Addr /\ u = T \cup o \cup Range(s)
      /\ T \cap o = {} /\ T \cap Range(s) = {} /\ o \cap Range(s) = {} /\ r \in T
      /\ IF l = NoList THEN s = <<>> ELSE ListRep(m, l, s)
  BY <1>1 DEF Shape, TreeRep
<1> DEFINE U == Under(m, r)
           V == Under(m1, r)
           S == Sub(m, B, n)
           T1 == T \ S
           o1 == o \cup (Range(Visit(m, n)) \ {n})
           gone == DOMAIN U \ DOMAIN V
<1>3. IsUnder(m, r, T, U)
  BY <1>2, UnderOf
<1>4. n \in T \ {r} /\ m[n].data = d /\ d # Computer
  <2>1. d # Computer
    BY DevicesAssumption
  <2>2. n \in T /\ m[n].data = d
    BY <1>2, FindDevice
  <2> QED BY <1>2, <2>1, <2>2
<1>5. Removed(m, r, T, B, n, m1)
  BY <1>2, <1>4, RemoveTree
<1>6. /\ DOMAIN m1 = Addr
      /\ \A x \in T \ {n} : m1[x].parent = m[x].parent /\ m1[x].data = m[x].data
      /\ \A a \in Addr \ T : m1[a] = m[a]
  BY <1>5 DEF Removed
<1>7. PICK B1 : TreeRep(m1, r, T1, B1)
  BY <1>5 DEF Removed
<1>8. /\ S \in SUBSET T /\ n \in S
      /\ \A x \in T \ {r} : x \in S <=> x = n \/ m[x].parent \in S
  <2>1. n \in T /\ TreeRep(m, r, T, B)
    BY <1>2, <1>4
  <2>2. S \in SUBSET T /\ n \in S
    BY <2>1, SubFacts
  <2>3. \A x \in T \ {r} : x \in S <=> x = n \/ m[x].parent \in S
    BY <2>1, SubFacts
  <2> QED BY <2>2, <2>3
<1>9. Range(Visit(m, n)) = S
  BY <1>2, <1>4, VisitSub
<1> HIDE DEF S, T1, U, V
<1>10. r \in T1 /\ T1 \in SUBSET (T \ {n}) /\ r \in T \ {n}
  <2>1. r \in T1
    BY <1>7 DEF TreeRep
  <2> QED BY <1>4, <1>8, <2>1 DEF T1
<1>11. Distinct(m1, T1) /\ m1[r].data = Computer
  <2>1. m1[r].data = Computer
    BY <1>2, <1>6, <1>10
  <2>2. ASSUME NEW x \in T1, NEW y \in T1, m1[x].data = m1[y].data PROVE x = y
    <3>1. x \in T /\ y \in T /\ m[x].data = m[y].data
      BY <1>6, <1>10, <2>2
    <3> QED BY <1>2, <3>1 DEF Distinct
  <2> QED BY <2>1, <2>2 DEF Distinct
<1>12. IF l = NoList THEN s = <<>> ELSE ListRep(m1, l, s)
  <2>1. \A a \in Range(s) : a \in Addr \ T
    BY <1>2
  <2>2. \A a \in Range(s) : m1[a] = m[a]
    BY <1>6, <2>1
  <2> QED BY <1>2, <1>6, <2>2, ListFrame
<1>13. /\ u \ {n} \in SUBSET Addr /\ u \ {n} = T1 \cup o1 \cup Range(s)
       /\ T1 \cap o1 = {} /\ T1 \cap Range(s) = {} /\ o1 \cap Range(s) = {}
  BY <1>2, <1>4, <1>8, <1>9 DEF T1
<1>14. Shaped(m1, u \ {n}, r, l, o1)
  <2> HIDE DEF o1
  <2>1. Shape(m1, u \ {n}, r, l, o1, T1, B1, s)
    BY <1>7, <1>11, <1>12, <1>13 DEF Shape
  <2> QED BY <2>1 DEF Shaped
<1>15. IsUnder(m1, r, T1, V)
  BY <1>7, <1>11, UnderOf DEF V
<1>16. ASSUME NEW x \in T \ {r} PROVE m[x].data \in DOMAIN U /\ (m[x].data \in DOMAIN V <=> x \notin S)
  <2>1. m[x].data \in DOMAIN U
    BY <1>3 DEF IsUnder
  <2>2. ASSUME x \notin S PROVE m[x].data \in DOMAIN V
    <3>1. x \in T1 \ {r} /\ m1[x].data = m[x].data
      BY <1>6, <1>8, <2>2 DEF T1
    <3> QED BY <1>15, <3>1 DEF IsUnder
  <2>3. ASSUME m[x].data \in DOMAIN V PROVE x \notin S
    <3>1. PICK y \in T1 \ {r} : m1[y].data = m[x].data
      <4>1. DOMAIN V = {m1[y].data : y \in T1 \ {r}}
        BY <1>15 DEF IsUnder
      <4> QED BY <2>3, <4>1
    <3>2. y \in T /\ m[y].data = m[x].data /\ y \notin S
      BY <1>6, <1>10, <3>1 DEF T1
    <3>3. y = x
      BY <1>2, <3>2 DEF Distinct
    <3> QED BY <3>2, <3>3
  <2> QED BY <2>1, <2>2, <2>3
<1>17. DOMAIN V \subseteq DOMAIN U
  <2>1. ASSUME NEW e \in DOMAIN V PROVE e \in DOMAIN U
    <3>1. PICK y \in T1 \ {r} : m1[y].data = e
      BY <1>15 DEF IsUnder
    <3>2. y \in T \ {r} /\ m[y].data = e
      BY <1>6, <1>10, <3>1
    <3> QED BY <1>16, <3>2
  <2> QED BY <2>1
<1>18. d \in gone
  BY <1>4, <1>8, <1>16
<1>19. ASSUME NEW e \in DOMAIN U PROVE e \in gone <=> e = d \/ U[e] \in gone
  <2>1. PICK x \in T \ {r} : m[x].data = e
    BY <1>3 DEF IsUnder
  <2>2. e \in gone <=> x \in S
    BY <1>16, <2>1
  <2>3. e = d <=> x = n
    BY <1>2, <1>4, <2>1 DEF Distinct
  <2> DEFINE p == m[x].parent
  <2>4. U[e] = m[p].data /\ p \in T
    <3>1. p \in T
      BY <1>2, <2>1 DEF TreeRep
    <3> QED BY <1>3, <2>1, <3>1 DEF IsUnder
  <2>5. U[e] \in gone <=> p \in S
    <3>1. CASE p = r
      BY <1>2, <1>3, <1>10, <2>4, <3>1 DEF IsUnder, T1
    <3>2. CASE p # r
      BY <1>16, <2>4, <3>2
    <3> QED BY <3>1, <3>2
  <2>6. x \in S <=> x = n \/ p \in S
    BY <1>8, <2>1
  <2> QED BY <2>2, <2>3, <2>5, <2>6
<1>20. V = [e \in DOMAIN U \ gone |-> U[e]]
  <2>1. DOMAIN U \ gone = DOMAIN V
    BY <1>17
  <2>2. ASSUME NEW e \in DOMAIN V PROVE V[e] = U[e]
    <3>1. PICK y \in T1 \ {r} : m1[y].data = e
      BY <1>15 DEF IsUnder
    <3>2. y \in T \ {r} /\ m[y].data = e /\ m1[y].parent = m[y].parent
      BY <1>6, <1>10, <3>1
    <3>3. m1[y].parent \in T1
      BY <1>7, <3>1 DEF TreeRep
    <3>4. m1[m1[y].parent].data = m[m[y].parent].data
      BY <1>6, <1>10, <3>2, <3>3
    <3>5. V[e] = m1[m1[y].parent].data
      BY <1>15, <3>1 DEF IsUnder
    <3>6. U[e] = m[m[y].parent].data
      BY <1>3, <3>2 DEF IsUnder
    <3> QED BY <3>4, <3>5, <3>6
  <2>3. V = [e \in DOMAIN V |-> V[e]]
    BY <1>15 DEF IsUnder
  <2> HIDE DEF gone
  <2> QED BY <2>1, <2>2, <2>3
<1> QED BY <1>14, <1>17, <1>18, <1>19, <1>20 DEF Unregistered, U, V

\* The list is another one, the tree is as it was.
Relisted(m, T, o, m1, u1, l1, s1) ==
    /\ DOMAIN m1 = Addr /\ \A a \in T : m1[a] = m[a]
    /\ IF l1 = NoList THEN s1 = <<>> ELSE ListRep(m1, l1, s1)
    /\ u1 \in SUBSET Addr /\ u1 = T \cup o \cup Range(s1)
    /\ T \cap Range(s1) = {} /\ o \cap Range(s1) = {}

\* What the tree says stays.
LEMMA ShapedList ==
    ASSUME NEW m, NEW u, NEW r, NEW l, NEW o, NEW T, NEW B, NEW s, Shape(m, u, r, l, o, T, B, s),
           NEW m1, NEW u1, NEW l1, NEW s1, Relisted(m, T, o, m1, u1, l1, s1)
    PROVE  Shaped(m1, u1, r, l1, o) /\ Under(m1, r) = Under(m, r)
<1> USE DEF Relisted
<1>1. TreeRep(m, r, T, B) /\ Distinct(m, T) /\ m[r].data = Computer /\ T \cap o = {} /\ r \in T
  BY DEF Shape, TreeRep
<1>2. TreeRep(m1, r, T, B)
  BY <1>1, TreeFrame
<1>3. Distinct(m1, T) /\ m1[r].data = Computer
  <2>1. ASSUME NEW x \in T, NEW y \in T, m1[x].data = m1[y].data PROVE x = y
    <3>1. m[x].data = m[y].data
      BY <2>1
    <3> QED BY <1>1, <3>1 DEF Distinct
  <2> QED BY <1>1, <2>1 DEF Distinct
<1>4. Shape(m1, u1, r, l1, o, T, B, s1)
  BY <1>1, <1>2, <1>3 DEF Shape
<1> DEFINE U == Under(m, r)
           V == Under(m1, r)
<1>5. IsUnder(m, r, T, U) /\ IsUnder(m1, r, T, V)
  BY <1>1, <1>2, <1>3, UnderOf
<1> HIDE DEF U, V
<1>6. DOMAIN U = DOMAIN V
  <2>1. {m[x].data : x \in T \ {r}} = {m1[x].data : x \in T \ {r}}
    OBVIOUS
  <2> QED BY <1>5, <2>1 DEF IsUnder
<1>7. ASSUME NEW e \in DOMAIN U PROVE U[e] = V[e]
  <2>1. PICK x \in T \ {r} : m[x].data = e
    BY <1>5 DEF IsUnder
  <2>2. m1[x] = m[x] /\ m[x].parent \in T
    BY <1>1, <2>1 DEF TreeRep
  <2>3. m1[x].data = e /\ m1[m1[x].parent].data = m[m[x].parent].data
    BY <2>1, <2>2
  <2> QED BY <1>5, <2>1, <2>3 DEF IsUnder
<1>8. U = V
  <2>1. U = [e \in DOMAIN U |-> U[e]] /\ V = [e \in DOMAIN V |-> V[e]]
    BY <1>5 DEF IsUnder
  <2> QED BY <1>6, <1>7, <2>1
<1> QED BY <1>4, <1>8 DEF Shaped, U, V

\* A list that is handed out is not NoList.
LEMMA SomeList ==
    ASSUME NEW m, NEW l, NEW s, ListRep(m, l, s)
    PROVE  l # NoList /\ l.head = At(s, 1) /\ l.tail = At(s, Len(s)) /\ l.size = Len(s)
<1>1. At(s, 1) \in Nat
  BY DevicesAssumption DEF ListRep, At, Addr, NULL
<1>2. l.head = At(s, 1) /\ l.tail = At(s, Len(s)) /\ l.size = Len(s)
  BY DEF ListRep
<1> QED BY <1>1, <1>2 DEF NoList

\* The registered devices stay as they are.
KeepsDevices == Shaped(mem', used', root', list', orphans') /\ Under(mem', root') = Under(mem, root)

\* device_find_all_by_type and device_find_all_by_bustype.
LEMMA HandOutKeeps ==
    ASSUME Shaped(mem, used, root, list, orphans), NEW wanted, wanted \subseteq Device, HandOut(wanted)
    PROVE  KeepsDevices
<1>1. PICK T, B, s : Shape(mem, used, root, list, orphans, T, B, s)
  BY DEF Shaped
<1> DEFINE F == FoundList(wanted)
<1>2. list = NoList /\ mem' = F.mem /\ used' = F.used /\ list' = F.list /\ root' = root /\ orphans' = orphans
  BY DEF HandOut
<1>3. /\ TreeRep(mem, root, T, B) /\ Distinct(mem, T) /\ T \subseteq used
      /\ used \in SUBSET Addr /\ used = T \cup orphans /\ RoomFor(wanted)
  <2>1. s = <<>> /\ Range(s) = {}
    BY <1>1, <1>2 DEF Shape, Range
  <2> QED BY <1>1, <2>1 DEF Shape, HandOut
<1>4. PICK t : /\ ListRep(F.mem, F.list, t)
               /\ Range(t) \cap used = {} /\ F.used = used \cup Range(t)
               /\ \A a \in used : F.mem[a] = mem[a]
  BY <1>3, FoundListIs DEF Distinct
<1> HIDE DEF F
<1>5. /\ DOMAIN mem' = Addr /\ \A a \in T : mem'[a] = mem[a]
      /\ ListRep(mem', list', t) /\ t \in Seq(Addr)
  BY <1>2, <1>3, <1>4 DEF ListRep
<1>6. IF list' = NoList THEN t = <<>> ELSE ListRep(mem', list', t)
  BY <1>5, SomeList
<1>7. /\ used' \in SUBSET Addr /\ used' = T \cup orphans \cup Range(t)
      /\ T \cap Range(t) = {} /\ orphans \cap Range(t) = {}
  <2>1. Range(t) \subseteq Addr
    BY <1>5 DEF Range
  <2> QED BY <1>2, <1>3, <1>4, <2>1
<1>8. Shaped(mem', used', root, list', orphans) /\ Under(mem', root) = Under(mem, root)
  <2>1. Relisted(mem, T, orphans, mem', used', list', t)
    BY <1>5, <1>6, <1>7 DEF Relisted
  <2> QED BY <1>1, <2>1, ShapedList
<1> QED BY <1>2, <1>8 DEF KeepsDevices

\* What sata_init looks at is given back before it returns.
LEMMA SataKeeps ==
    ASSUME Shaped(mem, used, root, list, orphans), sata_init
    PROVE  KeepsDevices
<1>1. PICK T, B, s : Shape(mem, used, root, list, orphans, T, B, s)
  BY DEF Shaped
<1> DEFINE wanted == {d \in Device : Bus(d) = "pci"}
           F == FoundList(wanted)
<1>2. /\ mem' = F.mem /\ used' = F.used \ Range(Forward(F.mem, F.list.head))
      /\ list' = list /\ root' = root /\ orphans' = orphans /\ RoomFor(wanted)
  BY DEF sata_init
<1>3. /\ TreeRep(mem, root, T, B) /\ Distinct(mem, T) /\ T \subseteq used
      /\ used \in SUBSET Addr /\ used = T \cup orphans \cup Range(s)
      /\ T \cap Range(s) = {} /\ orphans \cap Range(s) = {}
      /\ IF list = NoList THEN s = <<>> ELSE ListRep(mem, list, s)
  BY <1>1 DEF Shape
<1>4. wanted \subseteq Device
  OBVIOUS
<1> HIDE DEF wanted
<1>5. PICK t : /\ ListRep(F.mem, F.list, t)
               /\ Range(t) \cap used = {} /\ F.used = used \cup Range(t)
               /\ \A a \in used : F.mem[a] = mem[a]
  BY <1>2, <1>3, <1>4, FoundListIs DEF Distinct
<1> HIDE DEF F
<1>6. Forward(F.mem, F.list.head) = t
  BY <1>5, ListForward
<1>7. used' = used
  BY <1>2, <1>5, <1>6
<1>8. DOMAIN mem' = Addr /\ \A a \in used : mem'[a] = mem[a]
  BY <1>2, <1>5 DEF ListRep
<1>9. IF list = NoList THEN s = <<>> ELSE ListRep(mem', list, s)
  <2>1. \A a \in Range(s) : mem'[a] = mem[a]
    BY <1>3, <1>8
  <2> QED BY <1>3, <1>8, <2>1, ListFrame
<1>10. \A a \in T : mem'[a] = mem[a]
  BY <1>3, <1>8
<1>11. Shaped(mem', used, root, list, orphans) /\ Under(mem', root) = Under(mem, root)
  <2>1. Relisted(mem, T, orphans, mem', used, list, s)
    BY <1>3, <1>8, <1>9, <1>10 DEF Relisted
  <2> QED BY <1>1, <2>1, ShapedList
<1> QED BY <1>2, <1>7, <1>11 DEF KeepsDevices

\* A node of the list is taken out and freed.
LEMMA DropKeeps ==
    ASSUME Shaped(mem, used, root, list, orphans),
           NEW node, node \in Range(Forward(mem, list.head)) \/ node = list.head, Drop(node)
    PROVE  KeepsDevices
<1>1. PICK T, B, s : Shape(mem, used, root, list, orphans, T, B, s)
  BY DEF Shaped
<1>2. list # NoList /\ root' = root /\ orphans' = orphans
  BY DEF Drop
<1>3. /\ ListRep(mem, list, s) /\ s \in Seq(Addr) /\ Len(s) \in Nat
      /\ used \in SUBSET Addr /\ used = T \cup orphans \cup Range(s)
      /\ T \cap Range(s) = {} /\ orphans \cap Range(s) = {} /\ DOMAIN mem = Addr /\ T \in SUBSET Addr
      /\ DOMAIN s = 1 .. Len(s)
  BY <1>1, <1>2 DEF Shape, TreeRep, ListRep
<1>4. Forward(mem, list.head) = s /\ list.head = At(s, 1)
  BY <1>3, ListForward, SomeList
<1>5. CASE node = NULL
  <2>1. UNCHANGED <<mem, used, list, root, orphans>>
    BY <1>2, <1>5 DEF Drop
  <2> QED BY <2>1 DEF KeepsDevices
<1>6. CASE node # NULL
  <2>1. PICK i \in 1 .. Len(s) : node = s[i]
    BY <1>3, <1>4, <1>6 DEF At, Range
  <2> DEFINE R == linked_list_remove(mem, list, node)
  <2>2. mem' = R.mem /\ list' = R.list /\ used' = used \ {node}
    BY <1>6 DEF Drop
  <2>3. [mem |-> mem', list |-> list'] = linked_list_remove(mem, list, s[i])
    BY <2>1, <2>2 DEF linked_list_remove
  <2> HIDE DEF R
  <2>4. Dropped(mem, s, i, mem', list')
    BY <1>3, <2>3, RemoveFromList
  <2> DEFINE t == Without(s, i)
  <2>5. /\ ListRep(mem', list', t) /\ Range(t) = Range(s) \ {node}
        /\ \A a \in Addr \ Range(s) : mem'[a] = mem[a]
    BY <2>1, <2>4 DEF Dropped
  <2> HIDE DEF t
  <2>6. DOMAIN mem' = Addr /\ \A a \in T : mem'[a] = mem[a]
    BY <1>3, <2>5 DEF ListRep
  <2>7. IF list' = NoList THEN t = <<>> ELSE ListRep(mem', list', t)
    BY <2>5, SomeList
  <2>8. node \in Range(s)
    BY <1>3, <2>1 DEF Range
  <2>9. /\ used' \in SUBSET Addr /\ used' = T \cup orphans \cup Range(t)
        /\ T \cap Range(t) = {} /\ orphans \cap Range(t) = {}
    BY <1>3, <2>2, <2>5, <2>8
  <2>10. Shaped(mem', used', root, list', orphans) /\ Under(mem', root) = Under(mem, root)
    <3>1. Relisted(mem, T, orphans, mem', used', list', t)
      BY <2>6, <2>7, <2>9 DEF Relisted
    <3> QED BY <1>1, <3>1, ShapedList
  <2> QED BY <1>2, <2>10 DEF KeepsDevices
<1> QED BY <1>5, <1>6

\* The list is sorted (linked_list_sort).
LEMMA SortKeeps ==
    ASSUME Shaped(mem, used, root, list, orphans), Sort
    PROVE  KeepsDevices
<1>1. PICK T, B, s : Shape(mem, used, root, list, orphans, T, B, s)
  BY DEF Shaped
<1> DEFINE behind == {p \in Device \X Device : p[1][3] < p[2][3]}
<1>2. /\ list # NoList /\ root' = root /\ orphans' = orphans /\ used' = used /\ list' = list
      /\ mem' = linked_list_sort(mem, list, behind)
  BY DEF Sort
<1> HIDE DEF behind
<1>3. /\ ListRep(mem, list, s)
      /\ used \in SUBSET Addr /\ used = T \cup orphans \cup Range(s)
      /\ T \cap Range(s) = {} /\ orphans \cap Range(s) = {} /\ T \in SUBSET Addr
  BY <1>1, <1>2 DEF Shape, TreeRep
<1>4. ListRep(mem', list, s) /\ \A a \in Addr \ Range(s) : mem'[a] = mem[a]
  BY <1>2, <1>3, SortOfList
<1>5. DOMAIN mem' = Addr /\ \A a \in T : mem'[a] = mem[a]
  BY <1>3, <1>4 DEF ListRep
<1>6. IF list = NoList THEN s = <<>> ELSE ListRep(mem', list, s)
  BY <1>2, <1>4
<1>7. Shaped(mem', used, root, list, orphans) /\ Under(mem', root) = Under(mem, root)
  <2>1. Relisted(mem, T, orphans, mem', used, list, s)
    BY <1>3, <1>5, <1>6 DEF Relisted
  <2> QED BY <1>1, <2>1, ShapedList
<1> QED BY <1>2, <1>7 DEF KeepsDevices

\* The list is freed (linked_list_destroy).
LEMMA DestroyKeeps ==
    ASSUME Shaped(mem, used, root, list, orphans), linked_list_destroy
    PROVE  KeepsDevices
<1>1. PICK T, B, s : Shape(mem, used, root, list, orphans, T, B, s)
  BY DEF Shaped
<1>2. /\ list # NoList /\ root' = root /\ orphans' = orphans /\ list' = NoList /\ mem' = mem
      /\ used' = used \ Range(Forward(mem, list.head))
  BY DEF linked_list_destroy
<1>3. /\ ListRep(mem, list, s)
      /\ used \in SUBSET Addr /\ used = T \cup orphans \cup Range(s)
      /\ T \cap Range(s) = {} /\ orphans \cap Range(s) = {} /\ DOMAIN mem = Addr
  BY <1>1, <1>2 DEF Shape, TreeRep
<1>4. Forward(mem, list.head) = s
  BY <1>3, ListForward
<1>5. Range(<<>>) = {}
  BY DEF Range
<1> DEFINE e == <<>>
<1>6. /\ used' \in SUBSET Addr /\ used' = T \cup orphans \cup Range(e)
      /\ T \cap Range(e) = {} /\ orphans \cap Range(e) = {}
      /\ IF list' = NoList THEN e = <<>> ELSE ListRep(mem', list', e)
      /\ DOMAIN mem' = Addr /\ \A a \in T : mem'[a] = mem[a]
  BY <1>2, <1>3, <1>4, <1>5
<1> HIDE DEF e
<1>7. Shaped(mem', used', root, list', orphans) /\ Under(mem', root) = Under(mem, root)
  <2>1. Relisted(mem, T, orphans, mem', used', list', e)
    BY <1>6 DEF Relisted
  <2> QED BY <1>1, <2>1, ShapedList
<1> QED BY <1>2, <1>7 DEF KeepsDevices

-----------------------------------------------------------------------------
(* The scan of the buses *)

\* The register of a machine.
Byte(mach, p, f, offset) ==
    LET here == p \in Positions /\ IF mach[p].multi THEN f \in mach[p].funcs ELSE mach[p].funcs # {}
    IN CASE ~here -> 255
         [] here /\ offset = 14 -> IF mach[p].multi THEN 128 ELSE 0
         [] OTHER -> 128 + (16 * (IF mach[p].multi THEN f ELSE 0)) + offset

\* The address of a register goes to that register.
Located(b, s, f, o, a) ==
    /\ (a \div 65536) % 256 = b /\ (a \div 2048) % 32 = s
    /\ (a \div 256) % 8 = f /\ a % 256 = o

\* What pci_config_get_address puts into an address can be read back from it.
LEMMA AddressOf ==
    ASSUME NEW b \in Nat, b < 256, NEW s \in Nat, s < 32, NEW f \in Nat, f < 8, NEW o \in {0, 4, 8, 12}
    PROVE  Located(b, s, f, o, (b * 65536) + (s * 2048) + (f * 256) + o)
<1> DEFINE a == (b * 65536) + (s * 2048) + (f * 256) + o
<1>1. a \in Nat
  OBVIOUS
<1>2. a \div 65536 = b
  OBVIOUS
<1>3. a \div 2048 = (32 * b) + s
  OBVIOUS
<1>4. a \div 256 = (8 * ((32 * b) + s)) + f
  OBVIOUS
<1>5. a % 256 = o
  OBVIOUS
<1> HIDE DEF a
<1>6. (a \div 2048) % 32 = s
  BY <1>3
<1>7. (a \div 256) % 8 = f
  BY <1>4
<1>8. (a \div 65536) % 256 = b
  BY <1>2
<1> QED BY <1>5, <1>6, <1>7, <1>8 DEF Located, a

\* A bus and a slot.
IsPosition(p) == p = <<p[1], p[2]>> /\ p[1] \in Nat /\ p[1] < 256 /\ p[2] \in Nat /\ p[2] < 32

\* Where the scan is.
IsPlace(q) == q = <<q[1], q[2], q[3]>> /\ IsPosition(<<q[1], q[2]>>) /\ q[3] \in Nat /\ q[3] < NumFuncs

\* The places that a scan can be at.
LEMMA Places ==
    /\ NumFuncs \in Nat /\ NumFuncs > 0 /\ NumFuncs <= 8
    /\ \A f : f \in Funcs <=> f \in Nat /\ f < NumFuncs
    /\ \A p \in Positions : IsPosition(p)
    /\ \A q : q \in (0 .. 255) \X (0 .. 31) \X Funcs <=> IsPlace(q)
<1>1. NumFuncs \in Nat /\ NumFuncs > 0 /\ NumFuncs <= 8
  BY PciAssumption
<1>2. \A f : f \in Funcs <=> f \in Nat /\ f < NumFuncs
  BY <1>1 DEF Funcs
<1>3. \A p \in Positions : IsPosition(p)
  BY PciAssumption DEF IsPosition
<1>4. ASSUME NEW q PROVE q \in (0 .. 255) \X (0 .. 31) \X Funcs <=> IsPlace(q)
  <2>1. ASSUME q \in (0 .. 255) \X (0 .. 31) \X Funcs PROVE IsPlace(q)
    <3>1. q = <<q[1], q[2], q[3]>> /\ q[1] \in 0 .. 255 /\ q[2] \in 0 .. 31 /\ q[3] \in Funcs
      BY <2>1
    <3>2. q[1] \in Nat /\ q[1] < 256 /\ q[2] \in Nat /\ q[2] < 32
      BY <3>1
    <3> QED BY <1>2, <3>1, <3>2 DEF IsPlace, IsPosition
  <2>2. ASSUME IsPlace(q) PROVE q \in (0 .. 255) \X (0 .. 31) \X Funcs
    <3>1. q = <<q[1], q[2], q[3]>> /\ q[3] \in Funcs
      BY <1>2, <2>2 DEF IsPlace
    <3>2. q[1] \in 0 .. 255 /\ q[2] \in 0 .. 31
      BY <2>2 DEF IsPlace, IsPosition
    <3> QED BY <3>1, <3>2
  <2> QED BY <2>1, <2>2
<1> QED BY <1>1, <1>2, <1>3, <1>4

\* The four bytes at an offset.
LEMMA PortGives ==
    ASSUME NEW p, IsPosition(p), NEW f \in Nat, f < 8, NEW o \in 0 .. 15
    PROVE  \A i \in 0 .. 3 : DataPort(pci_config_get_address(p[1], p[2], f, o))[i]
                                 = Byte(machine, p, f, o - (o % 4) + i)
<1> DEFINE base == o - (o % 4)
           a == pci_config_get_address(p[1], p[2], f, o)
<1>1. p[1] \in Nat /\ p[1] < 256 /\ p[2] \in Nat /\ p[2] < 32 /\ p = <<p[1], p[2]>>
  BY DEF IsPosition
<1>2. base \in {0, 4, 8, 12}
  OBVIOUS
<1>3. a = (p[1] * 65536) + (p[2] * 2048) + (f * 256) + base
  <2>1. p[2] % 32 = p[2] /\ f % 8 = f
    BY <1>1
  <2> QED BY <2>1 DEF pci_config_get_address
<1> HIDE DEF base, a
<1>4. /\ (a \div 65536) % 256 = p[1] /\ (a \div 2048) % 32 = p[2]
      /\ (a \div 256) % 8 = f /\ a % 256 = base
  <2>1. Located(p[1], p[2], f, base, (p[1] * 65536) + (p[2] * 2048) + (f * 256) + base)
    BY <1>1, <1>2, AddressOf
  <2> QED BY <1>3, <2>1 DEF Located
<1>5. ASSUME NEW i \in 0 .. 3 PROVE DataPort(a)[i] = Register(p, f, base + i)
  BY <1>1, <1>4 DEF DataPort
<1>6. \A x : Register(p, f, x) = Byte(machine, p, f, x)
  BY DEF Register, Byte
<1> QED BY <1>5, <1>6 DEF a, base

\* The fields of the function f at p.
Fields(mach, p, f, i) ==
    /\ i.vendor_id = Byte(mach, p, f, 0) + (256 * Byte(mach, p, f, 1))
    /\ i.device_id = Byte(mach, p, f, 2) + (256 * Byte(mach, p, f, 3))
    /\ i.classcode = Byte(mach, p, f, 11) /\ i.subclass = Byte(mach, p, f, 10)

\* What pci_probe_device reads is what the function has at that place.
LEMMA ProbeReads ==
    ASSUME NEW q, IsPlace(q), NEW p, p = <<q[1], q[2]>>
    PROVE  /\ pci_config_read_word(q, 0) = Byte(machine, p, q[3], 0) + (256 * Byte(machine, p, q[3], 1))
           /\ pci_config_read_word(q, 2) = Byte(machine, p, q[3], 2) + (256 * Byte(machine, p, q[3], 3))
           /\ Fields(machine, p, q[3], pci_probe_device(q))
           /\ pci_probe_device(q).header_type = Byte(machine, p, q[3], 14)
<1> DEFINE f == q[3]
           D(o) == DataPort(pci_config_get_address(p[1], p[2], f, o))
<1>1. IsPosition(p) /\ f \in Nat /\ f < 8 /\ p[1] = q[1] /\ p[2] = q[2]
  BY Places DEF IsPlace
<1> HIDE DEF f
<1>2. \A o \in 0 .. 15 : \A i \in 0 .. 3 : D(o)[i] = Byte(machine, p, f, o - (o % 4) + i)
  BY <1>1, PortGives
<1>3. ASSUME NEW o \in 0 .. 15 PROVE pci_config_read_byte(q, o) = Byte(machine, p, f, o)
  <2>1. pci_config_read_byte(q, o) = D(o)[o % 4]
    BY <1>1 DEF pci_config_read_byte, f
  <2>2. o % 4 \in 0 .. 3 /\ o - (o % 4) + (o % 4) = o
    OBVIOUS
  <2> QED BY <1>2, <2>1, <2>2
<1>4. ASSUME NEW o \in {0, 2}
      PROVE  pci_config_read_word(q, o) = Byte(machine, p, f, o) + (256 * Byte(machine, p, f, o + 1))
  <2>1. pci_config_read_word(q, o) = D(o)[(o % 4) - (o % 2)] + (256 * D(o)[(o % 4) - (o % 2) + 1])
    BY <1>1 DEF pci_config_read_word, f
  <2>2. /\ o \in 0 .. 15 /\ (o % 4) - (o % 2) = o /\ o - (o % 4) = 0 /\ o \in 0 .. 3 /\ o + 1 \in 0 .. 3
        /\ 0 + o = o /\ 0 + (o + 1) = o + 1
    OBVIOUS
  <2>3. D(o)[o] = Byte(machine, p, f, o) /\ D(o)[o + 1] = Byte(machine, p, f, o + 1)
    BY <1>2, <2>2
  <2> QED BY <2>1, <2>2, <2>3
<1>5. /\ pci_config_read_word(q, 0) = Byte(machine, p, f, 0) + (256 * Byte(machine, p, f, 1))
      /\ pci_config_read_word(q, 2) = Byte(machine, p, f, 2) + (256 * Byte(machine, p, f, 3))
  <2>1. 0 + 1 = 1 /\ 2 + 1 = 3
    OBVIOUS
  <2> QED BY <1>4, <2>1
<1> DEFINE i == pci_probe_device(q)
<1>6. /\ i.vendor_id = pci_config_read_word(q, 0) /\ i.device_id = pci_config_read_word(q, 2)
      /\ i.classcode = pci_config_read_byte(q, 11) /\ i.subclass = pci_config_read_byte(q, 10)
      /\ i.header_type = pci_config_read_byte(q, 14)
  BY DEF pci_probe_device
<1>7. i.classcode = Byte(machine, p, f, 11) /\ i.subclass = Byte(machine, p, f, 10) /\ i.header_type = Byte(machine, p, f, 14)
  BY <1>3, <1>6
<1> HIDE DEF i
<1> QED BY <1>5, <1>6, <1>7 DEF Fields, f, i

\* 16 bits.
Word(x) == x \in Nat /\ x < 65536

\* What answers, and how it says that it has several functions.
LEMMA AnswersIf ==
    ASSUME machine \in [Positions -> Contents],
           NEW q, IsPlace(q), NEW p, p = <<q[1], q[2]>>
    PROVE  LET c == machine[p] IN
           /\ Answers(q) <=> p \in Positions /\ IF c.multi THEN q[3] \in c.funcs ELSE c.funcs # {}
           /\ Fields(machine, p, q[3], pci_probe_device(q))
           /\ Answers(q) => (pci_probe_device(q).header_type >= 128 <=> c.multi)
           /\ Answers(q) => Word(pci_config_read_word(q, 0)) /\ Word(pci_config_read_word(q, 2))
<1> DEFINE f == q[3]
           c == machine[p]
           here == p \in Positions /\ IF c.multi THEN f \in c.funcs ELSE c.funcs # {}
<1>1. f \in Nat /\ f < 8
  BY Places DEF IsPlace
<1>2. /\ pci_config_read_word(q, 0) = Byte(machine, p, f, 0) + (256 * Byte(machine, p, f, 1))
      /\ pci_config_read_word(q, 2) = Byte(machine, p, f, 2) + (256 * Byte(machine, p, f, 3))
      /\ Fields(machine, p, f, pci_probe_device(q))
      /\ pci_probe_device(q).header_type = Byte(machine, p, f, 14)
  BY ProbeReads
<1>3. p \in Positions => c.multi \in BOOLEAN
  <2>1. p \in Positions => c \in Contents
    OBVIOUS
  <2> HIDE DEF c
  <2>2. \A x \in Contents : x.multi \in BOOLEAN
    <3>1. \A x \in [multi : {TRUE}, funcs : SUBSET Funcs \ {{}}] : x.multi = TRUE
      OBVIOUS
    <3>2. \A x \in {[multi |-> FALSE, funcs |-> g] : g \in {{}, {0}}} : x.multi = FALSE
      OBVIOUS
    <3> QED BY <3>1, <3>2, Zenon DEF Contents
  <2> QED BY <2>1, <2>2
<1> HIDE DEF f, c
<1> DEFINE g == IF c.multi THEN f ELSE 0
<1>4. g \in Nat /\ g < 8
  BY <1>1
<1>5. here => \A o \in {0, 1, 2, 3} : Byte(machine, p, f, o) = 128 + (16 * g) + o
  BY DEF Byte, c
<1>6. here => Byte(machine, p, f, 14) = IF c.multi THEN 128 ELSE 0
  BY DEF Byte, c
<1>7. ~here => Byte(machine, p, f, 0) = 255 /\ Byte(machine, p, f, 1) = 255
  BY DEF Byte, c
<1> HIDE DEF g, here
<1>8. here => Word(pci_config_read_word(q, 0)) /\ Word(pci_config_read_word(q, 2)) /\ Answers(q)
  <2> SUFFICES ASSUME here PROVE Word(pci_config_read_word(q, 0)) /\ Word(pci_config_read_word(q, 2)) /\ Answers(q)
    OBVIOUS
  <2>1. /\ Byte(machine, p, f, 0) = 128 + (16 * g) + 0 /\ Byte(machine, p, f, 1) = 128 + (16 * g) + 1
        /\ Byte(machine, p, f, 2) = 128 + (16 * g) + 2 /\ Byte(machine, p, f, 3) = 128 + (16 * g) + 3
    BY <1>5
  <2>2. pci_config_read_word(q, 0) = 128 + (16 * g) + (256 * (128 + (16 * g) + 1))
    BY <1>2, <1>4, <2>1
  <2>3. pci_config_read_word(q, 2) = 128 + (16 * g) + 2 + (256 * (128 + (16 * g) + 3))
    BY <1>2, <1>4, <2>1
  <2> QED BY <1>4, <2>2, <2>3 DEF Word, Answers
<1>9. Answers(q) <=> here
  <2>1. ~here => pci_config_read_word(q, 0) = 65535
    BY <1>2, <1>7
  <2> QED BY <1>8, <2>1 DEF Answers
<1>10. here => (pci_probe_device(q).header_type >= 128 <=> c.multi)
  BY <1>2, <1>3, <1>6 DEF here
<1>11. Answers(q) => Word(pci_config_read_word(q, 0)) /\ Word(pci_config_read_word(q, 2))
  BY <1>8, <1>9
<1>12. Answers(q) => (pci_probe_device(q).header_type >= 128 <=> c.multi)
  BY <1>9, <1>10
<1> QED BY <1>2, <1>9, <1>11, <1>12, Zenon DEF f, c, here

\* A number of one digit, and one of 16 bits.
LEMMA DigitsOf ==
    /\ \A n \in Nat : n < 10 => Digits(n, Decimal) = 1
    /\ \A n : Word(n) => Digits(n, Hex) \in Nat /\ Digits(n, Hex) <= 4
<1>1. ASSUME NEW n \in Nat, n < 10 PROVE Digits(n, Decimal) = 1
  <2> DEFINE S == {k \in DOMAIN Decimal : n < Decimal[k]}
  <2>1. DOMAIN Decimal = 1 .. 3 /\ Decimal[1] = 10
    BY DEF Decimal
  <2>2. S \in SUBSET Nat /\ 1 \in S /\ 0 \notin S
    BY <1>1, <2>1
  <2>3. Min(S) \in S /\ \A y \in S : Min(S) <= y
    BY <2>2, MinOfSet
  <2>4. Min(S) = 1
    <3> HIDE DEF S
    <3>1. Min(S) \in Nat /\ Min(S) <= 1 /\ Min(S) # 0
      BY <2>2, <2>3
    <3> QED BY <3>1
  <2> QED BY <2>4 DEF Digits
<1>2. ASSUME NEW n, Word(n) PROVE Digits(n, Hex) \in Nat /\ Digits(n, Hex) <= 4
  <2> DEFINE S == {k \in DOMAIN Hex : n < Hex[k]}
  <2>1. DOMAIN Hex = 1 .. 4 /\ Hex[4] = 65536
    BY DEF Hex
  <2>2. S \in SUBSET Nat /\ 4 \in S
    BY <1>2, <2>1 DEF Word
  <2>3. Min(S) \in S /\ \A y \in S : Min(S) <= y
    BY <2>2, MinOfSet
  <2> HIDE DEF S
  <2>4. Min(S) \in Nat /\ Min(S) <= 4
    BY <2>2, <2>3
  <2> QED BY <2>4 DEF Digits, S
<1> QED BY <1>1, <1>2

\* The message of a function fits when its bus and its slot have one digit.
LEMMA MessageOf ==
    ASSUME NEW q, IsPlace(q), q[1] < 10, q[2] < 10,
           Word(pci_config_read_word(q, 0)), Word(pci_config_read_word(q, 2))
    PROVE  ~(MessageLength(q) > 64)
<1> DEFINE a == Digits(pci_config_read_word(q, 0), Hex)
           b == Digits(pci_config_read_word(q, 2), Hex)
<1>1. Digits(q[1], Decimal) = 1 /\ Digits(q[2], Decimal) = 1 /\ Digits(q[3], Decimal) = 1
  <2>1. q[1] \in Nat /\ q[2] \in Nat /\ q[3] \in Nat /\ q[3] < 10
    BY Places DEF IsPlace, IsPosition
  <2> QED BY <2>1, DigitsOf
<1>2. a \in Nat /\ a <= 4 /\ b \in Nat /\ b <= 4
  BY DigitsOf
<1>3. MessageLength(q) = 48 + (2 + a) + (2 + b) + 1 + 1 + 1 + 1
  BY <1>1 DEF MessageLength
<1> HIDE DEF a, b
<1> QED BY <1>2, <1>3

\* The machine's devices are different.
LEMMA Machines ==
    /\ \A p, q \in Positions : \A f, g \in Funcs : Machine(p, f) = Machine(q, g) => p = q /\ f = g
    /\ \A p \in Positions : \A f \in Funcs :
          Machine(p, f) \in Device /\ Machine(p, f) # NoDevice /\ Machine(p, f)[1] = "pci"
<1>1. ASSUME NEW p \in Positions, NEW q \in Positions, NEW f \in Funcs, NEW g \in Funcs, Machine(p, f) = Machine(q, g)
      PROVE  p = q /\ f = g
  <2>1. IsPosition(p) /\ IsPosition(q)
    BY Places
  <2>2. (p[1] * 32) + p[2] = (q[1] * 32) + q[2] /\ f = g
    BY <1>1 DEF Machine
  <2>3. p[1] = q[1] /\ p[2] = q[2]
    BY <2>1, <2>2 DEF IsPosition
  <2> QED BY <2>1, <2>2, <2>3 DEF IsPosition
<1>2. ASSUME NEW p \in Positions, NEW f \in Funcs
      PROVE  Machine(p, f) \in Device /\ Machine(p, f) # NoDevice /\ Machine(p, f)[1] = "pci"
  <2>1. Machine(p, f) \in Device
    BY PciAssumption
  <2> QED BY <2>1 DEF Machine, NoDevice
<1> QED BY <1>1, <1>2

\* The order of the scan.
LEMMA ScanOrder ==
    ASSUME NEW p, NEW q, IsPosition(p), IsPosition(q)
    PROVE  /\ p = q \/ Before(p, q) \/ Before(q, p)
           /\ ~(Before(p, q) /\ Before(q, p)) /\ ~(p = q /\ Before(p, q))
<1>1. p[1] \in Nat /\ p[2] \in Nat /\ q[1] \in Nat /\ q[2] \in Nat
  BY DEF IsPosition
<1>2. p[1] = q[1] /\ p[2] = q[2] => p = q
  BY DEF IsPosition
<1> QED BY <1>1, <1>2 DEF Before

\* The first of the positions that are still to come.
LEMMA FirstPosition ==
    ASSUME NEW R \in SUBSET Positions, R # {}
    PROVE  LET q == CHOOSE q \in R : \A r \in R : r = q \/ Before(q, r)
           IN  q \in R /\ \A r \in R : r = q \/ Before(q, r)
<1> DEFINE N == {(p[1] * 32) + p[2] : p \in R}
<1>1. \A p \in R : IsPosition(p)
  BY Places
<1>2. N \in SUBSET Nat /\ N # {}
  BY <1>1 DEF IsPosition
<1>3. PICK x \in N : \A y \in N : x <= y
  BY <1>2, LeastNumber
<1>4. PICK q \in R : x = (q[1] * 32) + q[2]
  BY <1>3
<1>5. ASSUME NEW r \in R PROVE r = q \/ Before(q, r)
  <2>1. (q[1] * 32) + q[2] <= (r[1] * 32) + r[2]
    BY <1>3, <1>4
  <2>2. ~Before(r, q)
    BY <1>1, <2>1 DEF Before, IsPosition
  <2> QED BY <1>1, <2>2, ScanOrder
<1> QED BY <1>4, <1>5, Zenon

\* What may be at a position.
LEMMA ContentsOf ==
    ASSUME NEW c \in Contents
    PROVE  /\ c.multi \in BOOLEAN /\ c.funcs \in SUBSET Funcs
           /\ ~c.multi => c.funcs = {} \/ c.funcs = {0}
           /\ 0 \in Funcs
<1>1. 0 \in Funcs
  BY Places
<1>2. CASE c \in [multi : {TRUE}, funcs : SUBSET Funcs \ {{}}]
  BY <1>1, <1>2
<1>3. CASE c \in {[multi |-> FALSE, funcs |-> g] : g \in {{}, {0}}}
  <2>1. PICK g \in {{}, {0}} : c = [multi |-> FALSE, funcs |-> g]
    BY <1>3
  <2>2. c.multi = FALSE /\ c.funcs = g
    BY <2>1
  <2> QED BY <1>1, <2>2
<1> QED BY <1>2, <1>3, Zenon DEF Contents

\* The functions below k of the position p are registered, and no other one of p.
Scanned(mach, U, inf, p, k) ==
    /\ \A f \in Funcs : Machine(p, f) \in DOMAIN U <=> f \in mach[p].funcs /\ f < k
    /\ \A f \in mach[p].funcs : f < k =>
          /\ U[Machine(p, f)] = IF f = Min(mach[p].funcs) THEN Computer ELSE Machine(p, Min(mach[p].funcs))
          /\ Fields(mach, p, f, inf[Machine(p, f)])

AllScanned(mach, U, inf) == \A p \in Positions : Scanned(mach, U, inf, p, NumFuncs)

\* Every position before P was scanned, and none behind it.
ScannedAround(mach, U, inf, P) ==
    \A p \in Positions : /\ Before(p, P) => Scanned(mach, U, inf, p, NumFuncs)
                         /\ Before(P, p) => Scanned(mach, U, inf, p, 0)

\* The device the functions of the position P come below, once k were scanned.
SlotDevice(mach, P, k) ==
    IF P \in Positions /\ \E f \in mach[P].funcs : f < k THEN Machine(P, Min(mach[P].funcs)) ELSE NoDevice

\* The scan before the function a[3] is looked at.
ScanAt(mach, U, inf, a, slot) ==
    LET P == <<a[1], a[2]>> IN
    /\ ScannedAround(mach, U, inf, P)
    /\ P \in Positions => /\ Scanned(mach, U, inf, P, a[3])
                          /\ mach[P].multi \/ mach[P].funcs = {} \/ a[3] = 0
    /\ slot = SlotDevice(mach, P, a[3])

\* Functions that are not there make no difference.
LEMMA ScannedOn ==
    ASSUME NEW mach \in [Positions -> Contents], NEW U, NEW inf, NEW p \in Positions,
           NEW k \in Nat, NEW j \in Nat, \A f \in mach[p].funcs : f < k <=> f < j
    PROVE  /\ Scanned(mach, U, inf, p, k) => Scanned(mach, U, inf, p, j)
           /\ SlotDevice(mach, p, k) = SlotDevice(mach, p, j)
BY DEF Scanned, SlotDevice

\* The scan goes to the next position, or is over.
ScanMoved(mach, U, inf) ==
    /\ IsPlace(at')
    /\ \/ pc' = pc /\ ScanAt(mach, U, inf, at', slot_device')
       \/ pc' = "ata" /\ AllScanned(mach, U, inf) /\ slot_device' = NoDevice

\* The scan goes to the next position, or ends.
LEMMA NextSlotScans ==
    ASSUME NEW mach \in [Positions -> Contents], NEW U, NEW inf, IsPlace(at),
           NEW P, P = <<at[1], at[2]>>,
           ScannedAround(mach, U, inf, P), P \in Positions => Scanned(mach, U, inf, P, NumFuncs),
           NextSlot
    PROVE  ScanMoved(mach, U, inf)
<1> DEFINE R == NextPositions(P)
           q == CHOOSE q \in R : \A r \in R : r = q \/ Before(q, r)
<1>1. R \in SUBSET Positions /\ R = {p \in Positions : Before(P, p)}
  BY DEF NextPositions
<1>2. /\ slot_device' = NoDevice
      /\ IF R = {} THEN pc' = "ata" /\ at' = at
         ELSE pc' = pc /\ at' = <<q[1], q[2], 0>>
  BY DEF NextSlot
<1>3. IsPosition(P) /\ \A p \in Positions : IsPosition(p)
  BY Places DEF IsPlace
<1>4. CASE R = {}
  <2>1. ASSUME NEW p \in Positions PROVE Scanned(mach, U, inf, p, NumFuncs)
    <3>1. ~Before(P, p)
      BY <1>1, <1>4
    <3>2. p = P \/ Before(p, P)
      BY <1>3, <3>1, ScanOrder
    <3> QED BY <3>2 DEF ScannedAround
  <2> QED BY <1>2, <1>4, <2>1 DEF ScanMoved, AllScanned
<1>5. CASE R # {}
  <2>1. q \in R /\ \A r \in R : r = q \/ Before(q, r)
    BY <1>1, <1>5, FirstPosition
  <2>2. pc' = pc /\ at' = <<q[1], q[2], 0>>
    BY <1>2, <1>5
  <2> HIDE DEF q, R
  <2>3. q \in Positions /\ Before(P, q) /\ IsPosition(q)
    BY <1>1, <1>3, <2>1
  <2>4. q = <<q[1], q[2]>>
    BY <2>3 DEF IsPosition
  <2>5. at'[1] = q[1] /\ at'[2] = q[2] /\ at'[3] = 0 /\ at' = <<at'[1], at'[2], at'[3]>>
    BY <2>2
  <2>6. <<at'[1], at'[2]>> = q
    BY <2>4, <2>5
  <2>7. IsPlace(at')
    BY <2>3, <2>5, <2>6, Places DEF IsPlace
  <2>8. ASSUME NEW p \in Positions
        PROVE  /\ Before(p, q) => Scanned(mach, U, inf, p, NumFuncs)
               /\ Before(q, p) => Scanned(mach, U, inf, p, 0)
    <3>1. ASSUME Before(p, q) PROVE Scanned(mach, U, inf, p, NumFuncs)
      <4>1. p # q /\ ~Before(q, p)
        BY <1>3, <2>3, <3>1, ScanOrder
      <4>2. p \notin R
        BY <2>1, <4>1
      <4>3. ~Before(P, p)
        BY <1>1, <4>2
      <4>4. p = P \/ Before(p, P)
        BY <1>3, <4>3, ScanOrder
      <4> QED BY <4>4 DEF ScannedAround
    <3>2. ASSUME Before(q, p) PROVE Scanned(mach, U, inf, p, 0)
      <4>1. Before(P, p)
        BY <1>3, <2>3, <3>2 DEF Before, IsPosition
      <4> QED BY <4>1 DEF ScannedAround
    <3> QED BY <3>1, <3>2
  <2>9. Scanned(mach, U, inf, q, 0)
    BY <2>3 DEF ScannedAround
  <2>10. SlotDevice(mach, q, 0) = NoDevice
    <3>1. mach[q] \in Contents
      BY <2>3
    <3>2. mach[q].funcs \in SUBSET Funcs
      BY <3>1, ContentsOf
    <3>3. \A f \in mach[q].funcs : ~(f < 0)
      BY <3>2, Places
    <3> QED BY <3>3 DEF SlotDevice
  <2>11. ScanAt(mach, U, inf, at', slot_device')
    BY <1>2, <2>5, <2>6, <2>8, <2>9, <2>10 DEF ScanAt, ScannedAround
  <2> QED BY <2>2, <2>7, <2>11 DEF ScanMoved
<1> QED BY <1>4, <1>5

\* The scan goes to the next function, or to the next position.
LEMMA NextFuncScans ==
    ASSUME NEW mach \in [Positions -> Contents], NEW U, NEW inf, IsPlace(at),
           NEW P, P = <<at[1], at[2]>>,
           ScannedAround(mach, U, inf, P),
           P \in Positions => /\ Scanned(mach, U, inf, P, at[3] + 1)
                              /\ mach[P].multi \/ mach[P].funcs = {},
           NEW slot, slot = SlotDevice(mach, P, at[3] + 1), NextFunc(slot)
    PROVE  ScanMoved(mach, U, inf)
<1>1. at = <<at[1], at[2], at[3]>> /\ at[3] \in Nat /\ at[3] < NumFuncs /\ IsPosition(P) /\ NumFuncs \in Nat
  BY Places DEF IsPlace
<1>2. CASE at[3] + 1 < NumFuncs
  <2>1. at' = [at EXCEPT ![3] = @ + 1] /\ slot_device' = slot /\ pc' = pc
    BY <1>2 DEF NextFunc
  <2>2. at' = <<at[1], at[2], at[3] + 1>>
    BY <1>1, <2>1
  <2>3. at'[1] = at[1] /\ at'[2] = at[2] /\ at'[3] = at[3] + 1 /\ at' = <<at'[1], at'[2], at'[3]>>
    BY <2>2
  <2>4. <<at'[1], at'[2]>> = P
    BY <2>3
  <2>5. IsPlace(at')
    BY <1>1, <1>2, <2>3, <2>4 DEF IsPlace
  <2>6. ScanAt(mach, U, inf, at', slot_device')
    BY <2>1, <2>3, <2>4 DEF ScanAt
  <2> QED BY <2>1, <2>5, <2>6 DEF ScanMoved
<1>3. CASE ~(at[3] + 1 < NumFuncs)
  <2>1. NextSlot
    BY <1>3 DEF NextFunc
  <2>2. at[3] + 1 = NumFuncs
    BY <1>1, <1>3
  <2> QED BY <2>1, <2>2, NextSlotScans
<1> QED BY <1>2, <1>3

\* The devices with d below q.
Extended(U, d, q) == [e \in DOMAIN U \cup {d} |-> IF e = d THEN q ELSE U[e]]

\* What InsertBelow does to the registry.
LEMMA InsertBelowDoes ==
    ASSUME Shaped(mem, used, root, list, orphans), NEW d \in Device, d \notin DOMAIN Under(mem, root),
           NEW q, NEW p, Parent(mem, root, q, p), InsertBelow(d, p)
    PROVE  /\ Shaped(mem', used', root', list', orphans')
           /\ q \in DOMAIN Under(mem, root) \cup {Computer}
           /\ Under(mem', root') = Extended(Under(mem, root), d, q)
<1> DEFINE c == kmalloc
<1>1. /\ HeapLeft /\ mem' = generic_tree_insert([mem EXCEPT ![c] = generic_tree_node_init(d)], p, c)
      /\ used' = used \cup {c} /\ root' = root /\ list' = list /\ orphans' = orphans
  BY DEF InsertBelow
<1>2. c \in Addr \ used
  <2>1. Addr \ used \in SUBSET Nat /\ Addr \ used # {}
    BY <1>1, NoNull DEF HeapLeft
  <2> QED BY <2>1, MinOfSet DEF kmalloc
<1> HIDE DEF c
<1>3. /\ Shaped(mem', used \cup {c}, root, list, orphans)
      /\ q \in DOMAIN Under(mem, root) \cup {Computer}
      /\ Under(mem', root) = [e \in DOMAIN Under(mem, root) \cup {d} |-> IF e = d THEN q ELSE Under(mem, root)[e]]
  BY <1>1, <1>2, ShapedInsert
<1> QED BY <1>1, <1>3 DEF Extended

\* One more function of a position.
ScansMore(mach, U, inf, P, k, inf1, d, q, slot) ==
    /\ d \in Device \ DOMAIN U
    /\ q \in DOMAIN U \cup {Computer}
    /\ Scanned(mach, Extended(U, d, q), inf1, P, k + 1)
    /\ \A p \in Positions \ {P} : \A j \in Nat :
          Scanned(mach, U, inf, p, j) => Scanned(mach, Extended(U, d, q), inf1, p, j)
    /\ SlotDevice(mach, P, k + 1) = IF slot = NoDevice THEN d ELSE slot

\* A function that answers is registered below the first of its slot.
LEMMA ScannedMore ==
    ASSUME NEW mach \in [Positions -> Contents], NEW U, NEW inf, DOMAIN inf = Device,
           NEW P \in Positions, NEW k \in mach[P].funcs, Scanned(mach, U, inf, P, k),
           NEW i, Fields(mach, P, k, i), NEW d, d = Machine(P, k),
           NEW slot, slot = SlotDevice(mach, P, k), NEW q, q = IF slot = NoDevice THEN Computer ELSE slot
    PROVE  ScansMore(mach, U, inf, P, k, [inf EXCEPT ![d] = i], d, q, slot)
<1> DEFINE F == mach[P].funcs
           first == Min(F)
           V == Extended(U, d, q)
           inf1 == [inf EXCEPT ![d] = i]
<1>1. F \in SUBSET Funcs /\ k \in Funcs /\ k \in Nat /\ F \in SUBSET Nat
  <2>1. mach[P] \in Contents
    OBVIOUS
  <2>2. F \in SUBSET Funcs
    BY <2>1, ContentsOf
  <2> QED BY <2>2, Places
<1>2. first \in F /\ \A f \in F : first <= f
  <2>1. F # {}
    OBVIOUS
  <2> QED BY <1>1, <2>1, MinOfSet
<1>3. d \in Device /\ d # NoDevice /\ Machine(P, first) # NoDevice /\ first \in Nat
  BY <1>1, <1>2, Machines
<1>4. d \notin DOMAIN U
  BY <1>1 DEF Scanned
<1>5. slot = IF first < k THEN Machine(P, first) ELSE NoDevice
  BY <1>1, <1>2 DEF SlotDevice
<1>6. q = IF k = first THEN Computer ELSE Machine(P, first)
  BY <1>1, <1>2, <1>3, <1>5
<1>7. q \in DOMAIN U \cup {Computer}
  <2>1. first < k => Machine(P, first) \in DOMAIN U
    BY <1>1, <1>2 DEF Scanned
  <2> QED BY <1>1, <1>2, <1>3, <1>5, <2>1
<1>8. SlotDevice(mach, P, k + 1) = IF slot = NoDevice THEN d ELSE slot
  <2>1. \E f \in F : f < k + 1
    BY <1>1
  <2>2. SlotDevice(mach, P, k + 1) = Machine(P, first)
    BY <2>1 DEF SlotDevice
  <2>3. ~(first < k) => first = k
    BY <1>1, <1>2, <1>3
  <2> QED BY <1>3, <1>5, <2>2, <2>3
<1>9. DOMAIN V = DOMAIN U \cup {d} /\ V[d] = q /\ \A e \in DOMAIN U : e # d => V[e] = U[e]
  BY DEF Extended
<1>10. inf1[d] = i /\ \A e \in Device : e # d => inf1[e] = inf[e]
  BY <1>3
<1> HIDE DEF V, inf1
<1>11. Scanned(mach, V, inf1, P, k + 1)
  <2>1. ASSUME NEW f \in Funcs PROVE Machine(P, f) \in DOMAIN V <=> f \in F /\ f < k + 1
    <3>1. f \in Nat /\ (Machine(P, f) = d <=> f = k)
      BY <1>1, Machines, Places
    <3>2. Machine(P, f) \in DOMAIN U <=> f \in F /\ f < k
      BY DEF Scanned
    <3> QED BY <1>1, <1>9, <3>1, <3>2
  <2>2. ASSUME NEW f \in F, f < k + 1
        PROVE  /\ V[Machine(P, f)] = IF f = first THEN Computer ELSE Machine(P, first)
               /\ Fields(mach, P, f, inf1[Machine(P, f)])
    <3>1. f \in Nat /\ f \in Funcs /\ (Machine(P, f) = d <=> f = k)
      BY <1>1, Machines
    <3>2. CASE f = k
      BY <1>6, <1>9, <1>10, <3>2
    <3>3. CASE f # k
      <4>1. f < k
        BY <1>1, <2>2, <3>1, <3>3
      <4>2. /\ U[Machine(P, f)] = IF f = first THEN Computer ELSE Machine(P, first)
            /\ Fields(mach, P, f, inf[Machine(P, f)]) /\ Machine(P, f) \in DOMAIN U
        BY <3>1, <4>1 DEF Scanned
      <4>3. Machine(P, f) \in Device /\ Machine(P, f) # d
        BY <3>1, <3>3, Machines
      <4> QED BY <1>9, <1>10, <4>2, <4>3
    <3> QED BY <3>2, <3>3
  <2> QED BY <2>1, <2>2 DEF Scanned
<1>12. ASSUME NEW p \in Positions \ {P}, NEW j \in Nat, Scanned(mach, U, inf, p, j)
       PROVE  Scanned(mach, V, inf1, p, j)
  <2>1. \A f \in Funcs : Machine(p, f) # d /\ Machine(p, f) \in Device
    BY <1>1, Machines
  <2>2. \A f \in Funcs : Machine(p, f) \in DOMAIN V <=> f \in mach[p].funcs /\ f < j
    BY <1>9, <1>12, <2>1 DEF Scanned
  <2>3. mach[p].funcs \in SUBSET Funcs
    <3>1. mach[p] \in Contents
      OBVIOUS
    <3> QED BY <3>1, ContentsOf
  <2>4. ASSUME NEW f \in mach[p].funcs, f < j
        PROVE  /\ V[Machine(p, f)] = IF f = Min(mach[p].funcs) THEN Computer ELSE Machine(p, Min(mach[p].funcs))
               /\ Fields(mach, p, f, inf1[Machine(p, f)])
    <3>1. f \in Funcs /\ Machine(p, f) \in DOMAIN U
      BY <1>12, <2>3, <2>4 DEF Scanned
    <3>2. V[Machine(p, f)] = U[Machine(p, f)] /\ inf1[Machine(p, f)] = inf[Machine(p, f)]
      BY <1>9, <1>10, <2>1, <3>1
    <3> QED BY <1>12, <2>4, <3>2 DEF Scanned
  <2> QED BY <2>2, <2>4 DEF Scanned
<1> QED BY <1>3, <1>4, <1>7, <1>8, <1>11, <1>12 DEF V, inf1, ScansMore

-----------------------------------------------------------------------------
(* The invariant *)

\* Nothing is met from NULL.
LEMMA VisitNull ==
    ASSUME NEW m, DOMAIN m = Addr
    PROVE  Visit(m, NULL) = <<>> /\ Under(m, NULL) = [d \in {} |-> Computer]
<1> DEFINE N == Cardinality(DOMAIN m)
           w == [met |-> <<>>, todo |-> <<>>]
<1>1. N \in Nat
  BY CellsFinite
<1>2. PICK f : /\ f[0] = [met |-> <<>>, todo |-> Pointer(NULL)]
               /\ \A k \in 1 .. N : f[k] = VisitStep(m, NULL)[f[k - 1]]
               /\ Visit(m, NULL) = f[N].met
  BY <1>1, VisitSteps
<1> HIDE DEF N
<1>3. f[0] = w
  BY <1>2 DEF Pointer
<1>4. VisitStep(m, NULL)[w] = w
  <2>1. w \in [met : Seq(Nat), todo : Seq(Nat)]
    OBVIOUS
  <2> QED BY <2>1 DEF VisitStep
<1> DEFINE Good == {k \in Nat : f[k] = w}
<1>5. 0 \in Good
  BY <1>3
<1> HIDE DEF w
<1>6. ASSUME NEW k \in 1 .. N, k - 1 \in Good PROVE k \in Good
  BY <1>1, <1>2, <1>4, <1>6
<1> HIDE DEF Good
<1>7. \A k \in 1 .. N : k - 1 \in Good => k \in Good
  BY <1>6
<1>8. N \in Good
  BY <1>1, <1>5, <1>7, UpTo
<1>9. Visit(m, NULL) = <<>>
  BY <1>2, <1>8 DEF Good, w
<1>10. {m[n].data : n \in Range(Visit(m, NULL))} \ {Computer} = {}
  BY <1>9 DEF Range
<1>11. Under(m, NULL) = [d \in {} |-> Computer]
  BY <1>10 DEF Under
<1> QED BY <1>9, <1>11

\* The tree after device_init.
LEMMA FirstNode ==
    ASSUME DOMAIN mem = Addr, used = {}, list = NoList, orphans = {}, root = NULL, device_init
    PROVE  /\ root' # NULL /\ Shaped(mem', used', root', list', orphans')
           /\ DOMAIN Under(mem', root') = {} /\ Under(mem', root') = Under(mem, root)
<1> DEFINE c == kmalloc
           T == {c}
           B == [x \in T |-> T]
           node == generic_tree_node_init(Computer)
<1>1. /\ HeapLeft /\ mem' = [mem EXCEPT ![c] = node]
      /\ used' = {c} /\ root' = c /\ list' = NoList /\ orphans' = {}
  BY DEF device_init
<1>2. c \in Addr /\ c # NULL
  <2>1. Addr \ used \in SUBSET Nat /\ Addr \ used # {}
    BY <1>1, NoNull DEF HeapLeft
  <2>2. c \in Addr
    BY <2>1, MinOfSet DEF kmalloc
  <2> QED BY <2>2, NoNull
<1> HIDE DEF c
<1>3. mem'[c] = node /\ DOMAIN mem' = Addr
  BY <1>1, <1>2
<1>4. /\ node \in TreeNode /\ node.parent = NULL /\ node.child = NULL /\ node.slide = NULL /\ node.data = Computer
  BY DEF generic_tree_node_init, TreeNode, NULL
<1>5. TreeRep(mem', c, T, B)
  <2>1. B[c] = T /\ B \in [T -> SUBSET T] /\ T \in SUBSET Addr
    BY <1>2
  <2> HIDE DEF B, node
  <2>2. Parted(B, c, NULL, NULL)
    BY <2>1 DEF Parted, Reach
  <2>3. Joined(mem', c, T, B, c)
    BY <1>3, <1>4, <2>2 DEF Joined
  <2> QED BY <1>3, <1>4, <2>1, <2>3 DEF TreeRep
<1>6. Distinct(mem', T) /\ mem'[c].data = Computer
  BY <1>3, <1>4 DEF Distinct
<1>7. Range(<<>>) = {}
  BY DEF Range
<1>8. Shape(mem', used', root', list', orphans', T, B, <<>>)
  BY <1>1, <1>2, <1>5, <1>6, <1>7 DEF Shape
<1>9. IsUnder(mem', c, T, Under(mem', c))
  BY <1>5, <1>6, UnderOf
<1> DEFINE V == Under(mem', c)
<1> HIDE DEF V, B, node
<1>10. DOMAIN V = {}
  <2>1. T \ {c} = {}
    OBVIOUS
  <2> QED BY <1>9, <2>1 DEF IsUnder, V
<1>11. V = [d \in {} |-> Computer]
  <2>1. V = [d \in DOMAIN V |-> V[d]]
    BY <1>9 DEF IsUnder, V
  <2> QED BY <1>10, <2>1
<1>12. Under(mem, root) = [d \in {} |-> Computer]
  BY VisitNull
<1> QED BY <1>1, <1>2, <1>8, <1>10, <1>11, <1>12 DEF Shaped, V

\* The types of the variables outside the registry.
PciTypes ==
    /\ pc \in {"device_init", "vga_init", "ps2_keyboard_init", "pci", "ata", "up", "panic", "fault"}
    /\ machine \in [Positions -> Contents]
    /\ IsPlace(at) /\ slot_device \in Device \cup {NoDevice}
    /\ DOMAIN info = Device /\ overrun \in BOOLEAN
    /\ calls \in 0 .. MaxCalls

\* The registry before device_init, and from then on.
RegistryInv ==
    IF root = NULL
    THEN pc \in {"device_init", "panic"} /\ DOMAIN mem = Addr /\ used = {} /\ list = NoList /\ orphans = {}
    ELSE pc # "device_init" /\ Shaped(mem, used, root, list, orphans)

Video == <<"video", 0, 0>>
Keyboard == <<"keyboard", 0, 0>>
Storage == <<"storage", 0, 0>>

\* What is registered at each stage of the boot.
ScanInv ==
    LET U == Under(mem, root) IN
    /\ pc \in {"device_init", "vga_init", "ps2_keyboard_init"} => at = <<0, 0, 0>> /\ slot_device = NoDevice
    /\ pc = "vga_init" => DOMAIN U = {}
    /\ pc = "ps2_keyboard_init" => DOMAIN U = {Video}
    /\ pc = "pci" => ScanAt(machine, U, info, at, slot_device) /\ Storage \notin DOMAIN U
    /\ pc = "ata" => AllScanned(machine, U, info) /\ Storage \notin DOMAIN U
    /\ pc = "up" /\ calls = 0 => AllScanned(machine, U, info)

PciInv == PciTypes /\ RegistryInv /\ ScanInv /\ MessageFits

\* What a step may do to the registered devices.
Registered(U, V) == \E d \in Device \ DOMAIN U : \E q \in DOMAIN U \cup {Computer} : V = Extended(U, d, q)
Shrunk(U, V) ==
    LET gone == DOMAIN U \ DOMAIN V IN
    \E d \in gone : /\ \A e \in DOMAIN U : e \in gone <=> e = d \/ U[e] \in gone
                    /\ V = [e \in DOMAIN U \ gone |-> U[e]] /\ DOMAIN V \subseteq DOMAIN U

RegistryStep == LET U == Under(mem, root)
                    V == Under(mem', root')
                IN  V = U \/ Registered(U, V) \/ Shrunk(U, V)

\* The invariant holds when the kernel starts.
LEMMA PciInvInit == Init => PciInv
<1> SUFFICES ASSUME Init PROVE PciInv
  OBVIOUS
<1>1. /\ pc = "device_init" /\ machine \in [Positions -> Contents] /\ at = <<0, 0, 0>> /\ slot_device = NoDevice
      /\ info = [d \in Device |-> NoInfo] /\ overrun = FALSE
      /\ mem = [a \in Addr |-> generic_tree_node_init(Computer)]
      /\ used = {} /\ root = NULL /\ list = NoList /\ orphans = {} /\ calls = 0
  BY DEF Init, DevicesInit
<1>2. IsPlace(at)
  <2>1. at[1] = 0 /\ at[2] = 0 /\ at[3] = 0 /\ at = <<at[1], at[2], at[3]>>
    BY <1>1
  <2>2. IsPosition(<<at[1], at[2]>>)
    BY <2>1 DEF IsPosition
  <2> QED BY <2>1, <2>2, Places DEF IsPlace
<1>3. PciTypes
  <2>1. calls \in 0 .. MaxCalls
    BY <1>1, DevicesAssumption
  <2>2. DOMAIN info = Device
    BY <1>1
  <2> QED BY <1>1, <1>2, <2>1, <2>2 DEF PciTypes
<1>4. RegistryInv
  BY <1>1 DEF RegistryInv
<1>5. ScanInv
  BY <1>1 DEF ScanInv
<1>6. MessageFits
  BY <1>1 DEF MessageFits
<1> QED BY <1>3, <1>4, <1>5, <1>6 DEF PciInv

\* device_init makes a tree of one node.
LEMMA InitDevicesKeeps ==
    ASSUME PciInv, InitDevices
    PROVE  PciInv' /\ RegistryStep
<1>1. /\ pc = "device_init" /\ pc' = "vga_init" /\ device_init
      /\ UNCHANGED <<machine, at, slot_device, info, overrun, loaded>>
  BY DEF InitDevices, Boot, scanVars
<1>2. calls' = calls
  BY <1>1 DEF device_init
<1>3. DOMAIN mem = Addr /\ used = {} /\ list = NoList /\ orphans = {} /\ root = NULL
  BY <1>1 DEF PciInv, RegistryInv
<1>4. /\ root' # NULL /\ Shaped(mem', used', root', list', orphans')
      /\ DOMAIN Under(mem', root') = {} /\ Under(mem', root') = Under(mem, root)
  BY <1>1, <1>3, FirstNode
<1>5. PciTypes'
  BY <1>1, <1>2 DEF PciInv, PciTypes
<1>6. RegistryInv'
  BY <1>1, <1>4 DEF RegistryInv
<1>7. ScanInv'
  BY <1>1, <1>4 DEF PciInv, ScanInv
<1>8. MessageFits'
  BY <1>1 DEF PciInv, MessageFits
<1> QED BY <1>4, <1>5, <1>6, <1>7, <1>8 DEF PciInv, RegistryStep

\* What device_register and device_register_at do for a device that is not there.
LEMMA RegisterDoes ==
    ASSUME Shaped(mem, used, root, list, orphans), NEW d \in Device, d \notin DOMAIN Under(mem, root),
           device_register(d)
    PROVE  /\ Shaped(mem', used', root', list', orphans') /\ root' = root
           /\ Under(mem', root') = Extended(Under(mem, root), d, Computer)
           /\ Registered(Under(mem, root), Under(mem', root'))
<1>1. InsertBelow(d, root) /\ root' = root
  BY DEF device_register, InsertBelow
<1>2. Parent(mem, root, Computer, root)
  BY DEF Parent
<1>3. /\ Shaped(mem', used', root', list', orphans')
      /\ Under(mem', root') = Extended(Under(mem, root), d, Computer)
  BY <1>1, <1>2, InsertBelowDoes
<1> QED BY <1>1, <1>3 DEF Registered

\* device_register_at with any parent, one that is not registered too.
LEMMA RegisterAtDoes ==
    ASSUME Shaped(mem, used, root, list, orphans), NEW d \in Device, d \notin DOMAIN Under(mem, root),
           NEW q, device_register_at(d, q)
    PROVE  /\ Shaped(mem', used', root', list', orphans') /\ root' = root
           /\ IF q \in DOMAIN Under(mem, root) \cup {Computer}
              THEN /\ Under(mem', root') = Extended(Under(mem, root), d, q)
                   /\ Registered(Under(mem, root), Under(mem', root'))
              ELSE Under(mem', root') = Under(mem, root)
<1> DEFINE n == NodeOf(q)
           U == Under(mem, root)
<1>1. n = NULL <=> q \notin DOMAIN U \cup {Computer}
  <2>1. PICK T, B, s : Shape(mem, used, root, list, orphans, T, B, s)
    BY DEF Shaped
  <2>2. TreeRep(mem, root, T, B) /\ Distinct(mem, T) /\ mem[root].data = Computer /\ NULL \notin T
    BY <2>1, NoNull DEF Shape, TreeRep
  <2>3. IF q \in DOMAIN U \cup {Computer} THEN n \in T /\ mem[n].data = q ELSE n = NULL
    BY <2>2, FindDevice DEF NodeOf
  <2> QED BY <2>2, <2>3
<1>2. CASE n = NULL
  <2>1. UNCHANGED <<mem, used, root, list, orphans>>
    BY <1>2 DEF device_register_at
  <2> QED BY <1>1, <1>2, <2>1
<1>3. CASE n # NULL
  <2>1. InsertBelow(d, n) /\ root' = root
    BY <1>3 DEF device_register_at, InsertBelow
  <2>2. Parent(mem, root, q, n)
    BY <1>3 DEF Parent, NodeOf
  <2> HIDE DEF n
  <2>3. /\ Shaped(mem', used', root', list', orphans')
        /\ q \in DOMAIN U \cup {Computer}
        /\ Under(mem', root') = Extended(U, d, q)
    BY <2>1, <2>2, InsertBelowDoes
  <2> QED BY <2>1, <2>3 DEF Registered
<1> QED BY <1>2, <1>3

\* The names of the devices of the boot.
LEMMA BootDevices ==
    /\ Video \in Device /\ Keyboard \in Device /\ Storage \in Device
    /\ Video # Keyboard /\ Video # Storage /\ Keyboard # Storage
    /\ \A p \in Positions : \A f \in Funcs : Machine(p, f) \notin {Video, Keyboard, Storage}
<1>1. Video \in Device /\ Keyboard \in Device /\ Storage \in Device
  BY PciAssumption DEF Video, Keyboard, Storage
<1>2. Video[1] = "video" /\ Keyboard[1] = "keyboard" /\ Storage[1] = "storage"
  BY DEF Video, Keyboard, Storage
<1>3. Video # Keyboard /\ Video # Storage /\ Keyboard # Storage
  BY <1>2
<1>4. \A p \in Positions : \A f \in Funcs : Machine(p, f)[1] = "pci"
  BY Machines
<1>5. \A p \in Positions : \A f \in Funcs : Machine(p, f) \notin {Video, Keyboard, Storage}
  BY <1>2, <1>4
<1> QED BY <1>1, <1>3, <1>5

\* vga_init registers the screen.
LEMMA VgaInitKeeps ==
    ASSUME PciInv, vga_init
    PROVE  PciInv' /\ RegistryStep
<1> DEFINE U == Under(mem, root)
           V == Under(mem', root')
<1>1. /\ pc = "vga_init" /\ pc' = "ps2_keyboard_init" /\ device_register(Video)
      /\ UNCHANGED <<machine, at, slot_device, info, overrun, calls>>
  BY DEF vga_init, Boot, scanVars, Video
<1>2. root # NULL /\ Shaped(mem, used, root, list, orphans) /\ DOMAIN U = {}
  BY <1>1 DEF PciInv, RegistryInv, ScanInv
<1>3. /\ Shaped(mem', used', root', list', orphans') /\ root' = root
      /\ V = Extended(U, Video, Computer) /\ Registered(U, V)
  BY <1>1, <1>2, BootDevices, RegisterDoes
<1> HIDE DEF U, V
<1>4. DOMAIN V = {Video}
  BY <1>2, <1>3 DEF Extended
<1>5. PciTypes'
  BY <1>1 DEF PciInv, PciTypes
<1>6. RegistryInv'
  BY <1>1, <1>2, <1>3 DEF RegistryInv
<1>7. ScanInv'
  BY <1>1, <1>4 DEF PciInv, ScanInv, V
<1>8. MessageFits'
  BY <1>1 DEF PciInv, MessageFits
<1> QED BY <1>3, <1>5, <1>6, <1>7, <1>8 DEF PciInv, RegistryStep, U, V

\* ps2_keyboard_init registers the keyboard, and the scan begins.
LEMMA KeyboardInitKeeps ==
    ASSUME PciInv, ps2_keyboard_init
    PROVE  PciInv' /\ RegistryStep
<1> DEFINE U == Under(mem, root)
           V == Under(mem', root')
<1>1. /\ pc = "ps2_keyboard_init" /\ pc' = "pci" /\ device_register(Keyboard)
      /\ UNCHANGED <<machine, at, slot_device, info, overrun, calls>>
  BY DEF ps2_keyboard_init, Boot, scanVars, Keyboard
<1>2. /\ root # NULL /\ Shaped(mem, used, root, list, orphans) /\ DOMAIN U = {Video}
      /\ at = <<0, 0, 0>> /\ slot_device = NoDevice /\ machine \in [Positions -> Contents]
  BY <1>1 DEF PciInv, PciTypes, RegistryInv, ScanInv
<1>3. /\ Shaped(mem', used', root', list', orphans') /\ root' = root
      /\ V = Extended(U, Keyboard, Computer) /\ Registered(U, V)
  BY <1>1, <1>2, BootDevices, RegisterDoes
<1> HIDE DEF U, V
<1>4. DOMAIN V = {Video, Keyboard}
  BY <1>2, <1>3 DEF Extended
<1> DEFINE P == <<0, 0>>
<1>5. <<at[1], at[2]>> = P /\ at[3] = 0
  BY <1>2
<1>6. ASSUME NEW p \in Positions PROVE Scanned(machine, V, info, p, 0) /\ ~Before(p, P)
  <2>1. machine[p] \in Contents
    BY <1>2
  <2>2. machine[p].funcs \in SUBSET Funcs
    BY <2>1, ContentsOf
  <2>3. \A f \in Funcs : Machine(p, f) \notin DOMAIN V
    BY <1>4, BootDevices
  <2>4. \A f \in Funcs : ~(f < 0)
    BY Places
  <2>5. IsPosition(p)
    BY Places
  <2>6. ~Before(p, P)
    BY <2>5 DEF Before, IsPosition
  <2> QED BY <2>2, <2>3, <2>4, <2>6 DEF Scanned
<1>7. SlotDevice(machine, P, 0) = NoDevice
  <2>1. P \in Positions => \A f \in machine[P].funcs : ~(f < 0)
    <3>1. P \in Positions => machine[P] \in Contents
      BY <1>2
    <3>2. P \in Positions => machine[P].funcs \in SUBSET Funcs
      BY <3>1, ContentsOf
    <3> QED BY <3>2, Places
  <2> QED BY <2>1 DEF SlotDevice
<1> HIDE DEF P
<1>8. ScanAt(machine, V, info, at, slot_device)
  BY <1>2, <1>5, <1>6, <1>7 DEF ScanAt, ScannedAround
<1>9. Storage \notin DOMAIN V
  BY <1>4, BootDevices
<1>10. PciTypes'
  BY <1>1 DEF PciInv, PciTypes
<1>11. RegistryInv'
  BY <1>1, <1>2, <1>3 DEF RegistryInv
<1>12. ScanInv'
  BY <1>1, <1>8, <1>9 DEF ScanInv, V
<1>13. MessageFits'
  BY <1>1 DEF PciInv, MessageFits
<1> QED BY <1>3, <1>10, <1>11, <1>12, <1>13 DEF PciInv, RegistryStep, U, V

\* ata_init registers a disk, or finds none.
LEMMA AtaInitKeeps ==
    ASSUME PciInv, ata_init
    PROVE  PciInv' /\ RegistryStep
<1> DEFINE U == Under(mem, root)
           V == Under(mem', root')
<1>1. /\ pc = "ata" /\ pc' = "up"
      /\ device_register(Storage) \/ UNCHANGED <<mem, used, root, list, orphans>>
      /\ UNCHANGED <<machine, at, slot_device, info, overrun, calls>>
  BY DEF ata_init, Boot, scanVars, Storage
<1>2. /\ root # NULL /\ Shaped(mem, used, root, list, orphans)
      /\ Storage \notin DOMAIN U /\ AllScanned(machine, U, info) /\ machine \in [Positions -> Contents]
  BY <1>1 DEF PciInv, PciTypes, RegistryInv, ScanInv
<1>3. /\ Shaped(mem', used', root', list', orphans') /\ root' = root
      /\ V = U \/ (V = Extended(U, Storage, Computer) /\ Registered(U, V))
  <2>1. CASE device_register(Storage)
    BY <1>2, <2>1, BootDevices, RegisterDoes
  <2>2. CASE UNCHANGED <<mem, used, root, list, orphans>>
    BY <1>2, <2>2
  <2> QED BY <1>1, <2>1, <2>2
<1> HIDE DEF U, V
<1>4. AllScanned(machine, V, info)
  <2>1. CASE V = U
    BY <1>2, <2>1
  <2>2. CASE V = Extended(U, Storage, Computer)
    <3>1. DOMAIN V = DOMAIN U \cup {Storage} /\ \A e \in DOMAIN U : e # Storage => V[e] = U[e]
      BY <2>2 DEF Extended
    <3>2. ASSUME NEW p \in Positions PROVE Scanned(machine, V, info, p, NumFuncs)
      <4>1. Scanned(machine, U, info, p, NumFuncs)
        BY <1>2 DEF AllScanned
      <4>2. machine[p] \in Contents
        BY <1>2
      <4>3. machine[p].funcs \in SUBSET Funcs
        BY <4>2, ContentsOf
      <4>4. \A f \in Funcs : Machine(p, f) # Storage
        BY BootDevices
      <4>5. \A f \in Funcs : Machine(p, f) \in DOMAIN V <=> Machine(p, f) \in DOMAIN U
        BY <3>1, <4>4
      <4>6. \A f \in machine[p].funcs : f < NumFuncs => V[Machine(p, f)] = U[Machine(p, f)]
        BY <3>1, <4>1, <4>3, <4>4 DEF Scanned
      <4> QED BY <4>1, <4>5, <4>6 DEF Scanned
    <3> QED BY <3>2 DEF AllScanned
  <2> QED BY <1>3, <2>1, <2>2
<1>5. PciTypes'
  BY <1>1 DEF PciInv, PciTypes
<1>6. RegistryInv'
  BY <1>1, <1>2, <1>3 DEF RegistryInv
<1>7. ScanInv'
  BY <1>1, <1>4 DEF ScanInv, V
<1>8. MessageFits'
  BY <1>1 DEF PciInv, MessageFits
<1> QED BY <1>3, <1>5, <1>6, <1>7, <1>8 DEF PciInv, RegistryStep, U, V

\* The device of a slot is one of the machine's.
LEMMA SlotDeviceType ==
    ASSUME NEW mach \in [Positions -> Contents], NEW P, NEW k
    PROVE  SlotDevice(mach, P, k) \in Device \cup {NoDevice}
<1>1. CASE P \in Positions /\ \E f \in mach[P].funcs : f < k
  <2>1. mach[P] \in Contents
    BY <1>1
  <2>2. mach[P].funcs \in SUBSET Funcs /\ mach[P].funcs # {}
    BY <1>1, <2>1, ContentsOf
  <2>3. mach[P].funcs \in SUBSET Nat
    BY <2>2, Places
  <2>4. Min(mach[P].funcs) \in Funcs
    BY <2>2, <2>3, MinOfSet
  <2>5. Machine(P, Min(mach[P].funcs)) \in Device
    BY <1>1, <2>4, Machines
  <2> QED BY <1>1, <2>5 DEF SlotDevice
<1>2. CASE ~(P \in Positions /\ \E f \in mach[P].funcs : f < k)
  BY <1>2 DEF SlotDevice
<1> QED BY <1>1, <1>2

\* A turn of the loop in which nothing answers.
LEMMA SilentScans ==
    ASSUME machine \in [Positions -> Contents], NEW U, IsPlace(at),
           ScanAt(machine, U, info, at, slot_device), ~Answers(at), NextFunc(slot_device)
    PROVE  ScanMoved(machine, U, info)
<1> DEFINE P == <<at[1], at[2]>>
           k == at[3]
<1>1. k \in Nat /\ k + 1 \in Nat
  BY DEF IsPlace
<1>2. /\ ScannedAround(machine, U, info, P)
      /\ P \in Positions => Scanned(machine, U, info, P, k)
      /\ slot_device = SlotDevice(machine, P, k)
  BY DEF ScanAt
<1>3. Answers(at) <=> P \in Positions /\ IF machine[P].multi THEN at[3] \in machine[P].funcs ELSE machine[P].funcs # {}
  BY AnswersIf
<1>4. ASSUME P \in Positions
      PROVE  /\ machine[P].multi \/ machine[P].funcs = {}
             /\ \A f \in machine[P].funcs : f < k <=> f < k + 1
  <2>1. machine[P] \in Contents
    BY <1>4
  <2>2. machine[P].multi \in BOOLEAN /\ machine[P].funcs \in SUBSET Funcs
    BY <2>1, ContentsOf
  <2>3. k \notin machine[P].funcs
    BY <1>3, <1>4, <2>2
  <2>4. \A f \in machine[P].funcs : f \in Nat /\ f # k
    BY <2>2, <2>3, Places
  <2> HIDE DEF k
  <2>5. \A f \in machine[P].funcs : f < k <=> f < k + 1
    BY <1>1, <2>4
  <2>6. machine[P].multi \/ machine[P].funcs = {}
    BY <1>3, <1>4, <2>2
  <2> QED BY <2>5, <2>6
<1> HIDE DEF P, k
<1>5. P \in Positions => Scanned(machine, U, info, P, k + 1) /\ SlotDevice(machine, P, k) = SlotDevice(machine, P, k + 1)
  BY <1>1, <1>2, <1>4, ScannedOn
<1>6. slot_device = SlotDevice(machine, P, k + 1)
  BY <1>2, <1>5 DEF SlotDevice
<1>7. P = <<at[1], at[2]>> /\ k = at[3]
  BY DEF P, k
<1>8. P \in Positions => Scanned(machine, U, info, P, at[3] + 1) /\ (machine[P].multi \/ machine[P].funcs = {})
  BY <1>4, <1>5, <1>7
<1>9. slot_device = SlotDevice(machine, P, at[3] + 1)
  BY <1>6, <1>7
<1> QED BY <1>2, <1>7, <1>8, <1>9, NextFuncScans

\* What a turn of the loop in which a function answers registers, and below what.
Answered(d, q) ==
    LET P == <<at[1], at[2]>> IN
    /\ P \in Positions /\ at[3] \in machine[P].funcs /\ d = Machine(P, at[3])
    /\ q = IF slot_device = NoDevice THEN Computer ELSE slot_device

\* A turn of the loop in which a function answers.
LEMMA AnsweredScans ==
    ASSUME machine \in [Positions -> Contents], NEW U, IsPlace(at), DOMAIN info = Device,
           ScanAt(machine, U, info, at, slot_device), Answers(at),
           NEW d, d = Machine(<<at[1], at[2]>>, at[3]),
           NEW q, q = IF slot_device = NoDevice THEN Computer ELSE slot_device,
           info' = [info EXCEPT ![d] = pci_probe_device(at)],
           IF at[3] = 0 /\ ~(pci_probe_device(at).header_type >= 128) THEN NextSlot
           ELSE NextFunc(IF slot_device = NoDevice THEN d ELSE slot_device)
    PROVE  /\ Answered(d, q) /\ d \in Device \ DOMAIN U /\ q \in DOMAIN U \cup {Computer}
           /\ ScanMoved(machine, Extended(U, d, q), info')
<1> DEFINE P == <<at[1], at[2]>>
           k == at[3]
           i == pci_probe_device(at)
           V == Extended(U, d, q)
           slot == IF slot_device = NoDevice THEN d ELSE slot_device
           F == machine[P].funcs
<1>1. k \in Nat /\ k < NumFuncs /\ NumFuncs \in Nat /\ NumFuncs > 0 /\ IsPosition(P)
  BY Places DEF IsPlace
<1>2. /\ Answers(at) <=> P \in Positions /\ IF machine[P].multi THEN at[3] \in machine[P].funcs ELSE machine[P].funcs # {}
      /\ Fields(machine, P, k, i)
      /\ Answers(at) => (i.header_type >= 128 <=> machine[P].multi)
  BY AnswersIf
<1>3. P \in Positions /\ machine[P] \in Contents
  BY <1>2
<1>4. /\ ScannedAround(machine, U, info, P) /\ Scanned(machine, U, info, P, k)
      /\ machine[P].multi \/ F = {} \/ k = 0
      /\ slot_device = SlotDevice(machine, P, k)
  BY <1>3 DEF ScanAt
<1>5. machine[P].multi \in BOOLEAN /\ F \in SUBSET Funcs /\ (~machine[P].multi => F = {} \/ F = {0})
  BY <1>3, ContentsOf
<1>6. k \in F /\ (~machine[P].multi => F = {0} /\ k = 0)
  BY <1>2, <1>4, <1>5
<1>7. /\ d \in Device \ DOMAIN U
      /\ q \in DOMAIN U \cup {Computer}
      /\ Scanned(machine, V, info', P, k + 1)
      /\ \A p \in Positions \ {P} : \A j \in Nat : Scanned(machine, U, info, p, j) => Scanned(machine, V, info', p, j)
      /\ SlotDevice(machine, P, k + 1) = slot
  <2> HIDE DEF P, k, i
  <2>1. d = Machine(P, k) /\ info' = [info EXCEPT ![d] = i]
    BY DEF P, k, i
  <2>2. Fields(machine, P, k, i)
    BY <1>2
  <2>3. k \in machine[P].funcs
    BY <1>6
  <2>4. ScansMore(machine, U, info, P, k, [info EXCEPT ![d] = i], d, q, slot_device)
    BY <1>3, <1>4, <2>1, <2>2, <2>3, ScannedMore
  <2>5. ScansMore(machine, U, info, P, k, info', d, q, slot_device)
    BY <2>1, <2>4
  <2> QED BY <2>5, Zenon DEF ScansMore
<1> HIDE DEF P, k, V, i, slot
<1>8. ScannedAround(machine, V, info', P)
  <2>1. ASSUME NEW p \in Positions, Before(p, P) \/ Before(P, p) PROVE p # P
    <3>1. IsPosition(p)
      BY Places
    <3> QED BY <1>1, <2>1, <3>1, ScanOrder
  <2>2. 0 \in Nat /\ NumFuncs \in Nat
    BY <1>1
  <2> QED BY <1>4, <1>7, <2>1, <2>2 DEF ScannedAround
<1>9. P = <<at[1], at[2]>> /\ k = at[3] /\ i = pci_probe_device(at)
  BY DEF P, k, i
<1>10. CASE at[3] = 0 /\ ~(i.header_type >= 128)
  <2>1. NextSlot /\ F = {0} /\ k = 0
    BY <1>2, <1>6, <1>9, <1>10
  <2>2. \A f \in F : f < k + 1 <=> f < NumFuncs
    BY <1>1, <2>1
  <2>3. k + 1 \in Nat
    BY <1>1
  <2>4. Scanned(machine, V, info', P, NumFuncs)
    BY <1>1, <1>3, <1>7, <2>2, <2>3, ScannedOn
  <2>5. ScanMoved(machine, V, info')
    BY <1>8, <1>9, <2>1, <2>4, NextSlotScans
  <2> QED BY <1>3, <1>6, <1>7, <1>9, <2>5 DEF Answered, V
<1>11. CASE ~(at[3] = 0 /\ ~(i.header_type >= 128))
  <2>1. NextFunc(slot)
    BY <1>9, <1>11 DEF slot
  <2>2. machine[P].multi
    BY <1>2, <1>5, <1>6, <1>9, <1>11
  <2>3. /\ slot = SlotDevice(machine, P, at[3] + 1)
        /\ P \in Positions => Scanned(machine, V, info', P, at[3] + 1) /\ (machine[P].multi \/ machine[P].funcs = {})
    BY <1>7, <1>9, <2>2
  <2>4. ScanMoved(machine, V, info')
    BY <1>8, <1>9, <2>1, <2>3, NextFuncScans
  <2> QED BY <1>3, <1>6, <1>7, <1>9, <2>4 DEF Answered, V
<1> QED BY <1>10, <1>11

\* A turn of the loops of pci_init.
LEMMA PciInitKeeps ==
    ASSUME PciInv, pci_init
    PROVE  PciInv' /\ RegistryStep
<1> DEFINE U == Under(mem, root)
           V == Under(mem', root')
           P == <<at[1], at[2]>>
           d == Machine(P, at[3])
           q == IF slot_device = NoDevice THEN Computer ELSE slot_device
           slot == IF slot_device = NoDevice THEN d ELSE slot_device
<1>1. /\ pc = "pci" /\ machine' = machine
      /\ IF ~Answers(at)
         THEN NextFunc(slot_device) /\ UNCHANGED <<deviceVars, info, overrun>>
         ELSE /\ IF slot_device = NoDevice THEN device_register(d) ELSE device_register_at(d, slot_device)
              /\ info' = [info EXCEPT ![d] = pci_probe_device(at)]
              /\ overrun' = (overrun \/ MessageLength(at) > 64)
              /\ IF at[3] = 0 /\ ~(pci_probe_device(at).header_type >= 128) THEN NextSlot ELSE NextFunc(slot)
              /\ UNCHANGED calls
  BY DEF pci_init
<1>2. /\ root # NULL /\ Shaped(mem, used, root, list, orphans) /\ Storage \notin DOMAIN U
      /\ machine \in [Positions -> Contents] /\ IsPlace(at) /\ DOMAIN info = Device
      /\ ScanAt(machine, U, info, at, slot_device) /\ overrun \in BOOLEAN /\ calls \in 0 .. MaxCalls /\ MessageFits
  BY <1>1 DEF PciInv, PciTypes, RegistryInv, ScanInv
<1> HIDE DEF U, V
<1>3. /\ Shaped(mem', used', root', list', orphans') /\ root' = root
      /\ V = U \/ Registered(U, V)
      /\ ScanMoved(machine, V, info') /\ DOMAIN info' = Device /\ Storage \notin DOMAIN V
      /\ overrun' \in BOOLEAN /\ calls' = calls /\ MessageFits'
  <2>1. CASE ~Answers(at)
    <3>1. NextFunc(slot_device) /\ UNCHANGED <<deviceVars, info, overrun>>
      BY <1>1, <2>1
    <3>2. UNCHANGED <<mem, used, root, list, orphans, calls, info, overrun>>
      BY <3>1 DEF deviceVars
    <3>3. V = U
      BY <3>2 DEF U, V
    <3>4. ScanMoved(machine, U, info)
      BY <1>2, <2>1, <3>1, SilentScans
    <3>5. MessageFits'
      BY <1>1, <1>2, <3>2 DEF MessageFits
    <3> QED BY <1>2, <3>2, <3>3, <3>4, <3>5
  <2>2. CASE Answers(at)
    <3>1. /\ IF slot_device = NoDevice THEN device_register(d) ELSE device_register_at(d, slot_device)
          /\ info' = [info EXCEPT ![d] = pci_probe_device(at)]
          /\ overrun' = (overrun \/ MessageLength(at) > 64)
          /\ IF at[3] = 0 /\ ~(pci_probe_device(at).header_type >= 128) THEN NextSlot ELSE NextFunc(slot)
          /\ UNCHANGED calls
      BY <1>1, <2>2
    <3> DEFINE W == Extended(U, d, q)
    <3>2. /\ Answered(d, q) /\ d \in Device \ DOMAIN U /\ q \in DOMAIN U \cup {Computer}
          /\ ScanMoved(machine, W, info')
      BY <1>2, <2>2, <3>1, AnsweredScans
    <3>3. Shaped(mem', used', root', list', orphans') /\ root' = root /\ V = W /\ Registered(U, V)
      <4>1. CASE slot_device = NoDevice
        <5>1. device_register(d) /\ q = Computer
          BY <3>1, <4>1
        <5> HIDE DEF d, q
        <5> QED BY <1>2, <3>2, <5>1, RegisterDoes DEF U, V
      <4>2. CASE slot_device # NoDevice
        <5>1. device_register_at(d, q)
          BY <3>1, <4>2
        <5> HIDE DEF d, q
        <5> QED BY <1>2, <3>2, <5>1, RegisterAtDoes DEF U, V
      <4> QED BY <4>1, <4>2
    <3>4. d # Storage
      <4>1. at[3] \in Funcs /\ P \in Positions
        BY <1>2, <3>2, Places DEF Answered, IsPlace
      <4> QED BY <4>1, BootDevices
    <3>5. Storage \notin DOMAIN V
      <4> HIDE DEF d, q
      <4> QED BY <1>2, <3>3, <3>4 DEF Extended
    <3>6. MessageFits'
      <4>1. CASE overrun
        BY <1>1, <1>2, <4>1 DEF MessageFits
      <4>2. CASE MessageLength(at) > 64
        <5>1. Word(pci_config_read_word(at, 0)) /\ Word(pci_config_read_word(at, 2))
          BY <1>2, <2>2, AnswersIf
        <5>2. ~(at[1] < 10 /\ at[2] < 10)
          BY <1>2, <4>2, <5>1, MessageOf
        <5>3. at[1] \in Nat /\ at[2] \in Nat /\ P[1] = at[1] /\ P[2] = at[2]
          BY <1>2 DEF IsPlace, IsPosition
        <5>4. P \in Positions /\ machine[P].funcs # {} /\ (P[1] >= 10 \/ P[2] >= 10)
          BY <3>2, <5>2, <5>3 DEF Answered
        <5> HIDE DEF P
        <5> QED BY <1>1, <5>4 DEF MessageFits
      <4>3. CASE ~overrun /\ ~(MessageLength(at) > 64)
        BY <3>1, <4>3 DEF MessageFits
      <4> QED BY <4>1, <4>2, <4>3
    <3>7. DOMAIN info' = Device /\ overrun' \in BOOLEAN /\ calls' = calls
      BY <1>2, <3>1
    <3> QED BY <3>2, <3>3, <3>5, <3>6, <3>7
  <2> QED BY <2>1, <2>2
<1>4. /\ IsPlace(at') /\ pc' \in {"pci", "ata"} /\ slot_device' \in Device \cup {NoDevice}
      /\ pc' = "pci" => ScanAt(machine, V, info', at', slot_device')
      /\ pc' = "ata" => AllScanned(machine, V, info')
  <2>1. ASSUME ScanAt(machine, V, info', at', slot_device') PROVE slot_device' \in Device \cup {NoDevice}
    BY <1>2, <2>1, SlotDeviceType DEF ScanAt
  <2> QED BY <1>1, <1>3, <2>1 DEF ScanMoved
<1>5. PciTypes'
  BY <1>1, <1>2, <1>3, <1>4 DEF PciTypes
<1>6. RegistryInv'
  BY <1>2, <1>3, <1>4 DEF RegistryInv
<1>7. ScanInv'
  BY <1>1, <1>3, <1>4 DEF ScanInv, V
<1> QED BY <1>3, <1>5, <1>6, <1>7 DEF PciInv, RegistryStep, U, V

\* A call of a driver keeps the invariant when it keeps the shape of the registry.
LEMMA CallKeeps ==
    ASSUME PciInv, NEW l, CallThat(l), root' = root,
           Shaped(mem, used, root, list, orphans) => Shaped(mem', used', root', list', orphans')
    PROVE  PciInv'
<1>1. /\ pc = "up" /\ calls < MaxCalls /\ calls' = calls + 1
      /\ UNCHANGED <<pc, machine, at, slot_device, info, overrun>>
  BY DEF CallThat, scanVars
<1>2. root # NULL /\ Shaped(mem, used, root, list, orphans)
  BY <1>1 DEF PciInv, RegistryInv
<1>3. calls \in Nat /\ calls' \in 0 .. MaxCalls /\ calls' # 0
  BY <1>1, DevicesAssumption DEF PciInv, PciTypes
<1>4. PciTypes'
  BY <1>1, <1>3 DEF PciInv, PciTypes
<1>5. RegistryInv'
  BY <1>1, <1>2 DEF RegistryInv
<1>6. ScanInv'
  BY <1>1, <1>3 DEF ScanInv
<1>7. MessageFits'
  BY <1>1 DEF PciInv, MessageFits
<1> QED BY <1>4, <1>5, <1>6, <1>7 DEF PciInv

\* The calls that leave the registered devices alone.
LEMMA ListCallKeeps ==
    ASSUME PciInv, NEW l, CallThat(l), root' = root,
           Shaped(mem, used, root, list, orphans) => KeepsDevices
    PROVE  PciInv' /\ RegistryStep
<1>1. Shaped(mem, used, root, list, orphans)
  BY DEF CallThat, PciInv, RegistryInv
<1>2. KeepsDevices
  BY <1>1
<1>3. PciInv'
  BY <1>2, CallKeeps DEF KeepsDevices
<1> QED BY <1>2, <1>3 DEF KeepsDevices, RegistryStep

\* A driver asks for all devices of a kind.
LEMMA FindAllKeeps ==
    ASSUME PciInv, FindAll
    PROVE  PciInv' /\ RegistryStep
<1>1. CallThat(NotLoaded)
  BY DEF FindAll, Call
<1>2. PICK wanted : wanted \subseteq Device /\ HandOut(wanted)
  <2>1. CASE \E t \in Types : device_find_all_by_type(t)
    <3>1. PICK t \in Types : HandOut({d \in Device : Type(d) = t})
      BY <2>1 DEF device_find_all_by_type
    <3>2. {d \in Device : Type(d) = t} \subseteq Device
      OBVIOUS
    <3> QED BY <3>1, <3>2
  <2>2. CASE \E b \in Buses : device_find_all_by_bustype(b)
    <3>1. PICK b \in Buses : HandOut({d \in Device : Bus(d) = b})
      BY <2>2 DEF device_find_all_by_bustype
    <3>2. {d \in Device : Bus(d) = b} \subseteq Device
      OBVIOUS
    <3> QED BY <3>1, <3>2
  <2> QED BY <2>1, <2>2 DEF FindAll
<1>3. root' = root
  BY <1>2 DEF HandOut
<1>4. Shaped(mem, used, root, list, orphans) => KeepsDevices
  BY <1>2, HandOutKeeps
<1> QED BY <1>1, <1>3, <1>4, ListCallKeeps

\* A driver drops a node of its list, or all of it.
LEMMA UseListKeeps ==
    ASSUME PciInv, UseList
    PROVE  PciInv' /\ RegistryStep
<1>1. CallThat(NotLoaded)
  BY DEF UseList, Call
<1>2. CASE linked_list_destroy
  <2>1. root' = root
    BY <1>2 DEF linked_list_destroy
  <2>2. Shaped(mem, used, root, list, orphans) => KeepsDevices
    BY <1>2, DestroyKeeps
  <2> QED BY <1>1, <2>1, <2>2, ListCallKeeps
<1>3. CASE \E n : (n \in Range(Forward(mem, list.head)) \/ n = list.head) /\ Drop(n)
  <2>1. PICK n : (n \in Range(Forward(mem, list.head)) \/ n = list.head) /\ Drop(n)
    BY <1>3
  <2>2. root' = root
    BY <2>1 DEF Drop
  <2>3. Shaped(mem, used, root, list, orphans) => KeepsDevices
    BY <2>1, DropKeeps
  <2> QED BY <1>1, <2>2, <2>3, ListCallKeeps
<1>4. linked_list_destroy \/ \E n : (n \in Range(Forward(mem, list.head)) \/ n = list.head) /\ Drop(n)
  BY DEF UseList, linked_list_pop_head, linked_list_pop_tail
<1> QED BY <1>2, <1>3, <1>4

\* A driver sorts its list.
LEMMA SortListKeeps ==
    ASSUME PciInv, SortList
    PROVE  PciInv' /\ RegistryStep
<1>1. CallThat(NotLoaded) /\ Sort
  BY DEF SortList, Call
<1>2. root' = root
  BY <1>1 DEF Sort
<1>3. Shaped(mem, used, root, list, orphans) => KeepsDevices
  BY <1>1, SortKeeps
<1> QED BY <1>1, <1>2, <1>3, ListCallKeeps

\* sata_init looks at all PCI devices.
LEMMA SataInitKeeps ==
    ASSUME PciInv, sata_init
    PROVE  PciInv' /\ RegistryStep
<1>1. CallThat(NotLoaded) /\ root' = root
  BY DEF sata_init, Call
<1>2. Shaped(mem, used, root, list, orphans) => KeepsDevices
  BY SataKeeps
<1> QED BY <1>1, <1>2, ListCallKeeps

\* A driver loads a base address register.
LEMMA LoadBarKeeps ==
    ASSUME PciInv, NEW b, LoadBar(b)
    PROVE  PciInv' /\ RegistryStep
<1>1. CallThat([bar |-> b, did |-> pci_load_bar_info(b)]) /\ UNCHANGED <<mem, used, root, list, orphans>>
  BY DEF LoadBar
<1>2. Shaped(mem, used, root, list, orphans) => KeepsDevices
  BY <1>1 DEF KeepsDevices
<1> QED BY <1>1, <1>2, ListCallKeeps

\* A driver takes a device out.
LEMMA UnregisterKeeps ==
    ASSUME PciInv, NEW d \in Device, Unregister(d)
    PROVE  PciInv' /\ RegistryStep
<1> DEFINE n == NodeOf(d)
           U == Under(mem, root)
           V == Under(mem', root')
<1>1. CallThat(NotLoaded) /\ device_unregister(d)
  BY DEF Unregister, Call
<1>2. Shaped(mem, used, root, list, orphans)
  BY <1>1 DEF CallThat, PciInv, RegistryInv
<1>3. CASE n = NULL
  <2>1. UNCHANGED <<mem, used, root, list, orphans>>
    BY <1>1, <1>3 DEF device_unregister
  <2>2. Shaped(mem, used, root, list, orphans) => KeepsDevices
    BY <2>1 DEF KeepsDevices
  <2> QED BY <1>1, <2>1, <2>2, ListCallKeeps
<1>4. CASE n # NULL
  <2>1. /\ mem' = generic_tree_remove(mem, n) /\ used' = used \ {n}
        /\ orphans' = orphans \cup (Range(Visit(mem, n)) \ {n}) /\ root' = root /\ list' = list
    BY <1>1, <1>4 DEF device_unregister
  <2>2. n = generic_tree_find(mem, root, {d})
    BY DEF NodeOf
  <2> HIDE DEF n
  <2>3. Unregistered(mem, used, root, list, orphans, d, n, mem')
    BY <1>2, <1>4, <2>1, <2>2, ShapedRemove
  <2>4. Shaped(mem', used', root', list', orphans')
    BY <2>1, <2>3 DEF Unregistered
  <2>5. Shrunk(U, V)
    BY <2>1, <2>3 DEF Unregistered, Shrunk
  <2>6. PciInv'
    BY <1>1, <2>1, <2>4, CallKeeps
  <2> QED BY <2>5, <2>6 DEF RegistryStep
<1> QED BY <1>3, <1>4

\* A driver registers a device below another one.
LEMMA RegisterAtKeeps ==
    ASSUME PciInv, NEW d \in Device \ InTree, NEW q, RegisterAt(d, q)
    PROVE  PciInv' /\ RegistryStep
<1> DEFINE U == Under(mem, root)
           V == Under(mem', root')
<1>1. CallThat(NotLoaded) /\ device_register_at(d, q)
  BY DEF RegisterAt, Call
<1>2. Shaped(mem, used, root, list, orphans)
  BY <1>1 DEF CallThat, PciInv, RegistryInv
<1>3. d \in Device /\ d \notin DOMAIN U
  BY DEF InTree, Nodes, Under
<1>4. /\ Shaped(mem', used', root', list', orphans') /\ root' = root
      /\ V = U \/ Registered(U, V)
  BY <1>1, <1>2, <1>3, RegisterAtDoes
<1>5. PciInv'
  BY <1>1, <1>4, CallKeeps
<1> QED BY <1>4, <1>5 DEF RegistryStep

\* The registry stays; so does what the boot found, wherever the kernel stops.
LEMMA OtherKeeps ==
    ASSUME PciInv, OutOfMemory \/ UNCHANGED vars
    PROVE  PciInv' /\ RegistryStep
<1>1. /\ UNCHANGED <<mem, used, root, list, orphans, calls, machine, at, slot_device, info, overrun>>
      /\ pc' = pc \/ pc' = "panic" \/ (pc' = "fault" /\ pc = "pci")
  BY DEF OutOfMemory, vars, deviceVars, scanVars
<1>2. Under(mem', root') = Under(mem, root)
  BY <1>1
<1>3. PciTypes'
  BY <1>1 DEF PciInv, PciTypes
<1>4. RegistryInv'
  BY <1>1 DEF PciInv, RegistryInv
<1>5. ScanInv'
  BY <1>1, <1>2 DEF PciInv, ScanInv
<1>6. MessageFits'
  BY <1>1 DEF PciInv, MessageFits
<1> QED BY <1>2, <1>3, <1>4, <1>5, <1>6 DEF PciInv, RegistryStep

\* Every step keeps the invariant, and registers one device, takes one out with
\* what is below it, or leaves what is registered alone.
LEMMA PciStep ==
    ASSUME PciInv, [Next]_vars
    PROVE  PciInv' /\ RegistryStep
<1>1. CASE InitDevices
  BY <1>1, InitDevicesKeeps
<1>2. CASE vga_init
  BY <1>2, VgaInitKeeps
<1>3. CASE ps2_keyboard_init
  BY <1>3, KeyboardInitKeeps
<1>4. CASE pci_init
  BY <1>4, PciInitKeeps
<1>5. CASE ata_init
  BY <1>5, AtaInitKeeps
<1>6. CASE OutOfMemory \/ Stopped \/ Idle \/ UNCHANGED vars
  BY <1>6, OtherKeeps DEF Stopped, Idle
<1>7. CASE \E d \in Device : Unregister(d)
  BY <1>7, UnregisterKeeps
<1>8. CASE \E d \in Device \ InTree, parent \in Device \cup {Computer} : RegisterAt(d, parent)
  BY <1>8, RegisterAtKeeps
<1>9. CASE FindAll
  BY <1>9, FindAllKeeps
<1>10. CASE UseList
  BY <1>10, UseListKeeps
<1>11. CASE SortList
  BY <1>11, SortListKeeps
<1>12. CASE sata_init
  BY <1>12, SataInitKeeps
<1>13. CASE \E b \in Bars : LoadBar(b)
  BY <1>13, LoadBarKeeps
<1> QED BY <1>1, <1>2, <1>3, <1>4, <1>5, <1>6, <1>7, <1>8, <1>9, <1>10, <1>11, <1>12, <1>13 DEF Next

\* The invariant holds in every state.
LEMMA PciInvAlways == Spec => []PciInv
<1>1. PciInv /\ [Next]_vars => PciInv'
  BY PciStep
<1> QED BY <1>1, PciInvInit, PTL DEF Spec

-----------------------------------------------------------------------------
(* What the invariant says *)

\* UnderBar is Under.
LEMMA UnderBarIs == UnderBar = Under(mem, root) /\ InTree \ {Computer} = DOMAIN Under(mem, root)
BY DEF UnderBar, Under, InTree, Nodes, NodeOf

\* The types.
LEMMA TypesHold ==
    ASSUME PciInv
    PROVE  TypeOK
<1>1. DevicesTypeOK
  <2>1. CASE root = NULL
    <3>1. used = {} /\ list = NoList /\ orphans = {}
      BY <2>1 DEF PciInv, RegistryInv
    <3>2. list.size = 0
      BY <3>1 DEF NoList
    <3>3. 0 \in 0 .. NumCells
      BY DevicesAssumption
    <3> QED BY <2>1, <3>1, <3>2, <3>3 DEF DevicesTypeOK, PciInv, PciTypes
  <2>2. CASE root # NULL
    <3>1. PICK T, B, s : Shape(mem, used, root, list, orphans, T, B, s)
      BY <2>2 DEF PciInv, RegistryInv, Shaped
    <3>2. used \in SUBSET Addr /\ root \in used /\ orphans \in SUBSET Addr
      BY <3>1 DEF Shape, TreeRep
    <3>3. list.size \in 0 .. NumCells
      <4>1. CASE list = NoList
        BY <4>1, DevicesAssumption DEF NoList
      <4>2. CASE list # NoList
        <5>1. ListRep(mem, list, s) /\ Range(s) \subseteq Addr
          BY <3>1, <4>2 DEF Shape
        <5>2. list.size = Len(s) /\ s \in Seq(Addr) /\ IsInjective(s)
          BY <5>1, SomeList DEF ListRep
        <5>3. Cardinality(Range(s)) = Len(s)
          BY <5>2, LengthIsCardinality
        <5>4. Cardinality(Range(s)) \in Nat /\ Cardinality(Range(s)) <= NumCells
          BY <5>1, CellsFinite
        <5> QED BY <5>2, <5>3, <5>4, DevicesAssumption
      <4> QED BY <4>1, <4>2
    <3> QED BY <3>2, <3>3 DEF DevicesTypeOK, PciInv, PciTypes
  <2> QED BY <2>1, <2>2
<1>2. at \in (0 .. 255) \X (0 .. 31) \X Funcs
  BY Places DEF PciInv, PciTypes
<1> QED BY <1>1, <1>2 DEF TypeOK, PciInv, PciTypes

\* The tree is sound.
LEMMA TreeHolds ==
    ASSUME PciInv
    PROVE  TreeSound
<1>1. CASE root = NULL
  <2>1. Nodes = <<>>
    BY <1>1, VisitNull DEF PciInv, RegistryInv, Nodes
  <2>2. Range(Nodes) = {} /\ Len(Nodes) = 0
    BY <2>1 DEF Range
  <2>3. Cardinality({}) = 0
    BY FS_EmptySet
  <2> QED BY <2>2, <2>3 DEF TreeSound
<1>2. CASE root # NULL
  <2>1. PICK T, B, s : Shape(mem, used, root, list, orphans, T, B, s)
    BY <1>2 DEF PciInv, RegistryInv, Shaped
  <2>2. TreeRep(mem, root, T, B) /\ T \subseteq used
    BY <2>1 DEF Shape
  <2>3. Range(Nodes) = T /\ Len(Nodes) = Cardinality(T)
    BY <2>2, VisitTree DEF Nodes
  <2>4. ASSUME NEW n \in T \ {root}
        PROVE  mem[n].parent \in T /\ mem[n].parent # n /\ n \in Range(Visit(mem, mem[n].parent))
    <3> DEFINE p == mem[n].parent
    <3>1. p \in T /\ n \in Reach(B, mem[p].child)
      BY <2>2 DEF TreeRep
    <3>2. p \notin Reach(B, mem[p].child)
      BY <2>2, <3>1 DEF TreeRep, Joined, Parted
    <3>3. n \in Sub(mem, B, p) /\ p # n
      BY <3>1, <3>2 DEF Sub
    <3> HIDE DEF p
    <3>4. Range(Visit(mem, p)) = Sub(mem, B, p)
      BY <2>2, <3>1, VisitSub
    <3> QED BY <3>1, <3>3, <3>4 DEF p
  <2> QED BY <2>2, <2>3, <2>4 DEF TreeSound
<1> QED BY <1>1, <1>2

\* The searches by type are right.
LEMMA SearchHolds ==
    ASSUME PciInv
    PROVE  FoundByType
<1> SUFFICES ASSUME root # NULL, NEW t \in Types
             PROVE  LET d == device_find_by_type(t)
                        candidates == {e \in InTree : Type(e) = t}
                    IN IF candidates = {} THEN d = NoDevice ELSE d \in candidates
  BY DEF FoundByType
<1> DEFINE accepted == {d \in Device : Type(d) = t}
           candidates == {e \in InTree : Type(e) = t}
           n == generic_tree_find(mem, root, accepted)
<1>1. PICK T, B, s : Shape(mem, used, root, list, orphans, T, B, s)
  BY DEF PciInv, RegistryInv, Shaped
<1>2. TreeRep(mem, root, T, B) /\ NULL \notin T
  BY <1>1, NoNull DEF Shape, TreeRep
<1>3. InTree = {mem[x].data : x \in T}
  BY <1>2, VisitTree DEF InTree, Nodes
<1>4. Type(Computer) # t
  <2>1. Computer[1] = "computer"
    BY DEF Computer
  <2>2. Type(Computer) = "reserved"
    BY <2>1 DEF Type
  <2> QED BY <2>2 DEF Types
<1>5. \A x \in T : mem[x].data \in accepted <=> Type(mem[x].data) = t
  <2>1. \A x \in T : mem[x].data \in Device \cup {Computer}
    BY <1>2 DEF TreeRep, TreeNode
  <2> QED BY <1>4, <2>1
<1>6. IF \E x \in T : mem[x].data \in accepted THEN n \in T /\ mem[n].data \in accepted ELSE n = NULL
  BY <1>2, FindInTree
<1>7. device_find_by_type(t) = IF n = NULL THEN NoDevice ELSE mem[n].data
  BY DEF device_find_by_type
<1> HIDE DEF n, accepted
<1>8. CASE candidates = {}
  <2>1. \A x \in T : mem[x].data \notin accepted
    BY <1>3, <1>5, <1>8
  <2> QED BY <1>6, <1>7, <1>8, <2>1
<1>9. CASE candidates # {}
  <2>1. \E x \in T : mem[x].data \in accepted
    BY <1>3, <1>5, <1>9
  <2>2. n \in T /\ n # NULL /\ mem[n].data \in accepted
    BY <1>2, <1>6, <2>1
  <2>3. mem[n].data \in candidates
    BY <1>3, <1>5, <2>2
  <2> QED BY <1>7, <1>9, <2>2, <2>3
<1> QED BY <1>8, <1>9

\* The list that is handed out is sound.
LEMMA ListHolds ==
    ASSUME PciInv
    PROVE  ListSound
<1> SUFFICES ASSUME list # NoList
             PROVE  LET fwd == Forward(mem, list.head)
                        bwd == Backward(mem, list.tail)
                    IN /\ fwd = [i \in DOMAIN bwd |-> bwd[Len(bwd) + 1 - i]]
                       /\ list.size = Len(fwd)
                       /\ Cardinality(Range(Data(fwd))) = Len(fwd)
                       /\ Range(fwd) \subseteq used
  BY DEF ListSound
<1>1. root # NULL
  BY DEF PciInv, RegistryInv
<1>2. PICK T, B, s : Shape(mem, used, root, list, orphans, T, B, s)
  BY <1>1 DEF PciInv, RegistryInv, Shaped
<1>3. ListRep(mem, list, s) /\ Range(s) \subseteq used
  BY <1>2 DEF Shape
<1> DEFINE L == Len(s)
           bwd == Backward(mem, list.tail)
<1>4. Forward(mem, list.head) = s /\ list.size = L
  BY <1>3, ListForward, SomeList
<1>5. bwd = [i \in 1 .. L |-> s[L + 1 - i]] /\ Len(bwd) = L
  BY <1>3, ListBackward
<1>6. s \in Seq(Addr) /\ L \in Nat /\ DOMAIN s = 1 .. L /\ s = [i \in 1 .. L |-> s[i]]
  BY <1>3 DEF ListRep
<1> HIDE DEF L, bwd
<1>7. s = [i \in DOMAIN bwd |-> bwd[Len(bwd) + 1 - i]]
  <2>1. DOMAIN bwd = 1 .. L
    BY <1>5
  <2>2. ASSUME NEW i \in 1 .. L PROVE bwd[L + 1 - i] = s[i]
    <3>1. L + 1 - i \in 1 .. L /\ L + 1 - (L + 1 - i) = i
      BY <1>6
    <3> QED BY <1>5, <3>1
  <2> QED BY <1>5, <1>6, <2>1, <2>2
<1>8. Cardinality(Range(Data(s))) = Len(s)
  <2> DEFINE e == Data(s)
  <2>1. e = [i \in 1 .. L |-> mem[s[i]].data]
    BY <1>6 DEF Data
  <2>2. /\ \A i \in 1 .. L : mem[s[i]].data \in Device
        /\ \A i, j \in 1 .. L : mem[s[i]].data = mem[s[j]].data => i = j
    BY <1>3, <1>6 DEF ListRep, ListNode, L
  <2> HIDE DEF e
  <2>3. e \in Seq(Device) /\ Len(e) = L /\ DOMAIN e = 1 .. L
    BY <1>6, <2>1, <2>2
  <2>4. IsInjective(e)
    BY <2>1, <2>2, <2>3 DEF IsInjective
  <2>5. Cardinality(Range(e)) = Len(e)
    BY <2>3, <2>4, LengthIsCardinality
  <2> QED BY <2>3, <2>5 DEF e, L
<1> QED BY <1>3, <1>4, <1>7, <1>8 DEF L, bwd

\* What is in use is reached, or is an orphan.
LEMMA OnlyOrphans ==
    ASSUME PciInv
    PROVE  OnlyOrphansLost
<1>1. CASE root = NULL
  <2>1. Nodes = <<>> /\ used = {} /\ orphans = {} /\ list = NoList
    BY <1>1, VisitNull DEF PciInv, RegistryInv, Nodes
  <2>2. Range(Nodes) = {}
    BY <2>1 DEF Range
  <2> QED BY <2>1, <2>2 DEF OnlyOrphansLost
<1>2. CASE root # NULL
  <2>1. PICK T, B, s : Shape(mem, used, root, list, orphans, T, B, s)
    BY <1>2 DEF PciInv, RegistryInv, Shaped
  <2>2. /\ TreeRep(mem, root, T, B) /\ used = T \cup orphans \cup Range(s) /\ T \cap orphans = {}
        /\ IF list = NoList THEN s = <<>> ELSE ListRep(mem, list, s)
    BY <2>1 DEF Shape
  <2>3. Range(Nodes) = T
    BY <2>2, VisitTree DEF Nodes
  <2>4. Range(s) = IF list = NoList THEN {} ELSE Range(Forward(mem, list.head))
    <3>1. CASE list = NoList
      BY <2>2, <3>1 DEF Range
    <3>2. CASE list # NoList
      BY <2>2, <3>2, ListForward
    <3> QED BY <3>1, <3>2
  <2> QED BY <2>2, <2>3, <2>4 DEF OnlyOrphansLost
<1> QED BY <1>1, <1>2

\* At the end of the boot the scan has found what is there.
LEMMA ScanHolds ==
    ASSUME PciInv
    PROVE  ScanExact
<1> DEFINE U == Under(mem, root)
<1>1. ASSUME pc = "up", calls = 0, NEW p \in Positions
      PROVE  /\ {f \in Funcs : Machine(p, f) \in InTree} = machine[p].funcs
             /\ \A f \in machine[p].funcs :
                   LET d == Machine(p, f)
                       first == Min(machine[p].funcs)
                   IN /\ UnderBar[d] = IF f = first THEN Computer ELSE Machine(p, first)
                      /\ info[d].vendor_id = Register(p, f, 0) + (256 * Register(p, f, 1))
                      /\ info[d].device_id = Register(p, f, 2) + (256 * Register(p, f, 3))
                      /\ info[d].classcode = Register(p, f, 11) /\ info[d].subclass = Register(p, f, 10)
  <2>1. Scanned(machine, U, info, p, NumFuncs) /\ machine \in [Positions -> Contents]
    BY <1>1 DEF PciInv, PciTypes, ScanInv, AllScanned
  <2>2. machine[p] \in Contents
    BY <2>1
  <2>3. machine[p].funcs \in SUBSET Funcs /\ \A f \in Funcs : f < NumFuncs
    BY <2>2, ContentsOf, Places
  <2>4. UnderBar = U /\ InTree \ {Computer} = DOMAIN U
    BY UnderBarIs
  <2> HIDE DEF U
  <2>5. \A f \in Funcs : Machine(p, f) # Computer
    BY Machines, DevicesAssumption
  <2>6. \A f \in Funcs : Machine(p, f) \in InTree <=> f \in machine[p].funcs
    BY <2>1, <2>3, <2>4, <2>5 DEF Scanned
  <2>7. \A f \in machine[p].funcs :
            /\ U[Machine(p, f)] = IF f = Min(machine[p].funcs) THEN Computer ELSE Machine(p, Min(machine[p].funcs))
            /\ Fields(machine, p, f, info[Machine(p, f)])
    BY <2>1, <2>3 DEF Scanned
  <2>8. \A f, o : Register(p, f, o) = Byte(machine, p, f, o)
    BY DEF Register, Byte
  <2> QED BY <2>3, <2>4, <2>6, <2>7, <2>8 DEF Fields
<1>2. PciFound
  BY <1>1, Zenon DEF PciFound
<1>3. MessageFits
  BY DEF PciInv
<1> QED BY <1>2, <1>3 DEF ScanExact

-----------------------------------------------------------------------------
(* Theorems *)

(***************************************************************************)
(* The tree, the list that is handed out and the searches are sound in     *)
(* every state, for every machine and every number of devices and cells.   *)
(***************************************************************************)
THEOREM RegistryIsSound == Spec => []RegistrySound
<1>1. PciInv => RegistrySound
  BY TypesHold, TreeHolds, SearchHolds, ListHolds DEF RegistrySound
<1> QED BY <1>1, PciInvAlways, PTL

(***************************************************************************)
(* Memory is lost only below a device that was taken out                   *)
(* (device_unregister).                                                    *)
(***************************************************************************)
THEOREM LostOnlyBelowUnregistered == Spec => []OnlyOrphansLost
<1>1. PciInv => OnlyOrphansLost
  BY OnlyOrphans
<1> QED BY <1>1, PciInvAlways, PTL

(***************************************************************************)
(* The scan finds every function once, on every machine, and its messages  *)
(* fit where bus and slot have one digit (pci_init).                       *)
(***************************************************************************)
THEOREM ScanFindsAll == Spec => []ScanExact
<1>1. PciInv => ScanExact
  BY ScanHolds
<1> QED BY <1>1, PciInvAlways, PTL

(***************************************************************************)
(* The tree on its pointers implements the abstract registry: the first    *)
(* state has no device, and a step registers one device, takes one out     *)
(* with all below it, or changes nothing.                                  *)
(***************************************************************************)
THEOREM TreeImplementsRegistry == Spec => ImplementsRegistry
<1>1. Init => Registry!Init
  <2> SUFFICES ASSUME Init PROVE Registry!Init
    OBVIOUS
  <2>1. DOMAIN mem = Addr /\ root = NULL
    BY DEF Init, DevicesInit
  <2>2. UnderBar = [d \in {} |-> Computer]
    BY <2>1, UnderBarIs, VisitNull
  <2> QED BY <2>2 DEF Registry!Init
<1>2. PciInv /\ [Next]_vars => [Registry!Next]_UnderBar
  <2> SUFFICES ASSUME PciInv, [Next]_vars PROVE [Registry!Next]_UnderBar
    OBVIOUS
  <2> DEFINE U == UnderBar
             V == UnderBar'
  <2>1. U = Under(mem, root) /\ V = Under(mem', root')
    BY DEF UnderBar, Under, InTree, Nodes, NodeOf
  <2>2. V = U \/ Registered(U, V) \/ Shrunk(U, V)
    <3>1. RegistryStep
      BY PciStep
    <3> QED BY <2>1, <3>1 DEF RegistryStep
  <2>3. CASE V = U
    BY <2>3
  <2>4. CASE Registered(U, V)
    <3> HIDE DEF U, V
    <3>1. PICK d \in Device \ DOMAIN U, q \in DOMAIN U \cup {Computer} : V = Extended(U, d, q)
      BY <2>4 DEF Registered
    <3>2. /\ d \in DOMAIN V \ DOMAIN U /\ V[d] = q
          /\ V = [e \in DOMAIN U \cup {d} |-> IF e = d THEN V[d] ELSE U[e]]
      BY <3>1 DEF Extended
    <3>3. /\ d \in Device /\ V[d] \in DOMAIN U \cup {Computer}
      BY <3>1, <3>2
    <3> QED BY <3>2, <3>3 DEF U, V, Registry!Next, Registry!Register
  <2>5. CASE Shrunk(U, V)
    <3> HIDE DEF U, V
    <3> DEFINE gone == DOMAIN U \ DOMAIN V
    <3>1. PICK d \in gone : /\ \A e \in DOMAIN U : e \in gone <=> e = d \/ U[e] \in gone
                            /\ V = [e \in DOMAIN U \ gone |-> U[e]]
      BY <2>5 DEF Shrunk
    <3> QED BY <3>1 DEF U, V, Registry!Next, Registry!Unregister
  <2> QED BY <2>2, <2>3, <2>4, <2>5
<1> QED BY <1>1, <1>2, PciInvAlways, PTL DEF Spec, ImplementsRegistry, Registry!Spec

-----------------------------------------------------------------------------
(* Base address registers *)

\* What is left is unique.
LEMMA Remainder ==
    ASSUME NEW n \in Nat \ {0}, NEW q \in Nat, NEW r \in 0 .. n - 1
    PROVE  ((n * q) + r) % n = r
<1> DEFINE x == (n * q) + r
           p == x \div n
           e == x % n
<1>1. x \in Nat
  OBVIOUS
<1>2. p \in Nat /\ e \in 0 .. n - 1 /\ x = (n * p) + e
  BY <1>1, Quotient
<1> HIDE DEF p, e
<1>3. n * (p - q) = r - e
  BY <1>2
<1>4. p - q \in Int /\ -n < n * (p - q) /\ n * (p - q) < n
  BY <1>2, <1>3
<1>5. p - q = 0
  BY <1>4
<1> QED BY <1>2, <1>5 DEF e

\* A multiple of a multiple.
LEMMA MultipleOfMultiple ==
    ASSUME NEW x \in Nat, NEW n \in Nat \ {0}, NEW d \in {4, 16}, x % n = 0, n % d = 0
    PROVE  x % d = 0
<1>1. x \div n \in Nat /\ x = n * (x \div n)
  BY Quotient
<1>2. n \div d \in Nat /\ n = d * (n \div d)
  BY Quotient
<1> DEFINE i == x \div n
           j == n \div d
<1> HIDE DEF i, j
<1>3. i \in Nat /\ j \in Nat /\ x = (d * j) * i
  BY <1>1, <1>2 DEF i, j
<1> DEFINE q == j * i
<1>4. q \in Nat /\ x = (d * q) + 0 /\ d \in Nat \ {0} /\ 0 \in 0 .. d - 1
  BY <1>3
<1> HIDE DEF q
<1>5. ((d * q) + 0) % d = 0
  BY <1>4, Remainder
<1> QED BY <1>4, <1>5

\* The largest number below a multiple, and the multiples below one.
LEMMA BelowMultiple ==
    ASSUME NEW x \in Nat, NEW n \in Nat \ {0}, x % n = 0, x # 0
    PROVE  /\ (x - 1) % n = n - 1
           /\ \A y \in Nat : y < x /\ y % n = 0 => y + n <= x
<1> DEFINE q == x \div n
<1>1. q \in Nat /\ x = n * q
  BY Quotient
<1> HIDE DEF q
<1>2. q # 0
  BY <1>1
<1>3. q - 1 \in Nat /\ x - 1 = (n * (q - 1)) + (n - 1) /\ n - 1 \in 0 .. n - 1
  BY <1>1, <1>2
<1>4. ((n * (q - 1)) + (n - 1)) % n = n - 1
  BY <1>3, Remainder
<1>5. ASSUME NEW y \in Nat, y < x, y % n = 0 PROVE y + n <= x
  <2> DEFINE p == y \div n
  <2>1. p \in Nat /\ y = n * p
    BY <1>5, Quotient
  <2> HIDE DEF p
  <2>2. p < q
    <3>1. ASSUME p >= q PROVE FALSE
      <4>1. p - q \in Nat /\ n * (p - q) \in Nat
        BY <1>1, <2>1, <3>1
      <4>2. n * (p - q) = y - x
        BY <1>1, <2>1
      <4> QED BY <1>5, <4>1, <4>2
    <3> QED BY <1>1, <2>1, <3>1
  <2>3. q - p - 1 \in Nat /\ n * (q - p - 1) \in Nat
    BY <1>1, <2>1, <2>2
  <2>4. n * (q - p - 1) = x - y - n
    BY <1>1, <2>1
  <2> QED BY <2>3, <2>4
<1> QED BY <1>3, <1>4, <1>5

\* What a register holds for its address and for all ones, and after the
\* address was written back.
LEMMA HeldValues ==
    ASSUME NEW b \in Bars, b.size # 0
    PROVE  /\ Held(b, b.address) = b.address + b.flags
           /\ Held(b, BarWord - 1) = b.top - b.size + b.flags
           /\ Held(b, b.address + b.flags) = b.address + b.flags
           /\ \E d \in {4, 16} : /\ b.address % d = 0 /\ (b.top - b.size) % d = 0 /\ b.flags < d
                                 /\ IF d = 4 THEN b.flags = 1 ELSE b.flags % 2 = 0
<1> DEFINE n == b.size
           a == b.address
           g == b.flags
           m == b.top
<1>1. /\ BarWord \in Nat \ {0}
      /\ n \in Nat \ {0} /\ m \in Nat \ {0} /\ n < m /\ a \in Nat /\ a < m /\ g \in 0 .. 15
      /\ BarWord % m = 0 /\ m % n = 0 /\ a % n = 0
      /\ \/ g = 1 /\ n % 4 = 0
         \/ g % 2 = 0 /\ n % 16 = 0
  BY BarsAssumption
<1> HIDE DEF n, a, g, m
<1>2. PICK d \in {4, 16} : n % d = 0 /\ IF d = 4 THEN g = 1 ELSE g % 2 = 0
  BY <1>1
<1>3. g < d /\ d <= n
  BY <1>1, <1>2
<1>4. a % d = 0 /\ m % d = 0
  BY <1>1, <1>2, MultipleOfMultiple
<1>5. m - n \in Nat /\ (m - n) % d = 0
  BY <1>1, <1>2, <1>4
<1>6. ASSUME NEW v \in Nat PROVE Held(b, v) = (v % m) - (v % n) + g
  BY <1>1 DEF Held, n, g, m
<1>7. (BarWord - 1) % m = m - 1 /\ (BarWord - 1) % n = n - 1 /\ BarWord - 1 \in Nat
  <2>0. BarWord \in Nat /\ BarWord # 0 /\ BarWord - 1 \in Nat
    BY <1>1
  <2>1. (BarWord - 1) % m = m - 1
    BY <1>1, <2>0, BelowMultiple
  <2> DEFINE q == BarWord \div m
             k == m \div n
  <2>2. q \in Nat /\ BarWord = m * q /\ k \in Nat /\ m = n * k
    BY <1>1, Quotient
  <2> HIDE DEF q, k
  <2>3. BarWord = (n * k) * q
    BY <2>2
  <2> DEFINE z == k * q
  <2>4. z \in Nat /\ BarWord = (n * z) + 0 /\ 0 \in 0 .. n - 1
    BY <1>1, <2>2, <2>3
  <2> HIDE DEF z
  <2>5. ((n * z) + 0) % n = 0
    BY <1>1, <2>4, Remainder
  <2>6. BarWord % n = 0
    BY <2>4, <2>5
  <2>7. (BarWord - 1) % n = n - 1
    BY <1>1, <2>0, <2>6, BelowMultiple
  <2> QED BY <2>0, <2>1, <2>7
<1>8. (a + g) % n = g /\ (a + g) % m = a + g /\ a % m = a
  <2>1. a \div n \in Nat /\ a = n * (a \div n)
    BY <1>1, Quotient
  <2>2. g \in 0 .. n - 1
    BY <1>1, <1>2, <1>3
  <2>3. ((n * (a \div n)) + g) % n = g
    BY <1>1, <2>1, <2>2, Remainder
  <2>4. a + n <= m
    BY <1>1, BelowMultiple
  <2>5. a + g \in Nat /\ a + g < m
    BY <1>1, <2>2, <2>4
  <2>6. ((m * 0) + (a + g)) % m = a + g /\ ((m * 0) + a) % m = a
    <3>1. a + g \in 0 .. m - 1 /\ a \in 0 .. m - 1
      BY <1>1, <2>5
    <3> QED BY <1>1, <3>1, Remainder
  <2>7. (m * 0) + (a + g) = a + g /\ (m * 0) + a = a
    BY <1>1
  <2> QED BY <2>1, <2>3, <2>6, <2>7
<1>9. Held(b, a) = a + g
  <2>1. Held(b, a) = (a % m) - (a % n) + g
    BY <1>1, <1>6
  <2>2. Held(b, a) = a - 0 + g
    BY <1>1, <1>8, <2>1
  <2> QED BY <1>1, <2>2
<1>10. Held(b, BarWord - 1) = m - n + g
  <2>1. Held(b, BarWord - 1) = (m - 1) - (n - 1) + g
    BY <1>6, <1>7
  <2> QED BY <1>1, <2>1
<1>11. Held(b, a + g) = a + g
  <2>1. a + g \in Nat
    BY <1>1
  <2>2. Held(b, a + g) = (a + g) - g + g
    BY <1>6, <1>8, <2>1
  <2> QED BY <1>1, <2>2
<1> QED BY <1>2, <1>3, <1>4, <1>5, <1>9, <1>10, <1>11 DEF n, a, g, m

\* A register without a size holds nothing.
LEMMA HeldNothing ==
    ASSUME NEW b \in Bars, b.size = 0
    PROVE  b.address = 0 /\ b.flags = 0 /\ \A v : Held(b, v) = 0
BY BarsAssumption DEF Held

\* What probing a register gives.
Probed(b, did) ==
    LET valid == b.index \in 0 .. 5 /\ b.header = 0
    IN  /\ did.after = Held(b, b.address)
        /\ did.result = 0 => valid
        /\ valid /\ Decoded(b) =>
              /\ did.result = 0 /\ did.flags = b.flags
              /\ did.base = IF b.flags = 1 THEN b.address % PortWord ELSE b.address + b.flags
              /\ did.size = IF b.size = 0 THEN 0 ELSE b.size + (BarWord - b.top)

\* pci_load_bar_info, register by register.
LEMMA ProbeGives ==
    ASSUME NEW b \in Bars
    PROVE  Probed(b, pci_load_bar_info(b))
<1> DEFINE n == b.size
           a == b.address
           g == b.flags
           m == b.top
           found == IF n = 0 THEN 0 ELSE n + (BarWord - m)
           held == Held(b, b.address)
           mask == Held(b, BarWord - 1)
           after == Held(b, held)
           did == pci_general_load_bar_info(b)
<1>1. /\ BarWord \in Nat \ {0} /\ m \in Nat /\ (n # 0 => n < m /\ m <= BarWord)
      /\ n \in Nat /\ a \in Nat /\ g \in 0 .. 15 /\ b.index \in Nat
  BY BarsAssumption
<1>2. /\ held = a + g /\ after = held
      /\ mask - (mask % (IF g = 1 THEN 4 ELSE 16)) = (IF n = 0 THEN 0 ELSE m - n)
      /\ held % (IF g = 1 THEN 4 ELSE 16) = g
      /\ g = 1 \/ g % 2 = 0
      /\ held % 2 = g % 2 /\ held % 4 = g % 4
  <2>1. CASE n = 0
    <3>1. held = 0 /\ mask = 0 /\ after = 0 /\ a = 0 /\ g = 0
      BY <2>1, HeldNothing
    <3> HIDE DEF held, mask, after, a, g
    <3> QED BY <2>1, <3>1
  <2>2. CASE n # 0
    <3>1. held = a + g /\ mask = m - n + g /\ after = held
      BY <2>2, HeldValues
    <3>2. PICK d \in {4, 16} : /\ a % d = 0 /\ (m - n) % d = 0 /\ g < d
                               /\ IF d = 4 THEN g = 1 ELSE g % 2 = 0
      BY <2>2, HeldValues
    <3>3. m - n \in Nat
      BY <1>1, <2>2
    <3> DEFINE w == m - n
    <3> HIDE DEF held, mask, after, a, g, n, m
    <3>4. CASE d = 4
      <4>1. g = 1 /\ a % 4 = 0 /\ w % 4 = 0
        BY <3>2, <3>4
      <4> HIDE DEF w
      <4>2. (w + g) % 4 = 1 /\ (a + g) % 4 = 1 /\ (a + g) % 2 = 1
        BY <1>1, <3>3, <4>1 DEF w
      <4>3. mask = w + g
        BY <3>1 DEF w
      <4> QED BY <1>1, <2>2, <3>1, <3>3, <4>1, <4>2, <4>3 DEF w
    <3>5. CASE d = 16
      <4>1. g % 2 = 0 /\ a % 16 = 0 /\ w % 16 = 0 /\ g # 1
        BY <1>1, <3>2, <3>5
      <4> HIDE DEF w
      <4>2. (w + g) % 16 = g /\ (a + g) % 16 = g /\ (a + g) % 2 = 0 /\ (a + g) % 4 = g % 4
        BY <1>1, <3>3, <4>1 DEF w
      <4>3. mask = w + g
        BY <3>1 DEF w
      <4> QED BY <1>1, <2>2, <3>1, <3>3, <4>1, <4>2, <4>3 DEF w
    <3> QED BY <3>2, <3>4, <3>5
  <2> QED BY <2>1, <2>2
<1>3. Negated(IF n = 0 THEN 0 ELSE m - n) = found
  <2>1. CASE n = 0
    <3>1. ((BarWord * 1) + 0) % BarWord = 0
      BY <1>1, Remainder
    <3> QED BY <1>1, <2>1, <3>1 DEF Negated
  <2>2. CASE n # 0
    <3>1. BarWord - (m - n) = found /\ found \in 0 .. BarWord - 1
      BY <1>1, <2>2
    <3> HIDE DEF found
    <3>2. ((BarWord * 0) + found) % BarWord = found
      BY <1>1, <3>1, Remainder
    <3> QED BY <1>1, <2>2, <3>1, <3>2 DEF Negated
  <2> QED BY <2>1, <2>2
<1>4. did = CASE b.index > 5 -> [result |-> -1, after |-> held]
         [] b.index <= 5 /\ held % 2 = 1 ->
              [result |-> 0, size |-> Negated(mask - (mask % 4)), base |-> (held - (held % 4)) % PortWord,
               flags |-> held % 4, after |-> after]
         [] b.index <= 5 /\ held % 2 = 0 /\ held % 4 # 0 -> [result |-> -1, after |-> held]
         [] OTHER ->
              [result |-> 0, size |-> Negated(mask - (mask % 16)), base |-> held,
               flags |-> held % 16, after |-> after]
  BY DEF pci_general_load_bar_info
<1>5. CASE b.header # 0
  <2>1. pci_load_bar_info(b) = [result |-> -1, after |-> held]
    BY <1>5 DEF pci_load_bar_info
  <2> HIDE DEF held
  <2>2. pci_load_bar_info(b).result = -1 /\ pci_load_bar_info(b).after = held
    BY <2>1
  <2> QED BY <1>5, <2>2 DEF Probed, held
<1>6. CASE b.header = 0
  <2>1. pci_load_bar_info(b) = did
    BY <1>6 DEF pci_load_bar_info
  <2> HIDE DEF held, mask, after, did, n, a, g, m, found
  <2>2. CASE b.index > 5
    <3>1. did.result = -1 /\ did.after = held
      BY <1>1, <1>4, <2>2
    <3> QED BY <1>1, <2>1, <2>2, <3>1 DEF Probed, held, a
  <2>3. CASE b.index <= 5 /\ g = 1
    <3>1. held % 2 = 1 /\ held % 4 = 1 /\ mask - (mask % 4) = IF n = 0 THEN 0 ELSE m - n
      BY <1>2, <2>3
    <3>2. did = [result |-> 0, size |-> Negated(mask - (mask % 4)), base |-> (held - (held % 4)) % PortWord,
                 flags |-> held % 4, after |-> after]
      BY <1>1, <1>4, <2>3, <3>1
    <3>3. Negated(mask - (mask % 4)) = found
      BY <1>3, <3>1
    <3>4. held - (held % 4) = a
      BY <1>1, <1>2, <2>3, <3>1
    <3>5. /\ did.result = 0 /\ did.size = found /\ did.base = a % PortWord
          /\ did.flags = g /\ did.after = held
      BY <1>2, <2>3, <3>1, <3>2, <3>3, <3>4
    <3> QED BY <1>1, <1>6, <2>1, <2>3, <3>5 DEF Probed, held, a, g, n, m, found
  <2>4. CASE b.index <= 5 /\ g # 1 /\ g % 4 # 0
    <3>1. held % 2 = 0 /\ held % 4 # 0 /\ g % 4 = 2
      BY <1>1, <1>2, <2>4
    <3>2. did = [result |-> -1, after |-> held]
      BY <1>1, <1>4, <2>4, <3>1
    <3>3. did.result = -1 /\ did.after = held
      BY <3>2
    <3>4. ~Decoded(b)
      BY <1>1, <2>4, <3>1 DEF Decoded, g
    <3> QED BY <2>1, <3>3, <3>4 DEF Probed, held, a, g
  <2>5. CASE b.index <= 5 /\ g # 1 /\ g % 4 = 0
    <3>1. held % 2 = 0 /\ held % 4 = 0 /\ mask - (mask % 16) = (IF n = 0 THEN 0 ELSE m - n)
          /\ held % 16 = g
      BY <1>1, <1>2, <2>5
    <3>2. did = [result |-> 0, size |-> Negated(mask - (mask % 16)), base |-> held,
                 flags |-> held % 16, after |-> after]
      BY <1>1, <1>4, <2>5, <3>1
    <3>3. Negated(mask - (mask % 16)) = found
      BY <1>3, <3>1
    <3>4. did.result = 0 /\ did.size = found /\ did.base = a + g /\ did.flags = g /\ did.after = held
      BY <1>1, <1>2, <2>5, <3>1, <3>2, <3>3
    <3> QED BY <1>1, <1>6, <2>1, <2>5, <3>4 DEF Probed, held, a, g, n, m, found
  <2>6. b.index > 5 \/ b.index <= 5
    BY <1>1
  <2> QED BY <2>2, <2>3, <2>4, <2>5, <2>6
<1> QED BY <1>5, <1>6

\* What a driver last loaded is what probing one of the registers gives.
LoadedInv == loaded = NotLoaded \/ \E b \in Bars : loaded = [bar |-> b, did |-> pci_load_bar_info(b)]

(***************************************************************************)
(* Whatever register a driver asks for, it is left as it was; and of one   *)
(* for ports or for memory of 32 bits the driver is told the flags, the    *)
(* address as far as io_port holds it, and a size that is right when no    *)
(* bit is wired to 0 at the top (pci_general_load_bar_info).               *)
(***************************************************************************)
THEOREM RegistersProbed == Spec => []BarProbed
<1>1. Init => LoadedInv
  BY DEF Init, LoadedInv
<1>2. LoadedInv /\ [Next]_vars => LoadedInv'
  <2> SUFFICES ASSUME LoadedInv, [Next]_vars PROVE LoadedInv'
    OBVIOUS
  <2>1. CASE \E b \in Bars : LoadBar(b)
    BY <2>1 DEF LoadBar, CallThat, LoadedInv
  <2>2. CASE loaded' = loaded
    BY <2>2 DEF LoadedInv
  <2>3. CASE loaded' = NotLoaded
    BY <2>3 DEF LoadedInv, NotLoaded
  <2>4. ASSUME Next PROVE (\E b \in Bars : LoadBar(b)) \/ loaded' = loaded \/ loaded' = NotLoaded
    BY <2>4 DEF Next, InitDevices, vga_init, ps2_keyboard_init, Boot, pci_init, ata_init,
       OutOfMemory, Stopped, Idle, Unregister, RegisterAt, FindAll, UseList, SortList, sata_init,
       Call, CallThat, vars
  <2> QED BY <2>1, <2>2, <2>3, <2>4 DEF vars
<1>3. LoadedInv => BarProbed
  <2> SUFFICES ASSUME LoadedInv, "did" \in DOMAIN loaded PROVE Probed(loaded.bar, loaded.did)
    BY DEF BarProbed, Probed
  <2>1. loaded # NotLoaded
    BY DEF NotLoaded
  <2>2. PICK b \in Bars : loaded = [bar |-> b, did |-> pci_load_bar_info(b)]
    BY <2>1 DEF LoadedInv
  <2>3. loaded.bar = b /\ loaded.did = pci_load_bar_info(b)
    BY <2>2
  <2> QED BY <2>3, ProbeGives
<1> QED BY <1>1, <1>2, <1>3, PTL DEF Spec
=============================================================================
