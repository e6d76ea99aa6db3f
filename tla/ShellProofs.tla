------------------------------ MODULE ShellProofs ------------------------------
(***************************************************************************)
(* Proofs about Shell, for every set of lines and every size of the heap:  *)
(* the arguments of a command are the words of the line, the one command   *)
(* it names is called, and the shell loses nothing but what is known.      *)
(***************************************************************************)
EXTENDS Shell, FiniteSetTheorems, WellFoundedInduction, TLAPS

-----------------------------------------------------------------------------
(* The words of a line *)

\* What a line is made of.
Text == STRING \cup {"end"}

\* Every line is made of it.
LEMMA LinesAreText ==
    ASSUME NEW l \in Lines
    PROVE  l \in Seq(Text) /\ \A i \in 1 .. Len(l) - 1 : l[i] = Blank \/ l[i + 1] = Blank
<1>1. l \in Seq(STRING)
  BY ShellAssumption
<1>2. l = [i \in 1 .. Len(l) |-> l[i]] /\ Len(l) \in Nat /\ \A i \in 1 .. Len(l) : l[i] \in STRING
  BY <1>1
<1>3. \A i \in 1 .. Len(l) : l[i] \in Text
  BY <1>2, Zenon DEF Text
<1> QED
  BY <1>2, <1>3, ShellAssumption

\* A set of numbers that is not empty has a least one.
LEMMA LeastNumber ==
    ASSUME NEW S \in SUBSET Nat, S # {}
    PROVE  \E x \in S : \A y \in S : x <= y
<1>1. PICK x \in S : \A y \in S : <<y, x>> \notin OpToRel(<, Nat)
  BY NatLessThanWellFounded, WFMin
<1>2. ASSUME NEW y \in S PROVE x <= y
  <2>1. ~(y < x)
    BY <1>1 DEF OpToRel
  <2> QED
    BY <2>1
<1> QED
  BY <1>2

\* What Min gives.
LEMMA MinOfSet ==
    ASSUME NEW S \in SUBSET Nat, S # {}
    PROVE  Min(S) \in S /\ \A y \in S : Min(S) <= y
BY LeastNumber DEF Min

\* The words of the first n places: there is such a function for every n.
PrefixWords(l, n, f) ==
    f = [k \in 0 .. n |-> IF k = 0 THEN <<>>
                          ELSE IF l[k] = Blank THEN f[k - 1] ELSE Append(f[k - 1], l[k])]

LEMMA PrefixWordsExist ==
    ASSUME NEW l, NEW n \in Nat
    PROVE  \E f : PrefixWords(l, n, f)
<1> DEFINE Bad == {m \in Nat : ~\E f : PrefixWords(l, m, f)}
<1> SUFFICES Bad = {}
  OBVIOUS
<1> SUFFICES ASSUME Bad # {} PROVE FALSE
  OBVIOUS
<1>1. PICK m \in Bad : \A y \in Bad : m <= y
  BY LeastNumber
<1>2. m # 0
  <2> DEFINE g == [k \in 0 .. 0 |-> <<>>]
  <2>1. g = [k \in 0 .. 0 |-> IF k = 0 THEN <<>>
                          ELSE IF l[k] = Blank THEN g[k - 1] ELSE Append(g[k - 1], l[k])]
    OBVIOUS
  <2>2. PrefixWords(l, 0, g)
    BY <2>1 DEF PrefixWords
  <2> QED
    BY <1>1, <2>2
<1>3. m \in Nat /\ m - 1 \in Nat /\ m - 1 \notin Bad
  BY <1>1, <1>2
<1>4. PICK f : PrefixWords(l, m - 1, f)
  BY <1>3
<1> DEFINE last == IF l[m] = Blank THEN f[m - 1] ELSE Append(f[m - 1], l[m])
           g == [k \in 0 .. m |-> IF k = m THEN last ELSE f[k]]
<1>5. \A k \in 0 .. m - 1 : g[k] = f[k]
  BY <1>3
<1>6. \A k \in 0 .. m - 1 : f[k] = IF k = 0 THEN <<>>
                          ELSE IF l[k] = Blank THEN f[k - 1] ELSE Append(f[k - 1], l[k])
  BY <1>4 DEF PrefixWords
<1>7. ASSUME NEW k \in 0 .. m
      PROVE  g[k] = IF k = 0 THEN <<>>
                    ELSE IF l[k] = Blank THEN g[k - 1] ELSE Append(g[k - 1], l[k])
  <2>1. CASE k = m
    <3>1. g[k] = last /\ g[k - 1] = f[m - 1] /\ k # 0
      BY <1>2, <1>3, <1>5, <2>1
    <3> QED
      BY <2>1, <3>1
  <2>2. CASE k # m
    <3>1. k \in 0 .. m - 1 /\ (k # 0 => k - 1 \in 0 .. m - 1)
      BY <1>3, <2>2
    <3>2. g[k] = f[k] /\ (k # 0 => g[k - 1] = f[k - 1])
      BY <1>5, <3>1
    <3> HIDE DEF g
    <3> QED
      BY <1>6, <3>1, <3>2
  <2> QED
    BY <2>1, <2>2
<1>8. g = [k \in 0 .. m |-> g[k]]
  OBVIOUS
<1> HIDE DEF g
<1>9. PrefixWords(l, m, g)
  BY <1>7, <1>8 DEF PrefixWords
<1> QED
  BY <1>1, <1>9

\* WordsUpTo satisfies its equation.
LEMMA WordsEquation ==
    ASSUME NEW l \in Seq(Text)
    PROVE  /\ WordsUpTo(l)[0] = <<>>
           /\ \A k \in 1 .. Len(l) :
                 WordsUpTo(l)[k] = IF l[k] = Blank THEN WordsUpTo(l)[k - 1]
                                                   ELSE Append(WordsUpTo(l)[k - 1], l[k])
<1>1. \E f : PrefixWords(l, Len(l), f)
  <2>1. Len(l) \in Nat
    OBVIOUS
  <2> QED
    BY <2>1, PrefixWordsExist
<1>2. WordsUpTo(l) = CHOOSE f : PrefixWords(l, Len(l), f)
  BY Zenon DEF WordsUpTo, PrefixWords
<1> DEFINE w == WordsUpTo(l)
<1>3. PrefixWords(l, Len(l), w)
  BY <1>1, <1>2
<1> HIDE DEF w
<1>4. \A k \in 0 .. Len(l) :
         w[k] = IF k = 0 THEN <<>>
                ELSE IF l[k] = Blank THEN w[k - 1] ELSE Append(w[k - 1], l[k])
  BY <1>3 DEF PrefixWords
<1>5. Len(l) \in Nat
  OBVIOUS
<1>6. /\ w[0] = <<>>
      /\ \A k \in 1 .. Len(l) : w[k] = IF l[k] = Blank THEN w[k - 1] ELSE Append(w[k - 1], l[k])
  BY <1>4, <1>5
<1> QED
  BY <1>6 DEF w

\* Blanks add no word.
LEMMA BlanksAddNothing ==
    ASSUME NEW l \in Seq(Text), NEW i \in 0 .. Len(l), NEW j \in i .. Len(l),
           \A k \in i + 1 .. j : l[k] = Blank
    PROVE  WordsUpTo(l)[j] = WordsUpTo(l)[i]
<1> DEFINE Bad == {k \in i .. j : WordsUpTo(l)[k] # WordsUpTo(l)[i]}
<1> SUFFICES ASSUME Bad # {} PROVE FALSE
  OBVIOUS
<1>0. Bad \in SUBSET Nat
  OBVIOUS
<1>1. PICK m \in Bad : \A y \in Bad : m <= y
  BY <1>0, LeastNumber
<1>2. m \in i + 1 .. j /\ m - 1 \in i .. j /\ m \in 1 .. Len(l)
  BY <1>1
<1>3. m - 1 \notin Bad
  BY <1>1, <1>2
<1>4. WordsUpTo(l)[m] = WordsUpTo(l)[m - 1]
  BY <1>2, WordsEquation
<1> QED
  BY <1>1, <1>2, <1>3, <1>4

-----------------------------------------------------------------------------
(* strtok *)

\* Where the blanks end.
LEMMA SkipFacts ==
    ASSUME NEW s \in Seq(Text), NEW i \in 1 .. Len(s) + 1
    PROVE  LET r == SkipBlanks(s, i)
           IN  /\ r \in i .. Len(s) + 1
               /\ \A k \in i .. r - 1 : s[k] = Blank
               /\ r <= Len(s) => s[r] # Blank
<1> DEFINE S == {k \in i .. Len(s) + 1 : k > Len(s) \/ s[k] # Blank}
<1>1. S \in SUBSET Nat /\ Len(s) + 1 \in S
  OBVIOUS
<1>2. Min(S) \in S /\ \A y \in S : Min(S) <= y
  BY <1>1, MinOfSet
<1>3. SkipBlanks(s, i) = Min(S)
  BY DEF SkipBlanks
<1> DEFINE r == Min(S)
<1>4. r \in i .. Len(s) + 1 /\ (r > Len(s) \/ s[r] # Blank) /\ \A y \in S : r <= y
  BY <1>2
<1> HIDE DEF r
<1>5. ASSUME NEW k \in i .. r - 1 PROVE s[k] = Blank
  <2>1. k \notin S /\ k \in i .. Len(s) + 1
    BY <1>4
  <2> QED
    BY <2>1
<1> QED
  BY <1>3, <1>4, <1>5 DEF r

\* The words that the arguments a point to in s, and the blanks before place k.
ArgWords(s, a) == [i \in DOMAIN a |-> s[a[i]]]
BlanksBefore(l, k) == {i \in DOMAIN l : i < k /\ l[i] = Blank}

\* The line l has been split up to place from, or to its end: the arguments
\* are its words so far, and each but the last has a blank behind it.
Parsed(l, s, a, from) ==
    /\ s \in Seq(Text) /\ a \in Seq(Nat) /\ Len(s) = Len(l)
    /\ \A i \in DOMAIN a : a[i] \in 1 .. Len(l)
    /\ from = 0 =>
          /\ ArgWords(s, a) = Words(l)
          /\ Len(a) <= Cardinality(BlanksBefore(l, Len(l) + 1)) + 1
    /\ from # 0 =>
          /\ from \in 1 .. Len(l) + 1
          /\ \A i \in from .. Len(l) : s[i] = l[i]
          /\ \A i \in DOMAIN a : a[i] < from
          /\ ArgWords(s, a) = WordsUpTo(l)[from - 1]
          /\ Len(a) <= Cardinality(BlanksBefore(l, from))

Separated(l) == \A i \in 1 .. Len(l) - 1 : l[i] = Blank \/ l[i + 1] = Blank

\* There are not more blanks before an earlier place, and one more with one.
LEMMA BlankCount ==
    ASSUME NEW l \in Seq(Text), NEW j \in Nat, NEW k \in Nat, j <= k
    PROVE  /\ Cardinality(BlanksBefore(l, j)) \in Nat
           /\ Cardinality(BlanksBefore(l, j)) <= Cardinality(BlanksBefore(l, k))
           /\ j < k /\ j \in DOMAIN l /\ l[j] = Blank
                 => Cardinality(BlanksBefore(l, j)) + 1 <= Cardinality(BlanksBefore(l, k))
<1>1. IsFiniteSet(1 .. Len(l)) /\ DOMAIN l = 1 .. Len(l) /\ Len(l) \in Nat
  BY FS_Interval
<1>2. \A x \in Nat : IsFiniteSet(BlanksBefore(l, x))
  <2>1. \A x \in Nat : BlanksBefore(l, x) \subseteq 1 .. Len(l)
    BY <1>1 DEF BlanksBefore
  <2> QED
    BY <1>1, <2>1, FS_Subset
<1>3. BlanksBefore(l, j) \subseteq BlanksBefore(l, k)
  BY <1>1 DEF BlanksBefore
<1>4. /\ Cardinality(BlanksBefore(l, j)) \in Nat /\ Cardinality(BlanksBefore(l, k)) \in Nat
      /\ Cardinality(BlanksBefore(l, j)) <= Cardinality(BlanksBefore(l, k))
  BY <1>2, <1>3, FS_Subset, FS_CardinalityType
<1>5. ASSUME j < k, j \in DOMAIN l, l[j] = Blank
      PROVE  Cardinality(BlanksBefore(l, j)) + 1 <= Cardinality(BlanksBefore(l, k))
  <2>1. j \in BlanksBefore(l, k) /\ j \notin BlanksBefore(l, j)
    BY <1>5 DEF BlanksBefore
  <2>2. BlanksBefore(l, j) # BlanksBefore(l, k)
    BY <2>1
  <2>3. Cardinality(BlanksBefore(l, j)) # Cardinality(BlanksBefore(l, k))
    BY <1>2, <1>3, <2>2, FS_Subset
  <2> QED
    BY <1>4, <2>3
<1> QED
  BY <1>4, <1>5

\* A place of a string is overwritten.
LEMMA Overwritten ==
    ASSUME NEW s \in Seq(Text), NEW j \in 1 .. Len(s)
    PROVE  /\ [s EXCEPT ![j] = "end"] \in Seq(Text)
           /\ Len([s EXCEPT ![j] = "end"]) = Len(s)
           /\ \A i \in 1 .. Len(s) : i # j => [s EXCEPT ![j] = "end"][i] = s[i]
<1> DEFINE u == [s EXCEPT ![j] = "end"]
<1>1. s = [i \in 1 .. Len(s) |-> s[i]] /\ Len(s) \in Nat /\ \A i \in 1 .. Len(s) : s[i] \in Text
  OBVIOUS
<1>2. u = [i \in 1 .. Len(s) |-> IF i = j THEN "end" ELSE s[i]]
  BY <1>1
<1>3. \A i \in 1 .. Len(s) : (IF i = j THEN "end" ELSE s[i]) \in Text
  <2>1. "end" \in Text
    BY DEF Text
  <2> QED
    BY <1>1, <2>1, Zenon
<1> HIDE DEF u
<1>4. u \in Seq(Text) /\ Len(u) = Len(s) /\ \A i \in 1 .. Len(s) : i # j => u[i] = s[i]
  BY <1>1, <1>2, <1>3
<1> QED
  BY <1>4 DEF u

\* One call of strtok: there is no further word, or the next one is added.
LEMMA StrtokStep ==
    ASSUME NEW l \in Seq(Text), Separated(l), NEW s, NEW a, NEW from \in Nat \ {0},
           Parsed(l, s, a, from)
    PROVE  LET t == strtok(s, from)
           IN  /\ t.token = 0 => t.saved = 0 /\ t.str = s /\ Parsed(l, s, a, 0)
               /\ t.token # 0 => Parsed(l, t.str, Append(a, t.token), t.saved)
               /\ t.token \in Nat /\ t.saved \in Nat
<1> DEFINE r == SkipBlanks(s, from)
           n == Len(l)
           t == strtok(s, from)
<1>1. /\ s \in Seq(Text) /\ a \in Seq(Nat) /\ Len(s) = n /\ n \in Nat
      /\ \A i \in DOMAIN a : a[i] \in 1 .. n /\ a[i] < from
      /\ from \in 1 .. n + 1
      /\ \A i \in from .. n : s[i] = l[i]
      /\ ArgWords(s, a) = WordsUpTo(l)[from - 1]
      /\ Len(a) <= Cardinality(BlanksBefore(l, from))
  BY DEF Parsed
<1>2. /\ r \in from .. n + 1
      /\ \A k \in from .. r - 1 : s[k] = Blank
      /\ r <= n => s[r] # Blank
  BY <1>1, SkipFacts
<1>3. t = CASE r > Len(s) -> [token |-> 0, saved |-> 0, str |-> s]
            [] r = Len(s) -> [token |-> r, saved |-> 0, str |-> s]
            [] OTHER -> [token |-> r, saved |-> r + 2, str |-> [s EXCEPT ![r + 1] = "end"]]
  BY DEF strtok
<1> HIDE DEF r, t, n
<1>4. \A k \in from .. r - 1 : l[k] = Blank
  BY <1>1, <1>2
<1>5. WordsUpTo(l)[r - 1] = WordsUpTo(l)[from - 1]
  <2>1. from - 1 \in 0 .. Len(l) /\ r - 1 \in from - 1 .. Len(l)
    BY <1>1, <1>2 DEF n
  <2>2. \A k \in (from - 1) + 1 .. r - 1 : l[k] = Blank
    BY <1>1, <1>4
  <2> QED
    BY <2>1, <2>2, BlanksAddNothing
<1>7. /\ Cardinality(BlanksBefore(l, from)) <= Cardinality(BlanksBefore(l, r))
      /\ Cardinality(BlanksBefore(l, r)) <= Cardinality(BlanksBefore(l, n + 1))
      /\ Cardinality(BlanksBefore(l, r)) \in Nat /\ Cardinality(BlanksBefore(l, n + 1)) \in Nat
      /\ Cardinality(BlanksBefore(l, from)) \in Nat
  <2>1. from \in Nat /\ r \in Nat /\ n + 1 \in Nat /\ from <= r /\ r <= n + 1
    BY <1>1, <1>2
  <2> QED
    BY <2>1, BlankCount
<1>8. CASE r > n
  <2>1. t = [token |-> 0, saved |-> 0, str |-> s]
    BY <1>1, <1>2, <1>3, <1>8
  <2>2. r - 1 = n
    BY <1>1, <1>2, <1>8
  <2>3. ArgWords(s, a) = Words(l)
    BY <1>1, <1>5, <2>2 DEF Words, n
  <2>4. Len(a) <= Cardinality(BlanksBefore(l, n + 1)) + 1
    BY <1>1, <1>7
  <2>5. Parsed(l, s, a, 0)
    BY <1>1, <2>3, <2>4 DEF Parsed, n
  <2> QED
    BY <2>1, <2>5 DEF t
<1>9. CASE r <= n
  <2> DEFINE b == Append(a, r)
  <2>1. r \in 1 .. n /\ r \in Nat /\ s[r] = l[r] /\ l[r] # Blank
    BY <1>1, <1>2, <1>9
  <2>2. /\ b \in Seq(Nat) /\ Len(b) = Len(a) + 1 /\ DOMAIN b = 1 .. Len(a) + 1
        /\ DOMAIN a = 1 .. Len(a) /\ Len(a) \in Nat
        /\ b[Len(a) + 1] = r /\ \A i \in 1 .. Len(a) : b[i] = a[i]
    BY <1>1, <2>1
  <2> HIDE DEF b
  <2>3. \A i \in DOMAIN b : b[i] \in 1 .. n /\ b[i] <= r
    <3> SUFFICES ASSUME NEW i \in 1 .. Len(a) + 1 PROVE b[i] \in 1 .. n /\ b[i] <= r
      BY <2>2
    <3>1. CASE i = Len(a) + 1
      BY <2>1, <2>2, <3>1
    <3>2. CASE i # Len(a) + 1
      <4>1. i \in 1 .. Len(a) /\ i \in DOMAIN a /\ b[i] = a[i]
        BY <2>2, <3>2
      <4>2. a[i] \in 1 .. n /\ a[i] < from
        BY <1>1, <4>1
      <4> QED
        BY <1>1, <1>2, <2>1, <4>1, <4>2
    <3> QED
      BY <3>1, <3>2
  <2>4. WordsUpTo(l)[r] = Append(WordsUpTo(l)[from - 1], l[r])
    BY <1>5, <2>1, WordsEquation DEF n
  <2>5. ASSUME NEW u \in Seq(Text), \A i \in 1 .. r : u[i] = s[i]
        PROVE  ArgWords(u, b) = WordsUpTo(l)[r]
    <3> DEFINE A == ArgWords(s, a)
               B == ArgWords(u, b)
    <3>1. /\ A \in Seq(Text) /\ Len(A) = Len(a)
          /\ \A i \in 1 .. Len(a) : A[i] = s[a[i]]
      <4>1. A = [i \in 1 .. Len(a) |-> s[a[i]]]
        BY <2>2 DEF ArgWords
      <4>2. ASSUME NEW i \in 1 .. Len(a) PROVE s[a[i]] \in Text
        <5>1. a[i] \in 1 .. Len(s)
          BY <1>1, <2>2
        <5> QED
          BY <1>1, <5>1
      <4> QED
        BY <2>2, <4>1, <4>2
    <3>2. B = [i \in 1 .. Len(a) + 1 |-> u[b[i]]]
      BY <2>2 DEF ArgWords
    <3>3. \A i \in 1 .. Len(a) : u[b[i]] = A[i]
      <4> SUFFICES ASSUME NEW i \in 1 .. Len(a) PROVE u[b[i]] = A[i]
        OBVIOUS
      <4>1. b[i] = a[i] /\ a[i] \in 1 .. r
        <5>1. b[i] = a[i] /\ i \in DOMAIN b
          BY <2>2
        <5>2. b[i] \in 1 .. n /\ b[i] <= r
          BY <2>3, <5>1
        <5> QED
          BY <1>1, <2>1, <5>1, <5>2
      <4> QED
        BY <2>5, <3>1, <4>1
    <3>4. u[b[Len(a) + 1]] = l[r]
      BY <2>1, <2>2, <2>5
    <3>5. l[r] \in Text
      BY <2>1 DEF n
    <3>6. Append(A, l[r]) = [i \in 1 .. Len(a) + 1 |-> IF i = Len(a) + 1 THEN l[r] ELSE A[i]]
      BY <2>2, <3>1, <3>5
    <3> HIDE DEF A, B
    <3>7. B = Append(A, l[r])
      <4>1. \A i \in 1 .. Len(a) + 1 : u[b[i]] = IF i = Len(a) + 1 THEN l[r] ELSE A[i]
        <5> SUFFICES ASSUME NEW i \in 1 .. Len(a) + 1
                     PROVE  u[b[i]] = IF i = Len(a) + 1 THEN l[r] ELSE A[i]
          OBVIOUS
        <5>1. i # Len(a) + 1 => i \in 1 .. Len(a)
          BY <2>2
        <5> QED
          BY <3>3, <3>4, <5>1
      <4> QED
        BY <3>2, <3>6, <4>1
    <3> QED
      BY <1>1, <2>4, <3>7 DEF A, B
  <2>6. CASE r = n
    <3>1. t = [token |-> r, saved |-> 0, str |-> s]
      BY <1>1, <1>2, <1>3, <2>6
    <3>2. ArgWords(s, b) = Words(l)
      BY <1>1, <2>5, <2>6 DEF Words, n
    <3>3. Len(b) <= Cardinality(BlanksBefore(l, n + 1)) + 1
      BY <1>1, <1>7, <2>2
    <3>4. Parsed(l, s, b, 0)
      BY <1>1, <2>2, <2>3, <3>2, <3>3 DEF Parsed, n
    <3> QED
      BY <2>1, <3>1, <3>4 DEF t, b
  <2>7. CASE r < n
    <3> DEFINE u == [s EXCEPT ![r + 1] = "end"]
    <3>1. t = [token |-> r, saved |-> r + 2, str |-> u]
      BY <1>1, <1>2, <1>3, <2>7
    <3>2. /\ u \in Seq(Text) /\ Len(u) = n
          /\ \A i \in 1 .. n : i # r + 1 => u[i] = s[i]
      <4>1. r + 1 \in 1 .. Len(s)
        BY <1>1, <2>1, <2>7
      <4> QED
        BY <1>1, <4>1, Overwritten
    <3> HIDE DEF u
    <3>3. l[r + 1] = Blank
      BY <2>1, <2>7 DEF Separated, n
    <3>4. WordsUpTo(l)[r + 1] = WordsUpTo(l)[r]
      <4>1. r + 1 \in 1 .. Len(l) /\ (r + 1) - 1 = r
        BY <1>1, <2>1, <2>7 DEF n
      <4> QED
        BY <3>3, <4>1, WordsEquation
    <3>5. ArgWords(u, b) = WordsUpTo(l)[(r + 2) - 1]
      <4>1. \A i \in 1 .. r : u[i] = s[i]
        BY <2>1, <2>7, <3>2
      <4>2. (r + 2) - 1 = r + 1
        BY <2>1
      <4> QED
        BY <2>5, <3>2, <3>4, <4>1, <4>2
    <3>6. Len(b) <= Cardinality(BlanksBefore(l, r + 2))
      <4>1. r + 1 \in Nat /\ r + 2 \in Nat /\ r + 1 \in DOMAIN l /\ r \in Nat
        BY <1>1, <2>1, <2>7 DEF n
      <4>2. Cardinality(BlanksBefore(l, r + 1)) + 1 <= Cardinality(BlanksBefore(l, r + 2))
        BY <3>3, <4>1, BlankCount
      <4>3. Cardinality(BlanksBefore(l, r)) <= Cardinality(BlanksBefore(l, r + 1))
            /\ Cardinality(BlanksBefore(l, r + 1)) \in Nat
            /\ Cardinality(BlanksBefore(l, r + 2)) \in Nat
        BY <4>1, BlankCount
      <4> QED
        BY <1>1, <1>7, <2>2, <4>2, <4>3
    <3>7. \A i \in r + 2 .. n : u[i] = l[i]
      BY <1>1, <1>2, <2>1, <3>2
    <3>8. r + 2 \in 1 .. n + 1 /\ r + 2 # 0 /\ \A i \in DOMAIN b : b[i] < r + 2
      BY <1>1, <2>1, <2>3, <2>7
    <3>9. Parsed(l, u, b, r + 2)
      BY <2>2, <2>3, <3>2, <3>5, <3>6, <3>7, <3>8 DEF Parsed, n
    <3> QED
      BY <2>1, <3>1, <3>9 DEF t, b
  <2> QED
    BY <1>1, <1>9, <2>1, <2>6, <2>7
<1> QED
  BY <1>1, <1>2, <1>8, <1>9

-----------------------------------------------------------------------------
(* The invariant *)

\* The shell has a line, and it has the arguments of it.
Holding == {"split", "tokens", "lookup", "call", "done"}
HasArgs == {"tokens", "lookup", "call"}
Halted == {"panic", "fault", "wild"}

Types ==
    /\ pc \in {"create", "prompt"} \cup Holding \cup Halted
    /\ live \in [Kinds -> Nat] /\ blanks \in Nat /\ accepted \in Nat
    /\ line \in Seq(Text) /\ Separated(line)
    /\ inputs \in Seq(Text) /\ Len(inputs) = Len(line)
    /\ argv \in Seq(Nat) /\ \A i \in DOMAIN argv : argv[i] \in 1 .. Len(line)
    /\ saved \in 0 .. Len(line) + 1
    /\ cursor \in 1 .. 8 /\ unknown \in BOOLEAN

\* What is allocated, at each place of the loop.
BlocksInv ==
    /\ Room >= 0
    /\ pc \notin Halted =>
          /\ live["inputs"] = IF pc \in Holding THEN 1 ELSE 0
          /\ live["argv"] = blanks + (IF pc \in HasArgs THEN 1 ELSE 0)
          /\ live["sector"] = accepted

\* How far the line is split.
ParseInv ==
    /\ pc \in {"create", "prompt", "split", "lookup", "call", "done"} => saved = 0
    /\ pc = "split" => inputs = line /\ argv = <<>>
    /\ pc \in HasArgs =>
          /\ argv # <<>> /\ Parsed(line, inputs, argv, saved)
          /\ num_ws = Cardinality(BlanksBefore(line, Len(line) + 1))

\* What a line should have run.
RanRight ==
    LET words == Words(line)
    IN ran = IF words # <<>> /\ words[1] \in Range(Names) THEN <<words[1]>> ELSE <<>>

\* How far the command is looked up.
LookupInv ==
    /\ pc \notin {"create", "panic"} => commands = Names
    /\ pc = "create" => line = <<>> /\ ran = <<>>
    /\ pc \in {"split", "tokens"} => cursor = 1 /\ unknown /\ ran = <<>>
    /\ pc \in {"lookup", "call"} =>
          \/ pc = "lookup" /\ cursor = 1 /\ unknown /\ ran = <<>>
          \/ /\ ~unknown /\ ran = <<Name>>
             /\ \E k \in 1 .. 7 : Names[k] = Name /\ cursor = k + 1
    /\ pc \in {"done", "prompt"} => RanRight

ShellInv == Types /\ BlocksInv /\ ParseInv /\ LookupInv /\ FaultExplained

\* The names of the commands are seven, and different.
LEMMA SevenNames ==
    /\ Len(Names) = 7 /\ DOMAIN Names = 1 .. 7
    /\ \A i, j \in 1 .. 7 : Names[i] = Names[j] => i = j
    /\ Range(Names) = {Names[i] : i \in 1 .. 7}
<1>1. Len(Names) = 7 /\ DOMAIN Names = 1 .. 7
  BY DEF Names
<1>2. \A i, j \in 1 .. 7 : Names[i] = Names[j] => i = j
  BY DEF Names
<1>3. Range(Names) = {Names[i] : i \in 1 .. 7}
  BY <1>1 DEF Range
<1> QED
  BY <1>1, <1>2, <1>3

\* The kinds of blocks.
LEMMA ThreeKinds == "inputs" \in Kinds /\ "argv" \in Kinds /\ "sector" \in Kinds
BY DEF Kinds

\* An empty line has no words.
LEMMA NoWords == Words(<<>>) = <<>>
<1>1. <<>> \in Seq(Text) /\ Len(<<>>) = 0
  OBVIOUS
<1> QED
  BY <1>1, WordsEquation DEF Words

LEMMA ShellInvInit == Init => ShellInv
<1> SUFFICES ASSUME Init PROVE ShellInv
  OBVIOUS
<1>1. /\ pc = "create" /\ live = [k \in Kinds |-> 0] /\ line = <<>> /\ inputs = <<>>
      /\ saved = 0 /\ argv = <<>> /\ cursor = 1 /\ unknown = TRUE /\ ran = <<>>
      /\ blanks = 0 /\ accepted = 0
  BY DEF Init
<1>2. live["inputs"] = 0 /\ live["argv"] = 0 /\ live["sector"] = 0 /\ live \in [Kinds -> Nat]
  BY <1>1, ThreeKinds
<1>3. <<>> \in Seq(Text) /\ Len(<<>>) = 0 /\ <<>> \in Seq(Nat) /\ DOMAIN <<>> = {}
  OBVIOUS
<1>4. Types
  BY <1>1, <1>2, <1>3 DEF Types, Separated
<1>5. BlocksInv
  BY <1>1, <1>2, ShellAssumption DEF BlocksInv, Room, Holding, HasArgs
<1>6. ParseInv
  BY <1>1 DEF ParseInv, HasArgs
<1>7. LookupInv
  BY <1>1 DEF LookupInv
<1>8. FaultExplained
  BY <1>1 DEF FaultExplained
<1> QED
  BY <1>4, <1>5, <1>6, <1>7, <1>8 DEF ShellInv

\* A block more or less of one kind.
LEMMA BlockCounted ==
    ASSUME Types, NEW k \in Kinds, NEW c \in Int, live[k] + c \in Nat
    PROVE  /\ [live EXCEPT ![k] = @ + c] \in [Kinds -> Nat]
           /\ \A j \in Kinds : [live EXCEPT ![k] = @ + c][j] = IF j = k THEN live[j] + c ELSE live[j]
BY DEF Types

LEMMA CreateStep ==
    ASSUME ShellInv, shell_create
    PROVE  ShellInv'
<1>1. Types /\ BlocksInv /\ ParseInv /\ LookupInv
  BY DEF ShellInv
<1>2. /\ pc = "create" /\ live' = live /\ line' = line /\ inputs' = inputs /\ saved' = saved
      /\ argv' = argv /\ num_ws' = num_ws /\ cursor' = cursor /\ unknown' = unknown /\ ran' = ran
      /\ blanks' = blanks /\ accepted' = accepted /\ storage' = storage
  BY DEF shell_create, parseVars
<1>3. /\ pc' \in {"create", "prompt", "panic"}
      /\ pc' = "prompt" => commands' = commands /\ commands = Names
  BY <1>2 DEF shell_create, shell_register_command
<1>4. Types'
  BY <1>1, <1>2, <1>3 DEF Types, Holding, Halted
<1>5. BlocksInv'
  BY <1>1, <1>2, <1>3 DEF BlocksInv, Room, Holding, HasArgs, Halted
<1>6. ParseInv'
  BY <1>1, <1>2, <1>3 DEF ParseInv, HasArgs
<1>7. LookupInv'
  <2>1. line = <<>> /\ ran = <<>>
    BY <1>1, <1>2 DEF LookupInv
  <2>2. RanRight'
    BY <1>2, <2>1, NoWords DEF RanRight
  <2> QED
    BY <1>1, <1>2, <1>3, <2>1, <2>2 DEF LookupInv
<1>8. FaultExplained'
  BY <1>3 DEF FaultExplained
<1> QED
  BY <1>4, <1>5, <1>6, <1>7, <1>8 DEF ShellInv

LEMMA GetsStep ==
    ASSUME ShellInv, NEW l \in Lines, Gets(l)
    PROVE  ShellInv'
<1>1. Types /\ BlocksInv /\ ParseInv /\ LookupInv
  BY DEF ShellInv
<1>2. /\ pc = "prompt" /\ line' = l /\ inputs' = l /\ saved' = saved /\ argv' = <<>>
      /\ cursor' = 1 /\ unknown' = TRUE /\ ran' = <<>> /\ storage' = storage
      /\ commands' = commands /\ blanks' = blanks /\ accepted' = accepted
      /\ pc' = IF Room > 0 THEN "split" ELSE "panic"
      /\ live' = IF Room > 0 THEN [live EXCEPT !["inputs"] = @ + 1] ELSE live
  BY DEF Gets, fixed
<1>3. live \in [Kinds -> Nat] /\ live["inputs"] = 0 /\ live["argv"] = blanks /\ live["sector"] = accepted
      /\ blanks \in Nat /\ accepted \in Nat /\ saved = 0 /\ commands = Names /\ Room >= 0
  BY <1>1, <1>2 DEF Types, BlocksInv, ParseInv, LookupInv, Holding, HasArgs, Halted
<1>4. l \in Seq(Text) /\ Separated(l)
  BY LinesAreText DEF Separated
<1>5. /\ live' \in [Kinds -> Nat]
      /\ live'["inputs"] = IF Room > 0 THEN 1 ELSE 0
      /\ live'["argv"] = blanks /\ live'["sector"] = accepted
  BY <1>1, <1>2, <1>3, ThreeKinds, BlockCounted
<1>6. Types'
  <2>1. <<>> \in Seq(Nat) /\ DOMAIN <<>> = {} /\ Len(l) \in Nat
    BY <1>4
  <2>2. pc' \in {"split", "panic"} /\ 0 \in 0 .. Len(l) + 1 /\ 1 \in 1 .. 8
    BY <1>2, <2>1
  <2> QED
    BY <1>2, <1>3, <1>4, <1>5, <2>1, <2>2 DEF Types, Holding, Halted
<1>7. BlocksInv'
  BY <1>2, <1>3, <1>5, ShellAssumption DEF BlocksInv, Room, Holding, HasArgs, Halted
<1>8. ParseInv'
  BY <1>2, <1>3 DEF ParseInv, HasArgs
<1>9. LookupInv'
  BY <1>2, <1>3 DEF LookupInv
<1>10. FaultExplained'
  BY <1>2 DEF FaultExplained
<1> QED
  BY <1>6, <1>7, <1>8, <1>9, <1>10 DEF ShellInv

\* The start of the splitting: nothing is parsed yet.
LEMMA NothingParsed ==
    ASSUME NEW l \in Seq(Text)
    PROVE  Parsed(l, l, <<>>, 1)
<1>1. <<>> \in Seq(Nat) /\ DOMAIN <<>> = {} /\ Len(<<>>) = 0 /\ Len(l) \in Nat
  OBVIOUS
<1>2. ArgWords(l, <<>>) = WordsUpTo(l)[1 - 1]
  BY WordsEquation DEF ArgWords
<1>3. Cardinality(BlanksBefore(l, 1)) \in Nat
  BY BlankCount
<1> QED
  BY <1>1, <1>2, <1>3 DEF Parsed

LEMMA SplitStep ==
    ASSUME ShellInv, Split
    PROVE  ShellInv'
<1> DEFINE t == strtok(inputs, 1)
<1>1. Types /\ BlocksInv /\ ParseInv /\ LookupInv
  BY DEF ShellInv
<1>2. /\ pc = "split" /\ line' = line /\ storage' = storage /\ commands' = commands
      /\ cursor' = cursor /\ unknown' = unknown /\ ran' = ran /\ accepted' = accepted
      /\ num_ws' = Cardinality({i \in DOMAIN inputs : inputs[i] = Blank})
      /\ has_argv' = (Room > 0)
      /\ live' = IF Room > 0 THEN [live EXCEPT !["argv"] = @ + 1] ELSE live
      /\ saved' = t.saved /\ inputs' = t.str
      /\ argv' = IF t.token = 0 THEN <<>> ELSE <<t.token>>
      /\ pc' = IF t.token = 0 THEN "done" ELSE IF has_argv' THEN "tokens" ELSE "fault"
      /\ blanks' = IF t.token = 0 /\ has_argv' THEN blanks + 1 ELSE blanks
  BY DEF Split, fixed
<1>3. /\ live \in [Kinds -> Nat] /\ live["inputs"] = 1 /\ live["argv"] = blanks
      /\ live["sector"] = accepted /\ blanks \in Nat /\ accepted \in Nat /\ Room >= 0
      /\ inputs = line /\ line \in Seq(Text) /\ Separated(line) /\ commands = Names
      /\ cursor = 1 /\ unknown = TRUE /\ ran = <<>>
  BY <1>1, <1>2 DEF Types, BlocksInv, ParseInv, LookupInv, Holding, HasArgs, Halted
<1>4. /\ t.token = 0 => t.saved = 0 /\ t.str = line /\ Parsed(line, line, <<>>, 0)
      /\ t.token # 0 => Parsed(line, t.str, Append(<<>>, t.token), t.saved)
      /\ t.token \in Nat /\ t.saved \in Nat
  <2>1. t = strtok(line, 1) /\ 1 \in Nat \ {0} /\ Parsed(line, line, <<>>, 1)
    BY <1>3, NothingParsed
  <2>2. ASSUME NEW a, Parsed(line, line, a, 1)
        PROVE  LET u == strtok(line, 1)
               IN  /\ u.token = 0 => u.saved = 0 /\ u.str = line /\ Parsed(line, line, a, 0)
                   /\ u.token # 0 => Parsed(line, u.str, Append(a, u.token), u.saved)
                   /\ u.token \in Nat /\ u.saved \in Nat
    BY <1>3, <2>1, <2>2, StrtokStep
  <2> HIDE DEF t
  <2> QED
    BY <2>1, <2>2
<1> HIDE DEF t
<1>5. /\ live' \in [Kinds -> Nat] /\ live'["inputs"] = 1 /\ live'["sector"] = accepted
      /\ live'["argv"] = blanks + (IF Room > 0 THEN 1 ELSE 0)
  BY <1>1, <1>2, <1>3, ThreeKinds, BlockCounted
<1>6. t.token # 0 => Parsed(line, t.str, <<t.token>>, t.saved)
  <2>1. Append(<<>>, t.token) = <<t.token>>
    OBVIOUS
  <2> QED
    BY <1>4, <2>1
<1>7. /\ inputs' \in Seq(Text) /\ Len(inputs') = Len(line) /\ argv' \in Seq(Nat)
      /\ \A i \in DOMAIN argv' : argv'[i] \in 1 .. Len(line)
      /\ saved' \in 0 .. Len(line) + 1
  <2>1. CASE t.token = 0
    <3>1. <<>> \in Seq(Nat) /\ DOMAIN <<>> = {} /\ Len(line) \in Nat
      BY <1>3
    <3> QED
      BY <1>2, <1>3, <1>4, <2>1, <3>1
  <2>2. CASE t.token # 0
    BY <1>2, <1>3, <1>4, <1>6, <2>2 DEF Parsed
  <2> QED
    BY <2>1, <2>2
<1>8. Types'
  BY <1>2, <1>3, <1>5, <1>7 DEF Types, Holding, Halted
<1>9. BlocksInv'
  <2>1. Room \in Int /\ Room' = Room - (IF Room > 0 THEN 1 ELSE 0)
    BY <1>3, <1>5, ShellAssumption DEF Room
  <2>2. Room' >= 0
    BY <1>3, <2>1
  <2>3. pc' \notin Halted => live'["argv"] = blanks' + (IF pc' \in HasArgs THEN 1 ELSE 0)
    <3>1. CASE t.token = 0
      <4>1. pc' = "done" /\ pc' \notin HasArgs /\ blanks' = blanks + (IF Room > 0 THEN 1 ELSE 0)
        <5>1. blanks' = IF Room > 0 THEN blanks + 1 ELSE blanks
          BY <1>2, <3>1, Zenon
        <5>2. pc' = "done"
          BY <1>2, <3>1, Zenon
        <5> QED
          BY <1>3, <5>1, <5>2 DEF HasArgs
      <4> QED
        BY <1>3, <1>5, <4>1
    <3>2. CASE t.token # 0
      BY <1>2, <1>3, <1>5, <3>2 DEF HasArgs, Halted
    <3> QED
      BY <3>1, <3>2
  <2>4. pc' \notin Halted => pc' \in Holding
    BY <1>2 DEF Halted, Holding
  <2> QED
    BY <1>2, <1>5, <2>2, <2>3, <2>4 DEF BlocksInv
<1>10. ParseInv'
  <2>1. num_ws' = Cardinality(BlanksBefore(line, Len(line) + 1))
    <3>1. {i \in DOMAIN inputs : inputs[i] = Blank} = BlanksBefore(line, Len(line) + 1)
      BY <1>3 DEF BlanksBefore
    <3> QED
      BY <1>2, <3>1
  <2>2. pc' \in {"done", "tokens", "fault"} /\ (pc' = "done" => saved' = 0)
        /\ (pc' = "tokens" => t.token # 0)
    BY <1>2, <1>4
  <2>3. pc' = "tokens" => argv' # <<>> /\ Parsed(line, inputs', argv', saved')
    BY <1>2, <1>6, <2>2
  <2> QED
    BY <1>2, <2>1, <2>2, <2>3 DEF ParseInv, HasArgs
<1>11. LookupInv'
  <2>1. ASSUME t.token = 0 PROVE RanRight'
    <3>1. ArgWords(line, <<>>) = Words(line)
      BY <1>4, <2>1 DEF Parsed
    <3>2. Words(line) = <<>>
      BY <3>1 DEF ArgWords
    <3> QED
      BY <1>2, <1>3, <3>2 DEF RanRight
  <2> QED
    BY <1>2, <1>3, <2>1 DEF LookupInv
<1>12. FaultExplained'
  <2>1. Room \in Int
    BY <1>3, ShellAssumption DEF Room
  <2>2. ASSUME pc' = "fault" PROVE Room' = 0
    <3>1. ~(Room > 0) /\ live' = live
      BY <1>2, <2>2
    <3>2. Room' = Room
      BY <3>1 DEF Room
    <3> QED
      BY <1>3, <2>1, <3>1, <3>2
  <2> QED
    BY <1>2, <2>2 DEF FaultExplained
<1> QED
  BY <1>8, <1>9, <1>10, <1>11, <1>12 DEF ShellInv

LEMMA TokensStep ==
    ASSUME ShellInv, Tokens
    PROVE  ShellInv'
<1> DEFINE t == strtok(inputs, saved)
<1>1. Types /\ BlocksInv /\ ParseInv /\ LookupInv
  BY DEF ShellInv
<1>2. /\ pc = "tokens" /\ line' = line /\ storage' = storage /\ commands' = commands
      /\ cursor' = cursor /\ unknown' = unknown /\ ran' = ran /\ accepted' = accepted
      /\ num_ws' = num_ws /\ live' = live /\ blanks' = blanks
      /\ saved' = t.saved /\ inputs' = t.str
      /\ argv' = IF t.token = 0 THEN argv ELSE Append(argv, t.token)
      /\ pc' = IF t.token = 0 THEN "lookup" ELSE "tokens"
  BY DEF Tokens, fixed
<1>3. /\ line \in Seq(Text) /\ Separated(line) /\ saved \in Nat
      /\ Parsed(line, inputs, argv, saved) /\ argv # <<>> /\ argv \in Seq(Nat)
  BY <1>1, <1>2 DEF Types, ParseInv, HasArgs
<1>4. /\ t.token = 0 => t.saved = 0 /\ t.str = inputs /\ Parsed(line, inputs, argv, 0)
      /\ t.token # 0 => Parsed(line, t.str, Append(argv, t.token), t.saved)
      /\ t.token \in Nat /\ t.saved \in Nat
  <2>1. CASE saved = 0
    <3>1. t = [token |-> 0, saved |-> 0, str |-> inputs]
      BY <2>1 DEF strtok
    <3> HIDE DEF t
    <3>2. t.token = 0 /\ t.saved = 0 /\ t.str = inputs
      BY <3>1
    <3> QED
      BY <1>3, <2>1, <3>2
  <2>2. CASE saved # 0
    BY <1>3, <2>2, StrtokStep
  <2> QED
    BY <2>1, <2>2
<1> HIDE DEF t
<1>5. Parsed(line, inputs', argv', saved') /\ saved' \in Nat /\ (pc' = "lookup" => saved' = 0)
  BY <1>2, <1>4
<1>6. argv' # <<>>
  <2>1. Append(argv, t.token) # <<>>
    BY <1>3, <1>4
  <2> QED
    BY <1>2, <1>3, <2>1
<1>7. /\ inputs' \in Seq(Text) /\ Len(inputs') = Len(line) /\ argv' \in Seq(Nat)
      /\ \A i \in DOMAIN argv' : argv'[i] \in 1 .. Len(line)
      /\ saved' \in 0 .. Len(line) + 1
  BY <1>3, <1>5 DEF Parsed
<1>8. pc' \in {"tokens", "lookup"}
  BY <1>2
<1>9. Types'
  BY <1>1, <1>2, <1>7, <1>8 DEF Types, Holding, Halted
<1>10. BlocksInv'
  BY <1>1, <1>2, <1>8 DEF BlocksInv, Room, Holding, HasArgs, Halted
<1>11. ParseInv'
  BY <1>1, <1>2, <1>5, <1>6, <1>8 DEF ParseInv, HasArgs
<1>12. LookupInv'
  BY <1>1, <1>2, <1>8 DEF LookupInv
<1>13. FaultExplained'
  BY <1>8 DEF FaultExplained
<1> QED
  BY <1>9, <1>10, <1>11, <1>12, <1>13 DEF ShellInv

\* The name is the first word of the line.
LEMMA NameIsFirstWord ==
    ASSUME Types, ParseInv, pc \in {"lookup", "call"}
    PROVE  Words(line) # <<>> /\ Words(line)[1] = Name
<1>1. argv # <<>> /\ argv \in Seq(Nat) /\ ArgWords(inputs, argv) = Words(line)
  BY DEF Types, ParseInv, HasArgs, Parsed
<1>2. 1 \in DOMAIN argv
  BY <1>1
<1>3. 1 \in DOMAIN Words(line) /\ Words(line)[1] = inputs[argv[1]]
  BY <1>1, <1>2 DEF ArgWords
<1>4. DOMAIN <<>> = {}
  OBVIOUS
<1> QED
  BY <1>3, <1>4 DEF Name

LEMMA LookupStep ==
    ASSUME ShellInv, Lookup
    PROVE  ShellInv'
<1>1. Types /\ BlocksInv /\ ParseInv /\ LookupInv
  BY DEF ShellInv
<1>2. /\ pc = "lookup" /\ line' = line /\ inputs' = inputs /\ saved' = saved /\ num_ws' = num_ws
      /\ argv' = argv /\ storage' = storage /\ commands' = commands
      /\ blanks' = blanks /\ accepted' = accepted
  BY DEF Lookup, fixed, parseVars
<1>3. /\ live \in [Kinds -> Nat] /\ live["inputs"] = 1 /\ live["argv"] = blanks + 1
      /\ live["sector"] = accepted /\ blanks \in Nat /\ accepted \in Nat
      /\ commands = Names /\ cursor \in 1 .. 8 /\ saved = 0
  BY <1>1, <1>2 DEF Types, BlocksInv, ParseInv, LookupInv, Holding, HasArgs, Halted
<1>4. Name' = Name
  BY <1>2 DEF Name
<1>5. Matches = {k \in cursor .. 7 : Names[k] = Name}
  BY <1>3, SevenNames DEF Matches
<1>6. Words(line) # <<>> /\ Words(line)[1] = Name
  BY <1>1, <1>2, NameIsFirstWord
<1>7. \/ cursor = 1 /\ unknown /\ ran = <<>>
      \/ /\ ~unknown /\ ran = <<Name>>
         /\ \E k \in 1 .. 7 : Names[k] = Name /\ cursor = k + 1
  BY <1>1, <1>2 DEF LookupInv
<1>8. CASE Matches # {}
  <2>1. /\ pc' = "call" /\ cursor' = Min(Matches) + 1 /\ unknown' = FALSE
        /\ ran' = Append(ran, Name) /\ live' = live
    BY <1>8 DEF Lookup
  <2>2. Matches \in SUBSET Nat
    BY <1>3, <1>5
  <2>3. Min(Matches) \in Matches
    BY <1>8, <2>2, MinOfSet
  <2>4. PICK k \in cursor .. 7 : k = Min(Matches) /\ Names[k] = Name
    BY <1>5, <2>3
  <2>5. cursor = 1 /\ ran = <<>>
    <3>1. ASSUME NEW j \in 1 .. 7, Names[j] = Name, cursor = j + 1 PROVE FALSE
      <4>1. k \in 1 .. 7 /\ k > j
        BY <1>3, <3>1
      <4> QED
        BY <2>4, <3>1, <4>1, SevenNames
    <3> QED
      BY <1>7, <3>1
  <2>6. ran' = <<Name>>
    BY <2>1, <2>5
  <2>7. k \in 1 .. 7 /\ cursor' = k + 1
    <3>1. cursor \in Nat /\ cursor >= 1 /\ k \in Int /\ cursor <= k /\ k <= 7
      BY <1>3, <2>4
    <3> QED
      BY <2>1, <2>4, <3>1
  <2>8. Types'
    <3>1. cursor' \in 1 .. 8
      BY <2>7
    <3> QED
      BY <1>1, <1>2, <2>1, <3>1 DEF Types, Holding
  <2>9. BlocksInv'
    BY <1>1, <1>2, <2>1 DEF BlocksInv, Room, Holding, HasArgs, Halted
  <2>10. ParseInv'
    BY <1>1, <1>2, <2>1 DEF ParseInv, HasArgs
  <2>11. LookupInv'
    BY <1>2, <1>3, <1>4, <2>1, <2>4, <2>6, <2>7 DEF LookupInv
  <2>12. FaultExplained'
    BY <2>1 DEF FaultExplained
  <2> QED
    BY <2>8, <2>9, <2>10, <2>11, <2>12 DEF ShellInv
<1>9. CASE Matches = {}
  <2>1. /\ pc' = "done" /\ live' = [live EXCEPT !["argv"] = @ - 1]
        /\ cursor' = cursor /\ unknown' = unknown /\ ran' = ran
    BY <1>9 DEF Lookup
  <2>2. /\ live' \in [Kinds -> Nat] /\ live'["argv"] = blanks
        /\ live'["inputs"] = 1 /\ live'["sector"] = accepted
    BY <1>3, <2>1, ThreeKinds
  <2>3. RanRight
    <3>1. CASE cursor = 1 /\ unknown /\ ran = <<>>
      <4>1. Name \notin Range(Names)
        BY <1>5, <1>9, <3>1, SevenNames
      <4> QED
        BY <1>6, <3>1, <4>1 DEF RanRight
    <3>2. CASE ran = <<Name>> /\ \E k \in 1 .. 7 : Names[k] = Name
      <4>1. Name \in Range(Names)
        BY <3>2, SevenNames
      <4> QED
        BY <1>6, <3>2, <4>1 DEF RanRight
    <3> QED
      BY <1>7, <3>1, <3>2
  <2>4. RanRight'
    BY <1>2, <2>1, <2>3 DEF RanRight
  <2>5. Types'
    BY <1>1, <1>2, <2>1, <2>2 DEF Types, Holding
  <2>6. BlocksInv'
    BY <1>1, <1>2, <1>3, <2>1, <2>2, ShellAssumption DEF BlocksInv, Room, Holding, HasArgs, Halted
  <2>7. ParseInv'
    BY <1>1, <1>2, <1>3, <2>1 DEF ParseInv, HasArgs
  <2>8. LookupInv'
    BY <1>2, <1>3, <2>1, <2>4 DEF LookupInv
  <2>9. FaultExplained'
    BY <2>1 DEF FaultExplained
  <2> QED
    BY <2>5, <2>6, <2>7, <2>8, <2>9 DEF ShellInv
<1> QED
  BY <1>8, <1>9

LEMMA DoneStep ==
    ASSUME ShellInv, Done
    PROVE  ShellInv'
<1>1. Types /\ BlocksInv /\ ParseInv /\ LookupInv
  BY DEF ShellInv
<1>2. /\ pc = "done" /\ pc' = "prompt" /\ live' = [live EXCEPT !["inputs"] = @ - 1]
      /\ line' = line /\ inputs' = inputs /\ saved' = saved /\ num_ws' = num_ws
      /\ argv' = argv /\ storage' = storage /\ commands' = commands /\ cursor' = cursor
      /\ unknown' = unknown /\ ran' = ran /\ blanks' = blanks /\ accepted' = accepted
  BY DEF Done, fixed, parseVars
<1>3. /\ live \in [Kinds -> Nat] /\ live["inputs"] = 1 /\ live["argv"] = blanks
      /\ live["sector"] = accepted /\ blanks \in Nat /\ accepted \in Nat
  BY <1>1, <1>2 DEF Types, BlocksInv, Holding, HasArgs, Halted
<1>4. /\ live' \in [Kinds -> Nat] /\ live'["argv"] = blanks
      /\ live'["inputs"] = 0 /\ live'["sector"] = accepted
  BY <1>2, <1>3, ThreeKinds
<1>5. Types'
  BY <1>1, <1>2, <1>4 DEF Types
<1>6. BlocksInv'
  BY <1>1, <1>2, <1>3, <1>4, ShellAssumption DEF BlocksInv, Room, Holding, HasArgs, Halted
<1>7. ParseInv'
  BY <1>1, <1>2 DEF ParseInv, HasArgs
<1>8. LookupInv'
  <2>1. RanRight /\ commands = Names
    BY <1>1, <1>2 DEF LookupInv
  <2>2. RanRight'
    BY <1>2, <2>1 DEF RanRight
  <2> QED
    BY <1>2, <2>1, <2>2 DEF LookupInv
<1>9. FaultExplained'
  BY <1>2 DEF FaultExplained
<1> QED
  BY <1>5, <1>6, <1>7, <1>8, <1>9 DEF ShellInv

\* What the commands do to the heap: nothing, or a sector buffer stays.
LEMMA CommandStep ==
    ASSUME ShellInv, \/ Plain \/ shell_execute_interrupt
                     \/ shell_execute_ata_read \/ shell_execute_ata_write
    PROVE  ShellInv'
<1>1. Types /\ BlocksInv /\ ParseInv /\ LookupInv
  BY DEF ShellInv
<1>2. /\ pc = "call" /\ line' = line /\ inputs' = inputs /\ saved' = saved /\ num_ws' = num_ws
      /\ argv' = argv /\ storage' = storage /\ commands' = commands /\ cursor' = cursor
      /\ unknown' = unknown /\ ran' = ran /\ blanks' = blanks
  BY DEF Plain, shell_execute_interrupt, shell_execute_ata_read, shell_execute_ata_write,
         Calls, fixed, parseVars
<1>3. /\ live \in [Kinds -> Nat] /\ live["inputs"] = 1 /\ live["argv"] = blanks + 1
      /\ live["sector"] = accepted /\ blanks \in Nat /\ accepted \in Nat /\ saved = 0
      /\ commands = Names /\ ~unknown /\ ran = <<Name>>
      /\ \E k \in 1 .. 7 : Names[k] = Name /\ cursor = k + 1
  BY <1>1, <1>2 DEF Types, BlocksInv, ParseInv, LookupInv, Holding, HasArgs, Halted
<1>4. Room \in Int /\ Room >= 0
  BY <1>1, <1>3, ShellAssumption DEF BlocksInv, Room
<1>40. line \in Seq(Text) /\ argv \in Seq(Nat) /\ Parsed(line, inputs, argv, 0)
  BY <1>1, <1>2, <1>3 DEF Types, ParseInv, HasArgs
<1>41. ASSUME NEW i \in 1 .. Len(argv) PROVE Arg(i) = Words(line)[i]
  <2>1. ArgWords(inputs, argv) = Words(line)
    BY <1>40 DEF Parsed
  <2>2. DOMAIN argv = 1 .. Len(argv)
    BY <1>40
  <2> QED
    BY <2>1, <2>2 DEF ArgWords, Arg
<1>5. \/ pc' = "lookup" /\ live' = live /\ accepted' = accepted
      \/ pc' = "lookup" /\ live' = Keeps(TRUE) /\ accepted' = accepted + 1 /\ Room > 0
      \/ pc' \in Halted /\ live' = live /\ accepted' = accepted
  <2>1. CASE Plain \/ shell_execute_interrupt
    BY <2>1 DEF Plain, shell_execute_interrupt, Halted
  <2>2. Keeps(FALSE) = live
    BY <1>3 DEF Keeps
  <2>3. CASE shell_execute_ata_read
    <3>1. CASE Len(argv) # 3
      BY <2>3, <3>1 DEF shell_execute_ata_read
    <3>3. CASE Len(argv) = 3 /\ Arg(3) \in Wrapping /\ Room > 0
      BY <2>3, <3>3 DEF shell_execute_ata_read, Halted
    <3>2. CASE Len(argv) = 3 /\ ~(Arg(3) \in Wrapping /\ Room > 0)
      <4>1. PICK a \in Allocations(Arg(3) \in Large) :
            /\ pc' = CASE ~storage -> "fault"
                       [] storage /\ a.taken /\ ~a.sector -> "panic"
                       [] storage /\ (a.taken => a.sector) /\ ~a.data -> "fault"
                       [] storage /\ a.taken /\ a.sector /\ a.data /\ Astray -> "wild"
                       [] OTHER -> "lookup"
            /\ live' = IF pc' = "lookup" THEN Keeps(a.taken) ELSE live
            /\ accepted' = IF pc' = "lookup" /\ a.taken THEN accepted + 1 ELSE accepted
        BY <2>3, <3>2 DEF shell_execute_ata_read
      <4>5. /\ a.taken \in BOOLEAN /\ a.sector \in BOOLEAN /\ a.data \in BOOLEAN
            /\ a.sector => Room > 0
        BY <1>4, <4>1 DEF Allocations
      <4>2. pc' \in Halted \/ (pc' = "lookup" /\ (a.taken => Room > 0))
        BY <1>4, <4>1, <4>5 DEF Halted
      <4>3. CASE a.taken = TRUE
        BY <4>1, <4>2, <4>3 DEF Halted
      <4>4. CASE a.taken = FALSE
        BY <2>2, <4>1, <4>2, <4>4 DEF Halted
      <4> QED
        BY <4>3, <4>4, <4>5
    <3> QED
      BY <3>1, <3>2, <3>3
  <2>4. CASE shell_execute_ata_write
    <3>1. CASE Len(argv) # 3
      BY <2>4, <3>1 DEF shell_execute_ata_write
    <3>2. CASE Len(argv) = 3
      <4>1. PICK taken \in BOOLEAN :
            /\ pc' = CASE ~storage -> "fault"
                       [] storage /\ taken /\ Room < 1 -> "panic"
                       [] OTHER -> "lookup"
            /\ live' = IF pc' = "lookup" THEN Keeps(taken) ELSE live
            /\ accepted' = IF pc' = "lookup" /\ taken THEN accepted + 1 ELSE accepted
        BY <2>4, <3>2 DEF shell_execute_ata_write
      <4>2. pc' \in Halted \/ (pc' = "lookup" /\ (taken => Room > 0))
        BY <1>4, <4>1 DEF Halted
      <4>3. CASE taken
        BY <4>1, <4>2, <4>3 DEF Halted
      <4>4. CASE ~taken
        BY <2>2, <4>1, <4>2, <4>4 DEF Halted
      <4> QED
        BY <4>3, <4>4
    <3> QED
      BY <3>1, <3>2
  <2> QED
    BY <2>1, <2>3, <2>4
<1>42. ran = <<ran[Len(ran)]>> /\ Len(argv) \in Nat
  BY <1>3, <1>40
<1>6. ASSUME pc' = "fault"
      PROVE  \/ Room = 0
             \/ ~storage /\ ran \in {<<"ataread">>, <<"atawrite">>}
             \/ ran = <<"ataread">> /\ Words(line)[3] \in Large
  <2>1. CASE Plain \/ shell_execute_interrupt
    BY <1>6, <2>1 DEF Plain, shell_execute_interrupt
  <2>3. CASE shell_execute_ata_read
    <3>1. ran = <<"ataread">>
      BY <1>42, <2>3 DEF shell_execute_ata_read, Calls
    <3>2. Len(argv) = 3
      BY <1>6, <2>3 DEF shell_execute_ata_read
    <3>3. ~storage \/ Room = 0 \/ Arg(3) \in Large
      BY <1>4, <1>6, <2>3, <3>2 DEF shell_execute_ata_read, Allocations
    <3>4. Arg(3) = Words(line)[3]
      BY <1>41, <3>2
    <3> QED
      BY <3>1, <3>3, <3>4
  <2>4. CASE shell_execute_ata_write
    <3>1. ran = <<"atawrite">>
      BY <1>42, <2>4 DEF shell_execute_ata_write, Calls
    <3>2. ~storage
      BY <1>6, <2>4 DEF shell_execute_ata_write
    <3> QED
      BY <3>1, <3>2
  <2> QED
    BY <2>1, <2>3, <2>4
<1>60. ASSUME pc' = "wild"
       PROVE  \/ ran = <<"int">> /\ Words(line)[2] \in NoReturn
              \/ ran = <<"ataread">> /\ Words(line)[2] \in Zero /\ Words(line)[3] \in Zero
              \/ ran = <<"ataread">> /\ Words(line)[3] \in Wrapping
  <2>1. CASE Plain
    BY <1>60, <2>1 DEF Plain
  <2>2. CASE shell_execute_interrupt
    <3>1. ran = <<"int">> /\ Len(argv) = 2 /\ Arg(2) \in NoReturn
      BY <1>42, <1>60, <2>2 DEF shell_execute_interrupt, Calls
    <3> QED
      BY <1>41, <3>1
  <2>3. CASE shell_execute_ata_read
    <3>1. ran = <<"ataread">>
      BY <1>42, <2>3 DEF shell_execute_ata_read, Calls
    <3>2. Len(argv) = 3 /\ (Astray \/ Arg(3) \in Wrapping)
      BY <1>60, <2>3 DEF shell_execute_ata_read
    <3>3. Arg(2) = Words(line)[2] /\ Arg(3) = Words(line)[3]
      BY <1>41, <3>2
    <3> QED
      BY <3>1, <3>2, <3>3 DEF Astray
  <2>4. CASE shell_execute_ata_write
    BY <1>60, <2>4 DEF shell_execute_ata_write
  <2> QED
    BY <2>1, <2>2, <2>3, <2>4
<1>7. /\ live' \in [Kinds -> Nat] /\ accepted' \in Nat /\ live'["inputs"] = 1
      /\ live'["argv"] = blanks + 1 /\ live'["sector"] = accepted'
      /\ Room' \in Int /\ Room' >= 0 /\ (pc' \in Halted => Room' = Room)
  <2>1. CASE live' = live /\ accepted' = accepted
    BY <1>3, <1>4, <2>1 DEF Room
  <2>2. CASE pc' = "lookup" /\ live' = Keeps(TRUE) /\ accepted' = accepted + 1 /\ Room > 0
    <3>1. /\ live' \in [Kinds -> Nat] /\ live'["inputs"] = 1 /\ live'["argv"] = blanks + 1
          /\ live'["sector"] = accepted + 1
      BY <1>3, <2>2, ThreeKinds DEF Keeps
    <3>2. Room' = Room - 1
      BY <1>3, <3>1, ShellAssumption DEF Room
    <3>3. Room' \in Int /\ Room' >= 0
      BY <1>4, <2>2, <3>2
    <3>4. pc' \notin Halted
      BY <2>2 DEF Halted
    <3>5. accepted' \in Nat /\ accepted' = accepted + 1
      BY <1>3, <2>2
    <3> QED
      BY <3>1, <3>3, <3>4, <3>5
  <2> QED
    BY <1>5, <2>1, <2>2
<1>8. pc' \in {"lookup"} \cup Halted
  BY <1>5
<1>9. Types'
  BY <1>1, <1>2, <1>7, <1>8 DEF Types, Holding
<1>10. BlocksInv'
  BY <1>2, <1>7, <1>8 DEF BlocksInv, Holding, HasArgs
<1>11. ParseInv'
  BY <1>1, <1>2, <1>3, <1>8 DEF ParseInv, HasArgs, Halted
<1>12. LookupInv'
  <2>1. Name' = Name
    BY <1>2 DEF Name
  <2> QED
    BY <1>2, <1>3, <1>8, <2>1 DEF LookupInv, Halted
<1>13. FaultExplained'
  BY <1>2, <1>6, <1>60, <1>7 DEF FaultExplained, Halted
<1> QED
  BY <1>9, <1>10, <1>11, <1>12, <1>13 DEF ShellInv

LEMMA ShellInvNext == ShellInv /\ [Next]_vars => ShellInv'
<1> SUFFICES ASSUME ShellInv, [Next]_vars PROVE ShellInv'
  OBVIOUS
<1>1. CASE shell_create
  BY <1>1, CreateStep
<1>2. CASE \E l \in Lines : Gets(l)
  BY <1>2, GetsStep
<1>3. CASE Split
  BY <1>3, SplitStep
<1>4. CASE Tokens
  BY <1>4, TokensStep
<1>5. CASE Lookup
  BY <1>5, LookupStep
<1>6. CASE Done
  BY <1>6, DoneStep
<1>7. CASE Plain \/ shell_execute_interrupt \/ shell_execute_ata_read \/ shell_execute_ata_write
  BY <1>7, CommandStep
<1>8. CASE Stopped \/ UNCHANGED vars
  <2>1. /\ pc' = pc /\ live' = live /\ line' = line /\ inputs' = inputs /\ saved' = saved
        /\ num_ws' = num_ws /\ argv' = argv /\ storage' = storage /\ commands' = commands
        /\ cursor' = cursor /\ unknown' = unknown /\ ran' = ran /\ blanks' = blanks
        /\ accepted' = accepted
    BY <1>8 DEF Stopped, vars
  <2>2. Types /\ BlocksInv /\ ParseInv /\ LookupInv /\ FaultExplained
    BY DEF ShellInv
  <2>3. Types' /\ BlocksInv' /\ ParseInv'
    BY <2>1, <2>2 DEF Types, BlocksInv, Room, ParseInv
  <2>4. LookupInv' /\ FaultExplained'
    BY <2>1, <2>2 DEF LookupInv, RanRight, Name, FaultExplained, Room
  <2> QED
    BY <2>3, <2>4 DEF ShellInv
<1> QED
  BY <1>1, <1>2, <1>3, <1>4, <1>5, <1>6, <1>7, <1>8 DEF Next, Executes

LEMMA ShellInvHolds == Spec => []ShellInv
BY ShellInvInit, ShellInvNext, PTL DEF Spec

-----------------------------------------------------------------------------
(* The theorems *)

\* For every line and every heap: the arguments of a command are the words of
\* the line in order, in places that were allocated for them, strtok keeps no
\* pointer into a line that was freed, and the one command the line names is
\* called, or none (shell_execute_command, strtok).
THEOREM LinesTakenExactly == Spec => []CommandExact
<1>1. ShellInv => CommandExact
  <2> SUFFICES ASSUME ShellInv PROVE CommandExact
    OBVIOUS
  <2>1. Types /\ BlocksInv /\ ParseInv /\ LookupInv
    BY DEF ShellInv
  <2>2. TypeOK
    <3>1. live \in [Kinds -> 0 .. HeapBlocks]
      <4>1. live \in [Kinds -> Nat] /\ Room >= 0 /\ HeapBlocks \in Nat
        BY <2>1, ShellAssumption DEF Types, BlocksInv
      <4>2. live["inputs"] \in Nat /\ live["argv"] \in Nat /\ live["sector"] \in Nat
        BY <4>1, ThreeKinds
      <4>3. live["inputs"] <= HeapBlocks /\ live["argv"] <= HeapBlocks /\ live["sector"] <= HeapBlocks
        BY <4>1, <4>2 DEF Room
      <4>4. \A k \in Kinds : live[k] \in 0 .. HeapBlocks
        BY <4>1, <4>2, <4>3 DEF Kinds
      <4> QED
        BY <4>1, <4>4
    <3>2. DOMAIN inputs = 1 .. Len(line) /\ cursor \in 1 .. Len(Names) + 1
      BY <2>1, SevenNames DEF Types
    <3> QED
      BY <2>1, <3>1, <3>2 DEF Types, TypeOK, Holding, Halted
  <2>3. ArgumentsExact
    <3>1. CASE pc \in {"lookup", "call"}
      <4>1. saved = 0 /\ Parsed(line, inputs, argv, 0) /\ num_ws = Cardinality(BlanksBefore(line, Len(line) + 1))
        BY <2>1, <3>1 DEF ParseInv, HasArgs
      <4> QED
        BY <3>1, <4>1 DEF ArgumentsExact, Parsed, ArgWords
    <3>2. CASE pc = "tokens"
      <4>1. Parsed(line, inputs, argv, saved) /\ num_ws = Cardinality(BlanksBefore(line, Len(line) + 1))
            /\ saved \in 0 .. Len(line) + 1 /\ line \in Seq(Text) /\ argv \in Seq(Nat)
        BY <2>1, <3>2 DEF ParseInv, HasArgs, Types
      <4>2. saved # 0 => /\ Cardinality(BlanksBefore(line, saved)) \in Nat
                         /\ Cardinality(BlanksBefore(line, saved)) <= num_ws
                         /\ num_ws \in Nat
        <5>1. saved \in Nat /\ Len(line) + 1 \in Nat /\ saved <= Len(line) + 1
          BY <4>1
        <5> QED
          BY <4>1, <5>1, BlankCount
      <4>3. Len(argv) <= num_ws + 1
        <5>1. CASE saved = 0
          BY <4>1, <5>1 DEF Parsed
        <5>2. CASE saved # 0
          <6>1. Len(argv) <= Cardinality(BlanksBefore(line, saved)) /\ Len(argv) \in Nat
            BY <4>1, <5>2 DEF Parsed
          <6> QED
            BY <4>2, <5>2, <6>1
        <5> QED
          BY <5>1, <5>2
      <4> QED
        BY <3>2, <4>3 DEF ArgumentsExact
    <3> QED
      BY <3>1, <3>2 DEF ArgumentsExact
  <2>4. NoStalePointer
    BY <2>1 DEF ParseInv, NoStalePointer
  <2>5. OneCommand
    BY <2>1 DEF LookupInv, OneCommand, RanRight
  <2> QED
    BY <2>2, <2>3, <2>4, <2>5 DEF CommandExact
<1> QED
  BY <1>1, ShellInvHolds, PTL

\* For every line and every heap: at the prompt nothing is allocated but an
\* argv for every line without a word and a sector buffer for every request
\* the driver took, and the shell faults only when the heap is exhausted, no
\* drive is there or ataread asks for more than the heap may have in one piece,
\* and goes astray only by int and ataread 0 0 (shell_execute,
\* shell_execute_command).
THEOREM LeaksExplained == Spec => []ResourcesExplained
<1>1. ShellInv => ResourcesExplained
  <2>1. ShellInv => OnlyKnownLeaks
    BY DEF ShellInv, Types, BlocksInv, OnlyKnownLeaks, Holding, HasArgs, Halted
  <2> QED
    BY <2>1 DEF ShellInv, ResourcesExplained
<1> QED
  BY <1>1, ShellInvHolds, PTL
=============================================================================
