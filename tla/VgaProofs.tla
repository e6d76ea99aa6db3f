------------------------------- MODULE VgaProofs -------------------------------
(***************************************************************************)
(* Proofs about Vga, for every size of the screen: the cursor stays on it, *)
(* nothing is left behind the cursor, the line on the screen is the line   *)
(* that was typed, and the backspace of the top line returns.              *)
(***************************************************************************)
EXTENDS Vga, TLAPS

-----------------------------------------------------------------------------
(* Rows *)

\* Multiplication by a natural number is monotonic.
LEMMA TimesMonotonic ==
    ASSUME NEW w \in Nat, NEW a \in Nat, NEW b \in Nat, a <= b
    PROVE  w * a <= w * b
<1>1. PICK d \in Nat : b = a + d
  <2> WITNESS b - a \in Nat
  <2> QED OBVIOUS
<1>2. w * b = (w * a) + (w * d)
  BY <1>1
<1>3. w * d >= 0
  OBVIOUS
<1> QED
  BY <1>2, <1>3

\* The screen is at least one row.
LEMMA ScreenSize ==
    /\ Size \in Nat /\ Width \in Nat \ {0}
    /\ Width <= Size /\ Size > 1
<1>1. Width * 1 <= Width * Height
  BY VgaAssumption, TimesMonotonic
<1> QED
  BY <1>1, VgaAssumption DEF Size

\* The start of the row below lies on the screen or just behind its end.
LEMMA NextRow ==
    ASSUME NEW p \in Cell
    PROVE  p + (Width - (p % Width)) \in (p + 1) .. Size
<1> DEFINE q == p \div Width
           r == p % Width
<1>1. Width \in Nat \ {0} /\ Height \in Nat \ {0} /\ p \in Nat /\ p < Width * Height
  BY VgaAssumption, ScreenSize DEF Cell, Size
<1>2. q \in Nat /\ r \in 0 .. Width - 1 /\ p = (Width * q) + r
  BY <1>1
<1> HIDE DEF q, r
<1>3. q < Height
  <2>1. SUFFICES ASSUME Height <= q PROVE FALSE
    BY <1>1, <1>2
  <2>2. Width * Height <= Width * q
    BY <2>1, <1>1, <1>2, TimesMonotonic
  <2> QED
    BY <2>2, <1>1, <1>2
<1>4. Width * (q + 1) <= Width * Height
  BY <1>1, <1>2, <1>3, TimesMonotonic
<1>5. Width * (q + 1) = (Width * q) + Width
  BY <1>1, <1>2
<1>6. p + (Width - r) = (Width * q) + Width /\ p + (Width - r) > p
  BY <1>1, <1>2
<1>7. p + (Width - r) \in (p + 1) .. Size
  BY <1>1, <1>2, <1>4, <1>5, <1>6 DEF Size
<1> QED
  BY <1>7 DEF r

-----------------------------------------------------------------------------
(* Writing to the screen *)

\* vga_scroll moves every cell up by a row and clears the last row.
LEMMA Scrolled ==
    ASSUME NEW s \in [Cell -> Char]
    PROVE  /\ vga_scroll(s) \in [Cell -> Char]
           /\ \A i \in Cell : i + Width \in Cell => vga_scroll(s)[i] = s[i + Width]
           /\ \A i \in Cell : i + Width \notin Cell => vga_scroll(s)[i] = NUL
<1> USE ScreenSize DEF Cell
<1>1. \A i \in Cell : i < Size - Width <=> i + Width \in Cell
  OBVIOUS
<1>2. NUL \in Char
  BY DEF Char
<1> QED
  BY <1>1, <1>2 DEF vga_scroll

\* Wherever vga_putchar leaves the cursor, it is a cell, and screen and cursor
\* have moved up together: by nothing or by a row.
LEMMA CursorMoved ==
    ASSUME NEW s \in [Cell -> Char], NEW p \in 0 .. Size, MoveCursor(s, p)
    PROVE  /\ cells' \in [Cell -> Char]
           /\ pos' \in Cell
           /\ \A k \in Nat \ {0} : k <= pos' => cells'[pos' - k] = s[p - k]
           /\ pos' <= p
           /\ (\A i \in Cell : i >= p => s[i] = NUL)
                  => \A i \in Cell : i >= pos' => cells'[i] = NUL
<1>1. CASE p = Size /\ cells' = vga_scroll(s) /\ pos' = p - Width
  <2>1. cells' \in [Cell -> Char] /\ pos' \in Cell /\ pos' <= p
    BY <1>1, Scrolled, ScreenSize DEF Cell
  <2>2. ASSUME NEW k \in Nat \ {0}, k <= pos'
        PROVE  cells'[pos' - k] = s[p - k]
    <3>1. pos' - k \in Cell /\ (pos' - k) + Width = p - k /\ p - k \in Cell
      BY <1>1, <2>2, ScreenSize DEF Cell
    <3> QED
      BY <1>1, <3>1, Scrolled
  <2>3. ASSUME NEW i \in Cell, i >= pos'
        PROVE  cells'[i] = NUL
    <3>1. i + Width \notin Cell
      BY <1>1, <2>3, ScreenSize DEF Cell
    <3> QED
      BY <1>1, <3>1, Scrolled
  <2> QED
    BY <2>1, <2>2, <2>3
<1>2. CASE p # Size /\ cells' = s /\ pos' = p
  BY <1>2, ScreenSize DEF Cell
<1> QED
  BY <1>1, <1>2 DEF MoveCursor

-----------------------------------------------------------------------------
(* The invariant *)

\* The cleaning loop has cleared the cells before n, and is at cell n until
\* its last character scrolls the screen.
CleanInv ==
    pc = "clean" =>
        /\ n \in 0 .. Size
        /\ n < Size => pos = n
        /\ \A i \in Cell : i < n => cells[i] = NUL

\* Nothing is typed while the prompt is printed, and the loops start at 0.
PromptInv ==
    /\ pc = "prompt" => n \in 0 .. Len(Prompt) /\ line = <<>>
    /\ pc \in {"read", "run"} => n = 0

VgaInv == TypeOK /\ CleanInv /\ PromptInv /\ BlankAhead /\ LineShown

LEMMA PromptChars == Prompt \in Seq(Char) /\ Len(Prompt) = 2
BY DEF Prompt, Char

\* A character put at the cursor of a typed screen.
LEMMA GlyphPut ==
    ASSUME TypeOK, NEW c \in Char, PutGlyph(c)
    PROVE  /\ cells' \in [Cell -> Char]
           /\ pos' \in Cell
           /\ pos' > 0 => cells'[pos' - 1] = c
           /\ \A k \in Nat : k > 1 /\ k <= pos' => /\ k - 1 <= pos
                                                    /\ cells'[pos' - k] = cells[pos - (k - 1)]
           /\ (\A i \in Cell : i >= pos => cells[i] = NUL)
                  => \A i \in Cell : i >= pos' => cells'[i] = NUL
<1> DEFINE s == [cells EXCEPT ![pos] = c]
           p == pos + 1
<1>1. pos \in Cell /\ cells \in [Cell -> Char] /\ pos \in Nat
  BY ScreenSize DEF TypeOK, Cell
<1>2. s \in [Cell -> Char] /\ p \in 0 .. Size
  BY <1>1, ScreenSize DEF Cell
<1>3. MoveCursor(s, p)
  BY DEF PutGlyph
<1>4. s[pos] = c /\ \A i \in Cell : i # pos => s[i] = cells[i]
  BY <1>1
<1> HIDE DEF s
<1>5. /\ cells' \in [Cell -> Char]
      /\ pos' \in Cell
      /\ \A k \in Nat \ {0} : k <= pos' => cells'[pos' - k] = s[p - k]
      /\ pos' <= p
      /\ (\A i \in Cell : i >= p => s[i] = NUL)
            => \A i \in Cell : i >= pos' => cells'[i] = NUL
  BY <1>2, <1>3, CursorMoved
<1>6. pos' > 0 => cells'[pos' - 1] = c
  <2>1. SUFFICES ASSUME pos' > 0 PROVE cells'[pos' - 1] = c
    OBVIOUS
  <2>2. 1 \in Nat \ {0} /\ 1 <= pos'
    BY <2>1, <1>5, ScreenSize DEF Cell
  <2>4. cells'[pos' - 1] = s[p - 1]
    BY <2>2, <1>5
  <2>3. p - 1 = pos
    BY <1>1
  <2> QED
    BY <2>4, <2>3, <1>4
<1>7. ASSUME NEW k \in Nat, k > 1, k <= pos'
      PROVE  k - 1 <= pos /\ cells'[pos' - k] = cells[pos - (k - 1)]
  <2>1. k - 1 <= pos /\ p - k = pos - (k - 1) /\ p - k \in Cell /\ p - k # pos
    BY <1>1, <1>5, <1>7, ScreenSize DEF Cell
  <2>2. cells'[pos' - k] = s[p - k]
    BY <1>5, <1>7
  <2> QED
    BY <1>4, <2>1, <2>2
<1>8. ASSUME \A i \in Cell : i >= pos => cells[i] = NUL
      PROVE  \A i \in Cell : i >= p => s[i] = NUL
  BY <1>1, <1>4, <1>8, ScreenSize DEF Cell
<1> HIDE DEF p
<1> QED
  BY <1>5, <1>6, <1>7, <1>8

\* A new line leaves the screen typed and blank behind the cursor.
LEMMA NewlinePut ==
    ASSUME TypeOK, PutNewline
    PROVE  /\ cells' \in [Cell -> Char]
           /\ pos' \in Cell
           /\ (\A i \in Cell : i >= pos => cells[i] = NUL)
                  => \A i \in Cell : i >= pos' => cells'[i] = NUL
<1> DEFINE p == pos + (Width - (pos % Width))
<1>1. pos \in Cell /\ cells \in [Cell -> Char] /\ pos \in Nat
  BY ScreenSize DEF TypeOK, Cell
<1>2. p \in (pos + 1) .. Size
  BY <1>1, NextRow
<1>3. MoveCursor(cells, p)
  BY DEF PutNewline
<1> HIDE DEF p
<1>4. p \in 0 .. Size /\ p > pos
  BY <1>1, <1>2, ScreenSize
<1>5. (\A i \in Cell : i >= pos => cells[i] = NUL)
          => \A i \in Cell : i >= p => cells[i] = NUL
  BY <1>1, <1>4, ScreenSize DEF Cell
<1> QED
  BY <1>1, <1>3, <1>4, <1>5, CursorMoved

\* Backspace clears the cell before the cursor and moves there.
LEMMA BackspacePut ==
    ASSUME TypeOK, PutBackspace
    PROVE  /\ cells' \in [Cell -> Char]
           /\ pos' \in Cell
           /\ pos' = IF pos > 0 THEN pos - 1 ELSE pos
           /\ cells' = [cells EXCEPT ![pos'] = NUL]
<1> DEFINE p == IF pos > 0 THEN pos - 1 ELSE pos
<1>1. pos \in Cell /\ cells \in [Cell -> Char] /\ NUL \in Char
  BY DEF TypeOK, Char
<1>2. p \in Cell /\ p # Size
  BY <1>1, ScreenSize DEF Cell
<1>3. MoveCursor([cells EXCEPT ![p] = NUL], p)
  BY DEF PutBackspace
<1>4. pos' = p /\ cells' = [cells EXCEPT ![p] = NUL]
  BY <1>2, <1>3 DEF MoveCursor
<1> QED
  BY <1>1, <1>2, <1>4

\* A line loses its end.
LEMMA Prefixes ==
    ASSUME NEW s \in Seq(Glyphs), NEW m \in Nat, m <= Len(s)
    PROVE  /\ SubSeq(s, 1, m) \in Seq(Glyphs)
           /\ Len(SubSeq(s, 1, m)) = m
           /\ \A j \in 1 .. m : SubSeq(s, 1, m)[j] = s[j]
OBVIOUS

-----------------------------------------------------------------------------
(* The invariant holds *)

LEMMA VgaInvInit == Init => VgaInv
<1> SUFFICES ASSUME Init PROVE VgaInv
  OBVIOUS
<1>1. TypeOK
  BY ScreenSize, PromptChars DEF Init, TypeOK, Cell
<1> QED
  BY <1>1 DEF Init, VgaInv, CleanInv, PromptInv, BlankAhead, LineShown

LEMMA VgaInvNext == VgaInv /\ [Next]_vars => VgaInv'
<1> SUFFICES ASSUME VgaInv, [Next]_vars PROVE VgaInv'
  OBVIOUS
<1> USE DEF VgaInv
<1>1. CASE StartClean
  <2>1. TypeOK'
    BY <1>1, ScreenSize, PromptChars DEF StartClean, TypeOK, Cell
  <2>2. CleanInv'
    BY <1>1, ScreenSize DEF StartClean, CleanInv, Cell
  <2> QED
    BY <1>1, <2>1, <2>2 DEF StartClean, PromptInv, BlankAhead, LineShown
<1>2. CASE CleanCell
  <2>1. PutGlyph(NUL) /\ pc = "clean" /\ pc' = "clean" /\ n < Size /\ n' = n + 1
        /\ line' = line /\ NUL \in Char
    BY <1>2 DEF CleanCell, Char
  <2>2. n \in Nat /\ pos = n /\ \A i \in Cell : i < n => cells[i] = NUL
    BY <2>1, ScreenSize DEF CleanInv
  <2>3. cells' \in [Cell -> Char] /\ pos' \in Cell
    BY <2>1, GlyphPut
  <2>4. TypeOK'
    BY <2>1, <2>2, <2>3, ScreenSize, PromptChars DEF TypeOK
  <2>5. CleanInv'
    <3> DEFINE s == [cells EXCEPT ![pos] = NUL]
    <3>1. MoveCursor(s, n + 1)
      BY <2>1, <2>2 DEF PutGlyph
    <3>2. s \in [Cell -> Char] /\ \A i \in Cell : i < n + 1 => s[i] = NUL
      BY <2>1, <2>2, ScreenSize DEF TypeOK, Cell
    <3> HIDE DEF s
    <3>3. CASE n + 1 = Size
      <4>1. cells' = vga_scroll(s) /\ \A i \in Cell : s[i] = NUL
        BY <3>1, <3>2, <3>3, <2>2, ScreenSize DEF MoveCursor, Cell
      <4>2. \A i \in Cell : cells'[i] = NUL
        BY <4>1, <3>2, Scrolled
      <4> QED
        BY <2>1, <2>2, <3>3, <4>2, ScreenSize DEF CleanInv
    <3>4. CASE n + 1 # Size
      BY <2>1, <2>2, <3>1, <3>2, <3>4, ScreenSize DEF CleanInv, MoveCursor
    <3> QED
      BY <3>3, <3>4
  <2> QED
    BY <2>1, <2>4, <2>5 DEF PromptInv, BlankAhead, LineShown
<1>3. CASE EndClean
  <2>1. \A i \in Cell : cells[i] = NUL
    BY <1>3, ScreenSize DEF EndClean, CleanInv, Cell
  <2>2. TypeOK'
    BY <1>3, ScreenSize, PromptChars DEF EndClean, TypeOK, Cell
  <2> QED
    BY <1>3, <2>1, <2>2, PromptChars DEF EndClean, CleanInv, PromptInv, BlankAhead, LineShown
<1>4. CASE PrintPrompt
  <2>1. pc = "prompt" /\ pc' = "prompt" /\ n < Len(Prompt) /\ n' = n + 1 /\ line' = line
        /\ PutGlyph(Prompt[n + 1])
    BY <1>4 DEF PrintPrompt
  <2>2. n \in 0 .. 1 /\ Prompt[n + 1] \in Char /\ line = <<>>
    BY <2>1, PromptChars DEF PromptInv
  <2>3. /\ cells' \in [Cell -> Char] /\ pos' \in Cell
        /\ (\A i \in Cell : i >= pos => cells[i] = NUL)
               => \A i \in Cell : i >= pos' => cells'[i] = NUL
    BY <2>1, <2>2, GlyphPut
  <2>4. TypeOK'
    BY <2>1, <2>2, <2>3, ScreenSize, PromptChars DEF TypeOK
  <2>5. BlankAhead'
    BY <2>1, <2>3 DEF BlankAhead
  <2> QED
    BY <2>1, <2>2, <2>4, <2>5, PromptChars DEF CleanInv, PromptInv, LineShown
<1>5. CASE StartReading
  <2>1. TypeOK'
    BY <1>5, ScreenSize, PromptChars DEF StartReading, TypeOK
  <2>2. LineShown'
    BY <1>5 DEF StartReading, LineShown, PromptInv
  <2> QED
    BY <1>5, <2>1, <2>2 DEF StartReading, CleanInv, PromptInv, BlankAhead
<1>6. CASE EchoGlyph
  <2>1. PICK c \in Glyphs : PutGlyph(c) /\ line' = Append(line, c)
    BY <1>6 DEF EchoGlyph
  <2>2. pc = "read" /\ pc' = "read" /\ n' = n /\ c \in Char /\ line \in Seq(Glyphs)
    BY <1>6 DEF EchoGlyph, Char, TypeOK
  <2>3. /\ cells' \in [Cell -> Char] /\ pos' \in Cell
        /\ pos' > 0 => cells'[pos' - 1] = c
        /\ \A k \in Nat : k > 1 /\ k <= pos' => /\ k - 1 <= pos
                                                /\ cells'[pos' - k] = cells[pos - (k - 1)]
        /\ (\A i \in Cell : i >= pos => cells[i] = NUL)
               => \A i \in Cell : i >= pos' => cells'[i] = NUL
    BY <2>1, <2>2, GlyphPut
  <2>4. TypeOK'
    BY <2>1, <2>2, <2>3 DEF TypeOK
  <2>5. BlankAhead'
    BY <2>2, <2>3 DEF BlankAhead
  <2>6. Len(line') = Len(line) + 1 /\ line'[Len(line) + 1] = c
        /\ \A j \in 1 .. Len(line) : line'[j] = line[j]
    BY <2>1, <2>2
  <2>7. ASSUME NEW k \in 1 .. Len(line'), k <= pos'
        PROVE  cells'[pos' - k] = line'[Len(line') + 1 - k]
    <3>1. CASE k = 1
      <4>1. pos' > 0 /\ Len(line') + 1 - k = Len(line) + 1
        BY <2>2, <2>3, <2>6, <2>7, <3>1, ScreenSize DEF Cell
      <4> QED
        BY <2>3, <2>6, <3>1, <4>1
    <3>2. CASE k > 1
      <4> DEFINE j == k - 1
      <4>1. j \in 1 .. Len(line) /\ Len(line') + 1 - k = Len(line) + 1 - j
            /\ Len(line) + 1 - j \in 1 .. Len(line) /\ k \in Nat
        BY <2>2, <2>6, <2>7, <3>2
      <4>2. j <= pos /\ cells'[pos' - k] = cells[pos - j]
        BY <2>3, <2>7, <3>2, <4>1
      <4> HIDE DEF j
      <4>3. cells[pos - j] = line[Len(line) + 1 - j]
        BY <2>2, <4>1, <4>2 DEF LineShown
      <4> QED
        BY <2>6, <4>1, <4>2, <4>3
    <3> QED
      BY <3>1, <3>2, <2>2, <2>6
  <2>8. LineShown'
    BY <2>7 DEF LineShown
  <2> QED
    BY <2>2, <2>4, <2>5, <2>8 DEF CleanInv, PromptInv
<1>7. CASE EchoBackspace
  <2>1. CASE PutBackspace /\ line' = SubSeq(line, 1, Len(line) - 1) /\ pc' = pc
    <3>1. pc = "read" /\ n' = n /\ line # <<>> /\ line \in Seq(Glyphs)
      BY <1>7 DEF EchoBackspace, TypeOK
    <3>2. /\ cells' \in [Cell -> Char] /\ pos' \in Cell
          /\ pos' = IF pos > 0 THEN pos - 1 ELSE pos
          /\ cells' = [cells EXCEPT ![pos'] = NUL]
      BY <2>1, BackspacePut
    <3>3. /\ line' \in Seq(Glyphs) /\ Len(line') = Len(line) - 1 /\ Len(line') \in Nat
          /\ \A j \in 1 .. Len(line') : line'[j] = line[j]
      <4>1. Len(line) \in Nat \ {0}
        BY <3>1
      <4> DEFINE m == Len(line) - 1
      <4>2. m \in Nat /\ m <= Len(line)
        BY <4>1
      <4>3. line' = SubSeq(line, 1, m)
        BY <2>1
      <4> HIDE DEF m
      <4>4. line' \in Seq(Glyphs) /\ Len(line') = m /\ \A j \in 1 .. m : line'[j] = line[j]
        BY <3>1, <4>2, <4>3, Prefixes
      <4> QED
        BY <4>2, <4>4 DEF m
    <3>4. TypeOK'
      BY <2>1, <3>1, <3>2, <3>3 DEF TypeOK
    <3>5. BlankAhead'
      BY <2>1, <3>1, <3>2, ScreenSize DEF BlankAhead, TypeOK, Cell
    <3>6. ASSUME NEW k \in 1 .. Len(line'), k <= pos'
          PROVE  cells'[pos' - k] = line'[Len(line') + 1 - k]
      <4> DEFINE j == k + 1
      <4>1. /\ pos' = pos - 1 /\ pos' - k = pos - j /\ pos' - k \in Cell /\ pos' - k # pos'
            /\ j <= pos
        BY <3>2, <3>3, <3>6, ScreenSize DEF TypeOK, Cell
      <4>2. /\ j \in 1 .. Len(line) /\ Len(line') + 1 - k = Len(line) + 1 - j
            /\ Len(line') + 1 - k \in 1 .. Len(line')
        <5>1. Len(line) \in Nat /\ Len(line') = Len(line) - 1 /\ Len(line') \in Nat
          BY <3>1, <3>3
        <5> QED
          BY <5>1, <3>6
      <4> HIDE DEF j
      <4>3. cells[pos - j] = line[Len(line) + 1 - j]
        BY <3>1, <4>1, <4>2 DEF LineShown
      <4>4. cells'[pos' - k] = cells[pos' - k]
        BY <3>2, <4>1 DEF TypeOK
      <4> QED
        BY <3>3, <4>1, <4>2, <4>3, <4>4
    <3>7. LineShown'
      BY <3>6 DEF LineShown
    <3> QED
      BY <2>1, <3>1, <3>4, <3>5, <3>7 DEF CleanInv, PromptInv
  <2>2. CASE BackspaceHangs /\ pc' = "hang" /\ UNCHANGED <<cells, pos, line>>
    <3>1. pc = "read" /\ n' = n
      BY <1>7 DEF EchoBackspace
    <3> QED
      BY <2>2, <3>1 DEF TypeOK, CleanInv, PromptInv, BlankAhead, LineShown
  <2> QED
    BY <1>7, <2>1, <2>2 DEF EchoBackspace
<1>8. CASE EchoEnter
  <2>1. pc = "read" /\ pc' = "run" /\ n' = n /\ line' = line /\ PutNewline
    BY <1>8 DEF EchoEnter
  <2>2. /\ cells' \in [Cell -> Char] /\ pos' \in Cell
        /\ (\A i \in Cell : i >= pos => cells[i] = NUL)
               => \A i \in Cell : i >= pos' => cells'[i] = NUL
    BY <2>1, NewlinePut
  <2> QED
    BY <2>1, <2>2 DEF TypeOK, CleanInv, PromptInv, BlankAhead, LineShown
<1>9. CASE PrintOutput
  <2>1. pc = "run" /\ pc' = "run" /\ n' = n /\ line' = line
    BY <1>9 DEF PrintOutput
  <2>2. /\ cells' \in [Cell -> Char] /\ pos' \in Cell
        /\ (\A i \in Cell : i >= pos => cells[i] = NUL)
               => \A i \in Cell : i >= pos' => cells'[i] = NUL
    <3>1. CASE PutNewline
      BY <3>1, NewlinePut
    <3>2. ASSUME NEW c \in Glyphs, PutGlyph(c)
          PROVE  /\ cells' \in [Cell -> Char] /\ pos' \in Cell
                 /\ (\A i \in Cell : i >= pos => cells[i] = NUL)
                        => \A i \in Cell : i >= pos' => cells'[i] = NUL
      <4>1. c \in Char
        BY DEF Char
      <4> QED
        BY <3>2, <4>1, GlyphPut
    <3> QED
      BY <1>9, <3>1, <3>2 DEF PrintOutput
  <2> QED
    BY <2>1, <2>2 DEF TypeOK, CleanInv, PromptInv, BlankAhead, LineShown
<1>10. CASE EndCommand
  <2>1. TypeOK'
    BY <1>10 DEF EndCommand, TypeOK
  <2> QED
    BY <1>10, <2>1 DEF EndCommand, CleanInv, PromptInv, BlankAhead, LineShown
<1>11. CASE Hang \/ UNCHANGED vars
  <2>1. UNCHANGED vars
    BY <1>11 DEF Hang
  <2> QED
    BY <2>1 DEF vars, TypeOK, CleanInv, PromptInv, BlankAhead, LineShown
<1> QED
  BY <1>1, <1>2, <1>3, <1>4, <1>5, <1>6, <1>7, <1>8, <1>9, <1>10, <1>11 DEF Next

\* VgaInv is an invariant.
LEMMA VgaInvHolds == Spec => []VgaInv
BY VgaInvInit, VgaInvNext, PTL DEF Spec

\* On every screen the cursor is on the screen, wherever scrolling, wrapping
\* and erasing take it.
THEOREM CursorOnScreen == Spec => []TypeOK
<1>1. VgaInv => TypeOK
  BY DEF VgaInv
<1> QED
  BY <1>1, VgaInvHolds, PTL

\* On every screen nothing is left behind the cursor.
THEOREM ScreenBlankAhead == Spec => []BlankAhead
<1>1. VgaInv => BlankAhead
  BY DEF VgaInv
<1> QED
  BY <1>1, VgaInvHolds, PTL

\* On every screen the line before the cursor is the line that was typed.
THEOREM TypedLineShown == Spec => []LineShown
<1>1. VgaInv => LineShown
  BY DEF VgaInv
<1> QED
  BY <1>1, VgaInvHolds, PTL

-----------------------------------------------------------------------------
(* The backspace of the first line *)

\* The space of the prompt stays before the line that is typed, as long as
\* that much of the line is on the screen.
PromptShown ==
    /\ pc = "prompt" /\ n = 2 /\ 1 <= pos => cells[pos - 1] = Prompt[2]
    /\ pc = "read" /\ Len(line) + 1 <= pos => cells[pos - (Len(line) + 1)] = Prompt[2]

\* The last character of the prompt is not an empty cell.
LEMMA SpaceVisible == Prompt[2] # NUL
<1>1. Prompt[2] = " "
  BY DEF Prompt
<1>2. NUL # " "
  BY Zenon DEF NUL
<1> QED
  BY <1>1, <1>2, Zenon

EraseInv == VgaInv /\ PromptShown /\ TopLineErasable

LEMMA EraseInvInit == Init => EraseInv
BY VgaInvInit DEF Init, EraseInv, PromptShown, TopLineErasable

LEMMA EraseInvNext == EraseInv /\ [Next]_vars => EraseInv'
<1> SUFFICES ASSUME EraseInv, [Next]_vars PROVE PromptShown' /\ TopLineErasable'
  BY VgaInvNext DEF EraseInv
<1>1. VgaInv /\ TypeOK /\ PromptInv /\ PromptShown /\ TopLineErasable
  BY DEF EraseInv, VgaInv
<1>2. pos \in Nat /\ Len(line) \in Nat /\ cells \in [Cell -> Char]
  BY <1>1, ScreenSize DEF TypeOK, Cell
<1>3. CASE StartClean \/ CleanCell \/ EndClean \/ EchoEnter \/ PrintOutput
  <2>1. pc' \notin {"read", "hang"} /\ (pc' = "prompt" => n' = 0)
    BY <1>3 DEF StartClean, CleanCell, EndClean, EchoEnter, PrintOutput
  <2> QED
    BY <2>1 DEF PromptShown, TopLineErasable
<1>4. CASE EndCommand
  <2>1. pc' = "prompt" /\ n' = 0
    BY <1>4, <1>1 DEF EndCommand, PromptInv
  <2> QED
    BY <2>1 DEF PromptShown, TopLineErasable
<1>5. CASE PrintPrompt
  <2>1. pc = "prompt" /\ pc' = "prompt" /\ n < 2 /\ n \in 0 .. 2 /\ n' = n + 1
        /\ PutGlyph(Prompt[n + 1])
    BY <1>5, <1>1, PromptChars DEF PrintPrompt, PromptInv
  <2>2. ASSUME n' = 2, 1 <= pos' PROVE cells'[pos' - 1] = Prompt[2]
    <3>1. n = 1
      BY <2>1, <2>2
    <3>2. n + 1 = 2
      BY <3>1
    <3>3. Prompt[2] \in Char
      BY PromptChars
    <3>4. Prompt[n + 1] = Prompt[2] /\ Prompt[2] \in Char
      BY <3>2, <3>3
    <3>5. pos' \in Cell /\ (pos' > 0 => cells'[pos' - 1] = Prompt[2])
      BY <1>1, <2>1, <3>4, GlyphPut
    <3> QED
      BY <3>5, <2>2, ScreenSize DEF Cell
  <2> QED
    BY <2>1, <2>2 DEF PromptShown, TopLineErasable
<1>6. CASE StartReading
  <2>1. pc = "prompt" /\ n = 2 /\ pc' = "read" /\ cells' = cells /\ pos' = pos
        /\ line' = <<>> /\ Len(line') = 0
    BY <1>6, <1>1, PromptChars DEF StartReading, PromptInv
  <2>2. 1 <= pos => cells[pos - 1] = Prompt[2]
    BY <2>1, <1>1 DEF PromptShown
  <2> QED
    BY <2>1, <2>2 DEF PromptShown, TopLineErasable
<1>7. CASE EchoGlyph
  <2>1. PICK c \in Glyphs : PutGlyph(c) /\ line' = Append(line, c)
    BY <1>7 DEF EchoGlyph
  <2>2. pc = "read" /\ pc' = "read" /\ c \in Char /\ line \in Seq(Glyphs)
    BY <1>7, <1>1 DEF EchoGlyph, Char, TypeOK
  <2>3. Len(line') = Len(line) + 1
    BY <2>1, <2>2
  <2> DEFINE k == Len(line) + 2
  <2>4. k \in Nat /\ k > 1 /\ k - 1 = Len(line) + 1 /\ Len(line') + 1 = k
    BY <1>2, <2>3
  <2> HIDE DEF k
  <2>5. k <= pos' => k - 1 <= pos /\ cells'[pos' - k] = cells[pos - (k - 1)]
    BY <1>1, <2>1, <2>2, <2>4, GlyphPut
  <2>6. k <= pos' => cells'[pos' - k] = Prompt[2]
    BY <1>1, <2>2, <2>4, <2>5 DEF PromptShown
  <2> QED
    BY <2>2, <2>4, <2>6 DEF PromptShown, TopLineErasable
<1>8. CASE EchoBackspace
  <2>0. pc = "read" /\ line # <<>> /\ line \in Seq(Glyphs)
    BY <1>8, <1>1 DEF EchoBackspace, TypeOK
  <2>1. CASE PutBackspace /\ line' = SubSeq(line, 1, Len(line) - 1) /\ pc' = pc
    <3>1. /\ pos' \in Cell
          /\ pos' = IF pos > 0 THEN pos - 1 ELSE pos
          /\ cells' = [cells EXCEPT ![pos'] = NUL]
      BY <1>1, <2>1, BackspacePut
    <3>2. Len(line) - 1 \in Nat /\ Len(line) - 1 <= Len(line)
      BY <2>0
    <3>3. Len(line') = Len(line) - 1
      BY <2>0, <2>1, <3>2, Prefixes
    <3>4. ASSUME Len(line') + 1 <= pos' PROVE cells'[pos' - (Len(line') + 1)] = Prompt[2]
      <4>1. pos' = pos - 1 /\ Len(line) + 1 <= pos
            /\ pos' - (Len(line') + 1) = pos - (Len(line) + 1)
        BY <1>2, <3>1, <3>2, <3>3, <3>4
      <4>2. cells[pos - (Len(line) + 1)] = Prompt[2]
        BY <1>1, <2>0, <4>1 DEF PromptShown
      <4>3. pos - (Len(line) + 1) \in Cell /\ pos - (Len(line) + 1) # pos'
        BY <1>1, <1>2, <3>2, <4>1, ScreenSize DEF TypeOK, Cell
      <4> QED
        BY <1>2, <3>1, <4>1, <4>2, <4>3
    <3> QED
      BY <2>0, <2>1, <3>4 DEF PromptShown, TopLineErasable
  <2>2. CASE BackspaceHangs /\ pc' = "hang" /\ UNCHANGED <<cells, pos, line>>
    <3>1. ASSUME pos = 2 + Len(line) PROVE FALSE
      <4>1. Len(line) + 1 <= pos /\ pos - (Len(line) + 1) = 1
        BY <1>2, <3>1
      <4>2. cells[1] = Prompt[2]
        BY <1>1, <2>0, <4>1 DEF PromptShown
      <4> QED
        BY <2>2, <4>2, SpaceVisible DEF BackspaceHangs
    <3> QED
      BY <2>2, <3>1, PromptChars DEF PromptShown, TopLineErasable
  <2> QED
    BY <1>8, <2>1, <2>2 DEF EchoBackspace
<1>9. CASE Hang \/ UNCHANGED vars
  <2>1. UNCHANGED vars
    BY <1>9 DEF Hang
  <2> QED
    BY <1>1, <2>1 DEF vars, PromptShown, TopLineErasable
<1> QED
  BY <1>3, <1>4, <1>5, <1>6, <1>7, <1>8, <1>9 DEF Next

\* On every screen the backspace of a line whose prompt stands in the top left
\* corner returns: the cell that vga_putchar tests holds the space of the prompt.
THEOREM TopLineStaysErasable == Spec => []TopLineErasable
<1>1. EraseInv => TopLineErasable
  BY DEF EraseInv
<1> QED
  BY <1>1, EraseInvInit, EraseInvNext, PTL DEF Spec
=============================================================================
