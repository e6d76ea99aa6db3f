---------------------------------- MODULE Vga ----------------------------------
(***************************************************************************)
(* The VGA text console (kernel/src/drivers/video/vga/vga.c) and the calls *)
(* that reach it: the prompt and the output of the shell, and the echo of  *)
(* tty_gets (kernel/src/io/tty.c, shell/shell.c).                          *)
(*                                                                         *)
(* The screen is one array of cells, row after row; a cell is its          *)
(* character, as the attribute is always the same.  pos is the offset of   *)
(* the cursor in cells, y * width + x: the code computes x and y from the  *)
(* offset and the offset from x and y.  tty_putchar puts a character into  *)
(* the empty tty->output and tty_flush renders it at once, so an echo is   *)
(* one call of vga_putchar.  Only the mainline writes to the screen.       *)
(***************************************************************************)
EXTENDS Integers, Sequences

CONSTANTS
    Width, Height,   \* of the screen, in cells
    Glyphs,          \* the characters the user types and commands print
    MaxLine          \* bound: the length of a line that is typed

ASSUME VgaAssumption ==
    /\ Width \in Nat \ {0} /\ Height \in Nat \ {0}
    /\ Width * Height > 1
    /\ MaxLine \in Nat

NUL == "\\0"
Newline == "\\n"
Backspace == "\\b"
Prompt == <<">", " ">>

ASSUME GlyphAssumption == Glyphs \cap {NUL, Newline, Backspace} = {}

Size == Width * Height
Cell == 0 .. Size - 1
Char == Glyphs \cup {NUL, ">", " "}

VARIABLES
    cells,    \* video memory
    pos,      \* the cursor, as a cell
    pc,       \* what the mainline is doing
    n,        \* how many characters of the current loop are written
    line      \* what the user has typed behind the prompt, and not erased

vars == <<cells, pos, pc, n, line>>

-----------------------------------------------------------------------------
(* vga_putchar *)

\* Defect: the last row keeps its text when it has moved up.
ScrollKeepingLast(s) ==
    [i \in Cell |-> IF i < Size - Width THEN s[i + Width] ELSE s[i]]

vga_scroll(s) ==
    [i \in Cell |-> IF i < Size - Width THEN s[i + Width] ELSE NUL]

\* Defect: a scroll takes the cursor back by a cell instead of a row.
ScrollByCell(s, p) ==
    /\ cells' = IF p = Size THEN vga_scroll(s) ELSE s
    /\ pos' = IF p = Size THEN p - 1 ELSE p

\* Defect: the end of the screen is not looked for.
MoveWithoutScroll(s, p) ==
    /\ cells' = s
    /\ pos' = p

\* The end of vga_putchar: the cursor goes to p, which may be one cell behind
\* the last.
MoveCursor(s, p) ==
    \/ /\ p = Size
       /\ cells' = vga_scroll(s)
       /\ pos' = p - Width
    \/ /\ p # Size
       /\ cells' = s
       /\ pos' = p

PutNewline == MoveCursor(cells, pos + (Width - (pos % Width)))

\* Defect: the loop tests the cell the cursor is on.
BackspaceHangsAtCursor == pos > 0 /\ cells[pos] = NUL

(***************************************************************************)
(* The loop looks for a cell that is not empty, but tests cell 1 of the    *)
(* screen whatever the offset is: it ends in its first round or never.     *)
(***************************************************************************)
BackspaceHangs == pos > 0 /\ cells[1] = NUL

PutBackspace ==
    LET p == IF pos > 0 THEN pos - 1 ELSE pos
    IN  /\ ~BackspaceHangs
        /\ MoveCursor([cells EXCEPT ![p] = NUL], p)

PutGlyph(c) == MoveCursor([cells EXCEPT ![pos] = c], pos + 1)

-----------------------------------------------------------------------------
(* The mainline *)

\* vga_init, and shell_execute_clear: the loop of vga_clean_screen starts.
StartClean ==
    /\ pc \in {"init", "run"}
    /\ pos' = 0 /\ n' = 0
    /\ pc' = "clean"
    /\ UNCHANGED <<cells, line>>

CleanCell ==
    /\ pc = "clean" /\ n < Size
    /\ PutGlyph(NUL)
    /\ n' = n + 1
    /\ UNCHANGED <<pc, line>>

EndClean ==
    /\ pc = "clean" /\ n = Size
    /\ pos' = 0 /\ n' = 0
    /\ pc' = "prompt" /\ line' = <<>>
    /\ UNCHANGED cells

\* shell_execute prints the prompt ...
PrintPrompt ==
    /\ pc = "prompt" /\ n < Len(Prompt)
    /\ PutGlyph(Prompt[n + 1])
    /\ n' = n + 1
    /\ UNCHANGED <<pc, line>>

\* ... and calls tty_gets.
StartReading ==
    /\ pc = "prompt" /\ n = Len(Prompt)
    /\ pc' = "read" /\ n' = 0
    /\ UNCHANGED <<cells, pos, line>>

EchoGlyph ==
    /\ pc = "read" /\ Len(line) < MaxLine
    /\ \E c \in Glyphs : PutGlyph(c) /\ line' = Append(line, c)
    /\ UNCHANGED <<pc, n>>

EchoBackspace ==
    /\ pc = "read" /\ line # <<>>
    /\ \/ /\ PutBackspace
          /\ line' = SubSeq(line, 1, Len(line) - 1)
          /\ UNCHANGED pc
       \/ /\ BackspaceHangs
          /\ pc' = "hang"
          /\ UNCHANGED <<cells, pos, line>>
    /\ UNCHANGED n

EchoEnter ==
    /\ pc = "read"
    /\ PutNewline
    /\ pc' = "run"
    /\ UNCHANGED <<n, line>>

\* A command prints what it likes.
PrintOutput ==
    /\ pc = "run"
    /\ PutNewline \/ \E c \in Glyphs : PutGlyph(c)
    /\ UNCHANGED <<pc, n, line>>

EndCommand ==
    /\ pc = "run"
    /\ pc' = "prompt" /\ line' = <<>>
    /\ UNCHANGED <<cells, pos, n>>

Hang == pc = "hang" /\ UNCHANGED vars

\* The boot loader leaves its text on the screen.
Init ==
    /\ cells \in [Cell -> Char]
    /\ pos = 0 /\ pc = "init" /\ n = 0 /\ line = <<>>

Next ==
    \/ StartClean \/ CleanCell \/ EndClean
    \/ PrintPrompt \/ StartReading
    \/ EchoGlyph \/ EchoBackspace \/ EchoEnter
    \/ PrintOutput \/ EndCommand
    \/ Hang

Spec == Init /\ [][Next]_vars

-----------------------------------------------------------------------------
(* Properties *)

\* Every variable keeps to its type; the cursor is on the screen.
TypeOK ==
    /\ cells \in [Cell -> Char]
    /\ pos \in Cell
    /\ pc \in {"init", "clean", "prompt", "read", "run", "hang"}
    /\ n \in 0 .. Size + Len(Prompt)
    /\ line \in Seq(Glyphs)

(***************************************************************************)
(* Once the screen has been cleaned, nothing is left at the cursor or      *)
(* behind it: vga_clean_screen clears text from before, although its last  *)
(* character scrolls, and no old text shows behind an erased character.    *)
(***************************************************************************)
BlankAhead ==
    pc \notin {"init", "clean"} => \A i \in Cell : i >= pos => cells[i] = NUL

(***************************************************************************)
(* What the user reads before the cursor is the line tty_gets holds, as    *)
(* far as it fits on the screen: echo, erasure over the end of a row and   *)
(* scrolling in the middle of a line agree with each other.                *)
(***************************************************************************)
LineShown ==
    pc = "read" =>
        \A k \in 1 .. Len(line) :
            k <= pos => cells[pos - k] = line[Len(line) + 1 - k]

(***************************************************************************)
(* Backspace returns as long as the prompt of the line stands in the top   *)
(* left corner, written there after a clear or scrolled there: only then   *)
(* the cell that the loop of vga_putchar tests is sure to hold a character.*)
(***************************************************************************)
TopLineErasable == pc = "hang" => pos # Len(Prompt) + Len(line)
=============================================================================
