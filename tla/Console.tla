------------------------------ MODULE Console -------------------------------
(***************************************************************************)
(* The console: the canvas that log and the panic handlers write through   *)
(* kwrite, putChar and clearScreen, a store at a time, and an exception    *)
(* that strikes between any two of them.                                   *)
(*                                                                         *)
(* A text is a sequence of glyphs and newlines; which glyph, its color and *)
(* log's formatting are left out. A glyph on the screen is its upper left  *)
(* corner.                                                                 *)
(***************************************************************************)
EXTENDS Integers, Sequences, FiniteSets

CONSTANTS
    Ppsl, Heights,      \* the frame buffer: pixels of a scanline, scanlines
    GlyphW, GlyphH,     \* 8 and 16
    RowStep,            \* 20, from a line to the next
    ColumnStep,         \* 300, from a column to the next
    Margin,             \* 10, where clearScreen puts the canvas
    FirstRow,           \* 55, where the canvas starts
    PanicText,          \* what a panic handler writes
    MaxLine, MaxLines,  \* bounds: glyphs in a line, lines of the log
    MaxPanics           \* bound: exceptions

Text == {"glyph", "newline"}

ASSUME ConsoleAssumption ==
    /\ Ppsl \in Nat /\ ColumnStep \in Nat \ {0}
    /\ GlyphW \in Nat \ {0} /\ GlyphH \in Nat \ {0} /\ RowStep \in Nat \ {0}
    /\ GlyphH <= RowStep
    /\ Margin \in Nat \ {0} /\ FirstRow \in Nat /\ Margin + GlyphH <= FirstRow
    /\ Heights \subseteq Nat /\ \A h \in Heights : FirstRow < h
    /\ PanicText \in Seq(Text)
    /\ MaxLine \in Nat /\ MaxLines \in Nat /\ MaxPanics \in Nat

VARIABLES
    height,       \* of the frame buffer the loader found
    x, y, prevX,  \* of canvas
    pc,           \* the store that comes next
    text,         \* what a panic handler has still to write
    panics,       \* panic handlers entered; 0 while the kernel logs
    glyphs,       \* the screen: where glyphs were drawn since it was cleared
    cleared,      \* whether clearScreen was called
    over,         \* the rows in which a glyph was drawn over another
    line, lines,  \* glyphs in the line, newlines since the start or the clear
    longest       \* glyphs in the longest line since then

canvas == << x, y, prevX >>
screen == << glyphs, over >>
count == << line, lines, longest >>
vars == << height, canvas, pc, text, panics, screen, cleared, count >>

Init ==
    /\ height \in Heights
    /\ x = 0 /\ y = FirstRow /\ prevX = 0
    /\ pc = "char" /\ text = << >> /\ panics = 0
    /\ glyphs = {} /\ over = {} /\ cleared = FALSE
    /\ line = 0 /\ lines = 0 /\ longest = 0

-----------------------------------------------------------------------------
(***************************************************************************)
(* kwrite, a character at a time                                           *)
(***************************************************************************)
\* The next character is c: any while the kernel logs, that of the handler's
\* text in a panic.
Char(c) ==
    /\ pc = "char"
    /\ IF panics = 0
       THEN /\ IF c = "glyph" THEN line < MaxLine ELSE lines < MaxLines
            /\ UNCHANGED text
       ELSE /\ text # << >> /\ c = Head(text)
            /\ text' = Tail(text)

\* Mutant: a newline does not return.
NewlineXStay ==
    /\ Char("newline") /\ pc' = "newline"
    /\ line' = 0 /\ lines' = lines + 1 /\ UNCHANGED longest
    /\ UNCHANGED << canvas, panics, screen, cleared >>
NewlineX ==
    /\ Char("newline") /\ pc' = "newline"
    /\ x' = prevX
    /\ line' = 0 /\ lines' = lines + 1 /\ UNCHANGED longest
    /\ UNCHANGED << y, prevX, panics, screen, cleared >>
NewlineY ==
    /\ pc = "newline" /\ pc' = "char"
    /\ y' = y + RowStep
    /\ UNCHANGED << x, prevX, text, panics, screen, cleared, count >>

Lengthen ==
    /\ line' = line + 1
    /\ longest' = IF line' > longest THEN line' ELSE longest

\* Mutant: the test of the height is off by one.
GlyphLate ==
    /\ Char("glyph")
    /\ pc' = IF y > height THEN "column" ELSE "put"
    /\ Lengthen
    /\ UNCHANGED << canvas, panics, screen, cleared, lines >>
Glyph ==
    /\ Char("glyph")
    /\ pc' = IF y >= height THEN "column" ELSE "put"
    /\ Lengthen
    /\ UNCHANGED << canvas, panics, screen, cleared, lines >>

\* Mutant: the next column starts where the last one does.
ColumnXStay ==
    /\ pc = "column" /\ pc' = "top"
    /\ UNCHANGED << canvas, text, panics, screen, cleared, count >>
ColumnX ==
    /\ pc = "column" /\ pc' = "top"
    /\ prevX' = prevX + ColumnStep
    /\ UNCHANGED << x, y, text, panics, screen, cleared, count >>
ColumnY ==
    /\ pc = "top" /\ pc' = "put"
    /\ y' = Margin
    /\ UNCHANGED << x, prevX, text, panics, screen, cleared, count >>

\* Pixel x of scanline y is pixel x + y * Ppsl of the frame buffer: what is drawn
\* past the end of a scanline is drawn at the start of the next.  The glyphs at a
\* and b have a pixel in common.
Overlap(a, b) ==
    \E rows \in (1 - GlyphH) .. (GlyphH - 1) :
        (a[1] - b[1]) + (a[2] - b[2] + rows) * Ppsl \in (1 - GlyphW) .. (GlyphW - 1)

PutChar ==
    /\ pc = "put" /\ pc' = "advance"
    /\ glyphs' = glyphs \cup {<< x, y >>}
    /\ over' = IF \E g \in glyphs : Overlap(<< x, y >>, g) THEN over \cup {y} ELSE over
    /\ UNCHANGED << canvas, text, panics, cleared, count >>
Advance ==
    /\ pc = "advance" /\ pc' = "char"
    /\ x' = x + GlyphW
    /\ UNCHANGED << y, prevX, text, panics, screen, cleared, count >>

-----------------------------------------------------------------------------
(***************************************************************************)
(* clearScreen and the panic handlers                                      *)
(***************************************************************************)
\* _start clears the screen between two logs.
CallClear ==
    /\ panics = 0 /\ pc = "char" /\ ~cleared
    /\ pc' = "clear"
    /\ UNCHANGED << canvas, text, panics, screen, cleared, count >>

ClearPixels ==
    /\ pc = "clear" /\ pc' = "clearPrev"
    /\ glyphs' = {} /\ over' = {} /\ cleared' = TRUE
    /\ line' = 0 /\ lines' = 0 /\ longest' = 0
    /\ UNCHANGED << canvas, text, panics >>
\* Mutant: the column is not reset.
ClearPrevNot ==
    /\ pc = "clearPrev" /\ pc' = "clearX"
    /\ UNCHANGED << canvas, text, panics, screen, cleared, count >>
ClearPrev ==
    /\ pc = "clearPrev" /\ pc' = "clearX"
    /\ prevX' = Margin
    /\ UNCHANGED << x, y, text, panics, screen, cleared, count >>
ClearX ==
    /\ pc = "clearX" /\ pc' = "clearY"
    /\ x' = Margin
    /\ UNCHANGED << y, prevX, text, panics, screen, cleared, count >>
ClearY ==
    /\ pc = "clearY" /\ pc' = "char"
    /\ y' = Margin
    /\ UNCHANGED << x, prevX, text, panics, screen, cleared, count >>

\* The handler of an exception never returns to what it interrupts, which may
\* be another handler.
Panic ==
    /\ panics < MaxPanics /\ pc # "halted"
    /\ pc' = "clear" /\ text' = PanicText
    /\ panics' = panics + 1
    /\ UNCHANGED << canvas, screen, cleared, count >>

Halt ==
    /\ panics > 0 /\ pc = "char" /\ text = << >>
    /\ pc' = "halted"
    /\ UNCHANGED << canvas, text, panics, screen, cleared, count >>

Write ==
    \/ NewlineX \/ NewlineY \/ Glyph \/ ColumnX \/ ColumnY \/ PutChar \/ Advance
Clear == CallClear \/ ClearPixels \/ ClearPrev \/ ClearX \/ ClearY
Run == (Write \/ Clear \/ Halt) /\ UNCHANGED height
Next == Run \/ (Panic /\ UNCHANGED height)

Spec == Init /\ [][Next]_vars
-----------------------------------------------------------------------------
(***************************************************************************)
(* Properties                                                              *)
(***************************************************************************)
TypeOK ==
    /\ height \in Heights
    /\ x \in Nat /\ y \in Nat /\ prevX \in Nat
    /\ pc \in {"char", "newline", "column", "top", "put", "advance", "clear",
               "clearPrev", "clearX", "clearY", "halted"}
    /\ text \in Seq(Text)
    /\ panics \in 0 .. MaxPanics
    /\ glyphs \in SUBSET (Nat \X Nat) /\ over \in SUBSET Nat
    /\ cleared \in BOOLEAN
    /\ line \in Nat /\ lines \in Nat /\ longest \in Nat

\* Whether the height leaves the last of the rows that start at first room for
\* a whole glyph.
RowsFit(first) == (height - first) % RowStep \in {0} \cup GlyphH .. (RowStep - 1)

\* Where the canvas starts, and the rows of a column whose first is at top.
First == IF cleared THEN Margin ELSE 0
Top == IF cleared THEN Margin ELSE FirstRow
Rows(top) == (height - top + RowStep - 1) \div RowStep

\* A glyph starts above the end of the frame buffer, and if the height fits the
\* rows of its column and the glyph its scanlines, ends before it; on other
\* heights the last row runs over the end (FrameBuffer.c:10-13, :51-54,
\* kernel.c:27-31).
GlyphsInFrame ==
    pc = "put" =>
        /\ y < height
        /\ RowsFit(IF prevX = 0 THEN FirstRow ELSE Margin) =>
            /\ y + GlyphH <= height
            /\ x + GlyphW <= Ppsl =>
                (x + GlyphW - 1) + (y + GlyphH - 1) * Ppsl < height * Ppsl

\* No glyph is drawn over another while the lines fit between the column's start
\* and the end of the scanline, and, once there is a second column, into a
\* column; after the screen is cleared they still are in the top row, where the
\* first line that does not fit below is put into the column it should have left
\* (FrameBuffer.c:10-13, :45-57).
NoOverlap ==
    /\ prevX + GlyphW * longest <= Ppsl
    /\ prevX = First \/ GlyphW * longest <= ColumnStep
    => over \subseteq (IF cleared /\ prevX # First THEN {Margin} ELSE {})

\* No glyph is drawn past the end of the scanline until more lines are written
\* than have rows in the columns in which the longest of them fits; a line that
\* is longer than a column needs fewer columns, not shorter lines
\* (FrameBuffer.c:45-57, :73).
StaysOnScreen ==
    pc = "put" =>
        LET room == Ppsl - First - GlyphW * longest
        IN room >= 0 /\ lines <= Rows(Top) + Rows(Margin) * (room \div ColumnStep)
           => x + GlyphW <= Ppsl

\* Where a text is drawn that starts on a clear screen.
Layout(t) ==
    LET newlines(k) == Cardinality({j \in 1 .. (k - 1) : t[j] = "newline"})
        start(k) == LET ends == {j \in 1 .. (k - 1) : t[j] = "newline"}
                    IN IF ends = {} THEN 0 ELSE CHOOSE j \in ends : \A h \in ends : h <= j
    IN {<< Margin + GlyphW * (k - 1 - start(k)), Margin + RowStep * newlines(k) >> :
            k \in {j \in DOMAIN t : t[j] = "glyph"}}

\* A panic's screen shows its whole text and nothing else if the text fits it,
\* wherever the panic struck: in a log, in clearScreen or in another panic
\* (exceptions.asm:33-66).
Fits(t) == \A g \in Layout(t) : g[2] < height /\ g[1] + GlyphW <= Ppsl
PanicScreen ==
    pc = "halted" /\ Fits(PanicText) => glyphs = Layout(PanicText) /\ over = {}
=============================================================================
