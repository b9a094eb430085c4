--------------------------- MODULE ConsoleProofs ----------------------------
(***************************************************************************)
(* Type correctness of the console, the rows and the columns its glyphs    *)
(* are drawn in, and the screen of a panic, for every frame buffer, font,  *)
(* layout and text, and for any number of panics.                          *)
(***************************************************************************)
EXTENDS Console, FiniteSetTheorems, TLAPS

-----------------------------------------------------------------------------
(***************************************************************************)
(* The rows of a column                                                    *)
(***************************************************************************)
\* Quotient and remainder.
LEMMA DivMod ==
    ASSUME NEW d \in Nat, NEW s \in Nat \ {0}
    PROVE  /\ d \div s \in Int /\ d % s \in 0 .. (s - 1)
           /\ d = s * (d \div s) + (d % s)
  OBVIOUS

\* A row that starts among d pixels ends among them when the rest that the whole
\* rows leave is nothing or has room for a glyph.
LEMMA RowEnds ==
    ASSUME NEW d \in Nat, NEW s \in Nat \ {0}, NEW g \in Nat \ {0}, g <= s, NEW r \in Nat,
           s * r < d, d % s \in {0} \cup g .. (s - 1)
    PROVE  s * r + g <= d
  <1> DEFINE q == d \div s
             m == d % s
  <1>1. q \in Int /\ m \in 0 .. (s - 1) /\ d = s * q + m /\ m \in {0} \cup g .. (s - 1)
    BY DivMod
  <1> HIDE DEF q, m
  <1>2. r <= q
    <2>1. SUFFICES ASSUME r >= q + 1 PROVE FALSE
      BY <1>1
    <2>2. s * r >= s * (q + 1)
      BY <1>1, <2>1
    <2>3. s * (q + 1) = s * q + s
      BY <1>1
    <2> QED
      BY <1>1, <2>2, <2>3
  <1>3. CASE m >= g
    <2>1. s * r <= s * q
      BY <1>1, <1>2
    <2> QED
      BY <1>1, <1>3, <2>1
  <1>4. CASE m = 0
    <2>1. r # q
      BY <1>1, <1>4
    <2>2. r + 1 <= q
      BY <1>1, <1>2, <2>1
    <2>3. s * (r + 1) <= s * q
      BY <1>1, <2>2
    <2>4. s * (r + 1) = s * r + s
      OBVIOUS
    <2> QED
      BY <1>1, <1>4, <2>3, <2>4
  <1> QED
    BY <1>1, <1>3, <1>4

-----------------------------------------------------------------------------
(***************************************************************************)
(* The canvas                                                              *)
(***************************************************************************)
Writing == {"char", "newline", "column", "put", "advance"}

\* Where the rows of the column that is being written start.
Base == IF prevX = 0 THEN FirstRow ELSE Margin

\* A panic leaves y anywhere until clearScreen has set it.
Rowed == \E r \in Nat : y = Base + RowStep * r

ConsoleInv ==
    /\ TypeOK
    /\ pc \in Writing => Rowed
    /\ pc \in {"top", "clearX", "clearY"} => prevX > 0
    /\ pc = "put" => y < height

\* The assumptions on the layout, one by one.
LEMMA Layouts ==
    /\ ColumnStep \in Nat \ {0} /\ GlyphW \in Nat \ {0} /\ GlyphH \in Nat \ {0}
    /\ RowStep \in Nat \ {0} /\ GlyphH <= RowStep /\ Margin \in Nat \ {0} /\ FirstRow \in Nat
    /\ Margin + GlyphH <= FirstRow
    /\ \A h \in Heights : h \in Nat /\ FirstRow < h
    /\ PanicText \in Seq(Text) /\ MaxPanics \in Nat /\ Ppsl \in Nat
  BY ConsoleAssumption

\* The canvas as FrameBuffer.c and _start initialise it.
LEMMA InitConsole == Init => ConsoleInv
  <1> SUFFICES ASSUME Init PROVE ConsoleInv
    OBVIOUS
  <1>1. TypeOK
    <2>1. /\ height \in Heights /\ x = 0 /\ y = FirstRow /\ prevX = 0 /\ pc = "char"
          /\ text = << >> /\ panics = 0 /\ glyphs = {} /\ over = {} /\ cleared = FALSE
          /\ line = 0 /\ lines = 0 /\ longest = 0
      BY DEF Init
    <2>2. text \in Seq(Text)
      BY <2>1
    <2>3. panics \in 0 .. MaxPanics
      BY <2>1, Layouts
    <2>4. glyphs \in SUBSET (Nat \X Nat) /\ over \in SUBSET Nat
      BY <2>1
    <2>5. x \in Nat /\ y \in Nat /\ prevX \in Nat /\ line \in Nat /\ lines \in Nat
          /\ longest \in Nat
      BY <2>1, Layouts
    <2> QED
      BY <2>1, <2>2, <2>3, <2>4, <2>5 DEF TypeOK
  <1>2. y = Base + RowStep * 0
    BY Layouts DEF Init, Base
  <1> QED
    BY <1>1, <1>2 DEF Init, ConsoleInv, Rowed, Writing

\* Taking a character leaves the rest of a text.
LEMMA CharText == ASSUME NEW c, text \in Seq(Text), Char(c) PROVE text' \in Seq(Text)
  BY DEF Char

\* A step of the console keeps ConsoleInv.
LEMMA NextConsole == ConsoleInv /\ [Next]_vars => ConsoleInv'
  <1> SUFFICES ASSUME ConsoleInv, [Next]_vars PROVE ConsoleInv'
    OBVIOUS
  <1>0. /\ TypeOK /\ x \in Nat /\ y \in Nat /\ prevX \in Nat /\ height \in Heights
        /\ height \in Nat /\ FirstRow < height
    BY Layouts DEF ConsoleInv, TypeOK
  <1>1. CASE NewlineX /\ UNCHANGED height
    <2>1. TypeOK'
      <3>1. text' \in Seq(Text)
        BY <1>0, <1>1, CharText DEF NewlineX, TypeOK
      <3>2. /\ pc' = "newline" /\ x' = prevX
            /\ line' = 0 /\ lines' = lines + 1 /\ longest' = longest
            /\ UNCHANGED << height, y, prevX, panics, screen, cleared >>
        BY <1>1 DEF NewlineX
      <3> QED
        BY <1>0, <3>1, <3>2 DEF TypeOK, screen
    <2> QED
      BY <1>1, <2>1 DEF NewlineX, Char, ConsoleInv, Rowed, Base, Writing
  <1>2. CASE NewlineY /\ UNCHANGED height
    <2>1. TypeOK'
      BY <1>0, <1>2, Layouts DEF NewlineY, TypeOK, screen, count
    <2>2. pc = "newline" /\ pc' = "char" /\ y' = y + RowStep /\ prevX' = prevX
      BY <1>2 DEF NewlineY
    <2>3. PICK r \in Nat : y = Base + RowStep * r
      BY <2>2 DEF ConsoleInv, Rowed, Writing
    <2>4. y' = Base + RowStep * (r + 1) /\ Base' = Base
      BY <2>2, <2>3, Layouts DEF Base
    <2>5. Rowed'
      BY <2>4 DEF Rowed
    <2> QED
      BY <2>1, <2>2, <2>5 DEF ConsoleInv
  <1>3. CASE Glyph /\ UNCHANGED height
    <2>1. TypeOK'
      <3>1. text' \in Seq(Text)
        BY <1>0, <1>3, CharText DEF Glyph, TypeOK
      <3>2. line' \in Nat /\ longest' \in Nat
        BY <1>0, <1>3 DEF Glyph, Lengthen, TypeOK
      <3>3. /\ pc' \in {"column", "put"}
            /\ UNCHANGED << height, canvas, panics, screen, cleared, lines >>
        BY <1>3 DEF Glyph
      <3> QED
        BY <1>0, <3>1, <3>2, <3>3 DEF TypeOK, screen, canvas
    <2>2. /\ pc = "char" /\ UNCHANGED << height, canvas >>
          /\ pc' = (IF y >= height THEN "column" ELSE "put")
      BY <1>3 DEF Glyph, Char
    <2> QED
      BY <1>0, <2>1, <2>2 DEF canvas, ConsoleInv, Rowed, Base, Writing
  <1>4. CASE ColumnX /\ UNCHANGED height
    BY <1>0, <1>4, Layouts DEF ColumnX, ConsoleInv, TypeOK, Writing, screen, count
  <1>5. CASE ColumnY /\ UNCHANGED height
    <2>1. TypeOK'
      BY <1>0, <1>5, Layouts DEF ColumnY, TypeOK, screen, count
    <2>2. pc = "top" /\ pc' = "put" /\ y' = Margin /\ prevX' = prevX /\ prevX > 0
      BY <1>5 DEF ColumnY, ConsoleInv
    <2>3. y' = Base' + RowStep * 0 /\ y' < height'
      BY <1>0, <1>5, <2>2, Layouts DEF Base
    <2> QED
      BY <2>1, <2>2, <2>3 DEF ConsoleInv, Rowed
  <1>6. CASE (PutChar \/ Advance) /\ UNCHANGED height
    <2>1. TypeOK'
      <3>1. CASE PutChar
        <4>1. glyphs' \in SUBSET (Nat \X Nat)
          BY <1>0, <3>1 DEF PutChar, TypeOK
        <4>2. over' \in SUBSET Nat
          BY <1>0, <3>1 DEF PutChar, TypeOK
        <4>3. pc' = "advance" /\ UNCHANGED << height, canvas, text, panics, cleared, count >>
          BY <1>6, <3>1 DEF PutChar
        <4> QED
          BY <1>0, <4>1, <4>2, <4>3 DEF TypeOK, canvas, count
      <3>2. CASE Advance
        <4>1. /\ x' \in Nat /\ pc' = "char"
              /\ UNCHANGED << height, y, prevX, text, panics, screen, cleared, count >>
          BY <1>0, <1>6, <3>2, Layouts DEF Advance
        <4> QED
          BY <1>0, <4>1 DEF TypeOK, screen, count
      <3> QED
        BY <1>6, <3>1, <3>2
    <2>2. pc \in Writing /\ pc' \in {"advance", "char"} /\ UNCHANGED << y, prevX >>
      BY <1>6 DEF PutChar, Advance, canvas, Writing
    <2> QED
      BY <2>1, <2>2 DEF ConsoleInv, Rowed, Base
  <1>7. CASE (CallClear \/ ClearPixels \/ ClearPrev \/ ClearX) /\ UNCHANGED height
    <2>1. TypeOK'
      <3>1. CASE CallClear
        BY <1>0, <1>7, <3>1 DEF CallClear, TypeOK, canvas, screen, count
      <3>2. CASE ClearPixels
        <4>1. /\ pc' = "clearPrev" /\ glyphs' = {} /\ over' = {} /\ cleared' = TRUE
              /\ line' = 0 /\ lines' = 0 /\ longest' = 0
              /\ UNCHANGED << height, canvas, text, panics >>
          BY <1>7, <3>2 DEF ClearPixels
        <4>2. glyphs' \in SUBSET (Nat \X Nat) /\ over' \in SUBSET Nat
          BY <4>1
        <4> QED
          BY <1>0, <4>1, <4>2 DEF TypeOK, canvas
      <3>3. CASE ClearPrev
        BY <1>0, <1>7, <3>3, Layouts DEF ClearPrev, TypeOK, screen, count
      <3>4. CASE ClearX
        BY <1>0, <1>7, <3>4, Layouts DEF ClearX, TypeOK, screen, count
      <3> QED
        BY <1>7, <3>1, <3>2, <3>3, <3>4
    <2>2. /\ pc' \in {"clear", "clearPrev", "clearX", "clearY"}
          /\ pc' \in {"clearX", "clearY"} => prevX' > 0
      BY <1>0, <1>7, Layouts DEF CallClear, ClearPixels, ClearPrev, ClearX, ConsoleInv
    <2> QED
      BY <2>1, <2>2 DEF ConsoleInv, Writing
  <1>8. CASE ClearY /\ UNCHANGED height
    <2>1. TypeOK'
      BY <1>0, <1>8, Layouts DEF ClearY, TypeOK, screen, count
    <2>2. pc' = "char" /\ y' = Margin /\ prevX' = prevX /\ prevX > 0
      BY <1>8 DEF ClearY, ConsoleInv
    <2>3. y' = Base' + RowStep * 0
      BY <1>0, <2>2, Layouts DEF Base
    <2> QED
      BY <2>1, <2>2, <2>3 DEF ConsoleInv, Rowed
  <1>9. CASE Halt /\ UNCHANGED height
    BY <1>0, <1>9 DEF Halt, ConsoleInv, TypeOK, Writing, canvas, screen, count
  <1>10. CASE Panic /\ UNCHANGED height
    BY <1>0, <1>10, Layouts DEF Panic, ConsoleInv, TypeOK, Writing, canvas, screen, count
  <1>11. CASE UNCHANGED vars
    BY <1>0, <1>11 DEF vars, ConsoleInv, TypeOK, Rowed, Base, canvas, screen, count
  <1> QED
    BY <1>1, <1>2, <1>3, <1>4, <1>5, <1>6, <1>7, <1>8, <1>9, <1>10, <1>11
    DEF Next, Run, Write, Clear

-----------------------------------------------------------------------------
(***************************************************************************)
(* The place of each character of a panic's text                           *)
(***************************************************************************)
\* The newlines before character k, and the last of them.
Ends(k) == {j \in 1 .. (k - 1) : PanicText[j] = "newline"}
LastOf(S) == IF S = {} THEN 0 ELSE CHOOSE j \in S : \A h \in S : h <= j
Start(k) == LastOf(Ends(k))
Place(k) ==
    << Margin + GlyphW * (k - 1 - Start(k)), Margin + RowStep * Cardinality(Ends(k)) >>

\* Where the glyphs among the first n characters are drawn.
Drawn(n) == {Place(k) : k \in {j \in 1 .. n : PanicText[j] = "glyph"}}

\* The layout a panic's screen is compared with.
LEMMA LayoutDrawn == Layout(PanicText) = Drawn(Len(PanicText))
  <1>1. DOMAIN PanicText = 1 .. Len(PanicText)
    BY Layouts
  <1> QED
    BY <1>1 DEF Layout, Drawn, Place, Start, LastOf, Ends

\* The newlines before a character are finitely many.
LEMMA EndsFinite ==
    ASSUME NEW k \in Nat \ {0}
    PROVE  IsFiniteSet(Ends(k)) /\ Cardinality(Ends(k)) \in Nat
  <1>1. IsFiniteSet(1 .. (k - 1))
    BY FS_Interval
  <1>2. Ends(k) \in SUBSET (1 .. (k - 1))
    BY DEF Ends
  <1>3. IsFiniteSet(Ends(k))
    BY <1>1, <1>2, FS_Subset
  <1> QED
    BY <1>3, FS_CardinalityType

\* The first character's place is the margin.
LEMMA PlaceFirst == Place(1) = << Margin, Margin >> /\ Start(1) = 0 /\ Drawn(0) = {}
  <1>1. Ends(1) = {}
    BY DEF Ends
  <1>2. Cardinality(Ends(1)) = 0 /\ Start(1) = 0
    BY <1>1, FS_EmptySet DEF Start, LastOf
  <1>3. Margin + GlyphW * (1 - 1 - 0) = Margin /\ Margin + RowStep * 0 = Margin
    BY Layouts
  <1> QED
    BY <1>2, <1>3 DEF Place, Drawn

\* A glyph's successor is to its right.
LEMMA PlaceGlyph ==
    ASSUME NEW k \in 1 .. Len(PanicText), PanicText[k] = "glyph", Start(k) \in Nat
    PROVE  /\ Place(k + 1) = << Place(k)[1] + GlyphW, Place(k)[2] >>
           /\ Start(k + 1) = Start(k) /\ Drawn(k) = Drawn(k - 1) \cup {Place(k)}
  <1>1. Ends(k + 1) = Ends(k)
    BY DEF Ends
  <1>2. Start(k + 1) = Start(k)
    BY <1>1 DEF Start
  <1>3. Margin + GlyphW * ((k + 1) - 1 - Start(k)) = (Margin + GlyphW * (k - 1 - Start(k))) + GlyphW
    BY Layouts
  <1>4. 1 .. k = 1 .. (k - 1) \cup {k}
    OBVIOUS
  <1> QED
    BY <1>1, <1>2, <1>3, <1>4 DEF Place, Drawn

\* A newline's successor is at the margin of the next row.
LEMMA PlaceNewline ==
    ASSUME NEW k \in 1 .. Len(PanicText), PanicText[k] = "newline"
    PROVE  /\ Place(k + 1) = << Margin, Place(k)[2] + RowStep >>
           /\ Start(k + 1) = k /\ Drawn(k) = Drawn(k - 1)
  <1>1. k \in Nat \ {0}
    OBVIOUS
  <1>2. Ends(k + 1) = Ends(k) \cup {k} /\ k \notin Ends(k)
    BY DEF Ends
  <1>3. Cardinality(Ends(k + 1)) = Cardinality(Ends(k)) + 1 /\ Cardinality(Ends(k)) \in Nat
    BY <1>1, <1>2, EndsFinite, FS_AddElement
  <1>4. Start(k + 1) = k
    <2>1. \A j \in Ends(k + 1) : j \in Nat /\ j <= k
      BY DEF Ends
    <2>2. k \in Ends(k + 1)
      BY <1>2
    <2>3. ASSUME NEW j \in Ends(k + 1), \A h \in Ends(k + 1) : h <= j
          PROVE  j = k
      BY <2>1, <2>2, <2>3
    <2> QED
      BY <2>1, <2>2, <2>3 DEF Start, LastOf
  <1>5. Margin + GlyphW * ((k + 1) - 1 - k) = Margin
    BY Layouts
  <1>6. \A c \in Nat : Margin + RowStep * (c + 1) = (Margin + RowStep * c) + RowStep
    BY Layouts
  <1>7. {j \in 1 .. k : PanicText[j] = "glyph"} = {j \in 1 .. (k - 1) : PanicText[j] = "glyph"}
    OBVIOUS
  <1> QED
    BY <1>3, <1>4, <1>5, <1>6, <1>7 DEF Place, Drawn

-----------------------------------------------------------------------------
(***************************************************************************)
(* A panic's screen                                                        *)
(***************************************************************************)
Clearing == {"clear", "clearPrev", "clearX", "clearY"}

\* The characters taken, and that those left are the text's last.
Done == Len(PanicText) - Len(text)
Suffix ==
    /\ Done \in 0 .. Len(PanicText)
    /\ \A m \in 1 .. Len(text) : text[m] = PanicText[Done + m]

\* Glyph g lies above the canvas, or to its left with a place between.
Passed(g) == g[2] + RowStep <= y \/ (g[2] = y /\ g[1] + GlyphW <= x)

\* The screen and the canvas after the characters taken so far.
Progress ==
    /\ prevX = Margin /\ over = {} /\ Suffix
    /\ pc \in {"char", "newline", "put", "advance", "halted"}
    /\ pc = "halted" => text = << >>
    /\ pc \in {"char", "halted"} =>
        << x, y >> = Place(Done + 1) /\ Start(Done + 1) \in Nat /\ glyphs = Drawn(Done)
    /\ pc = "newline" =>
        /\ Done >= 1 /\ PanicText[Done] = "newline"
        /\ x = Margin /\ y = Place(Done)[2] /\ glyphs = Drawn(Done - 1)
    /\ pc \in {"put", "advance"} =>
        /\ Done >= 1 /\ PanicText[Done] = "glyph"
        /\ << x, y >> = Place(Done) /\ Start(Done) \in Nat
    /\ pc = "put" => glyphs = Drawn(Done - 1)
    /\ pc = "advance" => glyphs = Drawn(Done)
    /\ pc \in {"char", "put"} => \A g \in glyphs : Passed(g)
    /\ pc = "newline" => \A g \in glyphs : g[2] <= y
    /\ pc = "advance" => \A g \in glyphs : Passed(g) \/ g = << x, y >>

PanicInv ==
    /\ panics > 0 /\ pc \in Clearing => text = PanicText
    /\ pc = "halted" => panics > 0
    /\ pc \in {"clearPrev", "clearX", "clearY"} => glyphs = {} /\ over = {}
    /\ pc \in {"clearX", "clearY"} => prevX = Margin
    /\ pc = "clearY" => x = Margin
    /\ (panics > 0 /\ pc \notin Clearing /\ Fits(PanicText)) => Progress

\* kwrite takes the next character of the text.
LEMMA TakeChar ==
    ASSUME text \in Seq(Text), Suffix, text # << >>, text' = Tail(text)
    PROVE  /\ Suffix' /\ Done' = Done + 1 /\ Done + 1 \in 1 .. Len(PanicText)
           /\ PanicText[Done + 1] = Head(text)
  <1>1. /\ Len(text) \in Nat \ {0} /\ Len(text') = Len(text) - 1 /\ Head(text) = text[1]
        /\ \A m \in 1 .. (Len(text) - 1) : text'[m] = text[m + 1]
    OBVIOUS
  <1>2. Len(PanicText) \in Nat
    BY Layouts
  <1>3. Done' = Done + 1 /\ Done + 1 \in 1 .. Len(PanicText)
    BY <1>1, <1>2 DEF Done, Suffix
  <1>4. PanicText[Done + 1] = Head(text)
    BY <1>1 DEF Suffix
  <1>5. ASSUME NEW m \in 1 .. Len(text')
        PROVE  text'[m] = PanicText[Done' + m]
    <2>1. m + 1 \in 1 .. Len(text) /\ m \in 1 .. (Len(text) - 1)
      BY <1>1
    <2>2. text'[m] = PanicText[Done + (m + 1)]
      BY <1>1, <2>1 DEF Suffix
    <2>3. Done + (m + 1) = Done' + m
      BY <1>2, <1>3 DEF Suffix
    <2> QED
      BY <2>2, <2>3
  <1> QED
    BY <1>2, <1>3, <1>4, <1>5 DEF Suffix

\* Glyphs at a and b touch without either being drawn past the end of a scanline.
Touch(a, b) ==
    /\ a[1] - b[1] \in (1 - GlyphW) .. (GlyphW - 1)
    /\ a[2] - b[2] \in (1 - GlyphH) .. (GlyphH - 1)
InScanline(a) == a[1] + GlyphW <= Ppsl

\* A multiple of n that is less than n off zero is zero.
LEMMA NearZero ==
    ASSUME NEW m \in Int, NEW n \in Nat, NEW d \in Int, NEW w \in Nat \ {0},
           d <= n - w, w - n <= d, w <= n, d + m * n \in (1 - w) .. (w - 1)
    PROVE  m = 0
  <1>1. CASE m >= 1
    <2>1. m * n >= n /\ m * n \in Int
      BY <1>1
    <2> QED
      BY <2>1
  <1>2. CASE m <= -1
    <2>1. m * n <= -n /\ m * n \in Int
      BY <1>2
    <2> QED
      BY <2>1
  <1> QED
    BY <1>1, <1>2

\* Glyphs that end in their scanlines overlap only if they touch.
LEMMA NoWrap ==
    ASSUME NEW a \in Nat \X Nat, NEW b \in Nat \X Nat, InScanline(a), InScanline(b),
           Overlap(a, b)
    PROVE  Touch(a, b)
  <1>1. /\ a[1] \in Nat /\ a[2] \in Nat /\ b[1] \in Nat /\ b[2] \in Nat
        /\ GlyphW \in Nat \ {0} /\ GlyphH \in Nat \ {0} /\ Ppsl \in Nat
        /\ a[1] + GlyphW <= Ppsl /\ b[1] + GlyphW <= Ppsl
    BY Layouts DEF InScanline
  <1>2. PICK rows \in (1 - GlyphH) .. (GlyphH - 1) :
            (a[1] - b[1]) + (a[2] - b[2] + rows) * Ppsl \in (1 - GlyphW) .. (GlyphW - 1)
    BY DEF Overlap
  <1> DEFINE d == a[1] - b[1]
             m == a[2] - b[2] + rows
  <1>3. d \in Int /\ m \in Int /\ rows \in Int
    BY <1>1, <1>2
  <1>4. d <= Ppsl - GlyphW /\ GlyphW - Ppsl <= d /\ GlyphW <= Ppsl
    BY <1>1
  <1>5. d + m * Ppsl \in (1 - GlyphW) .. (GlyphW - 1)
    BY <1>2
  <1>6. m = 0
    <2> HIDE DEF d, m
    <2> QED
      BY <1>1, <1>3, <1>4, <1>5, NearZero
  <1>7. d \in (1 - GlyphW) .. (GlyphW - 1)
    <2> HIDE DEF d, m
    <2>1. m * Ppsl = 0
      BY <1>1, <1>6
    <2> QED
      BY <1>3, <1>5, <2>1
  <1>8. a[2] - b[2] \in (1 - GlyphH) .. (GlyphH - 1)
    <2>1. a[2] - b[2] + rows = 0
      BY <1>6
    <2> QED
      BY <1>1, <2>1
  <1> QED
    BY <1>7, <1>8 DEF Touch

\* A glyph that fits below the others overlaps none of them.
LEMMA PassedApart ==
    ASSUME x \in Nat, y \in Nat, NEW g \in Nat \X Nat, Passed(g),
           InScanline(<< x, y >>), InScanline(g)
    PROVE  ~Overlap(<< x, y >>, g)
  <1>1. ~Touch(<< x, y >>, g)
    BY Layouts DEF Passed, Touch
  <1> QED
    BY <1>1, NoWrap

\* A step that writes a panic's text (exceptions.asm:41-62, FrameBuffer.c:43-58).
LEMMA WriteProgress ==
    ASSUME ConsoleInv, Progress, panics > 0, Fits(PanicText), Write, UNCHANGED height
    PROVE  Progress'
  <1>0. /\ x \in Nat /\ y \in Nat /\ text \in Seq(Text) /\ glyphs \in SUBSET (Nat \X Nat)
        /\ Suffix /\ prevX = Margin /\ over = {} /\ Len(PanicText) \in Nat
        /\ Done \in 0 .. Len(PanicText) /\ panics # 0
    BY Layouts DEF ConsoleInv, TypeOK, Progress, Suffix
  <1>1. CASE NewlineX
    <2>1. /\ pc = "char" /\ pc' = "newline" /\ text # << >> /\ Head(text) = "newline"
          /\ text' = Tail(text) /\ x' = Margin /\ UNCHANGED << y, prevX, screen >>
      BY <1>0, <1>1 DEF NewlineX, Char
    <2>2. /\ Suffix' /\ Done' = Done + 1 /\ Done + 1 \in 1 .. Len(PanicText)
          /\ PanicText[Done + 1] = "newline"
      BY <1>0, <2>1, TakeChar
    <2>3. << x, y >> = Place(Done + 1) /\ glyphs = Drawn(Done) /\ \A g \in glyphs : Passed(g)
      BY <2>1 DEF Progress
    <2>4. y = Place(Done + 1)[2]
      BY <2>3
    <2>5. \A g \in glyphs : g[2] <= y
      BY <1>0, <2>3, Layouts DEF Passed
    <2>6. (Done + 1) - 1 = Done
      BY <1>0
    <2> QED
      BY <1>0, <2>1, <2>2, <2>3, <2>4, <2>5, <2>6 DEF Progress, screen
  <1>2. CASE NewlineY
    <2>1. /\ pc = "newline" /\ pc' = "char" /\ y' = y + RowStep
          /\ UNCHANGED << x, prevX, text, screen >>
      BY <1>2 DEF NewlineY
    <2>2. /\ Done \in 1 .. Len(PanicText) /\ PanicText[Done] = "newline" /\ x = Margin
          /\ y = Place(Done)[2] /\ glyphs = Drawn(Done - 1) /\ \A g \in glyphs : g[2] <= y
      BY <1>0, <2>1 DEF Progress
    <2>3. /\ Place(Done + 1) = << Margin, y + RowStep >> /\ Start(Done + 1) = Done
          /\ Drawn(Done) = glyphs
      BY <2>2, PlaceNewline
    <2>4. Done' = Done /\ Suffix'
      BY <1>0, <2>1 DEF Done, Suffix
    <2>5. \A g \in glyphs : g[2] + RowStep <= y'
      BY <1>0, <2>1, <2>2, Layouts
    <2> QED
      BY <1>0, <2>1, <2>2, <2>3, <2>4, <2>5 DEF Progress, Passed, screen
  <1>3. CASE Glyph
    <2>1. /\ pc = "char" /\ text # << >> /\ Head(text) = "glyph" /\ text' = Tail(text)
          /\ pc' = (IF y >= height THEN "column" ELSE "put") /\ UNCHANGED << canvas, screen >>
      BY <1>0, <1>3 DEF Glyph, Char
    <2>2. /\ Suffix' /\ Done' = Done + 1 /\ Done + 1 \in 1 .. Len(PanicText)
          /\ PanicText[Done + 1] = "glyph"
      BY <1>0, <2>1, TakeChar
    <2>3. /\ << x, y >> = Place(Done + 1) /\ Start(Done + 1) \in Nat /\ glyphs = Drawn(Done)
          /\ \A g \in glyphs : Passed(g)
      BY <2>1 DEF Progress
    <2>4. << x, y >> \in Drawn(Len(PanicText))
      BY <2>2, <2>3 DEF Drawn
    <2>5. y < height
      <3>1. \A g \in Drawn(Len(PanicText)) : g[2] < height
        BY LayoutDrawn DEF Fits
      <3> QED
        BY <2>4, <3>1
    <2>6. pc' = "put"
      BY <1>0, <2>1, <2>5, Layouts DEF ConsoleInv, TypeOK
    <2>7. (Done + 1) - 1 = Done /\ Done + 1 >= 1
      BY <1>0
    <2> QED
      BY <1>0, <2>1, <2>2, <2>3, <2>6, <2>7 DEF Progress, Passed, canvas, screen
  <1>4. CASE ColumnX \/ ColumnY
    BY <1>4 DEF ColumnX, ColumnY, Progress
  <1>5. CASE PutChar
    <2>1. /\ pc = "put" /\ pc' = "advance" /\ glyphs' = glyphs \cup {<< x, y >>}
          /\ UNCHANGED << canvas, text >>
          /\ over' = IF \E g \in glyphs : Overlap(<< x, y >>, g) THEN over \cup {y} ELSE over
      BY <1>5 DEF PutChar
    <2>2. /\ Done \in 1 .. Len(PanicText) /\ PanicText[Done] = "glyph" /\ Start(Done) \in Nat
          /\ << x, y >> = Place(Done) /\ glyphs = Drawn(Done - 1) /\ \A g \in glyphs : Passed(g)
      BY <1>0, <2>1 DEF Progress
    <2>3. over' = {}
      <3>1. \A g \in Drawn(Len(PanicText)) : InScanline(g)
        BY LayoutDrawn DEF Fits, InScanline
      <3>2. << x, y >> \in Drawn(Len(PanicText)) /\ glyphs \subseteq Drawn(Len(PanicText))
        BY <1>0, <2>2 DEF Drawn
      <3> QED
        BY <1>0, <2>1, <2>2, <3>1, <3>2, PassedApart
    <2>4. glyphs' = Drawn(Done)
      BY <2>1, <2>2, PlaceGlyph
    <2>5. Done' = Done /\ Suffix' /\ x' = x /\ y' = y /\ prevX' = prevX
      BY <1>0, <2>1 DEF Done, Suffix, canvas
    <2>6. \A g \in glyphs' : Passed(g)' \/ g = << x, y >>
      BY <2>1, <2>2, <2>5 DEF Passed
    <2> QED
      BY <1>0, <2>1, <2>2, <2>3, <2>4, <2>5, <2>6 DEF Progress
  <1>6. CASE Advance
    <2>1. /\ pc = "advance" /\ pc' = "char" /\ x' = x + GlyphW
          /\ UNCHANGED << y, prevX, text, screen >>
      BY <1>6 DEF Advance
    <2>2. /\ Done \in 1 .. Len(PanicText) /\ PanicText[Done] = "glyph" /\ Start(Done) \in Nat
          /\ << x, y >> = Place(Done) /\ glyphs = Drawn(Done)
          /\ \A g \in glyphs : Passed(g) \/ g = << x, y >>
      BY <1>0, <2>1 DEF Progress
    <2>3. /\ Place(Done + 1) = << Place(Done)[1] + GlyphW, Place(Done)[2] >>
          /\ Start(Done + 1) = Start(Done)
      BY <2>2, PlaceGlyph
    <2>4. Place(Done)[1] = x /\ Place(Done)[2] = y
      BY <2>2
    <2>5. Done' = Done /\ Suffix'
      BY <1>0, <2>1 DEF Done, Suffix
    <2>6. ASSUME NEW g \in glyphs
          PROVE  g[2] + RowStep <= y \/ (g[2] = y /\ g[1] + GlyphW <= x + GlyphW)
      BY <1>0, <2>2, <2>6, Layouts DEF Passed
    <2> QED
      BY <1>0, <2>1, <2>2, <2>3, <2>4, <2>5, <2>6 DEF Progress, Passed, screen
  <1> QED
    BY <1>1, <1>2, <1>3, <1>4, <1>5, <1>6 DEF Write

\* At the end of clearScreen the text is whole and its first place is the canvas.
LEMMA FirstPlace ==
    ASSUME text' = PanicText, pc' = "char", x' = Margin, y' = Margin, prevX' = Margin,
           glyphs' = {}, over' = {}
    PROVE  Progress'
  <1>1. Len(PanicText) \in Nat /\ Done' = 0
    BY Layouts DEF Done
  <1>2. Suffix'
    BY <1>1 DEF Suffix
  <1>3. Place(0 + 1) = << Margin, Margin >> /\ Start(0 + 1) \in Nat /\ Drawn(0) = {}
    BY PlaceFirst
  <1> QED
    BY <1>1, <1>2, <1>3 DEF Progress

\* A step of the console keeps PanicInv.
LEMMA NextPanic == ConsoleInv /\ PanicInv /\ [Next]_vars => PanicInv'
  <1> SUFFICES ASSUME ConsoleInv, PanicInv, [Next]_vars PROVE PanicInv'
    OBVIOUS
  <1>0a. panics \in Nat /\ height' = height
    BY Layouts DEF ConsoleInv, TypeOK, Next, Run, vars
  <1>0. panics \in Nat /\ (Fits(PanicText)' <=> Fits(PanicText)) /\ height' = height
    BY <1>0a DEF Fits
  <1>1. CASE Write /\ UNCHANGED height
    <2>1. /\ pc \notin Clearing \cup {"halted"} /\ pc' \notin Clearing \cup {"halted"}
          /\ panics' = panics
      BY <1>1 DEF Write, NewlineX, NewlineY, Glyph, ColumnX, ColumnY, PutChar, Advance, Char,
                  Clearing
    <2>2. ASSUME panics > 0, Fits(PanicText) PROVE Progress'
      BY <1>1, <2>1, <2>2, WriteProgress DEF PanicInv
    <2> QED
      BY <1>0, <2>1, <2>2 DEF PanicInv, Clearing
  <1>2. CASE CallClear /\ UNCHANGED height
    BY <1>2 DEF CallClear, PanicInv, Clearing
  <1>3. CASE ClearPixels \/ ClearPrev \/ ClearX
    BY <1>3 DEF ClearPixels, ClearPrev, ClearX, PanicInv, Clearing, canvas, screen
  <1>4. CASE ClearY
    <2>1. /\ pc = "clearY" /\ pc' = "char" /\ y' = Margin /\ panics' = panics
          /\ UNCHANGED << x, prevX, text, screen >>
      BY <1>4 DEF ClearY
    <2>2. ASSUME panics > 0 PROVE Progress'
      BY <2>1, <2>2, FirstPlace DEF PanicInv, Clearing, screen
    <2> QED
      BY <2>1, <2>2 DEF PanicInv, Clearing
  <1>5. CASE Halt
    <2>1. /\ panics > 0 /\ pc = "char" /\ text = << >> /\ pc' = "halted" /\ panics' = panics
          /\ UNCHANGED << canvas, text, screen >>
      BY <1>5 DEF Halt
    <2>2. ASSUME Fits(PanicText) PROVE Progress'
      <3>1. Progress
        BY <2>1, <2>2 DEF PanicInv, Clearing
      <3>2. Done' = Done /\ Suffix'
        BY <2>1, <3>1 DEF Done, Suffix, Progress
      <3> QED
        BY <2>1, <3>1, <3>2 DEF Progress, canvas, screen
    <2> QED
      BY <1>0, <2>1, <2>2 DEF PanicInv, Clearing
  <1>6. CASE Panic
    BY <1>6 DEF Panic, PanicInv, Clearing
  <1>7. CASE UNCHANGED vars
    BY <1>0, <1>7 DEF vars, canvas, screen, PanicInv, Progress, Passed, Suffix, Done
  <1> QED
    BY <1>1, <1>2, <1>3, <1>4, <1>5, <1>6, <1>7 DEF Next, Run, Clear

-----------------------------------------------------------------------------
(***************************************************************************)
(* The columns                                                             *)
(***************************************************************************)
Writes == {"column", "top", "put", "advance"}
Before == IF pc \in Writes THEN line - 1 ELSE line

\* Where the canvas is in its line: in its own column, or, in the line in which
\* the column changed, still in the one before.
Straight == x = prevX + GlyphW * Before
Carried == x + ColumnStep = prevX + GlyphW * Before

LineInv ==
    /\ line <= longest
    /\ pc \in Writes => line >= 1
    /\ pc \in {"newline", "clearPrev", "clearX", "clearY"} => line = 0

\* The place of the canvas in its column.
Moved == Carried /\ prevX # First
CanvasInv ==
    /\ pc = "column" => y >= height /\ Straight
    /\ pc = "top" => Moved
    /\ pc = "newline" => x = prevX
    /\ pc \in {"char", "put", "advance"} =>
        IF y = Margin THEN Moved \/ (cleared /\ prevX = First /\ Straight) ELSE Straight

\* The lines so far leave the columns apart.
Narrow == prevX = First \/ GlyphW * longest <= ColumnStep

\* Glyph g is in an earlier column; it is there, or behind the canvas in its own.
Earlier(g) == g[1] + GlyphW <= prevX
Behind(g) == Earlier(g) \/ Passed(g)

\* The glyphs on the screen are no longer a line to the right of their column
\* than the longest line, and while the lines are narrow, behind the canvas.
GlyphInv ==
    /\ pc \in Writing \cup {"top"} =>
        \A g \in glyphs : g[1] + GlyphW <= prevX + GlyphW * longest
    /\ Narrow =>
        /\ pc \in {"char", "column", "put"} => \A g \in glyphs : Behind(g)
        /\ pc = "advance" => \A g \in glyphs : Behind(g) \/ g = << x, y >>
        /\ pc = "newline" => \A g \in glyphs : Earlier(g) \/ g[2] <= y
        /\ pc = "top" => \A g \in glyphs : Earlier(g)

\* Until the screen is cleared the top row holds the lines in which the column
\* changed and nothing else, each to the left of the next.
TopInv ==
    Narrow /\ ~cleared /\ pc \in Writing \cup {"top"} =>
        \A g \in glyphs :
            \/ g[2] >= Margin + GlyphH
            \/ g[2] = Margin /\ g[1] + GlyphW <= (IF y = Margin \/ pc = "top" THEN x ELSE prevX)
            \/ pc = "advance" /\ g = << x, y >>

\* Column c starts in row top(c), and the lines before it filled the rows of the
\* columns before it.
RowOf(c) == IF c = 0 THEN Top ELSE Margin
Filled(c) == IF c = 0 THEN 0 ELSE Rows(Top) + Rows(Margin) * (c - 1)
GridInv ==
    /\ pc \in {"clearPrev", "clearX", "clearY"} => cleared
    /\ pc = "clearX" => prevX = Margin
    /\ pc = "clearY" => prevX = Margin /\ x = Margin
    /\ pc \in Writing => \E c, r \in Nat :
        /\ prevX = First + ColumnStep * c /\ y = RowOf(c) + RowStep * r
        /\ lines >= Filled(c) + r + (IF pc = "newline" THEN 1 ELSE 0)
    /\ pc = "top" => \E c \in Nat \ {0} :
        prevX = First + ColumnStep * c /\ lines >= Filled(c)

ColumnsInv ==
    LineInv /\ CanvasInv /\ GlyphInv /\ TopInv /\ NoOverlap /\ GridInv

\* A product grows with its factor.
LEMMA Multiples ==
    ASSUME NEW a \in Nat, NEW m \in Nat, NEW n \in Nat, m <= n
    PROVE  a * m \in Nat /\ a * n \in Nat /\ a * m <= a * n
  OBVIOUS

\* A product grows by its factor.
LEMMA OneMore == ASSUME NEW a \in Int, NEW n \in Int PROVE a * (n + 1) = a * n + a
  OBVIOUS

\* The canvas is in the top row, or a glyph's height below it.
LEMMA RowsBelow ==
    ASSUME ConsoleInv, pc \in Writing
    PROVE  y = Margin \/ y >= Margin + GlyphH
  <1>1. PICK r \in Nat : y = Base + RowStep * r
    BY DEF ConsoleInv, Rowed
  <1>2. RowStep * r \in Nat /\ (r = 0 => RowStep * r = 0) /\ (r # 0 => RowStep * r >= RowStep)
    BY Layouts
  <1> QED
    BY <1>1, <1>2, Layouts DEF Base

\* A step keeps line and longest what their names say.
LEMMA NextLine == ConsoleInv /\ LineInv /\ [Next]_vars => LineInv'
  <1> SUFFICES ASSUME ConsoleInv, LineInv, [Next]_vars PROVE LineInv'
    OBVIOUS
  <1>0. line \in Nat /\ longest \in Nat /\ line <= longest
    BY DEF ConsoleInv, TypeOK, LineInv
  <1>1. CASE NewlineX
    BY <1>0, <1>1 DEF NewlineX, Char, LineInv, Writes
  <1>2. CASE Glyph
    BY <1>0, <1>2 DEF Glyph, Lengthen, Char, LineInv, Writes
  <1>3. CASE NewlineY \/ ColumnX \/ ColumnY \/ PutChar \/ Advance \/ Halt \/ Panic
    BY <1>3 DEF NewlineY, ColumnX, ColumnY, PutChar, Advance, Halt, Panic, count, Writes, LineInv
  <1>4. CASE CallClear \/ ClearPixels \/ ClearPrev \/ ClearX \/ ClearY
    BY <1>0, <1>4 DEF CallClear, ClearPixels, ClearPrev, ClearX, ClearY, LineInv, Writes, count
  <1>5. CASE UNCHANGED vars
    BY <1>5 DEF vars, count, LineInv
  <1> QED
    BY <1>1, <1>2, <1>3, <1>4, <1>5 DEF Next, Run, Write, Clear

\* The types the geometry needs, and that a canvas below the frame is in no top row.
LEMMA Measures ==
    ASSUME ConsoleInv
    PROVE  /\ x \in Nat /\ y \in Nat /\ prevX \in Nat /\ line \in Nat /\ height \in Nat
           /\ lines \in Nat /\ longest \in Nat /\ cleared \in BOOLEAN
           /\ glyphs \in SUBSET (Nat \X Nat) /\ Margin < height /\ Before \in Int
           /\ ColumnStep \in Nat \ {0} /\ GlyphW \in Nat /\ RowStep \in Nat \ {0}
           /\ Margin \in Nat \ {0} /\ FirstRow \in Nat /\ Margin < FirstRow
           /\ First \in Nat /\ Top \in Nat /\ Top < height /\ Margin <= Top
  BY Layouts DEF ConsoleInv, TypeOK, Before, First, Top

\* How far the canvas is from its column while a glyph is written.
LEMMA Reach ==
    ASSUME ConsoleInv, LineInv
    PROVE  /\ GlyphW * line \in Nat /\ GlyphW * longest \in Nat
           /\ GlyphW * line <= GlyphW * longest
           /\ pc \in Writes => /\ GlyphW * Before \in Nat
                               /\ GlyphW * Before + GlyphW <= GlyphW * longest
           /\ pc \notin Writes => Before = line
  <1>1. line \in Nat /\ longest \in Nat /\ line <= longest /\ GlyphW \in Nat
    BY Layouts DEF ConsoleInv, TypeOK, LineInv
  <1>2. /\ GlyphW * line \in Nat /\ GlyphW * longest \in Nat
        /\ GlyphW * line <= GlyphW * longest
    BY <1>1
  <1>3. ASSUME pc \in Writes
        PROVE  GlyphW * Before \in Nat /\ GlyphW * Before + GlyphW <= GlyphW * longest
    <2>1. Before = line - 1 /\ line >= 1 /\ Before \in Nat
      BY <1>1, <1>3 DEF Before, LineInv
    <2>2. GlyphW * (Before + 1) = GlyphW * Before + GlyphW
      BY <1>1, <2>1, OneMore
    <2>3. Before + 1 = line
      BY <1>1, <2>1
    <2> QED
      BY <1>1, <1>2, <2>1, <2>2, <2>3
  <1> QED
    BY <1>2, <1>3 DEF Before

\* The canvas is in the first column or to the right of it, and when it has left
\* that, in the top row there is a change of column only.
LEMMA ColumnsGrow ==
    ASSUME ConsoleInv, GridInv, pc \in Writing
    PROVE  First <= prevX /\ (y = Margin /\ ~cleared => prevX # First)
  <1>1. PICK c, r \in Nat : prevX = First + ColumnStep * c /\ y = RowOf(c) + RowStep * r
    BY DEF GridInv
  <1>2. /\ ColumnStep * c \in Nat /\ (c # 0 => ColumnStep * c > 0) /\ RowStep * r \in Nat
    BY Measures
  <1> QED
    BY <1>1, <1>2, Measures DEF RowOf, Top

\* Columns are written from left to right, and lines get no narrower.
LEMMA Widening ==
    ASSUME ConsoleInv, LineInv, GridInv, Write
    PROVE  /\ cleared' = cleared /\ First' = First
           /\ GlyphW * longest' \in Nat /\ GlyphW * longest <= GlyphW * longest'
           /\ prevX <= prevX' /\ prevX' \in Nat
           /\ Narrow' => Narrow
           /\ pc = "column" /\ pc' = "top" /\ Narrow' => GlyphW * longest <= ColumnStep
  <1>0. /\ prevX \in Nat /\ longest \in Nat /\ ColumnStep \in Nat \ {0} /\ GlyphW \in Nat
        /\ First \in Nat /\ line \in Nat
    BY Measures
  <1>1. cleared' = cleared /\ First' = First
    BY DEF Write, NewlineX, NewlineY, Glyph, ColumnX, ColumnY, PutChar, Advance, First
  <1>2. longest' \in Nat /\ longest <= longest'
    BY <1>0 DEF Write, NewlineX, NewlineY, Glyph, Lengthen, ColumnX, ColumnY, PutChar, Advance,
                count
  <1>3. GlyphW * longest' \in Nat /\ GlyphW * longest \in Nat /\ GlyphW * longest <= GlyphW * longest'
    BY <1>0, <1>2, Multiples
  <1>4. \/ prevX' = prevX /\ ~(pc = "column" /\ pc' = "top")
        \/ pc = "column" /\ prevX' = prevX + ColumnStep /\ longest' = longest
    BY DEF Write, NewlineX, NewlineY, Glyph, ColumnX, ColumnY, PutChar, Advance, Char, canvas,
           count
  <1>5. pc = "column" => First <= prevX
    BY ColumnsGrow DEF Writing
  <1> HIDE DEF First
  <1> DEFINE a == GlyphW * longest
             b == GlyphW * longest'
  <1>6. a \in Nat /\ b \in Nat /\ a <= b
    BY <1>3
  <1>7. /\ Narrow <=> (prevX = First \/ a <= ColumnStep)
        /\ Narrow' <=> (prevX' = First \/ b <= ColumnStep)
    BY <1>1 DEF Narrow
  <1>8. /\ prevX <= prevX' /\ prevX' \in Nat
        /\ Narrow' => Narrow
        /\ pc = "column" /\ pc' = "top" /\ Narrow' => a <= ColumnStep
    <2> HIDE DEF a, b, Narrow
    <2> QED
      BY <1>0, <1>4, <1>5, <1>6, <1>7
  <1> QED
    BY <1>1, <1>6, <1>8

\* Where a step leaves the canvas in its column.
LEMMA NextCanvas ==
    ConsoleInv /\ LineInv /\ CanvasInv /\ GridInv /\ [Next]_vars => CanvasInv'
  <1> SUFFICES ASSUME ConsoleInv, LineInv, CanvasInv, GridInv, [Next]_vars
               PROVE  CanvasInv'
    OBVIOUS
  <1>0. /\ x \in Nat /\ y \in Nat /\ prevX \in Nat /\ line \in Nat /\ height \in Nat
        /\ Margin < height /\ ColumnStep \in Nat \ {0} /\ GlyphW \in Nat /\ Margin \in Nat
        /\ RowStep \in Nat \ {0} /\ Before \in Int /\ First \in Nat
    BY Measures
  <1>1. CASE NewlineX
    BY <1>1 DEF NewlineX, Char, CanvasInv
  <1>2. CASE NewlineY
    <2>1. /\ pc = "newline" /\ pc' = "char" /\ y' = y + RowStep /\ UNCHANGED << x, prevX, line >>
      BY <1>2 DEF NewlineY, count
    <2>2. y >= Margin
      BY <1>0, <2>1, RowsBelow, Layouts DEF Writing
    <2>3. x = prevX /\ line = 0
      BY <2>1 DEF CanvasInv, LineInv
    <2>4. Before' = 0
      BY <2>1, <2>3 DEF Before, Writes
    <2>5. Straight' /\ y' # Margin
      BY <1>0, <2>1, <2>2, <2>3, <2>4 DEF Straight
    <2> QED
      BY <2>1, <2>5 DEF CanvasInv
  <1>3. CASE Glyph /\ UNCHANGED height
    <2>1. /\ pc = "char" /\ line' = line + 1 /\ UNCHANGED << x, y, prevX, cleared, height >>
          /\ pc' = (IF y >= height THEN "column" ELSE "put")
      BY <1>3 DEF Glyph, Lengthen, Char, canvas
    <2>2. Before' = Before
      BY <1>0, <2>1 DEF Before, Writes
    <2>3. (Straight' <=> Straight) /\ (Moved' <=> Moved) /\ First' = First
      BY <2>1, <2>2 DEF Straight, Carried, Moved, First
    <2>4. ASSUME y >= height PROVE Straight
      BY <1>0, <2>1, <2>4 DEF CanvasInv
    <2> QED
      BY <2>1, <2>3, <2>4 DEF CanvasInv
  <1>4. CASE ColumnX
    <2>1. /\ pc = "column" /\ pc' = "top" /\ prevX' = prevX + ColumnStep
          /\ UNCHANGED << x, line, cleared >> /\ Before' = Before
      BY <1>4 DEF ColumnX, count, Before, Writes
    <2>2. x = prevX + GlyphW * Before
      BY <2>1 DEF CanvasInv, Straight
    <2>3. Carried'
      <3> DEFINE p == GlyphW * Before
      <3>1. p \in Nat /\ (GlyphW * Before)' = p
        BY <2>1, Reach DEF Writes
      <3>2. x = prevX + p
        BY <2>2
      <3> HIDE DEF p
      <3>3. x + ColumnStep = (prevX + ColumnStep) + p
        BY <1>0, <3>1, <3>2
      <3> QED
        BY <2>1, <3>1, <3>3 DEF Carried
    <2>4. prevX' # First'
      <3>1. First <= prevX /\ First' = First
        BY <2>1, ColumnsGrow DEF Writing, First
      <3> QED
        BY <1>0, <2>1, <3>1
    <2> QED
      BY <2>1, <2>3, <2>4 DEF CanvasInv, Moved
  <1>5. CASE ColumnY
    <2>1. /\ pc = "top" /\ pc' = "put" /\ y' = Margin /\ UNCHANGED << x, prevX, line, cleared >>
          /\ Before' = Before
      BY <1>5 DEF ColumnY, count, Before, Writes
    <2> QED
      BY <2>1 DEF CanvasInv, Carried, Moved, First
  <1>6. CASE PutChar
    <2>1. /\ pc = "put" /\ pc' = "advance" /\ UNCHANGED << x, y, prevX, line, cleared >>
          /\ Before' = Before
      BY <1>6 DEF PutChar, canvas, count, Before, Writes
    <2> QED
      BY <2>1 DEF CanvasInv, Carried, Straight, Moved, First
  <1>7. CASE Advance
    <2>1. /\ pc = "advance" /\ pc' = "char" /\ x' = x + GlyphW
          /\ UNCHANGED << y, prevX, line, cleared >>
      BY <1>7 DEF Advance, count, screen
    <2>2. Before = line - 1 /\ Before' = line /\ Before' = Before + 1
      BY <1>0, <2>1 DEF Before, Writes
    <2>3. GlyphW * (Before + 1) = GlyphW * Before + GlyphW /\ GlyphW * Before \in Nat
      BY <1>0, <2>1, OneMore, Reach DEF Writes
    <2>4. GlyphW * Before' = GlyphW * Before + GlyphW
      BY <2>2, <2>3
    <2>5. (Straight => Straight') /\ (Carried => Carried')
      <3> DEFINE p == GlyphW * Before
      <3> HIDE DEF p
      <3>1. /\ (x = prevX + p => x + GlyphW = prevX + (p + GlyphW))
            /\ (x + ColumnStep = prevX + p => (x + GlyphW) + ColumnStep = prevX + (p + GlyphW))
        BY <1>0, <2>3 DEF p
      <3> QED
        BY <2>1, <2>4, <3>1 DEF Straight, Carried, p
    <2> QED
      BY <2>1, <2>5 DEF CanvasInv, Moved, First
  <1>8. CASE CallClear \/ ClearPixels \/ ClearPrev \/ ClearX \/ Halt \/ Panic
    BY <1>8 DEF CallClear, ClearPixels, ClearPrev, ClearX, Halt, Panic, CanvasInv
  <1>9. CASE ClearY
    <2>1. pc = "clearY" /\ pc' = "char" /\ UNCHANGED << x, prevX, line, cleared >>
      BY <1>9 DEF ClearY, count
    <2>2. cleared /\ prevX = Margin /\ x = Margin /\ line = 0
      BY <2>1 DEF GridInv, LineInv
    <2>3. Before' = 0
      BY <2>1, <2>2 DEF Before, Writes
    <2>4. Straight' /\ y' = Margin
      BY <1>0, <1>9, <2>1, <2>2, <2>3 DEF Straight, ClearY
    <2> QED
      BY <2>1, <2>2, <2>4 DEF CanvasInv, First
  <1>10. CASE UNCHANGED vars
    BY <1>10 DEF vars, canvas, count, CanvasInv, Carried, Straight, Before, Moved, First
  <1> QED
    BY <1>1, <1>2, <1>3, <1>4, <1>5, <1>6, <1>7, <1>8, <1>9, <1>10 DEF Next, Run, Write, Clear

\* The canvas is to the right of the earlier columns, but for the line in which
\* the column changed, which ends where its column starts if it is narrow.
LEMMA CanvasRoom ==
    ASSUME ConsoleInv, LineInv, CanvasInv
    PROVE  /\ pc \in Writes /\ Straight =>
                  prevX <= x /\ x + GlyphW <= prevX + GlyphW * longest
           /\ pc \in Writes /\ Carried =>
                  /\ x + ColumnStep + GlyphW <= prevX + GlyphW * longest
                  /\ prevX <= x + ColumnStep
           /\ pc = "char" /\ Carried => x + ColumnStep <= prevX + GlyphW * longest
  <1> DEFINE p == GlyphW * Before
             l == GlyphW * longest
  <1>1. /\ x \in Nat /\ prevX \in Nat /\ ColumnStep \in Nat /\ GlyphW \in Nat
    BY Measures
  <1>2. l \in Nat /\ (pc \in Writes => p \in Nat /\ p + GlyphW <= l)
    BY Reach
  <1>3. pc = "char" => p \in Nat /\ p <= l
    BY Reach DEF Writes
  <1>4. /\ Straight => x = prevX + p
        /\ Carried => x + ColumnStep = prevX + p
    BY DEF Straight, Carried
  <1> HIDE DEF p, l
  <1>5. /\ pc \in Writes /\ Straight => prevX <= x /\ x + GlyphW <= prevX + l
        /\ pc \in Writes /\ Carried =>
                  x + ColumnStep + GlyphW <= prevX + l /\ prevX <= x + ColumnStep
        /\ pc = "char" /\ Carried => x + ColumnStep <= prevX + l
    BY <1>1, <1>2, <1>3, <1>4
  <1> QED
    BY <1>5 DEF l

\* A step keeps the glyphs behind the canvas.
LEMMA NextGlyph ==
    ConsoleInv /\ PanicInv /\ LineInv /\ CanvasInv /\ GlyphInv /\ GridInv /\ [Next]_vars
        => GlyphInv'
  <1> SUFFICES ASSUME ConsoleInv, PanicInv, LineInv, CanvasInv, GlyphInv, GridInv, [Next]_vars
               PROVE  GlyphInv'
    OBVIOUS
  <1>0. /\ x \in Nat /\ y \in Nat /\ prevX \in Nat /\ line \in Nat
        /\ glyphs \in SUBSET (Nat \X Nat)
        /\ ColumnStep \in Nat /\ GlyphW \in Nat /\ Margin \in Nat /\ RowStep \in Nat \ {0}
        /\ \A g \in glyphs : g[1] \in Nat /\ g[2] \in Nat
    BY Measures
  <1>w. ASSUME Write
        PROVE  /\ Narrow' => Narrow
               /\ pc \in Writing \cup {"top"} =>
                    \A g \in glyphs : g[1] + GlyphW <= prevX' + GlyphW * longest'
    <2>1. /\ GlyphW * longest \in Nat /\ GlyphW * longest' \in Nat /\ prevX' \in Nat
          /\ GlyphW * longest <= GlyphW * longest' /\ prevX <= prevX' /\ (Narrow' => Narrow)
      BY <1>w, Widening, Reach
    <2>2. pc \in Writing \cup {"top"} =>
              \A g \in glyphs : g[1] + GlyphW <= prevX + GlyphW * longest
      BY DEF GlyphInv
    <2> QED
      BY <1>0, <2>1, <2>2
  <1>1. CASE NewlineX
    <2>1. pc = "char" /\ pc' = "newline" /\ UNCHANGED << y, prevX, glyphs >>
      BY <1>1 DEF NewlineX, Char, screen
    <2>2. ASSUME Narrow, NEW g \in glyphs PROVE Earlier(g) \/ g[2] <= y
      BY <1>0, <2>1, <2>2 DEF GlyphInv, Behind, Passed
    <2> QED
      BY <1>1, <1>w, <2>1, <2>2 DEF GlyphInv, Earlier, Write, Writing
  <1>2. CASE NewlineY
    <2>1. pc = "newline" /\ pc' = "char" /\ y' = y + RowStep /\ UNCHANGED << prevX, glyphs >>
      BY <1>2 DEF NewlineY, screen
    <2>2. ASSUME Narrow, NEW g \in glyphs PROVE Earlier(g) \/ g[2] + RowStep <= y'
      BY <1>0, <2>1, <2>2 DEF GlyphInv
    <2> QED
      BY <1>2, <1>w, <2>1, <2>2 DEF GlyphInv, Earlier, Behind, Passed, Write, Writing
  <1>3. CASE Glyph
    <2>1. /\ pc = "char" /\ pc' \in {"column", "put"} /\ UNCHANGED << x, y, prevX, glyphs >>
      BY <1>3 DEF Glyph, Char, canvas, screen
    <2> QED
      BY <1>3, <1>w, <2>1 DEF GlyphInv, Earlier, Behind, Passed, Write, Writing
  <1>4. CASE ColumnX
    <2>1. /\ pc = "column" /\ pc' = "top" /\ prevX' = prevX + ColumnStep /\ glyphs' = glyphs
      BY <1>4 DEF ColumnX, screen
    <2>2. ASSUME Narrow', NEW g \in glyphs PROVE g[1] + GlyphW <= prevX'
      <3>1. g[1] + GlyphW <= prevX + GlyphW * longest
        BY <2>1 DEF GlyphInv, Writing
      <3>2. GlyphW * longest <= ColumnStep /\ GlyphW * longest \in Nat
        BY <1>4, <2>1, <2>2, Widening, Reach DEF Write
      <3> QED
        BY <1>0, <2>1, <3>1, <3>2
    <2> QED
      BY <1>4, <1>w, <2>1, <2>2 DEF GlyphInv, Earlier, Write, Writing
  <1>5. CASE ColumnY
    <2>1. pc = "top" /\ pc' = "put" /\ prevX' = prevX /\ glyphs' = glyphs
      BY <1>5 DEF ColumnY, screen
    <2>2. ASSUME Narrow, NEW g \in glyphs PROVE Earlier(g)
      BY <2>1, <2>2 DEF GlyphInv
    <2> QED
      BY <1>5, <1>w, <2>1, <2>2 DEF GlyphInv, Earlier, Behind, Write, Writing
  <1>6. CASE PutChar
    <2>1. /\ pc = "put" /\ pc' = "advance" /\ UNCHANGED << x, y, prevX, longest >>
          /\ glyphs' = glyphs \cup {<< x, y >>}
      BY <1>6 DEF PutChar, canvas, count
    <2>2. x + GlyphW <= prevX + GlyphW * longest
      <3>1. Straight \/ Carried
        BY <2>1 DEF CanvasInv, Moved
      <3> QED
        BY <1>0, <2>1, <3>1, CanvasRoom, Reach DEF Writes
    <2>3. \A g \in glyphs' : g[1] + GlyphW <= prevX' + GlyphW * longest'
      BY <1>6, <1>w, <2>1, <2>2 DEF Write, Writing
    <2>4. ASSUME Narrow PROVE \A g \in glyphs' : Behind(g) \/ g = << x, y >>
      BY <2>1, <2>4 DEF GlyphInv
    <2> QED
      BY <1>6, <1>w, <2>1, <2>3, <2>4 DEF GlyphInv, Behind, Earlier, Passed, Write
  <1>7. CASE Advance
    <2>1. /\ pc = "advance" /\ pc' = "char" /\ x' = x + GlyphW
          /\ UNCHANGED << y, prevX, glyphs >>
      BY <1>7 DEF Advance, screen
    <2>2. ASSUME Narrow, NEW g \in glyphs
          PROVE  \/ g[1] + GlyphW <= prevX
                 \/ g[2] + RowStep <= y \/ (g[2] = y /\ g[1] + GlyphW <= x')
      BY <1>0, <2>1, <2>2 DEF GlyphInv, Behind, Earlier, Passed
    <2> QED
      BY <1>7, <1>w, <2>1, <2>2 DEF GlyphInv, Behind, Earlier, Passed, Write, Writing
  <1>8. CASE CallClear \/ ClearPixels \/ ClearPrev \/ ClearX \/ Halt \/ Panic
    BY <1>8 DEF CallClear, ClearPixels, ClearPrev, ClearX, Halt, Panic, GlyphInv, Writing
  <1>9. CASE ClearY
    <2>1. pc = "clearY" /\ pc' = "char" /\ glyphs' = {}
      BY <1>9 DEF ClearY, PanicInv, screen
    <2> QED
      BY <2>1 DEF GlyphInv
  <1>10. CASE UNCHANGED vars
    BY <1>10 DEF vars, canvas, screen, count, GlyphInv, Behind, Earlier, Passed, Narrow, First
  <1> QED
    BY <1>1, <1>2, <1>3, <1>4, <1>5, <1>6, <1>7, <1>8, <1>9, <1>10 DEF Next, Run, Write, Clear

\* A step keeps the top row to the lines in which the column changed.
LEMMA NextTop ==
    ConsoleInv /\ LineInv /\ CanvasInv /\ GridInv /\ TopInv /\ [Next]_vars => TopInv'
  <1> SUFFICES ASSUME ConsoleInv, LineInv, CanvasInv, GridInv, TopInv, [Next]_vars,
                      Narrow', ~cleared', pc' \in Writing \cup {"top"}, NEW g \in glyphs'
               PROVE  \/ g[2] >= Margin + GlyphH
                      \/ /\ g[2] = Margin
                         /\ g[1] + GlyphW <= (IF y' = Margin \/ pc' = "top" THEN x' ELSE prevX')
                      \/ pc' = "advance" /\ g = << x', y' >>
    BY DEF TopInv
  <1>0. /\ x \in Nat /\ y \in Nat /\ prevX \in Nat /\ height \in Nat
        /\ glyphs \in SUBSET (Nat \X Nat) /\ Margin < height
        /\ ColumnStep \in Nat /\ GlyphW \in Nat /\ Margin \in Nat /\ RowStep \in Nat \ {0}
    BY Measures
  <1>w. Write => Narrow
    BY Widening
  <1>1. CASE NewlineX
    <2>0. Narrow
      BY <1>1, <1>w DEF Write
    <2>1. /\ pc = "char" /\ pc' = "newline" /\ x' = prevX
          /\ UNCHANGED << y, prevX, glyphs, cleared >>
      BY <1>1 DEF NewlineX, Char, screen
    <2>2. \/ g[2] >= Margin + GlyphH
          \/ g[2] = Margin /\ g[1] + GlyphW <= (IF y = Margin THEN x ELSE prevX)
      BY <2>0, <2>1 DEF TopInv, Writing
    <2>3. ASSUME y = Margin PROVE x <= prevX
      <3>1. Carried /\ prevX # First
        BY <2>1, <2>3 DEF CanvasInv, Moved
      <3>2. x + ColumnStep <= prevX + GlyphW * longest /\ GlyphW * longest \in Nat
        BY <2>1, <3>1, CanvasRoom, Reach
      <3>3. GlyphW * longest <= ColumnStep
        BY <2>0, <3>1 DEF Narrow
      <3> QED
        BY <1>0, <3>2, <3>3
    <2>4. g[1] \in Nat
      BY <1>0, <2>1
    <2> QED
      BY <1>0, <2>1, <2>2, <2>3, <2>4
  <1>2. CASE NewlineY
    <2>1. /\ pc = "newline" /\ pc' = "char" /\ y' = y + RowStep
          /\ UNCHANGED << x, prevX, glyphs, cleared >>
      BY <1>2 DEF NewlineY, screen
    <2>2. \/ g[2] >= Margin + GlyphH
          \/ g[2] = Margin /\ g[1] + GlyphW <= prevX
      BY <1>2, <1>w, <2>1 DEF TopInv, Writing, CanvasInv, Write
    <2>3. y' # Margin
      BY <1>0, <2>1, RowsBelow, Layouts DEF Writing
    <2> QED
      BY <2>1, <2>2, <2>3
  <1>3. CASE Glyph
    <2>1. pc = "char" /\ pc' \in {"column", "put"} /\ UNCHANGED << x, y, prevX, glyphs, cleared >>
      BY <1>3 DEF Glyph, Char, canvas, screen
    <2>2. \/ g[2] >= Margin + GlyphH
          \/ g[2] = Margin /\ g[1] + GlyphW <= (IF y = Margin THEN x ELSE prevX)
      BY <1>3, <1>w, <2>1 DEF TopInv, Writing, Write
    <2> QED
      BY <2>1, <2>2
  <1>4. CASE ColumnX
    <2>1. pc = "column" /\ pc' = "top" /\ UNCHANGED << x, glyphs, cleared >>
      BY <1>4 DEF ColumnX, screen
    <2>2. y # Margin /\ prevX <= x
      BY <1>0, <2>1, CanvasRoom DEF CanvasInv, Writes
    <2>3. \/ g[2] >= Margin + GlyphH
          \/ g[2] = Margin /\ g[1] + GlyphW <= prevX
      BY <1>4, <1>w, <2>1, <2>2 DEF TopInv, Writing, Write
    <2>4. g[1] \in Nat
      BY <1>0, <2>1
    <2> QED
      BY <1>0, <2>1, <2>2, <2>3, <2>4
  <1>5. CASE ColumnY
    <2>1. pc = "top" /\ pc' = "put" /\ y' = Margin /\ UNCHANGED << x, glyphs, cleared >>
      BY <1>5 DEF ColumnY, screen
    <2>2. \/ g[2] >= Margin + GlyphH
          \/ g[2] = Margin /\ g[1] + GlyphW <= x
      BY <1>5, <1>w, <2>1 DEF TopInv, Write
    <2> QED
      BY <2>1, <2>2
  <1>6. CASE PutChar
    <2>1. /\ pc = "put" /\ pc' = "advance" /\ UNCHANGED << x, y, prevX, cleared >>
          /\ glyphs' = glyphs \cup {<< x, y >>}
      BY <1>6 DEF PutChar, canvas
    <2>2. ASSUME g \in glyphs
          PROVE  \/ g[2] >= Margin + GlyphH
                 \/ g[2] = Margin /\ g[1] + GlyphW <= (IF y = Margin THEN x ELSE prevX)
      BY <1>6, <1>w, <2>1, <2>2 DEF TopInv, Writing, Write
    <2> QED
      BY <2>1, <2>2
  <1>7. CASE Advance
    <2>1. /\ pc = "advance" /\ pc' = "char" /\ x' = x + GlyphW
          /\ UNCHANGED << y, prevX, glyphs, cleared >>
      BY <1>7 DEF Advance, screen
    <2>2. \/ g[2] >= Margin + GlyphH
          \/ g[2] = Margin /\ g[1] + GlyphW <= (IF y = Margin THEN x ELSE prevX)
          \/ g = << x, y >>
      BY <1>7, <1>w, <2>1 DEF TopInv, Writing, Write
    <2>3. y = Margin \/ y >= Margin + GlyphH
      BY <2>1, RowsBelow DEF Writing
    <2>4. g[1] \in Nat
      BY <1>0, <2>1
    <2>5. CASE g = << x, y >>
      BY <1>0, <2>1, <2>3, <2>5
    <2>6. CASE g # << x, y >>
      BY <1>0, <2>1, <2>2, <2>4, <2>6
    <2> QED
      BY <2>5, <2>6
  <1>8. CASE CallClear \/ ClearPixels \/ ClearPrev \/ ClearX \/ Halt \/ Panic
    BY <1>8 DEF CallClear, ClearPixels, ClearPrev, ClearX, Halt, Panic, Writing
  <1>9. CASE ClearY
    BY <1>9 DEF ClearY, GridInv
  <1>10. CASE UNCHANGED vars
    BY <1>10 DEF vars, canvas, screen, count, TopInv, Narrow, First
  <1> QED
    BY <1>1, <1>2, <1>3, <1>4, <1>5, <1>6, <1>7, <1>8, <1>9, <1>10 DEF Next, Run, Write, Clear

\* A glyph behind the canvas is not drawn over.
LEMMA BehindApart ==
    ASSUME x \in Nat, y \in Nat, prevX \in Nat, prevX <= x, NEW g \in Nat \X Nat, Behind(g),
           InScanline(<< x, y >>), InScanline(g)
    PROVE  ~Overlap(<< x, y >>, g)
  <1>1. /\ g[1] \in Nat /\ g[2] \in Nat /\ GlyphW \in Nat \ {0} /\ GlyphH \in Nat \ {0}
        /\ RowStep \in Nat /\ GlyphH <= RowStep
    BY Layouts
  <1>2. \/ g[1] + GlyphW <= x
        \/ g[2] + RowStep <= y
    BY <1>1 DEF Behind, Earlier, Passed
  <1>3. ~(x - g[1] \in (1 - GlyphW) .. (GlyphW - 1) /\ y - g[2] \in (1 - GlyphH) .. (GlyphH - 1))
    BY <1>1, <1>2
  <1>4. ~Touch(<< x, y >>, g)
    BY <1>3 DEF Touch
  <1> QED
    BY <1>4, NoWrap

\* Glyphs that are drawn over while the lines fit are in the top row of a cleared
\* screen.
LEMMA NextOver ==
    ConsoleInv /\ PanicInv /\ LineInv /\ CanvasInv /\ GlyphInv /\ TopInv /\ GridInv /\ NoOverlap
        /\ [Next]_vars => NoOverlap'
  <1> SUFFICES ASSUME ConsoleInv, PanicInv, LineInv, CanvasInv, GlyphInv, TopInv, GridInv,
                      NoOverlap, [Next]_vars
               PROVE  NoOverlap'
    OBVIOUS
  <1>0. /\ x \in Nat /\ y \in Nat /\ prevX \in Nat /\ glyphs \in SUBSET (Nat \X Nat)
        /\ ColumnStep \in Nat \ {0} /\ GlyphW \in Nat /\ Margin \in Nat /\ Ppsl \in Nat
        /\ First \in Nat
    BY Measures, Layouts
  <1> DEFINE fits == prevX + GlyphW * longest <= Ppsl
             top == IF cleared /\ prevX # First THEN {Margin} ELSE {}
  <1>a. NoOverlap <=> (fits /\ Narrow => over \subseteq top)
    BY DEF NoOverlap, Narrow
  <1>b. NoOverlap' <=> (fits' /\ Narrow' => over' \subseteq top')
    BY DEF NoOverlap, Narrow
  <1>w. ASSUME Write PROVE fits' /\ Narrow' => fits /\ Narrow
    <2>1. /\ GlyphW * longest \in Nat /\ GlyphW * longest' \in Nat /\ prevX' \in Nat
          /\ GlyphW * longest <= GlyphW * longest' /\ prevX <= prevX' /\ (Narrow' => Narrow)
      BY <1>w, Widening, Reach
    <2> QED
      BY <1>0, <2>1
  <1>1. CASE PutChar
    <2>1. /\ pc = "put" /\ UNCHANGED << prevX, cleared >> /\ First' = First
          /\ over' = IF \E g \in glyphs : Overlap(<< x, y >>, g) THEN over \cup {y} ELSE over
      BY <1>1 DEF PutChar, canvas, First
    <2>2. SUFFICES ASSUME fits, Narrow PROVE over' \subseteq top
      BY <1>1, <1>b, <1>w, <2>1 DEF Write
    <2>3. over \subseteq top
      BY <1>a, <2>2
    <2>4. InScanline(<< x, y >>)
      <3>1. Straight \/ Carried
        BY <2>1 DEF CanvasInv, Moved
      <3> QED
        BY <1>0, <2>1, <2>2, <3>1, CanvasRoom, Reach DEF Writes, InScanline
    <2>5. ASSUME NEW g \in glyphs PROVE InScanline(g) /\ g \in Nat \X Nat
      <3>1. g[1] + GlyphW <= prevX + GlyphW * longest
        BY <2>1 DEF GlyphInv, Writing
      <3>2. g[1] \in Nat /\ GlyphW * longest \in Nat
        BY <1>0, Reach
      <3> QED
        BY <1>0, <2>2, <3>1, <3>2 DEF InScanline
    <2>6. CASE Straight
      <3>1. prevX <= x
        BY <2>1, <2>6, CanvasRoom DEF Writes
      <3>2. \A g \in glyphs : ~Overlap(<< x, y >>, g)
        BY <1>0, <2>1, <2>2, <2>4, <2>5, <3>1, BehindApart DEF GlyphInv
      <3> QED
        BY <2>1, <2>3, <3>2
    <2>7. CASE ~Straight /\ cleared
      <3>1. y = Margin /\ prevX # First
        BY <2>1, <2>7 DEF CanvasInv, Moved
      <3> QED
        BY <2>1, <2>3, <2>7, <3>1
    <2>8. CASE ~Straight /\ ~cleared
      <3>1. y = Margin
        BY <2>1, <2>8 DEF CanvasInv
      <3>2. ASSUME NEW g \in glyphs PROVE ~Overlap(<< x, y >>, g)
        <4>1. \/ g[2] >= Margin + GlyphH
              \/ g[2] = Margin /\ g[1] + GlyphW <= x
          BY <2>1, <2>2, <2>8, <3>1 DEF TopInv, Writing
        <4>2. g[1] \in Nat /\ g[2] \in Nat
          BY <1>0
        <4>3. ~Touch(<< x, y >>, g)
          BY <1>0, <3>1, <4>1, <4>2, Layouts DEF Touch
        <4> QED
          BY <1>0, <2>4, <2>5, <4>3, NoWrap
      <3> QED
        BY <2>1, <2>3, <3>2
    <2> QED
      BY <2>6, <2>7, <2>8
  <1>2. CASE ClearPixels \/ ClearPrev \/ ClearX \/ ClearY
    <2>1. over' = {}
      BY <1>2 DEF ClearPixels, ClearPrev, ClearX, ClearY, PanicInv, screen
    <2> QED
      BY <1>b, <2>1
  <1>3. CASE ColumnX
    <2>1. /\ pc = "column" /\ prevX' = prevX + ColumnStep /\ UNCHANGED << over, cleared >>
          /\ First' = First
      BY <1>3 DEF ColumnX, screen, First
    <2>2. First <= prevX
      BY <2>1, ColumnsGrow DEF Writing
    <2>3. prevX' # First
      BY <1>0, <2>1, <2>2
    <2>4. SUFFICES ASSUME fits, Narrow PROVE over \subseteq top'
      BY <1>3, <1>b, <1>w, <2>1 DEF Write
    <2> QED
      BY <1>a, <2>1, <2>3, <2>4
  <1>4. CASE NewlineX \/ NewlineY \/ Glyph \/ ColumnY \/ Advance
    <2>1. UNCHANGED << over, cleared, prevX >> /\ First' = First
      BY <1>4 DEF NewlineX, NewlineY, Glyph, ColumnY, Advance, screen, canvas, First
    <2>2. top' = top
      BY <2>1
    <2>3. fits' /\ Narrow' => fits /\ Narrow
      BY <1>4, <1>w DEF Write
    <2> QED
      BY <1>a, <1>b, <2>1, <2>2, <2>3
  <1>5. CASE CallClear \/ Halt \/ Panic \/ UNCHANGED vars
    <2>1. UNCHANGED << over, cleared, prevX, longest >>
      BY <1>5 DEF CallClear, Halt, Panic, vars, screen, canvas, count
    <2> QED
      BY <2>1 DEF NoOverlap, First
  <1> QED
    BY <1>1, <1>2, <1>3, <1>4, <1>5 DEF Next, Run, Write, Clear

\* A canvas below the frame has passed every row of its column.
LEMMA RowsFull ==
    ASSUME NEW h \in Nat, NEW m \in Nat, m < h, NEW s \in Nat \ {0}, NEW r \in Nat,
           m + s * r >= h
    PROVE  (h - m + s - 1) \div s \in Nat /\ r >= (h - m + s - 1) \div s
  <1> DEFINE d == h - m + s - 1
             q == d \div s
             e == d % s
  <1>1. d \in Nat
    OBVIOUS
  <1>2. q \in Int /\ e \in 0 .. (s - 1) /\ d = s * q + e
    BY <1>1, DivMod
  <1>3. d = h - m + s - 1
    OBVIOUS
  <1> HIDE DEF d, q, e
  <1>4. r >= q
    <2>1. SUFFICES ASSUME r + 1 <= q PROVE FALSE
      BY <1>2
    <2>2. s * (r + 1) <= s * q
      BY <1>2, <2>1
    <2>3. s * (r + 1) = s * r + s /\ s * r \in Nat
      OBVIOUS
    <2> QED
      BY <1>2, <1>3, <2>2, <2>3
  <1>5. q >= 0
    <2>1. SUFFICES ASSUME q + 1 <= 0 PROVE FALSE
      BY <1>2
    <2>2. s * (q + 1) <= 0 /\ s * (q + 1) = s * q + s
      BY <1>2, <2>1
    <2> QED
      BY <1>1, <1>2, <2>2
  <1> QED
    BY <1>2, <1>4, <1>5 DEF q, d

\* A frame has a row.
LEMMA RowsExist ==
    ASSUME NEW h \in Nat, NEW m \in Nat, m < h, NEW s \in Nat \ {0}
    PROVE  (h - m + s - 1) \div s \in Nat \ {0}
  <1> DEFINE d == h - m + s - 1
             q == d \div s
             e == d % s
  <1>1. d \in Nat /\ d >= s
    OBVIOUS
  <1>2. q \in Int /\ e \in 0 .. (s - 1) /\ d = s * q + e
    BY <1>1, DivMod
  <1> HIDE DEF d, q, e
  <1>3. q >= 1
    <2>1. SUFFICES ASSUME q <= 0 PROVE FALSE
      BY <1>2
    <2>2. s * q <= 0
      BY <1>2, <2>1
    <2> QED
      BY <1>1, <1>2, <2>2
  <1> QED
    BY <1>2, <1>3 DEF q, d

\* The rows of the columns, and of the columns before a column.
LEMMA ColumnRows ==
    ASSUME ConsoleInv
    PROVE  /\ Rows(Top) \in Nat \ {0} /\ Rows(Margin) \in Nat \ {0}
           /\ \A c \in Nat : /\ RowOf(c) \in Nat /\ RowOf(c) < height /\ Filled(c) \in Nat
                             /\ Rows(RowOf(c)) \in Nat
                             /\ Filled(c + 1) = Filled(c) + Rows(RowOf(c))
  <1>1. /\ height \in Nat /\ Top \in Nat /\ Margin \in Nat /\ Margin < height /\ Top < height
        /\ RowStep \in Nat \ {0}
    BY Measures
  <1>2. Rows(Top) \in Nat \ {0} /\ Rows(Margin) \in Nat \ {0}
    BY <1>1, RowsExist DEF Rows
  <1> DEFINE t == Rows(Top)
             n == Rows(Margin)
  <1>3. t \in Nat /\ n \in Nat
    BY <1>2
  <1>4. ASSUME NEW c \in Nat
        PROVE  /\ RowOf(c) \in Nat /\ RowOf(c) < height /\ Rows(RowOf(c)) \in Nat
               /\ Rows(RowOf(c)) = (IF c = 0 THEN t ELSE n)
    BY <1>1, <1>2 DEF RowOf
  <1>5. ASSUME NEW c \in Nat
        PROVE  Filled(c) = (IF c = 0 THEN 0 ELSE t + n * (c - 1))
    BY DEF Filled
  <1> HIDE DEF t, n
  <1>6. ASSUME NEW c \in Nat PROVE Filled(c) \in Nat
    <2>1. CASE c # 0
      <3>1. n * (c - 1) \in Nat
        BY <1>3, <2>1
      <3> QED
        BY <1>3, <1>5, <2>1, <3>1
    <2> QED
      BY <1>5, <2>1
  <1>7. ASSUME NEW c \in Nat PROVE Filled(c + 1) = Filled(c) + Rows(RowOf(c))
    <2>1. Filled(c + 1) = t + n * c
      BY <1>5
    <2>2. CASE c = 0
      BY <1>3, <1>4, <1>5, <2>1, <2>2
    <2>3. CASE c # 0
      <3>1. c - 1 \in Int /\ n * ((c - 1) + 1) = n * (c - 1) + n /\ (c - 1) + 1 = c
        BY <1>3, OneMore
      <3>2. n * (c - 1) \in Int
        BY <1>3
      <3> QED
        BY <1>3, <1>4, <1>5, <2>1, <2>3, <3>1, <3>2
    <2> QED
      BY <2>2, <2>3
  <1> QED
    BY <1>2, <1>4, <1>6, <1>7

\* A step keeps count of the rows that the lines have filled.
LEMMA NextGrid ==
    ConsoleInv /\ CanvasInv /\ GridInv /\ [Next]_vars => GridInv'
  <1> SUFFICES ASSUME ConsoleInv, CanvasInv, GridInv, [Next]_vars PROVE GridInv'
    OBVIOUS
  <1>0. /\ y \in Nat /\ prevX \in Nat /\ height \in Nat /\ Margin < height /\ lines \in Nat
        /\ ColumnStep \in Nat /\ Margin \in Nat /\ RowStep \in Nat \ {0} /\ First \in Nat
        /\ \A c \in Nat : RowOf(c) \in Nat /\ Filled(c) \in Nat
    BY Measures, ColumnRows
  <1>1. height' = height
    BY DEF Next, Run, vars
  <1>a. ASSUME cleared' = cleared
        PROVE  First' = First /\ \A c \in Nat : RowOf(c)' = RowOf(c) /\ Filled(c)' = Filled(c)
    BY <1>1, <1>a DEF First, RowOf, Filled, Top, Rows
  <1>2. CASE NewlineX
    <2>1. /\ pc = "char" /\ pc' = "newline" /\ lines' = lines + 1
          /\ UNCHANGED << y, prevX, cleared >>
      BY <1>2 DEF NewlineX, Char
    <2>2. PICK c, r \in Nat : /\ prevX = First + ColumnStep * c /\ y = RowOf(c) + RowStep * r
                              /\ lines >= Filled(c) + r + 0
      BY <2>1 DEF GridInv, Writing
    <2>3. lines' >= Filled(c) + r + 1
      BY <1>0, <2>1, <2>2
    <2>4. /\ prevX' = First' + ColumnStep * c /\ y' = RowOf(c)' + RowStep * r
          /\ lines' >= Filled(c)' + r + 1
      BY <1>a, <2>1, <2>2, <2>3
    <2> QED
      BY <2>1, <2>4 DEF GridInv
  <1>3. CASE NewlineY
    <2>1. /\ pc = "newline" /\ pc' = "char" /\ y' = y + RowStep
          /\ UNCHANGED << lines, prevX, cleared >>
      BY <1>3 DEF NewlineY, count
    <2>2. PICK c, r \in Nat : /\ prevX = First + ColumnStep * c /\ y = RowOf(c) + RowStep * r
                              /\ lines >= Filled(c) + r + 1
      BY <2>1 DEF GridInv, Writing
    <2>3. RowStep * (r + 1) = RowStep * r + RowStep /\ RowStep * r \in Nat
      BY <1>0
    <2>4. y' = RowOf(c) + RowStep * (r + 1) /\ lines >= Filled(c) + (r + 1) + 0
      BY <1>0, <2>1, <2>2, <2>3
    <2>5. /\ prevX' = First' + ColumnStep * c /\ y' = RowOf(c)' + RowStep * (r + 1)
          /\ lines' >= Filled(c)' + (r + 1) + 0
      BY <1>a, <2>1, <2>2, <2>4
    <2> QED
      BY <2>1, <2>5 DEF GridInv
  <1>4. CASE Glyph \/ PutChar \/ Advance
    <2>1. /\ pc \in Writing /\ pc # "newline" /\ pc' # "newline" /\ pc' \in Writing
          /\ UNCHANGED << y, prevX, lines, cleared >>
      BY <1>4 DEF Glyph, PutChar, Advance, Char, canvas, count, Writing
    <2>2. PICK c, r \in Nat : /\ prevX = First + ColumnStep * c /\ y = RowOf(c) + RowStep * r
                              /\ lines >= Filled(c) + r + 0
      BY <2>1 DEF GridInv
    <2>3. /\ prevX' = First' + ColumnStep * c /\ y' = RowOf(c)' + RowStep * r
          /\ lines' >= Filled(c)' + r + 0
      BY <1>a, <2>1, <2>2
    <2> QED
      BY <2>1, <2>3 DEF GridInv, Writing
  <1>5. CASE ColumnX
    <2>1. /\ pc = "column" /\ pc' = "top" /\ prevX' = prevX + ColumnStep
          /\ UNCHANGED << lines, cleared >>
      BY <1>5 DEF ColumnX, count
    <2>2. PICK c, r \in Nat : /\ prevX = First + ColumnStep * c /\ y = RowOf(c) + RowStep * r
                              /\ lines >= Filled(c) + r + 0
      BY <2>1 DEF GridInv, Writing
    <2>3. r >= Rows(RowOf(c))
      <3>1. RowOf(c) + RowStep * r >= height /\ RowOf(c) \in Nat /\ RowOf(c) < height
        BY <2>1, <2>2, ColumnRows DEF CanvasInv
      <3> QED
        BY <1>0, <3>1, RowsFull DEF Rows
    <2>4. lines >= Filled(c + 1)
      <3>1. Filled(c + 1) = Filled(c) + Rows(RowOf(c)) /\ Rows(RowOf(c)) \in Nat /\ Filled(c) \in Nat
        BY ColumnRows
      <3> QED
        BY <1>0, <2>2, <2>3, <3>1
    <2>5. ColumnStep * (c + 1) = ColumnStep * c + ColumnStep /\ ColumnStep * c \in Nat
      BY <1>0
    <2>6. prevX' = First + ColumnStep * (c + 1)
      BY <1>0, <2>1, <2>2, <2>5
    <2>7. c + 1 \in Nat \ {0} /\ prevX' = First' + ColumnStep * (c + 1) /\ lines' >= Filled(c + 1)'
      BY <1>a, <2>1, <2>4, <2>6
    <2> QED
      BY <2>1, <2>7 DEF GridInv, Writing
  <1>6. CASE ColumnY
    <2>1. /\ pc = "top" /\ pc' = "put" /\ y' = Margin /\ UNCHANGED << prevX, lines, cleared >>
      BY <1>6 DEF ColumnY, count
    <2>2. PICK c \in Nat \ {0} : prevX = First + ColumnStep * c /\ lines >= Filled(c)
      BY <2>1 DEF GridInv
    <2>3. y' = RowOf(c) + RowStep * 0 /\ lines >= Filled(c) + 0 + 0
      BY <1>0, <2>1, <2>2 DEF RowOf
    <2>4. /\ prevX' = First' + ColumnStep * c /\ y' = RowOf(c)' + RowStep * 0
          /\ lines' >= Filled(c)' + 0 + 0
      BY <1>a, <2>1, <2>2, <2>3
    <2> QED
      BY <2>1, <2>4 DEF GridInv
  <1>7. CASE CallClear \/ ClearPixels \/ ClearPrev \/ ClearX \/ Halt \/ Panic
    <2>1. CASE ClearX
      BY <2>1 DEF ClearX, GridInv, Writing
    <2>2. CASE ClearPrev
      BY <2>2 DEF ClearPrev, GridInv, Writing
    <2> QED
      BY <1>7, <2>1, <2>2 DEF CallClear, ClearPixels, Halt, Panic, GridInv, Writing
  <1>8. CASE ClearY
    <2>1. pc = "clearY" /\ pc' = "char" /\ y' = Margin /\ UNCHANGED << prevX, lines, cleared >>
      BY <1>8 DEF ClearY, count
    <2>2. prevX = Margin /\ cleared
      BY <2>1 DEF GridInv
    <2>3. First = Margin /\ RowOf(0) = Margin /\ Filled(0) = 0
      BY <2>2 DEF First, RowOf, Top, Filled
    <2>4. /\ prevX = First + ColumnStep * 0 /\ y' = RowOf(0) + RowStep * 0
          /\ lines >= Filled(0) + 0 + 0
      BY <1>0, <2>1, <2>2, <2>3
    <2>5. /\ prevX' = First' + ColumnStep * 0 /\ y' = RowOf(0)' + RowStep * 0
          /\ lines' >= Filled(0)' + 0 + 0
      BY <1>a, <2>1, <2>4
    <2> QED
      BY <2>1, <2>5 DEF GridInv
  <1>9. CASE UNCHANGED vars
    BY <1>a, <1>9 DEF vars, canvas, count, GridInv
  <1> QED
    BY <1>2, <1>3, <1>4, <1>5, <1>6, <1>7, <1>8, <1>9 DEF Next, Run, Write, Clear

\* The columns in which a line of the length fits end within the scanline.
LEMMA ColumnsFit ==
    ASSUME NEW d \in Nat, NEW s \in Nat \ {0}
    PROVE  d \div s \in Nat /\ s * (d \div s) <= d
  <1> DEFINE q == d \div s
             e == d % s
  <1>1. q \in Int /\ e \in 0 .. (s - 1) /\ d = s * q + e
    BY DivMod
  <1> HIDE DEF q, e
  <1>2. q >= 0
    <2>1. SUFFICES ASSUME q + 1 <= 0 PROVE FALSE
      BY <1>1
    <2>2. s * (q + 1) <= 0 /\ s * (q + 1) = s * q + s
      BY <1>1, <2>1
    <2> QED
      BY <1>1, <2>2
  <1>3. s * q \in Int
    BY <1>1
  <1> QED
    BY <1>1, <1>2, <1>3 DEF q

\* The lines that the rows of k columns after the first take are in those, or at
\* the top of the next.
LEMMA FilledColumns ==
    ASSUME ConsoleInv, NEW k \in Nat, NEW c \in Nat, NEW r \in Nat,
           lines >= Filled(c) + r + 0, lines <= Rows(Top) + Rows(Margin) * k
    PROVE  c <= k + 1 /\ (c = k + 1 => r = 0)
  <1> DEFINE t == Rows(Top)
             n == Rows(Margin)
  <1>1. t \in Nat /\ n \in Nat \ {0} /\ lines \in Nat
    BY ColumnRows, Measures
  <1>2. c # 0 => Filled(c) = t + n * (c - 1)
    BY DEF Filled
  <1>3. lines >= Filled(c) + r + 0 /\ lines <= t + n * k
    OBVIOUS
  <1> HIDE DEF t, n
  <1>4. CASE c # 0
    <2>1. n * (c - 1) + r <= n * k /\ n * (c - 1) \in Nat /\ n * k \in Nat
      <3>1. n * (c - 1) \in Nat /\ n * k \in Nat
        BY <1>1, <1>4
      <3> QED
        BY <1>1, <1>2, <1>3, <1>4, <3>1
    <2>2. c - 1 <= k
      <3>1. SUFFICES ASSUME k + 1 <= c - 1 PROVE FALSE
        BY <1>4
      <3>2. n * (k + 1) <= n * (c - 1) /\ n * (k + 1) = n * k + n
        BY <1>1, <1>4, <3>1
      <3> QED
        BY <1>1, <2>1, <3>2
    <2>3. ASSUME c = k + 1 PROVE r = 0
      <3>1. n * (c - 1) = n * k
        BY <2>3
      <3> QED
        BY <2>1, <3>1
    <2> QED
      BY <1>4, <2>2, <2>3
  <1> QED
    BY <1>4

-----------------------------------------------------------------------------
(***************************************************************************)
(* Theorems                                                                *)
(***************************************************************************)
\* The inductive invariant of the console.
THEOREM ConsoleInvariant == Spec => []ConsoleInv
  BY InitConsole, NextConsole, PTL DEF Spec

\* Every variable of the console keeps its type (FrameBuffer.c:5-75).
THEOREM ConsoleTypeCorrect == Spec => []TypeOK
  BY ConsoleInvariant, PTL DEF ConsoleInv

\* A pixel of a scanline that ends above the frame's end is in the frame.
LEMMA LastPixel ==
    ASSUME NEW h \in Nat, NEW p \in Nat, NEW a \in Nat, NEW b \in Nat, a < p, b < h
    PROVE  a + b * p < h * p
  <1>1. (b + 1) * p <= h * p /\ (b + 1) * p = b * p + p /\ b * p \in Nat /\ h * p \in Nat
    OBVIOUS
  <1> QED
    BY <1>1

\* No glyph starts below the frame, and on which heights none ends below it
\* either (FrameBuffer.c:10-13, :51-54).
THEOREM GlyphsStayInFrame == Spec => []GlyphsInFrame
  <1>1. ConsoleInv => GlyphsInFrame
    <2> SUFFICES ASSUME ConsoleInv, pc = "put"
                 PROVE  /\ y < height
                        /\ RowsFit(Base) =>
                            /\ y + GlyphH <= height
                            /\ x + GlyphW <= Ppsl =>
                                (x + GlyphW - 1) + (y + GlyphH - 1) * Ppsl < height * Ppsl
      BY DEF GlyphsInFrame, Base
    <2>1. /\ y \in Nat /\ height \in Nat /\ Base \in Nat /\ y < height /\ Base < height
          /\ x \in Nat
      BY Layouts DEF ConsoleInv, TypeOK, Base
    <2>2. PICK r \in Nat : y = Base + RowStep * r
      BY DEF ConsoleInv, Rowed, Writing
    <2>3. ASSUME RowsFit(Base) PROVE y + GlyphH <= height
      <3> DEFINE d == height - Base
      <3>1. d \in Nat /\ RowStep * r < d /\ RowStep * r \in Nat
        BY <2>1, <2>2, Layouts
      <3>2. d % RowStep \in {0} \cup GlyphH .. (RowStep - 1)
        BY <2>3 DEF RowsFit
      <3> HIDE DEF d
      <3>3. RowStep * r + GlyphH <= d
        BY <3>1, <3>2, RowEnds, Layouts
      <3> QED
        BY <2>1, <2>2, <3>1, <3>3, Layouts DEF d
    <2>4. ASSUME y + GlyphH <= height, x + GlyphW <= Ppsl
          PROVE  (x + GlyphW - 1) + (y + GlyphH - 1) * Ppsl < height * Ppsl
      <3>1. /\ x + GlyphW - 1 \in Nat /\ y + GlyphH - 1 \in Nat
            /\ x + GlyphW - 1 < Ppsl /\ y + GlyphH - 1 < height
        BY <2>1, <2>4, Layouts
      <3> QED
        BY <2>1, <3>1, LastPixel, Layouts
    <2> QED
      BY <2>1, <2>3, <2>4
  <1> QED
    BY <1>1, ConsoleInvariant, PTL

\* A panic's screen is complete for every text that fits the frame, wherever the
\* panics strike (exceptions.asm:33-66).
THEOREM PanicShowsItsText == Spec => []PanicScreen
  <1>1. Init => PanicInv
    BY DEF Init, PanicInv, Clearing
  <1>2. ConsoleInv /\ PanicInv => PanicScreen
    <2> SUFFICES ASSUME ConsoleInv, PanicInv, pc = "halted", Fits(PanicText)
                 PROVE  glyphs = Layout(PanicText) /\ over = {}
      BY DEF PanicScreen
    <2>1. Progress
      BY DEF PanicInv, Clearing
    <2>2. Done = Len(PanicText)
      BY <2>1, Layouts DEF Progress, Done
    <2> QED
      BY <2>1, <2>2, LayoutDrawn DEF Progress
  <1> QED
    BY <1>1, <1>2, NextPanic, ConsoleInvariant, PTL DEF Spec

\* The inductive invariant of the columns.
THEOREM ColumnsInvariant == Spec => []ColumnsInv
  <1>1. Init => PanicInv
    BY DEF Init, PanicInv, Clearing
  <1>2. Init => ColumnsInv
    <2> SUFFICES ASSUME Init PROVE ColumnsInv
      OBVIOUS
    <2>1. /\ x = 0 /\ y = FirstRow /\ prevX = 0 /\ pc = "char" /\ panics = 0 /\ glyphs = {}
          /\ over = {} /\ cleared = FALSE /\ line = 0 /\ lines = 0 /\ longest = 0
      BY DEF Init
    <2>2. y # Margin /\ First = 0 /\ Top = FirstRow
      BY <2>1, Layouts DEF First, Top
    <2>3. Straight
      BY <2>1, Layouts DEF Straight, Before, Writes
    <2>4. LineInv
      BY <2>1 DEF LineInv, Writes
    <2>5. CanvasInv /\ GlyphInv /\ TopInv /\ NoOverlap
      BY <2>1, <2>2, <2>3 DEF CanvasInv, GlyphInv, TopInv, NoOverlap
    <2>6. GridInv
      <3>1. /\ prevX = First + ColumnStep * 0 /\ y = RowOf(0) + RowStep * 0
            /\ lines >= Filled(0) + 0 + 0
        BY <2>1, <2>2, Layouts DEF RowOf, Filled
      <3> QED
        BY <2>1, <3>1 DEF GridInv
    <2> QED
      BY <2>4, <2>5, <2>6 DEF ColumnsInv
  <1>3. ConsoleInv /\ PanicInv /\ ColumnsInv /\ [Next]_vars => ColumnsInv'
    BY NextLine, NextCanvas, NextGlyph, NextTop, NextOver, NextGrid DEF ColumnsInv
  <1> QED
    BY <1>1, <1>2, <1>3, NextPanic, ConsoleInvariant, PTL DEF Spec

\* No glyph is drawn over another before the screen is cleared, and afterwards in
\* the top row only, while the lines end within the scanline and, once there is a
\* second column, are no longer than a column; in panics too
\* (FrameBuffer.c:10-13, :45-57).
THEOREM LinesStayApart == Spec => []NoOverlap
  BY ColumnsInvariant, PTL DEF ColumnsInv

\* How many lines of which length are written before a glyph is drawn past the
\* end of the scanline: none longer than the scanline, and no more than have rows
\* in the columns that leave room for the longest (FrameBuffer.c:51-57, :73).
THEOREM GlyphsStayOnScreen == Spec => []StaysOnScreen
  <1>1. ConsoleInv /\ ColumnsInv => StaysOnScreen
    <2> DEFINE room == Ppsl - First - GlyphW * longest
               k == room \div ColumnStep
    <2> SUFFICES ASSUME ConsoleInv, ColumnsInv, pc = "put", room >= 0,
                        lines <= Rows(Top) + Rows(Margin) * k
                 PROVE  x + GlyphW <= Ppsl
      BY DEF StaysOnScreen
    <2>0. /\ x \in Nat /\ y \in Nat /\ prevX \in Nat /\ First \in Nat /\ GlyphW * longest \in Nat
          /\ ColumnStep \in Nat \ {0} /\ Margin \in Nat /\ RowStep \in Nat \ {0}
          /\ GlyphW \in Nat /\ Ppsl \in Nat /\ lines \in Nat
      BY Measures, Reach, Layouts DEF ColumnsInv
    <2>1. PICK c, r \in Nat : /\ prevX = First + ColumnStep * c /\ y = RowOf(c) + RowStep * r
                              /\ lines >= Filled(c) + r + 0
      BY DEF ColumnsInv, GridInv, Writing
    <2> DEFINE l == GlyphW * longest
    <2>2. room \in Nat /\ room = Ppsl - First - l /\ l \in Nat
      BY <2>0
    <2>3. k \in Nat /\ ColumnStep * k <= room /\ ColumnStep * k \in Nat
      <3> HIDE DEF room
      <3>1. k \in Nat /\ ColumnStep * k <= room
        BY <2>0, <2>2, ColumnsFit
      <3> QED
        BY <2>0, <3>1
    <2>4. c <= k + 1 /\ (c = k + 1 => r = 0)
      <3> HIDE DEF k
      <3> QED
        BY <2>1, <2>3, FilledColumns
    <2>5. /\ Straight => x + GlyphW <= prevX + l
          /\ Carried => x + ColumnStep + GlyphW <= prevX + l
      BY CanvasRoom DEF ColumnsInv, Writes
    <2> HIDE DEF room, k, l
    <2>6. CASE Straight /\ c <= k
      <3>1. ColumnStep * c <= ColumnStep * k /\ ColumnStep * c \in Nat
        BY <2>0, <2>3, <2>6
      <3> QED
        BY <2>0, <2>1, <2>2, <2>3, <2>5, <2>6, <3>1
    <2>7. CASE Carried
      <3>1. ColumnStep * c <= ColumnStep * (k + 1) /\ ColumnStep * c \in Nat
        BY <2>0, <2>3, <2>4
      <3>2. ColumnStep * (k + 1) = ColumnStep * k + ColumnStep
        BY <2>0, <2>3
      <3> QED
        BY <2>0, <2>1, <2>2, <2>3, <2>5, <2>7, <3>1, <3>2
    <2>8. CASE ~Carried /\ ~(Straight /\ c <= k)
      <3>1. Straight /\ c = k + 1 /\ r = 0
        BY <2>3, <2>4, <2>8 DEF ColumnsInv, CanvasInv, Moved
      <3>2. y = Margin
        BY <2>0, <2>1, <2>3, <3>1 DEF RowOf
      <3>3. prevX = First
        BY <2>8, <3>2 DEF ColumnsInv, CanvasInv, Moved
      <3>4. ColumnStep * c >= ColumnStep /\ ColumnStep * c \in Nat
        BY <2>0, <2>3, <3>1
      <3> QED
        BY <2>0, <2>1, <3>3, <3>4
    <2> QED
      BY <2>6, <2>7, <2>8
  <1> QED
    BY <1>1, ConsoleInvariant, ColumnsInvariant, PTL
=============================================================================
