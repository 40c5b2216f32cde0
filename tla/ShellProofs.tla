----------------------------- MODULE ShellProofs -----------------------------
(* Proofs about the shell: what the line editor would execute is what is    *)
(* shown, for every size of screen, of line and of prompt; and where its    *)
(* paths lead, for every tree of directories, every buffer and every path.  *)
EXTENDS Terminal, Paths, SequenceTheorems, FiniteSetTheorems,
        WellFoundedInduction, TLAPS

Terms == [row : 0 .. Word - 1, col : 0 .. Width - 1,
          buf : [Cells -> Chars \cup {Blank}]]
OnScreen(t) == t \in Terms /\ t.row < Height

-----------------------------------------------------------------------------
(* Rows and columns, and the index they make.                               *)

LEMMA Sizes ==
  /\ Width \in Nat /\ Width >= 2 /\ Height \in Nat /\ Height >= 2
  /\ Width * Height \in Nat /\ Width * (Height - 1) \in Nat
  /\ Width * Height = Width * (Height - 1) + Width
  /\ Word \in Nat /\ Word > Width * Height /\ Word > Height
<1>1. /\ Width \in Nat /\ Width >= 2 /\ Height \in Nat /\ Height >= 2
  BY SizeAssumption
<1>2. Width * Height \in Nat /\ Width * (Height - 1) \in Nat
  BY <1>1
<1>3. /\ Width * Height = Width * (Height - 1) + Width
      /\ (Height + 1) * Width = Width * Height + Width
  BY <1>1
<1>4. Width * Height >= Height
  <2> DEFINE w == Width - 1
  <2>1. w \in Nat /\ Width = w + 1
    BY <1>1
  <2>2. Width * Height = w * Height + Height /\ w * Height \in Nat
    BY <1>1, <2>1
  <2> QED  BY <2>2, <1>1
<1> QED  BY <1>1, <1>2, <1>3, <1>4, WordAssumption

LEMMA RowColumn ==
  ASSUME NEW r \in 0 .. Height - 1, NEW c \in 0 .. Width - 1
  PROVE  /\ r * Width + c \in Cells
         /\ (r * Width + c) % Word = r * Width + c
         /\ r * Width + c = Width * Height - 1 <=> r = Height - 1 /\ c = Width - 1
         /\ r * Width + c = 0 <=> r = 0 /\ c = 0
<1> DEFINE d == Height - 1 - r
<1>1. d \in Nat /\ r \in Nat /\ r + d = Height - 1 /\ c \in Nat
  BY Sizes
<1>2. r * Width \in Nat /\ d * Width \in Nat
  BY <1>1, Sizes
<1>3. Width * (Height - 1) = r * Width + d * Width
  BY <1>1, Sizes
<1>4. d # 0 => d * Width >= Width
  BY <1>1, Sizes
<1>5. r # 0 => r * Width >= Width
  BY <1>1, Sizes
<1>6. r = 0 => r * Width = 0
  BY Sizes
<1>7. d = 0 => d * Width = 0
  BY Sizes
<1> HIDE DEF d
<1>8. r * Width + c \in Cells
  BY <1>1, <1>2, <1>3, Sizes DEF Cells
<1>9. (r * Width + c) % Word = r * Width + c
  <2> DEFINE i == r * Width + c
  <2>1. i \in Nat /\ i < Word
    BY <1>8, Sizes DEF Cells
  <2> HIDE DEF i
  <2>2. i % Word = i
    BY <2>1, Sizes
  <2> QED  BY <2>2 DEF i
<1>10. r * Width + c = Width * Height - 1 <=> d = 0 /\ c = Width - 1
  BY <1>1, <1>2, <1>3, <1>4, <1>7, Sizes
<1>11. r * Width + c = 0 <=> r = 0 /\ c = 0
  BY <1>1, <1>2, <1>5, <1>6, Sizes
<1>12. d = 0 <=> r = Height - 1
  BY <1>1, Sizes
<1> QED  BY <1>8, <1>9, <1>10, <1>11, <1>12

LEMMA OnScreenIndex ==
  ASSUME NEW t, OnScreen(t)
  PROVE  /\ t.row \in 0 .. Height - 1 /\ t.col \in 0 .. Width - 1
         /\ Position(t) \in Cells /\ Index(t) = Position(t)
         /\ Position(t) = Width * Height - 1 <=> t.row = Height - 1 /\ t.col = Width - 1
         /\ Position(t) = 0 <=> t.row = 0 /\ t.col = 0
<1>1. t.row \in 0 .. Height - 1 /\ t.col \in 0 .. Width - 1
  BY Sizes DEF OnScreen, Terms
<1> QED  BY <1>1, RowColumn DEF Position, Index
-----------------------------------------------------------------------------
(* What the functions of vga.c make of a terminal.                          *)

Scrolled(b) == [k \in Cells |-> IF k + Width \in Cells THEN b[k + Width] ELSE Blank]

LEMMA ScrolledTyped ==
  ASSUME NEW b \in [Cells -> Chars \cup {Blank}]
  PROVE  Scrolled(b) \in [Cells -> Chars \cup {Blank}]
BY DEF Scrolled

LEMMA NextRowDoes ==
  ASSUME NEW t \in Terms
  PROVE  LET down == (t.row + 1) % Word
             n == NextRow(t)
         IN /\ n \in Terms /\ n.col = 0
            /\ down = Height => n.row = Height - 1 /\ n.buf = Scrolled(t.buf)
            /\ down # Height => n.row = down /\ n.buf = t.buf
<1> DEFINE below == [t EXCEPT !.row = (@ + 1) % Word, !.col = 0]
<1>1. (t.row + 1) % Word \in 0 .. Word - 1 /\ 0 \in 0 .. Width - 1
      /\ Height - 1 \in 0 .. Word - 1
  BY Sizes DEF Terms
<1>2. /\ below \in Terms /\ below.row = (t.row + 1) % Word
      /\ below.col = 0 /\ below.buf = t.buf
  BY <1>1 DEF Terms
<1>3. NextRow(t) = IF below.row = Height THEN terminal_scroll(below) ELSE below
  BY DEF NextRow
<1> HIDE DEF below
<1>4. terminal_scroll(below) = [below EXCEPT !.row = Height - 1, !.buf = Scrolled(below.buf)]
  BY DEF terminal_scroll, Scrolled
<1>5. Scrolled(below.buf) \in [Cells -> Chars \cup {Blank}]
  BY <1>2, ScrolledTyped DEF Terms
<1>6. /\ terminal_scroll(below) \in Terms
      /\ terminal_scroll(below).row = Height - 1 /\ terminal_scroll(below).col = 0
      /\ terminal_scroll(below).buf = Scrolled(t.buf)
  BY <1>1, <1>2, <1>4, <1>5 DEF Terms
<1> QED  BY <1>2, <1>3, <1>6

LEMMA PutDoes ==
  ASSUME NEW t \in Terms, NEW c \in Chars \cup {Blank}
  PROVE  LET p == terminal_putentryat(t, c)
         IN /\ p \in Terms /\ p.row = t.row /\ p.col = t.col
            /\ Index(t) \in Cells => p.buf = [t.buf EXCEPT ![Index(t)] = c]
            /\ Index(t) \notin Cells => p.buf = t.buf
<1>1. CASE Index(t) \in Cells
  <2>1. terminal_putentryat(t, c) = [t EXCEPT !.buf = [t.buf EXCEPT ![Index(t)] = c]]
    BY <1>1 DEF terminal_putentryat
  <2>2. [t.buf EXCEPT ![Index(t)] = c] \in [Cells -> Chars \cup {Blank}]
    BY DEF Terms
  <2> QED  BY <1>1, <2>1, <2>2 DEF Terms
<1>2. CASE Index(t) \notin Cells
  BY <1>2 DEF terminal_putentryat
<1> QED  BY <1>1, <1>2

LEMMA AdvanceDoes ==
  ASSUME NEW t \in Terms
  PROVE  LET a == Advance(t)
         IN /\ a \in Terms
            /\ t.col + 1 = Width => a = NextRow(t)
            /\ t.col + 1 # Width => /\ a.row = t.row /\ a.col = t.col + 1
                                    /\ a.buf = t.buf
<1>1. CASE t.col + 1 = Width
  BY <1>1, NextRowDoes DEF Advance
<1>2. CASE t.col + 1 # Width
  <2>1. t.col + 1 \in 0 .. Width - 1
    BY <1>2, Sizes DEF Terms
  <2> QED  BY <1>2, <2>1 DEF Advance, Terms
<1> QED  BY <1>1, <1>2

LEMMA RetreatDoes ==
  ASSUME NEW t \in Terms
  PROVE  LET b == Retreat(t)
         IN /\ b \in Terms /\ b.buf = t.buf
            /\ t.col > 0 => b.row = t.row /\ b.col = t.col - 1
            /\ t.col = 0 /\ t.row > 0 => b.row = t.row - 1 /\ b.col = Width - 1
<1>1. CASE t.col > 0
  <2>1. t.col - 1 \in 0 .. Width - 1
    BY <1>1, Sizes DEF Terms
  <2> QED  BY <1>1, <2>1 DEF Retreat, Terms
<1>2. CASE t.col = 0
  <2> DEFINE up == (t.row + Word - 1) % Word
  <2>1. up \in 0 .. Word - 1
    BY Sizes DEF Terms
  <2>2. t.row > 0 => up = t.row - 1
    BY Sizes DEF Terms
  <2>3. Retreat(t) = [t EXCEPT !.row = up, !.col = Width - 1]
    BY <1>2 DEF Retreat
  <2>4. Width - 1 \in 0 .. Width - 1
    BY Sizes
  <2> HIDE DEF up
  <2>5. /\ Retreat(t) \in Terms /\ Retreat(t).buf = t.buf
        /\ Retreat(t).row = up /\ Retreat(t).col = Width - 1
    BY <2>1, <2>3, <2>4 DEF Terms
  <2> QED  BY <1>2, <2>2, <2>5
<1> QED  BY <1>1, <1>2, Sizes DEF Terms

LEMMA PutcharCases ==
  ASSUME NEW t
  PROVE  /\ terminal_putchar(t, Newline) = NextRow(t)
         /\ terminal_putchar(t, Backspace) = terminal_putentryat(Retreat(t), Blank)
         /\ \A c \in Chars : terminal_putchar(t, c) = Advance(terminal_putentryat(t, c))
<1>1. Newline # Backspace
  BY DEF Newline, Backspace
<1>2. \A c \in Chars : c # Newline /\ c # Backspace
  BY CharsAssumption
<1> HIDE DEF Newline, Backspace
<1> QED  BY <1>1, <1>2, Zenon DEF terminal_putchar

(* No character takes the terminal out of its sets.                         *)
LEMMA PutcharTyped ==
  ASSUME NEW t \in Terms, NEW c \in Printed \cup {Backspace}
  PROVE  terminal_putchar(t, c) \in Terms
<1>1. Blank \in Chars \cup {Blank}
  OBVIOUS
<1>2. CASE c = Newline
  BY <1>2, PutcharCases, NextRowDoes
<1>3. CASE c = Backspace
  <2>1. Retreat(t) \in Terms
    BY RetreatDoes
  <2>2. terminal_putentryat(Retreat(t), Blank) \in Terms
    BY <1>1, <2>1, PutDoes
  <2> QED  BY <1>3, <2>2, PutcharCases
<1>4. CASE c \in Chars
  BY <1>4, PutcharCases, PutDoes, AdvanceDoes
<1> QED  BY <1>2, <1>3, <1>4 DEF Printed
(* On the screen, nothing but a backspace in the first cell leaves it.      *)
LEMMA NextRowOnScreen ==
  ASSUME NEW t, OnScreen(t)
  PROVE  LET n == NextRow(t)
         IN /\ OnScreen(n) /\ n.col = 0
            /\ t.row = Height - 1 => n.row = Height - 1 /\ n.buf = Scrolled(t.buf)
            /\ t.row # Height - 1 => n.row = t.row + 1 /\ n.buf = t.buf
<1>1. t \in Terms /\ t.row \in 0 .. Height - 1
  BY Sizes DEF OnScreen, Terms
<1>2. (t.row + 1) % Word = t.row + 1
  <2>1. t.row + 1 \in Nat /\ t.row + 1 < Word
    BY <1>1, Sizes
  <2> QED  BY <2>1, Sizes
<1>3. t.row + 1 = Height <=> t.row = Height - 1
  BY <1>1, Sizes
<1> QED  BY <1>1, <1>2, <1>3, NextRowDoes, Sizes DEF OnScreen

LEMMA CharOnScreen ==
  ASSUME NEW t, OnScreen(t), NEW c \in Chars
  PROVE  LET n == terminal_putchar(t, c)
             b == [t.buf EXCEPT ![Position(t)] = c]
         IN /\ OnScreen(n)
            /\ Position(t) # Width * Height - 1 =>
                 Position(n) = Position(t) + 1 /\ n.buf = b
            /\ Position(t) = Width * Height - 1 =>
                 Position(n) = Width * (Height - 1) /\ n.buf = Scrolled(b)
<1> DEFINE p == terminal_putentryat(t, c)
           b == [t.buf EXCEPT ![Position(t)] = c]
<1>1. terminal_putchar(t, c) = Advance(p)
  BY PutcharCases
<1>2. /\ t \in Terms /\ t.row \in 0 .. Height - 1 /\ t.col \in 0 .. Width - 1
      /\ Position(t) \in Cells /\ Index(t) = Position(t)
      /\ Position(t) = Width * Height - 1 <=> t.row = Height - 1 /\ t.col = Width - 1
  BY OnScreenIndex DEF OnScreen
<1>3. p \in Terms /\ p.row = t.row /\ p.col = t.col /\ p.buf = b
  BY <1>2, PutDoes
<1>4. OnScreen(p)
  BY <1>3 DEF OnScreen
<1> HIDE DEF p, b
<1>5. CASE t.col + 1 = Width
  <2>1. Advance(p) = NextRow(p)
    BY <1>3, <1>5, AdvanceDoes
  <2>2. OnScreen(NextRow(p)) /\ NextRow(p).col = 0
    BY <1>4, NextRowOnScreen
  <2>3. CASE t.row = Height - 1
    <3>1. NextRow(p).row = Height - 1 /\ NextRow(p).buf = Scrolled(b)
      BY <1>3, <1>4, <2>3, NextRowOnScreen
    <3>2. Position(NextRow(p)) = Width * (Height - 1)
      BY <2>2, <3>1, Sizes DEF Position
    <3>3. Position(t) = Width * Height - 1
      BY <1>2, <1>5, <2>3, Sizes
    <3> QED  BY <1>1, <2>1, <2>2, <3>1, <3>2, <3>3 DEF b
  <2>4. CASE t.row # Height - 1
    <3>1. NextRow(p).row = t.row + 1 /\ NextRow(p).buf = b
      BY <1>3, <1>4, <2>4, NextRowOnScreen
    <3>2. Position(NextRow(p)) = (t.row + 1) * Width + 0
      BY <2>2, <3>1 DEF Position
    <3>3. (t.row + 1) * Width + 0 = t.row * Width + t.col + 1
      <4>1. (t.row + 1) * Width = t.row * Width + Width /\ t.row * Width \in Nat
        BY <1>2, Sizes
      <4> QED  BY <1>2, <1>5, <4>1, Sizes
    <3>4. Position(t) # Width * Height - 1
      BY <1>2, <2>4
    <3> QED  BY <1>1, <2>1, <2>2, <3>1, <3>2, <3>3, <3>4 DEF b, Position
  <2> QED  BY <2>3, <2>4
<1>6. CASE t.col + 1 # Width
  <2>1. Advance(p) \in Terms /\ Advance(p).row = t.row
        /\ Advance(p).col = t.col + 1 /\ Advance(p).buf = b
    BY <1>3, <1>6, AdvanceDoes
  <2>2. OnScreen(Advance(p))
    BY <1>2, <2>1, Sizes DEF OnScreen
  <2>3. Position(Advance(p)) = t.row * Width + (t.col + 1)
    BY <2>1 DEF Position
  <2>4. t.row * Width + (t.col + 1) = t.row * Width + t.col + 1
    <3>1. t.row * Width \in Nat /\ t.col \in Nat
      BY <1>2, Sizes
    <3> QED  BY <3>1
  <2>5. Position(t) # Width * Height - 1
    BY <1>2, <1>6, Sizes
  <2> QED  BY <1>1, <2>1, <2>2, <2>3, <2>4, <2>5 DEF b, Position
<1> QED  BY <1>5, <1>6

LEMMA BackspaceOnScreen ==
  ASSUME NEW t, OnScreen(t), Position(t) # 0
  PROVE  LET n == terminal_putchar(t, Backspace)
         IN /\ OnScreen(n) /\ Position(n) = Position(t) - 1
            /\ n.buf = [t.buf EXCEPT ![Position(t) - 1] = Blank]
<1> DEFINE b == Retreat(t)
<1>1. /\ t \in Terms /\ t.row \in 0 .. Height - 1 /\ t.col \in 0 .. Width - 1
      /\ ~(t.row = 0 /\ t.col = 0)
  BY OnScreenIndex DEF OnScreen
<1>2. b \in Terms /\ b.buf = t.buf
  BY <1>1, RetreatDoes
<1>3. OnScreen(b) /\ Position(b) = Position(t) - 1
  <2>1. CASE t.col > 0
    <3>1. b.row = t.row /\ b.col = t.col - 1
      BY <1>1, <2>1, RetreatDoes
    <3>2. t.row * Width + (t.col - 1) = t.row * Width + t.col - 1
      <4>1. t.row * Width \in Nat
        BY <1>1, Sizes
      <4> QED  BY <1>1, <4>1, Sizes
    <3> QED  BY <1>1, <1>2, <3>1, <3>2, Sizes DEF OnScreen, Position
  <2>2. CASE t.col = 0
    <3>1. t.row > 0 /\ b.row = t.row - 1 /\ b.col = Width - 1
      BY <1>1, <2>2, RetreatDoes, Sizes
    <3>2. (t.row - 1) * Width + (Width - 1) = t.row * Width + 0 - 1
      <4>1. (t.row - 1) * Width = t.row * Width - Width /\ t.row * Width \in Nat
        BY <1>1, Sizes
      <4> QED  BY <4>1, Sizes
    <3>3. OnScreen(b)
      BY <1>1, <1>2, <3>1, Sizes DEF OnScreen
    <3> HIDE DEF b
    <3>4. Position(b) = (t.row - 1) * Width + (Width - 1)
      BY <3>1 DEF Position
    <3>5. Position(t) = t.row * Width + 0
      BY <2>2 DEF Position
    <3>6. Position(b) = Position(t) - 1
      <4> DEFINE rows == t.row * Width
      <4>1. rows \in Nat
        BY <1>1, Sizes
      <4>2. Position(t) = rows + 0 /\ Position(b) = rows + 0 - 1
        BY <3>2, <3>4, <3>5
      <4> HIDE DEF rows
      <4> QED  BY <4>1, <4>2
    <3> QED  BY <3>3, <3>6
  <2> QED  BY <1>1, <2>1, <2>2, Sizes
<1> HIDE DEF b
<1>4. Position(b) \in Cells /\ Index(b) = Position(b)
  BY <1>3, OnScreenIndex
<1>5. Blank \in Chars \cup {Blank}
  OBVIOUS
<1> DEFINE n == terminal_putentryat(b, Blank)
<1>6. /\ n \in Terms /\ n.row = b.row /\ n.col = b.col
      /\ n.buf = [b.buf EXCEPT ![Position(b)] = Blank]
  BY <1>2, <1>4, <1>5, PutDoes
<1>7. terminal_putchar(t, Backspace) = n
  BY PutcharCases DEF b
<1> HIDE DEF n
<1>8. OnScreen(n) /\ Position(n) = Position(b)
  BY <1>3, <1>6 DEF OnScreen, Position
<1> QED  BY <1>2, <1>3, <1>6, <1>7, <1>8

LEMMA PrintedOnScreen ==
  ASSUME NEW t, OnScreen(t), NEW c \in Printed
  PROVE  OnScreen(terminal_putchar(t, c))
<1>1. CASE c = Newline
  BY <1>1, PutcharCases, NextRowOnScreen
<1>2. CASE c \in Chars
  BY <1>2, CharOnScreen
<1> QED  BY <1>1, <1>2 DEF Printed

LEMMA CleanOnScreen ==
  OnScreen(terminal_initialize)
BY Sizes DEF terminal_initialize, OnScreen, Terms
-----------------------------------------------------------------------------
(* The inductive invariant: while the shell has the screen to itself the    *)
(* cursor is on it, unless a backspace took it off.                         *)
InRange == pc # "ended" => terminal_column < Width
Printing == text # << >> => pc \in {"prompt", "exit"}
ShellPrints == pc \in {"prompt", "edit", "command", "exit"}
CursorShown == ShellPrints /\ ~climbed => OnScreen(Term)
IInv == TypeOK /\ InRange /\ Printing /\ CursorShown /\ LineOnScreen

LEMMA TermTyped ==
  ASSUME TypeOK, InRange, pc # "ended"
  PROVE  Term \in Terms
<1>1. terminal_column \in 0 .. Width - 1
  BY Sizes DEF TypeOK, InRange
<1> QED  BY <1>1 DEF TypeOK, Term, Terms

LEMMA SetTermTyped ==
  ASSUME NEW t \in Terms, SetTerm(t)
  PROVE  /\ terminal_row' \in 0 .. Word - 1 /\ terminal_column' \in 0 .. Width
         /\ terminal_column' < Width
         /\ terminal_buffer' \in [Cells -> Chars \cup {Blank}]
         /\ Term' = t
<1>1. /\ terminal_row' = t.row /\ terminal_column' = t.col /\ terminal_buffer' = t.buf
  BY DEF SetTerm
<1>2. t = [row |-> t.row, col |-> t.col, buf |-> t.buf]
  BY DEF Terms
<1>3. Term' = t
  BY <1>1, <1>2, Zenon DEF Term
<1> QED  BY <1>1, <1>3, Sizes DEF Terms

(* A step that prints one character.                                        *)
LEMMA PrintsTyped ==
  ASSUME TypeOK, InRange, pc # "ended", NEW c \in Printed \cup {Backspace},
         SetTerm(terminal_putchar(Term, c))
  PROVE  /\ terminal_row' \in 0 .. Word - 1 /\ terminal_column' \in 0 .. Width
         /\ terminal_column' < Width
         /\ terminal_buffer' \in [Cells -> Chars \cup {Blank}]
         /\ Term' = terminal_putchar(Term, c)
<1>1. terminal_putchar(Term, c) \in Terms
  BY TermTyped, PutcharTyped
<1> QED  BY <1>1, SetTermTyped

LEMMA InitInv == Init => IInv
<1> SUFFICES ASSUME Init PROVE IInv
  OBVIOUS
<1>2. Term = terminal_initialize
  BY DEF Init, Term, terminal_initialize
<1>3. terminal_buffer \in [Cells -> Chars \cup {Blank}]
  BY DEF Init, terminal_initialize
<1>4. text \in Seq(Printed)
  BY TextAssumption DEF Init
<1>5. << >> \in Seq(Chars) /\ Len(<< >>) = 0 /\ InputSize > 0
  BY InputAssumption, Sizes
<1>6. TypeOK
  <2>1. terminal_row \in 0 .. Word - 1 /\ terminal_column \in 0 .. Width /\ start \in Nat
    BY Sizes DEF Init
  <2>2. line \in Seq(Chars) /\ Len(line) < InputSize
    BY <1>5, Zenon DEF Init
  <2>3. pc \in {"prompt", "edit", "command", "program", "ended", "exit"} /\ climbed \in BOOLEAN
    BY DEF Init
  <2> QED  BY <1>3, <1>4, <2>1, <2>2, <2>3 DEF TypeOK
<1>7. InRange /\ Printing /\ CursorShown /\ LineOnScreen
  BY <1>2, CleanOnScreen, Sizes
     DEF Init, InRange, Printing, CursorShown, LineOnScreen
<1> QED  BY <1>6, <1>7 DEF IInv

LEMMA ButLast ==
  ASSUME NEW S, NEW s \in Seq(S), s # << >>
  PROVE  /\ Len(s) \in Nat \ {0} /\ SubSeq(s, 1, Len(s) - 1) \in Seq(S)
         /\ Len(SubSeq(s, 1, Len(s) - 1)) = Len(s) - 1
         /\ \A i \in 1 .. Len(s) - 1 : SubSeq(s, 1, Len(s) - 1)[i] = s[i]
<1>1. Len(s) \in Nat \ {0}
  OBVIOUS
<1> DEFINE n == Len(s) - 1
<1>2. n \in Nat /\ n \in 0 .. Len(s)
  BY <1>1
<1>3. SubSeq(s, 1, n) = [i \in 1 .. n |-> s[i]] /\ \A i \in 1 .. n : s[i] \in S
  BY <1>1
<1>4. Len(SubSeq(s, 1, n)) = n
  <2>1. Len(SubSeq(s, 1, n)) = IF 1 <= n THEN n - 1 + 1 ELSE 0
    BY <1>2, <1>3, SubSeqProperties
  <2> HIDE DEF n
  <2> QED  BY <1>2, <2>1
<1>5. SubSeq(s, 1, n) \in Seq(S)
  BY <1>2, <1>3
<1> QED  BY <1>1, <1>3, <1>4, <1>5

(* The line and where it begins after a key.                                *)
LEMMA TypeKeyLine ==
  ASSUME IInv, ~climbed, NEW c \in Chars, TypeKey(c)
  PROVE  /\ start' \in Nat /\ LineOnScreen' /\ OnScreen(Term')
         /\ \A k \in 0 .. start' - 1 :
              terminal_buffer'[k] = terminal_buffer[k + (start - start')]
<1> DEFINE p == Position(Term)
           n == Len(line)
           b == [terminal_buffer EXCEPT ![p] = c]
<1>1. /\ TypeOK /\ InRange /\ OnScreen(Term) /\ pc = "edit"
      /\ p = start + n /\ p \in Cells /\ n \in Nat
      /\ \A i \in 1 .. n : terminal_buffer[start + i - 1] = line[i]
  BY DEF IInv, CursorShown, ShellPrints, LineOnScreen, TypeKey, TypeOK
<1>2. /\ line' = Append(line, c) /\ pc' = "edit" /\ climbed' = climbed
      /\ SetTerm(terminal_putchar(Term, c)) /\ n < InputSize - 1
      /\ start' = (IF Scrolls(c) /\ ~climbed THEN start - Width ELSE start)
  BY <1>1 DEF TypeKey, HasRoom
<1>3. Term' = terminal_putchar(Term, c) /\ terminal_buffer' = terminal_putchar(Term, c).buf
  BY <1>1, <1>2, PrintsTyped DEF SetTerm, Printed
<1>4. Term.buf = terminal_buffer
  BY DEF Term
<1>5. Scrolls(c) <=> p = Width * Height - 1
  BY <1>1, OnScreenIndex, CharsAssumption DEF Scrolls
<1>6. /\ line \in Seq(Chars) /\ Len(line') = n + 1 /\ line'[n + 1] = c
      /\ \A i \in 1 .. n : line'[i] = line[i]
  BY <1>1, <1>2 DEF TypeOK
<1>7. /\ OnScreen(Term')
      /\ p # Width * Height - 1 => Position(Term') = p + 1 /\ terminal_buffer' = b
      /\ p = Width * Height - 1 => /\ Position(Term') = Width * (Height - 1)
                                   /\ terminal_buffer' = Scrolled(b)
  BY <1>1, <1>3, <1>4, CharOnScreen
<1>8. terminal_buffer \in [Cells -> Chars \cup {Blank}] /\ start \in Nat
  BY <1>1 DEF TypeOK
<1>9. Position(Term') \in Cells
  BY <1>7, OnScreenIndex
<1> HIDE DEF p, n
<1>10. \A i \in 1 .. n + 1 : start + i - 1 \in Cells /\ b[start + i - 1] = line'[i]
  <2> SUFFICES ASSUME NEW i \in 1 .. n + 1
               PROVE  start + i - 1 \in Cells /\ b[start + i - 1] = line'[i]
    OBVIOUS
  <2>1. start + i - 1 \in Cells
    BY <1>1, <1>8, Sizes DEF Cells
  <2>2. CASE i = n + 1
    <3>1. start + i - 1 = p
      BY <1>1, <1>8, <2>2
    <3> QED  BY <1>1, <1>6, <1>8, <2>1, <2>2, <3>1
  <2>3. CASE i # n + 1
    <3>1. i \in 1 .. n /\ start + i - 1 # p
      BY <1>1, <1>8, <2>3
    <3> QED  BY <1>1, <1>6, <1>8, <2>1, <3>1
  <2> QED  BY <2>2, <2>3
<1>11. \A k \in Cells : k < start => b[k] = terminal_buffer[k]
  BY <1>1, <1>8 DEF Cells
<1> HIDE DEF b
<1>12. CASE p # Width * Height - 1
  <2>1. start' = start /\ terminal_buffer' = b /\ Position(Term') = p + 1
    BY <1>2, <1>5, <1>7, <1>12
  <2>2. Position(Term') = start' + Len(line')
    BY <1>1, <1>6, <1>8, <2>1
  <2>3. \A i \in 1 .. Len(line') : terminal_buffer'[start' + i - 1] = line'[i]
    BY <1>6, <1>10, <2>1
  <2>4. LineOnScreen'
    BY <1>9, <2>2, <2>3, Zenon DEF LineOnScreen
  <2>5. ASSUME NEW k \in 0 .. start' - 1
        PROVE  terminal_buffer'[k] = terminal_buffer[k + (start - start')]
    <3>1. k \in Cells /\ k < start /\ k + (start - start') = k
      BY <1>1, <1>8, <2>1, Sizes DEF Cells
    <3> QED  BY <1>11, <2>1, <3>1
  <2> QED  BY <1>7, <1>8, <2>1, <2>4, <2>5
<1>13. CASE p = Width * Height - 1
  <2>1. start' = start - Width /\ terminal_buffer' = Scrolled(b)
        /\ Position(Term') = Width * (Height - 1)
    BY <1>2, <1>5, <1>7, <1>13
  <2>2. start >= Width /\ start' \in Nat
    <3>1. InputSize <= Width * (Height - 1) + 1 /\ InputSize \in Int
      BY InputAssumption, Sizes
    <3>2. start + n = Width * (Height - 1) + Width - 1
      BY <1>1, <1>13, Sizes
    <3>3. start >= Width
      BY <1>1, <1>2, <1>8, <3>1, <3>2, Sizes
    <3> QED  BY <1>8, <2>1, <3>3, Sizes
  <2>3. Position(Term') = start' + Len(line')
    <3>1. start + n = Width * (Height - 1) + Width - 1
      BY <1>1, <1>13, Sizes
    <3>2. start - Width + (n + 1) = Width * (Height - 1)
      BY <1>1, <1>8, <3>1, Sizes
    <3> QED  BY <1>6, <2>1, <3>2, Zenon
  <2>4. \A k \in Nat : k + Width \in Cells => terminal_buffer'[k] = b[k + Width]
    <3> SUFFICES ASSUME NEW k \in Nat, k + Width \in Cells
                 PROVE  terminal_buffer'[k] = b[k + Width]
      OBVIOUS
    <3>1. k \in Cells
      BY Sizes DEF Cells
    <3> QED  BY <2>1, <3>1 DEF Scrolled
  <2>5. \A i \in 1 .. Len(line') : terminal_buffer'[start' + i - 1] = line'[i]
    <3> SUFFICES ASSUME NEW i \in 1 .. Len(line')
                 PROVE  terminal_buffer'[start' + i - 1] = line'[i]
      OBVIOUS
    <3>1. i \in 1 .. n + 1 /\ start + i - 1 \in Cells /\ b[start + i - 1] = line'[i]
      BY <1>6, <1>10
    <3>2. start' + i - 1 \in Nat /\ (start' + i - 1) + Width = start + i - 1
      BY <1>1, <1>8, <2>1, <2>2, <3>1, Sizes
    <3> QED  BY <2>4, <3>1, <3>2
  <2>6. LineOnScreen'
    BY <1>9, <2>3, <2>5, Zenon DEF LineOnScreen
  <2>7. ASSUME NEW k \in 0 .. start' - 1
        PROVE  terminal_buffer'[k] = terminal_buffer[k + (start - start')]
    <3>1. k \in Nat /\ k + Width \in Cells /\ k + Width < start /\ start - start' = Width
      BY <1>1, <1>8, <2>1, <2>2, Sizes DEF Cells
    <3> QED  BY <1>11, <2>4, <3>1
  <2> QED  BY <1>7, <2>2, <2>6, <2>7
<1> QED  BY <1>12, <1>13

LEMMA EraseKeyLine ==
  ASSUME IInv, ~climbed, EraseKey
  PROVE  /\ LineOnScreen' /\ OnScreen(Term')
         /\ \A k \in 0 .. start' - 1 :
              terminal_buffer'[k] = terminal_buffer[k + (start - start')]
<1> DEFINE p == Position(Term)
           n == Len(line)
<1>1. /\ TypeOK /\ InRange /\ OnScreen(Term) /\ pc = "edit"
      /\ p = start + n /\ p \in Cells
      /\ \A i \in 1 .. n : terminal_buffer[start + i - 1] = line[i]
  BY DEF IInv, CursorShown, ShellPrints, LineOnScreen, EraseKey
<1>2. /\ line # << >> /\ line' = SubSeq(line, 1, n - 1)
      /\ SetTerm(terminal_putchar(Term, Backspace))
      /\ start' = start /\ climbed' = climbed
  BY DEF EraseKey
<1>3. Term' = terminal_putchar(Term, Backspace)
      /\ terminal_buffer' = terminal_putchar(Term, Backspace).buf
  BY <1>1, <1>2, PrintsTyped DEF SetTerm
<1>4. Term.buf = terminal_buffer
  BY DEF Term
<1>5. line \in Seq(Chars) /\ start \in Nat
      /\ terminal_buffer \in [Cells -> Chars \cup {Blank}]
  BY <1>1 DEF TypeOK
<1>6. n \in Nat \ {0}
  BY <1>2, <1>5
<1>7. Len(line') = n - 1 /\ \A i \in 1 .. n - 1 : line'[i] = line[i]
  BY <1>2, <1>5, ButLast
<1> HIDE DEF n, p
<1>8. p # 0
  BY <1>1, <1>5, <1>6
<1>9. OnScreen(Term') /\ Position(Term') = p - 1
      /\ terminal_buffer' = [terminal_buffer EXCEPT ![p - 1] = Blank]
  BY <1>1, <1>3, <1>4, <1>8, BackspaceOnScreen DEF p
<1>10. Position(Term') \in Cells
  BY <1>9, OnScreenIndex
<1>11. Position(Term') = start' + Len(line')
  BY <1>1, <1>2, <1>5, <1>6, <1>7, <1>9
<1>12. \A k \in Cells : k < p - 1 => terminal_buffer'[k] = terminal_buffer[k]
  BY <1>1, <1>5, <1>9 DEF Cells
<1>13. \A i \in 1 .. Len(line') : terminal_buffer'[start' + i - 1] = line'[i]
  <2> SUFFICES ASSUME NEW i \in 1 .. n - 1
               PROVE  terminal_buffer'[start + i - 1] = line'[i]
    BY <1>2, <1>7
  <2>1. start + i - 1 \in Cells /\ start + i - 1 < p - 1 /\ i \in 1 .. n
    BY <1>1, <1>5, <1>6, Sizes DEF Cells
  <2> QED  BY <1>1, <1>7, <1>12, <2>1
<1>14. LineOnScreen'
  BY <1>10, <1>11, <1>13, Zenon DEF LineOnScreen
<1>15. ASSUME NEW k \in 0 .. start' - 1
       PROVE  terminal_buffer'[k] = terminal_buffer[k + (start - start')]
  <2>1. k \in Cells /\ k < p - 1 /\ k + (start - start') = k
    BY <1>1, <1>2, <1>5, <1>6, Sizes DEF Cells
  <2> QED  BY <1>12, <2>1
<1> QED  BY <1>9, <1>14, <1>15
-----------------------------------------------------------------------------
(* Every step.  Only the line editor has a line to keep on the screen.      *)

LEMMA PrintsShown ==
  ASSUME IInv, ShellPrints, ~climbed, NEW c \in Printed \cup {Backspace},
         c = Backspace => Position(Term) # 0, SetTerm(terminal_putchar(Term, c))
  PROVE  OnScreen(Term')
<1>1. TypeOK /\ InRange /\ pc # "ended" /\ OnScreen(Term)
  BY DEF IInv, ShellPrints, CursorShown
<1>2. Term' = terminal_putchar(Term, c)
  BY <1>1, PrintsTyped
<1>3. CASE c = Backspace
  BY <1>1, <1>2, <1>3, BackspaceOnScreen
<1>4. CASE c \in Printed
  BY <1>1, <1>2, <1>4, PrintedOnScreen
<1> QED  BY <1>3, <1>4

LEMMA TypeKeyInv ==
  ASSUME IInv, NEW c \in Chars, TypeKey(c)
  PROVE  IInv'
<1>1. TypeOK /\ InRange /\ pc = "edit" /\ pc' = "edit" /\ text' = text
      /\ climbed' = climbed /\ text = << >>
  BY DEF IInv, TypeKey, Printing
<1>2. /\ terminal_row' \in 0 .. Word - 1 /\ terminal_column' \in 0 .. Width
      /\ terminal_column' < Width
      /\ terminal_buffer' \in [Cells -> Chars \cup {Blank}]
  BY <1>1, PrintsTyped DEF TypeKey, Printed
<1>3. line' \in Seq(Chars) /\ Len(line') < InputSize
  <2>1. line' = Append(line, c) /\ line \in Seq(Chars) /\ Len(line) < InputSize - 1
    BY <1>1 DEF TypeKey, HasRoom, TypeOK
  <2>2. InputSize \in Int /\ Len(line) \in Nat
    BY <2>1, InputAssumption, Sizes
  <2>3. line' \in Seq(Chars) /\ Len(line') = Len(line) + 1
    BY <2>1
  <2> QED  BY <2>1, <2>2, <2>3
<1>4. start' \in Nat /\ (~climbed => LineOnScreen' /\ OnScreen(Term'))
  <2>1. CASE climbed
    BY <1>1, <2>1 DEF TypeKey, TypeOK
  <2>2. CASE ~climbed
    BY <2>2, TypeKeyLine
  <2> QED  BY <2>1, <2>2
<1>5. TypeOK'
  <2>1. pc' \in {"prompt", "edit", "command", "program", "ended", "exit"}
        /\ text' \in Seq(Printed) /\ climbed' \in BOOLEAN
    BY <1>1 DEF TypeOK
  <2> QED  BY <1>2, <1>3, <1>4, <2>1 DEF TypeOK
<1>6. InRange' /\ Printing'
  BY <1>1, <1>2 DEF InRange, Printing
<1>7. CursorShown'
  BY <1>1, <1>4 DEF CursorShown
<1>8. LineOnScreen'
  <2>1. CASE climbed
    BY <1>1, <2>1 DEF LineOnScreen
  <2> QED  BY <1>4, <2>1
<1> QED  BY <1>5, <1>6, <1>7, <1>8 DEF IInv

LEMMA EraseKeyInv ==
  ASSUME IInv, EraseKey
  PROVE  IInv'
<1>1. TypeOK /\ InRange /\ pc = "edit" /\ pc' = "edit" /\ text' = text
      /\ climbed' = climbed /\ text = << >> /\ start' = start
  BY DEF IInv, EraseKey, Printing
<1>2. /\ terminal_row' \in 0 .. Word - 1 /\ terminal_column' \in 0 .. Width
      /\ terminal_column' < Width
      /\ terminal_buffer' \in [Cells -> Chars \cup {Blank}]
  BY <1>1, PrintsTyped DEF EraseKey
<1>3. line' \in Seq(Chars) /\ Len(line') < InputSize
  <2>1. line' = SubSeq(line, 1, Len(line) - 1) /\ line \in Seq(Chars)
        /\ Len(line) < InputSize /\ line # << >>
    BY <1>1 DEF EraseKey, TypeOK
  <2>2. InputSize \in Int /\ Len(line) \in Nat \ {0}
    BY <2>1, InputAssumption, Sizes
  <2>3. Len(line') = Len(line) - 1 /\ line' \in Seq(Chars)
    BY <2>1, ButLast
  <2> QED  BY <2>1, <2>2, <2>3
<1>4. ~climbed => LineOnScreen' /\ OnScreen(Term')
  BY EraseKeyLine
<1>5. TypeOK'
  <2>1. pc' \in {"prompt", "edit", "command", "program", "ended", "exit"}
        /\ text' \in Seq(Printed) /\ climbed' \in BOOLEAN /\ start' \in Nat
    BY <1>1 DEF TypeOK
  <2> QED  BY <1>2, <1>3, <2>1 DEF TypeOK
<1>6. InRange' /\ Printing'
  BY <1>1, <1>2 DEF InRange, Printing
<1>7. CursorShown'
  BY <1>1, <1>4 DEF CursorShown
<1>8. LineOnScreen'
  <2>1. CASE climbed
    BY <1>1, <2>1 DEF LineOnScreen
  <2> QED  BY <1>4, <2>1
<1> QED  BY <1>5, <1>6, <1>7, <1>8 DEF IInv

(* What has to be shown of a step that leaves no line to be edited.         *)
LEMMA NoLine ==
  ASSUME IInv, pc' # "edit", line' = line, start' = start,
         pc' \in {"prompt", "command", "program", "ended", "exit"},
         text' \in Seq(Printed), text' # << >> => pc' \in {"prompt", "exit"},
         climbed' \in BOOLEAN,
         terminal_row' \in 0 .. Word - 1, terminal_column' \in 0 .. Width,
         pc' # "ended" => terminal_column' < Width,
         terminal_buffer' \in [Cells -> Chars \cup {Blank}],
         ShellPrints' /\ ~climbed' => OnScreen(Term')
  PROVE  IInv'
<1>1. TypeOK'
  BY DEF IInv, TypeOK
<1>2. LineOnScreen'
  BY DEF LineOnScreen
<1> QED  BY <1>1, <1>2 DEF IInv, InRange, Printing, CursorShown

(* One character of a command, a program, the prompt or the line end.       *)
LEMMA PrintStep ==
  ASSUME IInv, NEW c \in Printed \cup {Backspace}, pc # "ended",
         SetTerm(terminal_putchar(Term, c)),
         pc' \in {"prompt", "command", "program", "exit"},
         pc = "program" <=> pc' = "program",
         text' \in Seq(Printed), text' # << >> => pc' \in {"prompt", "exit"},
         line' = line, start' = start,
         climbed' \in BOOLEAN,
         ~climbed' => ~climbed /\ (pc = "program" \/ c # Backspace \/ Position(Term) # 0)
  PROVE  IInv'
<1>1. TypeOK /\ InRange
  BY DEF IInv
<1>2. /\ terminal_row' \in 0 .. Word - 1 /\ terminal_column' \in 0 .. Width
      /\ terminal_column' < Width
      /\ terminal_buffer' \in [Cells -> Chars \cup {Blank}]
  BY <1>1, PrintsTyped
<1>4. ASSUME ShellPrints', ~climbed'
      PROVE  OnScreen(Term')
  <2>1. ShellPrints
    BY <1>1, <1>4 DEF ShellPrints, TypeOK
  <2>2. ~climbed /\ (c = Backspace => Position(Term) # 0)
    BY <1>4, <2>1 DEF ShellPrints
  <2> QED  BY <2>1, <2>2, PrintsShown
<1> QED  BY <1>2, <1>4, NoLine

(* A step of the shell or of a program that prints nothing.                 *)
LEMMA SilentStep ==
  ASSUME IInv, UNCHANGED terminal, pc # "ended", pc' # "edit",
         line' = line, start' = start, climbed' = climbed,
         pc' \in {"prompt", "command", "program", "ended", "exit"},
         text' \in Seq(Printed), text' # << >> => pc' \in {"prompt", "exit"},
         pc # "program" \/ pc' = "ended"
  PROVE  IInv'
<1>1. Term' = Term
  BY DEF terminal, Term
<1>2. /\ terminal_row' \in 0 .. Word - 1 /\ terminal_column' \in 0 .. Width
      /\ terminal_column' < Width /\ climbed' \in BOOLEAN
      /\ terminal_buffer' \in [Cells -> Chars \cup {Blank}]
  BY DEF IInv, TypeOK, InRange, terminal
<1>3. ShellPrints' /\ ~climbed' => OnScreen(Term')
  BY <1>1 DEF IInv, TypeOK, CursorShown, ShellPrints
<1> QED  BY <1>2, <1>3, NoLine

(* terminal_initialize, from anywhere.                                      *)
LEMMA CleanStep ==
  ASSUME IInv, SetTerm(terminal_initialize), climbed' = FALSE,
         line' = line, start' = start, pc' \in {"command", "exit"},
         text' \in Seq(Printed), text' # << >> => pc' = "exit"
  PROVE  IInv'
<1>1. terminal_initialize \in Terms
  BY CleanOnScreen DEF OnScreen
<1>2. /\ terminal_row' \in 0 .. Word - 1 /\ terminal_column' \in 0 .. Width
      /\ terminal_column' < Width
      /\ terminal_buffer' \in [Cells -> Chars \cup {Blank}]
      /\ Term' = terminal_initialize
  BY <1>1, SetTermTyped
<1> QED  BY <1>2, CleanOnScreen, NoLine

LEMMA PromptedInv ==
  ASSUME IInv, Prompted
  PROVE  IInv'
<1>1. /\ TypeOK /\ pc = "prompt" /\ text = << >> /\ text' = text
      /\ pc' = "edit" /\ line' = << >> /\ climbed' = climbed
      /\ start' = (IF climbed THEN 0 ELSE Position(Term))
      /\ UNCHANGED terminal
  BY DEF IInv, Prompted
<1>2. Term' = Term
  BY <1>1 DEF terminal, Term
<1>3. ~climbed => OnScreen(Term) /\ Position(Term) \in Cells
  BY <1>1, OnScreenIndex DEF IInv, CursorShown, ShellPrints
<1>4. start' \in Nat
  BY <1>1, <1>3 DEF Cells
<1>5. << >> \in Seq(Chars) /\ Len(<< >>) = 0 /\ InputSize > 0
  BY InputAssumption, Sizes
<1>6. line' \in Seq(Chars) /\ Len(line') = 0 /\ Len(line') < InputSize
  BY <1>1, <1>5, Zenon
<1>7. TypeOK'
  BY <1>1, <1>4, <1>6 DEF TypeOK, terminal
<1>8. InRange' /\ Printing' /\ CursorShown'
  BY <1>1, <1>2, <1>3 DEF IInv, InRange, Printing, CursorShown, terminal
<1>9. LineOnScreen'
  <2> SUFFICES ASSUME ~climbed
               PROVE  /\ Position(Term') = start' + Len(line')
                      /\ Position(Term') \in Cells
                      /\ \A i \in 1 .. Len(line') : terminal_buffer'[start' + i - 1] = line'[i]
    BY <1>1 DEF LineOnScreen
  <2>1. Position(Term') \in Cells /\ start' = Position(Term')
    BY <1>1, <1>2, <1>3
  <2>2. start' + Len(line') = start'
    <3>1. \A m \in Nat : m + 0 = m
      OBVIOUS
    <3> QED  BY <1>4, <1>6, <3>1, Zenon
  <2>3. \A i \in 1 .. Len(line') : FALSE
    BY <1>6
  <2> QED  BY <2>1, <2>2, <2>3
<1> QED  BY <1>7, <1>8, <1>9 DEF IInv

LEMMA ProgramKilledInv ==
  ASSUME IInv, ProgramKilled
  PROVE  IInv'
<1>1. TypeOK /\ terminal_column \in 0 .. Width - 1 /\ terminal_row \in 0 .. Word - 1
  BY Sizes DEF IInv, TypeOK, InRange, ProgramKilled
<1>2. (terminal_row + 1) % Word \in 0 .. Word - 1
      /\ (terminal_row + Word - 1) % Word \in 0 .. Word - 1
  BY <1>1, Sizes
<1>3. terminal_row' \in 0 .. Word - 1 /\ terminal_column' \in 0 .. Width
  BY <1>1, <1>2, Sizes DEF ProgramKilled
<1>4. /\ pc' = "ended" /\ line' = line /\ start' = start /\ text' = text
      /\ terminal_buffer' = terminal_buffer /\ climbed' = climbed /\ text = << >>
  BY DEF ProgramKilled, IInv, Printing
<1>5. /\ terminal_buffer' \in [Cells -> Chars \cup {Blank}] /\ climbed' \in BOOLEAN
      /\ text' \in Seq(Printed)
  BY <1>1, <1>4 DEF TypeOK
<1> QED  BY <1>3, <1>4, <1>5, NoLine DEF ShellPrints

LEMMA StepInv == IInv /\ [Next]_vars => IInv'
<1> SUFFICES ASSUME IInv, [Next]_vars
             PROVE  IInv'
  OBVIOUS
<1>1. TypeOK /\ Printing /\ text \in Seq(Printed)
  BY DEF IInv, TypeOK
<1>2. ASSUME NEW c \in Chars, TypeKey(c)
      PROVE  IInv'
  BY <1>2, TypeKeyInv
<1>3. ASSUME NEW c \in Printed \cup {Backspace}, CommandPrints(c)
      PROVE  IInv'
  <2>1. climbed' = (climbed \/ (c = Backspace /\ Position(Term) = 0))
    BY <1>3 DEF CommandPrints
  <2>2. climbed' \in BOOLEAN /\ (~climbed' => ~climbed /\ (c # Backspace \/ Position(Term) # 0))
    BY <2>1, Zenon
  <2>3. /\ pc = "command" /\ pc' = "command" /\ text' = << >> /\ text' \in Seq(Printed)
        /\ line' = line /\ start' = start /\ SetTerm(terminal_putchar(Term, c))
    BY <1>1, <1>3 DEF CommandPrints, Printing
  <2> QED  BY <2>2, <2>3, PrintStep
<1>4. ASSUME NEW c \in Printed \cup {Backspace}, ProgramWrites(c)
      PROVE  IInv'
  BY <1>1, <1>4, PrintStep DEF ProgramWrites, Printing, TypeOK
<1>5. CASE EraseKey
  BY <1>5, EraseKeyInv
<1>6. CASE EnterKey
  <2>1. Newline \in Printed \cup {Backspace} /\ Newline # Backspace
    BY DEF Printed, Newline, Backspace
  <2>2. /\ pc = "edit" /\ pc' = "command" /\ text' = << >> /\ text' \in Seq(Printed)
        /\ line' = line /\ start' = start /\ climbed' = climbed /\ climbed \in BOOLEAN
        /\ SetTerm(terminal_putchar(Term, Newline))
    BY <1>1, <1>6 DEF EnterKey, Printing, TypeOK
  <2> HIDE DEF Newline, Backspace
  <2> QED  BY <2>1, <2>2, PrintStep
<1>7. CASE cmd_clear
  BY <1>1, <1>7, CleanStep DEF cmd_clear, Printing
<1>8. CASE Prompt
  BY <1>8, TextAssumption, SilentStep DEF Prompt
<1>9. CASE RunProgram
  BY <1>1, <1>9, SilentStep DEF RunProgram, Printing
<1>10. CASE ProgramExits
  BY <1>1, <1>10, SilentStep DEF ProgramExits, Printing
<1>11. CASE ProgramKilled
  BY <1>11, ProgramKilledInv
<1>12. CASE Returned
  BY <1>12, TextAssumption, CleanStep DEF Returned
<1>13. CASE ExitPrinted
  BY <1>1, <1>13, SilentStep DEF ExitPrinted
<1>14. CASE printf
  <2>1. pc \in {"prompt", "exit"} /\ pc' = pc /\ text # << >>
    BY <1>1, <1>14 DEF printf, Printing
  <2>2. Head(text) \in Printed /\ Tail(text) \in Seq(Printed)
    BY <1>1, <2>1
  <2>3. Head(text) # Backspace
    BY <2>2, CharsAssumption DEF Printed, Newline, Backspace
  <2>4. /\ text' = Tail(text) /\ line' = line /\ start' = start
        /\ climbed' = climbed /\ climbed \in BOOLEAN
        /\ SetTerm(terminal_putchar(Term, Head(text)))
    BY <1>1, <1>14 DEF printf, TypeOK
  <2> QED  BY <2>1, <2>2, <2>3, <2>4, PrintStep
<1>15. CASE Prompted
  BY <1>15, PromptedInv
<1>16. CASE UNCHANGED vars
  <2>1. Term' = Term
    BY <1>16 DEF vars, terminal, Term
  <2> QED  BY <1>16, <2>1 DEF vars, terminal, IInv, TypeOK, InRange, Printing,
                             CursorShown, ShellPrints, LineOnScreen
<1>17. \A c \in Chars : c \in Printed \cup {Backspace}
  BY DEF Printed
<1>18. Newline \in Printed \cup {Backspace} /\ Backspace \in Printed \cup {Backspace}
  BY DEF Printed
<1> QED
  BY <1>2, <1>3, <1>4, <1>5, <1>6, <1>7, <1>8, <1>9, <1>10, <1>11, <1>12, <1>13,
     <1>14, <1>15, <1>16, <1>17, <1>18 DEF Next

(* The strengthened invariant of the screen and the line editor.            *)
THEOREM Invariance == Spec => []IInv
BY InitInv, StepInv, PTL DEF Spec

(* Every state is well typed: the cursor never has a column the screen does *)
(* not have but in a kill, and the line leaves room for its closing zero.   *)
THEOREM TypeCorrect == Spec => []TypeOK
<1>1. IInv => TypeOK
  BY DEF IInv
<1> QED  BY <1>1, Invariance, PTL

(* What the shell would execute is what terminal_putchar shows from the     *)
(* prompt to the cursor.                                                    *)
THEOREM LineIsShown == Spec => []LineOnScreen
<1>1. IInv => LineOnScreen
  BY DEF IInv
<1> QED  BY <1>1, Invariance, PTL

(* shell_run's backspaces stop at the prompt, and scrolling keeps it.       *)
THEOREM PromptIsKept == Spec => PromptNotErased
<1> DEFINE Kept == pc = "edit" /\ pc' = "edit" /\ ~climbed =>
                     \A k \in 0 .. start' - 1 :
                       terminal_buffer'[k] = terminal_buffer[k + (start - start')]
<1>1. IInv /\ [Next]_vars => [Kept]_vars
  <2> SUFFICES ASSUME IInv, Next, pc = "edit", pc' = "edit", ~climbed
               PROVE  Kept
    OBVIOUS
  <2>1. ASSUME NEW c \in Chars, TypeKey(c)
        PROVE  Kept
    BY <2>1, TypeKeyLine
  <2>2. CASE EraseKey
    BY <2>2, EraseKeyLine
  <2>3. text = << >>
    BY DEF IInv, Printing
  <2> QED  BY <2>1, <2>2, <2>3
           DEF Next, CommandPrints, ProgramWrites, EnterKey, cmd_clear, Prompt, RunProgram,
               ProgramExits, ProgramKilled, Returned, ExitPrinted, printf, Prompted
<1> QED  BY <1>1, Invariance, PTL DEF Spec, PromptNotErased

-----------------------------------------------------------------------------
(* Where the paths of the shell lead.                                       *)


Strings == Seq(Letters)

LEMMA Smallest ==
  ASSUME NEW S, S \subseteq Nat, S # {}
  PROVE  \E n \in S : \A m \in S : n <= m
<1> DEFINE R == StrictSubsetOrdering(Nat)
           T == {0 .. n : n \in S}
<1>1. IsWellFoundedOn(R, FiniteSubsetsOf(Nat))
  BY FS_StrictSubsetOrderingWellFounded
<1>2. T \subseteq FiniteSubsetsOf(Nat) /\ T # {}
  <2>1. \A n \in S : IsFiniteSet(0 .. n) /\ 0 .. n \subseteq Nat
    BY FS_Interval
  <2> QED  BY <2>1 DEF FiniteSubsetsOf
<1>3. \E x \in T : \A y \in T : ~(<<y, x>> \in R)
  BY <1>1, <1>2, WFMin
<1>4. PICK n \in S : \A m \in S : ~(<<0 .. m, 0 .. n>> \in R)
  BY <1>3
<1>5. ASSUME NEW m \in S, m < n
      PROVE  FALSE
  <2>1. 0 .. m \subseteq 0 .. n /\ 0 .. m # 0 .. n
    <3>1. n \in 0 .. n /\ n \notin 0 .. m
      BY <1>5
    <3> QED  BY <1>5, <3>1
  <2>2. (0 .. m) \in SUBSET Nat /\ (0 .. n) \in SUBSET Nat
    OBVIOUS
  <2>3. <<0 .. m, 0 .. n>> \in R
    BY <2>1, <2>2 DEF StrictSubsetOrdering
  <2> QED  BY <1>4, <2>3
<1> QED  BY <1>5

LEMMA Largest ==
  ASSUME NEW n \in Nat, NEW S, S \subseteq 1 .. n, S # {}
  PROVE  \E i \in S : \A j \in S : j <= i
<1> DEFINE T == {n - i : i \in S}
<1>1. T \subseteq Nat /\ T # {}
  <2>1. \A i \in S : n - i \in Nat
    OBVIOUS
  <2> QED BY <2>1
<1>2. PICK t \in T : \A u \in T : t <= u
  <2> HIDE DEF T
  <2> QED BY <1>1, Smallest
<1>3. PICK i \in S : t = n - i
  BY <1>2
<1>4. ASSUME NEW j \in S PROVE j <= i
  <2>1. n - j \in T
    OBVIOUS
  <2>2. n - i <= n - j
    BY <2>1, <1>2, <1>3
  <2> QED BY <2>2
<1> QED BY <1>4

LEMMA FunctionIsSequence ==
  ASSUME NEW V, NEW n \in Nat, NEW f \in [1 .. n -> V]
  PROVE  f \in Seq(V) /\ Len(f) = n
OBVIOUS

(* A sequence is known by its length and its elements.                      *)
LEMMA Equal ==
  ASSUME NEW p \in Strings, NEW q \in Strings, Len(p) = Len(q),
         \A i \in 1 .. Len(p) : p[i] = q[i]
  PROVE  p = q
BY SeqEqual DEF Strings

LEMMA PartIs ==
  ASSUME NEW s \in Strings, NEW m \in Nat \ {0}, NEW n \in 0 .. Len(s)
  PROVE  /\ SubSeq(s, m, n) \in Strings
         /\ Len(SubSeq(s, m, n)) = IF m <= n THEN n - m + 1 ELSE 0
         /\ \A i \in 1 .. Len(SubSeq(s, m, n)) : SubSeq(s, m, n)[i] = s[m + i - 1]
BY DEF Strings

LEMMA JoinIs ==
  ASSUME NEW p \in Strings, NEW q \in Strings
  PROVE  /\ p \o q \in Strings /\ Len(p \o q) = Len(p) + Len(q)
         /\ \A i \in 1 .. Len(p) : (p \o q)[i] = p[i]
         /\ \A i \in 1 .. Len(q) : (p \o q)[Len(p) + i] = q[i]
BY DEF Strings

LEMMA ConcatIs ==
  ASSUME NEW p \in Seq(Strings), NEW q \in Seq(Strings)
  PROVE  /\ p \o q \in Seq(Strings) /\ Len(p \o q) = Len(p) + Len(q)
         /\ Len(p) \in Nat /\ Len(q) \in Nat
         /\ \A i \in 1 .. Len(p) : (p \o q)[i] = p[i]
         /\ \A i \in 1 .. Len(q) : (p \o q)[Len(p) + i] = q[i]
OBVIOUS

LEMMA CutIs ==
  ASSUME NEW s \in Strings, NEW n \in Nat
  PROVE  /\ Cut(s, n) \in Strings /\ Len(Cut(s, n)) <= n /\ Len(Cut(s, n)) <= Len(s)
         /\ Len(s) <= n => Cut(s, n) = s
         /\ Len(Cut(s, n)) = IF Len(s) < n THEN Len(s) ELSE n
         /\ \A i \in 1 .. Len(Cut(s, n)) : Cut(s, n)[i] = s[i]
<1> DEFINE m == IF Len(s) < n THEN Len(s) ELSE n
<1>1. m \in 0 .. Len(s) /\ Len(s) \in Nat
  BY DEF Strings
<1>2. /\ Cut(s, n) \in Strings /\ Len(Cut(s, n)) = m
      /\ \A i \in 1 .. m : Cut(s, n)[i] = s[i]
  <2> HIDE DEF m
  <2>1. /\ SubSeq(s, 1, m) \in Strings /\ Len(SubSeq(s, 1, m)) = m
        /\ \A i \in 1 .. m : SubSeq(s, 1, m)[i] = s[i]
    BY <1>1, PartIs
  <2>2. Cut(s, n) = SubSeq(s, 1, m)
    BY DEF Cut, m
  <2> QED BY <2>1, <2>2
<1>3. ASSUME Len(s) <= n PROVE Cut(s, n) = s
  <2>1. m = Len(s)
    BY <1>1, <1>3
  <2> HIDE DEF m
  <2> QED BY <1>2, <2>1, Equal, Zenon
<1> QED BY <1>1, <1>2, <1>3

LEMMA PaddedIs ==
  ASSUME NEW s \in Strings, NEW n \in Nat
  PROVE  /\ Padded(s, n) \in Strings /\ Len(Padded(s, n)) = n
         /\ \A i \in 1 .. n : Padded(s, n)[i] = IF i <= Len(s) THEN s[i] ELSE Space
<1>1. Padded(s, n) \in [1 .. n -> Letters]
  <2>1. \A i \in 1 .. n : i <= Len(s) => s[i] \in Letters
    BY DEF Strings
  <2>2. \A i \in 1 .. n : (IF i <= Len(s) THEN s[i] ELSE Space) \in Letters
    BY <2>1, ArgsAssumption
  <2> QED BY <2>2 DEF Padded
<1>2. Padded(s, n) \in Strings /\ Len(Padded(s, n)) = n
  BY <1>1, FunctionIsSequence DEF Strings
<1> QED BY <1>2 DEF Padded

(* What comes back of a field that a string was put into.                   *)
LEMMA TrimmedPadded ==
  ASSUME NEW s \in Strings, NEW n \in Nat, Len(s) <= n, s = <<>> \/ Last(s) # Space
  PROVE  Trimmed(Padded(s, n)) = s
<1> DEFINE f == Padded(s, n)
           at == {i \in 1 .. Len(f) : f[i] # Space}
<1>1. f \in Strings /\ Len(f) = n /\ Len(s) \in Nat
  BY PaddedIs DEF Strings
<1>2. \A i \in 1 .. n : f[i] = IF i <= Len(s) THEN s[i] ELSE Space
  BY PaddedIs
<1> HIDE DEF f
<1>3. CASE s = <<>>
  <2>1. at = {}
    BY <1>1, <1>2, <1>3
  <2> QED BY <2>1, <1>3 DEF Trimmed, f
<1>4. CASE s # <<>>
  <2>1. Len(s) \in at /\ \A j \in at : j <= Len(s)
    <3>1. Len(s) \in 1 .. n /\ s[Len(s)] # Space
      BY <1>1, <1>4 DEF Last, Strings
    <3> QED BY <3>1, <1>1, <1>2
  <2>2. at # {} /\ (CHOOSE i \in at : \A j \in at : j <= i) = Len(s)
    <3>1. \A i \in at : (\A j \in at : j <= i) => i = Len(s)
      BY <2>1, <1>1
    <3> HIDE DEF at
    <3> QED BY <2>1, <3>1
  <2>3. Trimmed(f) = SubSeq(f, 1, Len(s))
    BY <2>2 DEF Trimmed
  <2>4. SubSeq(f, 1, Len(s)) = s
    <3>1. /\ SubSeq(f, 1, Len(s)) \in Strings /\ Len(SubSeq(f, 1, Len(s))) = Len(s)
          /\ \A i \in 1 .. Len(s) : SubSeq(f, 1, Len(s))[i] = f[i]
      BY <1>1, PartIs
    <3>2. \A i \in 1 .. Len(s) : f[i] = s[i]
      BY <1>1, <1>2
    <3> QED BY <3>1, <3>2, Equal
  <2> QED BY <2>3, <2>4 DEF f
<1> QED BY <1>3, <1>4

(* A name that is not cut short ends in no space.                           *)
LEMMA TrimmedEnd ==
  ASSUME NEW s \in Strings, s # <<>>, Trimmed(s) = s
  PROVE  Last(s) # Space
<1> DEFINE at == {i \in 1 .. Len(s) : s[i] # Space}
<1>1. Len(s) \in Nat \ {0}
  BY DEF Strings
<1>2. at # {}
  <2>1. SUFFICES ASSUME at = {} PROVE FALSE
    OBVIOUS
  <2>2. Trimmed(s) = <<>>
    BY <2>1 DEF Trimmed
  <2> QED BY <2>2
<1>3. PICK k \in at : \A j \in at : j <= k
  <2>1. at \subseteq 1 .. Len(s)
    OBVIOUS
  <2> HIDE DEF at
  <2> QED BY <1>1, <1>2, <2>1, Largest
<1>4. (CHOOSE i \in at : \A j \in at : j <= i) = k
  <2>1. \A i \in at : (\A j \in at : j <= i) => i = k
    BY <1>3
  <2> HIDE DEF at
  <2> QED BY <1>3, <2>1
<1>5. s = SubSeq(s, 1, k)
  BY <1>2, <1>4 DEF Trimmed
<1>6. Len(SubSeq(s, 1, k)) = k
  BY <1>1, <1>3, PartIs
<1>7. Len(s) = k
  BY <1>5, <1>6
<1> QED BY <1>7, <1>3 DEF Last


-----------------------------------------------------------------------------
(* Names and the fields of an entry.                                        *)

LEMMA NameEndIs ==
  ASSUME NEW s \in Strings
  PROVE  /\ NameEnd(s) \in 1 .. Len(s) + 1
         /\ NameEnd(s) <= Len(s) => s[NameEnd(s)] = Dot
<1> DEFINE dots == {i \in 1 .. Len(s) : s[i] = Dot}
<1>1. Len(s) \in Nat
  BY DEF Strings
<1>2. CASE dots = {}
  BY <1>1, <1>2 DEF NameEnd
<1>3. CASE dots # {}
  <2>1. PICK d \in dots : \A j \in dots : d <= j
    <3>1. dots \subseteq Nat
      OBVIOUS
    <3> HIDE DEF dots
    <3> QED BY <1>3, <3>1, Smallest
  <2>2. NameEnd(s) \in dots
    <3>1. NameEnd(s) = CHOOSE i \in dots : \A j \in dots : i <= j
      BY <1>3 DEF NameEnd
    <3> HIDE DEF dots
    <3> QED BY <2>1, <3>1
  <2> QED BY <1>1, <2>2
<1> QED BY <1>2, <1>3

LEMMA Parts ==
  ASSUME NEW s \in Strings
  PROVE  /\ NamePart(s) \in Strings /\ ExtPart(s) \in Strings
         /\ Len(NamePart(s)) = NameEnd(s) - 1
         /\ Len(ExtPart(s)) = IF NameEnd(s) <= Len(s) THEN Len(s) - NameEnd(s) ELSE 0
         /\ \A i \in 1 .. Len(NamePart(s)) : NamePart(s)[i] = s[i]
         /\ \A i \in 1 .. Len(ExtPart(s)) : ExtPart(s)[i] = s[NameEnd(s) + i]
<1>1. PICK e \in Nat \ {0} : e = NameEnd(s) /\ e <= Len(s) + 1
  BY NameEndIs DEF Strings
<1>2. PICK l \in Nat : l = Len(s)
  BY DEF Strings
<1>3. /\ NamePart(s) \in Strings /\ Len(NamePart(s)) = e - 1
      /\ \A i \in 1 .. Len(NamePart(s)) : NamePart(s)[i] = s[i]
  <2>1. e - 1 \in 0 .. Len(s) /\ 1 \in Nat \ {0}
    BY <1>1, <1>2
  <2>2. NamePart(s) = SubSeq(s, 1, e - 1)
    BY <1>1 DEF NamePart
  <2>3. /\ SubSeq(s, 1, e - 1) \in Strings
        /\ Len(SubSeq(s, 1, e - 1)) = IF 1 <= e - 1 THEN e - 1 - 1 + 1 ELSE 0
        /\ \A i \in 1 .. Len(SubSeq(s, 1, e - 1)) : SubSeq(s, 1, e - 1)[i] = s[1 + i - 1]
    BY <2>1, PartIs
  <2> QED BY <2>1, <2>2, <2>3, <1>1
<1>4. /\ ExtPart(s) \in Strings
      /\ Len(ExtPart(s)) = IF e <= l THEN l - e ELSE 0
      /\ \A i \in 1 .. Len(ExtPart(s)) : ExtPart(s)[i] = s[e + i]
  <2>1. e + 1 \in Nat \ {0} /\ l \in 0 .. Len(s)
    BY <1>1, <1>2
  <2>2. ExtPart(s) = SubSeq(s, e + 1, l)
    BY <1>1, <1>2 DEF ExtPart
  <2>3. /\ SubSeq(s, e + 1, l) \in Strings
        /\ Len(SubSeq(s, e + 1, l)) = IF e + 1 <= l THEN l - (e + 1) + 1 ELSE 0
        /\ \A i \in 1 .. Len(SubSeq(s, e + 1, l)) :
             SubSeq(s, e + 1, l)[i] = s[e + 1 + i - 1]
    BY <2>1, PartIs
  <2>4. \A i \in Nat : e + 1 + i - 1 = e + i
    BY <1>1
  <2>5. IF e + 1 <= l THEN e <= l /\ l - (e + 1) + 1 = l - e
        ELSE e <= l => l - e = 0
    BY <1>1, <1>2
  <2>6. \A i \in 1 .. Len(SubSeq(s, e + 1, l)) :
          SubSeq(s, e + 1, l)[i] = s[e + i]
    <3> TAKE i \in 1 .. Len(SubSeq(s, e + 1, l))
    <3>1. SubSeq(s, e + 1, l)[i] = s[e + 1 + i - 1]
      BY <2>3
    <3>2. e + 1 + i - 1 = e + i
      BY <2>4
    <3> QED BY <3>1, <3>2, Zenon
  <2>7. Len(SubSeq(s, e + 1, l)) = IF e <= l THEN l - e ELSE 0
    BY <2>3, <2>5, <1>1, <1>2
  <2> QED BY <2>2, <2>3, <2>6, <2>7, Zenon
<1> QED BY <1>1, <1>2, <1>3, <1>4

(* A name that is regular and fits the fields is read back as it was.       *)
LEMMA RoundTrip ==
  ASSUME NEW s \in Strings, Fits83(s), Regular(s)
  PROVE  Trimmed(format_name_83(s).name)
           \o (IF format_name_83(s).ext[1] = Space THEN <<>>
               ELSE <<Dot>> \o Trimmed(format_name_83(s).ext)) = s
<1> DEFINE p == NamePart(s)
           x == ExtPart(s)
           e == NameEnd(s)
<1>1. /\ p \in Strings /\ x \in Strings /\ Len(p) = e - 1 /\ Len(p) \in 1 .. NameMax
      /\ Len(x) = (IF e <= Len(s) THEN Len(s) - e ELSE 0) /\ Len(x) <= ExtMax
      /\ \A i \in 1 .. Len(p) : p[i] = s[i]
      /\ \A i \in 1 .. Len(x) : x[i] = s[e + i]
      /\ e \in 1 .. Len(s) + 1
      /\ (e <= Len(s) => s[e] = Dot)
  BY Parts, NameEndIs DEF Fits83
<1>2. /\ Trimmed(p) = p /\ Trimmed(x) = x
      /\ (x = <<>> => Len(p) = Len(s)) /\ (x # <<>> => x[1] # Space)
  BY DEF Regular
<1>3. /\ format_name_83(s).name = Padded(p, NameMax)
      /\ format_name_83(s).ext = Padded(x, ExtMax)
  BY DEF format_name_83
<1> HIDE DEF p, x, e
<1>4. Len(s) \in Nat \ {0} /\ Len(p) \in Nat \ {0} /\ Len(x) \in Nat /\ NameMax \in Nat
      /\ ExtMax \in Nat \ {0} /\ Dot # Space
  <2>1. Len(s) \in Nat /\ Len(x) \in Nat
    BY <1>1 DEF Strings
  <2>2. NameMax \in Nat /\ ExtMax \in Nat \ {0}
    BY FieldsAssumption
  <2>3. Len(p) \in Nat \ {0} /\ Len(s) # 0
    BY <1>1, <2>1, <2>2
  <2>4. Dot # Space
    BY DEF Dot, Space
  <2> QED BY <2>1, <2>2, <2>3, <2>4
<1>5. Trimmed(Padded(p, NameMax)) = p
  <2>1. p # <<>> /\ Len(p) <= NameMax
    BY <1>1, <1>4
  <2>2. Last(p) # Space
    BY <1>1, <1>2, <2>1, TrimmedEnd
  <2> QED BY <1>1, <1>4, <2>1, <2>2, TrimmedPadded
<1>6. Padded(x, ExtMax)[1] = IF 1 <= Len(x) THEN x[1] ELSE Space
  <2>1. 1 \in 1 .. ExtMax
    BY <1>4
  <2> QED BY <1>1, <1>4, <2>1, PaddedIs
<1>7. CASE x = <<>>
  <2>1. Len(x) = 0
    BY <1>7
  <2>2. Len(p) = Len(s)
    BY <1>2, <1>7
  <2>3. p = s
    BY <1>1, <2>2, Equal
  <2>4. p \o <<>> = p
    BY <1>1 DEF Strings
  <2> QED BY <1>3, <1>5, <1>6, <2>1, <2>3, <2>4
<1>8. CASE x # <<>>
  <2>1. Len(x) >= 1 /\ Len(x) = Len(s) - e /\ e <= Len(s) /\ s[e] = Dot /\ e = Len(p) + 1
    BY <1>1, <1>4, <1>8 DEF Strings
  <2>2. Padded(x, ExtMax)[1] # Space
    BY <1>2, <1>6, <1>8, <2>1, <1>4
  <2>3. Last(x) # Space
    BY <1>1, <1>2, <1>8, TrimmedEnd
  <2>4. Trimmed(Padded(x, ExtMax)) = x
    BY <1>1, <1>4, <2>3, TrimmedPadded
  <2>5. <<Dot>> \in Strings /\ Len(<<Dot>>) = 1 /\ <<Dot>>[1] = Dot
    BY ArgsAssumption DEF Strings
  <2> DEFINE d == <<Dot>>
             y == d \o x
             z == p \o y
  <2>6. d \in Strings /\ Len(d) = 1 /\ d[1] = Dot
    BY <2>5
  <2> HIDE DEF d
  <2>7. /\ y \in Strings /\ Len(y) = 1 + Len(x) /\ y[1] = Dot
        /\ \A i \in 1 .. Len(x) : y[1 + i] = x[i]
    <3>1. /\ y \in Strings /\ Len(y) = Len(d) + Len(x)
          /\ \A i \in 1 .. Len(d) : y[i] = d[i]
          /\ \A i \in 1 .. Len(x) : y[Len(d) + i] = x[i]
      BY <1>1, <2>6, JoinIs
    <3>2. 1 \in 1 .. Len(d)
      BY <2>6
    <3> QED BY <2>6, <3>1, <3>2
  <2> HIDE DEF y
  <2>8. /\ z \in Strings /\ Len(z) = Len(p) + Len(y)
        /\ \A i \in 1 .. Len(p) : z[i] = p[i]
        /\ \A i \in 1 .. Len(y) : z[Len(p) + i] = y[i]
    BY <1>1, <2>7, JoinIs
  <2> HIDE DEF z
  <2>9. Len(z) = Len(s)
    BY <2>1, <2>7, <2>8, <1>4
  <2>10. ASSUME NEW i \in 1 .. Len(s) PROVE z[i] = s[i]
    <3>1. CASE i < e
      <4>1. i \in 1 .. Len(p)
        BY <3>1, <2>1, <1>4
      <4> QED BY <4>1, <2>8, <1>1
    <3>2. CASE i = e
      <4>1. z[Len(p) + 1] = y[1]
        <5>1. 1 \in 1 .. Len(y)
          BY <2>7, <1>4
        <5> QED BY <5>1, <2>8
      <4> QED BY <4>1, <3>2, <2>7, <2>1
    <3>3. CASE i > e
      <4>1. i - e \in 1 .. Len(x) /\ e + (i - e) = i /\ 1 + (i - e) \in 1 .. Len(y)
            /\ Len(p) + (1 + (i - e)) = i
        BY <3>3, <2>1, <2>7, <1>4, <1>1
      <4>2. x[i - e] = s[i] /\ y[1 + (i - e)] = x[i - e] /\ z[i] = y[1 + (i - e)]
        BY <4>1, <2>7, <2>8, <1>1
      <4> QED BY <4>2
    <3> QED BY <3>1, <3>2, <3>3, <1>1
  <2>11. z = s
    BY <2>8, <2>9, <2>10, Equal
  <2> QED BY <1>3, <1>5, <2>2, <2>4, <2>11 DEF d, y, z
<1> QED BY <1>7, <1>8

LEMMA TrimmedIs ==
  ASSUME NEW f \in Strings
  PROVE  /\ Trimmed(f) \in Strings /\ Len(Trimmed(f)) \in Nat /\ Len(Trimmed(f)) <= Len(f)
         /\ \A i \in 1 .. Len(Trimmed(f)) : Trimmed(f)[i] = f[i]
         /\ Trimmed(f) = <<>> \/ Last(Trimmed(f)) # Space
         /\ f # <<>> /\ f[1] # Space => Trimmed(f) # <<>>
<1> DEFINE at == {i \in 1 .. Len(f) : f[i] # Space}
<1>1. Len(f) \in Nat /\ (f # <<>> => Len(f) # 0)
  BY DEF Strings
<1>2. CASE at = {}
  <2>1. Trimmed(f) = <<>>
    BY <1>2 DEF Trimmed
  <2>2. <<>> \in Strings /\ Len(<<>>) = 0
    BY DEF Strings
  <2>3. f = <<>> \/ f[1] = Space
    BY <1>1, <1>2
  <2> QED BY <1>1, <2>1, <2>2, <2>3
<1>3. CASE at # {}
  <2>1. PICK k \in at : \A j \in at : j <= k
    <3>1. at \subseteq 1 .. Len(f)
      OBVIOUS
    <3> HIDE DEF at
    <3> QED BY <1>1, <1>3, <3>1, Largest
  <2>2. (CHOOSE i \in at : \A j \in at : j <= i) = k
    <3>1. \A i \in at : (\A j \in at : j <= i) => i = k
      BY <2>1
    <3> HIDE DEF at
    <3> QED BY <2>1, <3>1
  <2>3. Trimmed(f) = SubSeq(f, 1, k)
    BY <1>3, <2>2 DEF Trimmed
  <2>4. k \in 1 .. Len(f) /\ f[k] # Space
    BY <2>1
  <2> DEFINE t == SubSeq(f, 1, k)
  <2>5. t \in Strings /\ Len(t) = k /\ \A i \in 1 .. Len(t) : t[i] = f[i]
    BY <1>1, <2>4, PartIs
  <2> HIDE DEF t
  <2>6. Last(t) # Space /\ t # <<>> /\ k \in Nat /\ k <= Len(f)
    BY <2>4, <2>5 DEF Last
  <2> QED BY <2>3, <2>5, <2>6 DEF t
<1> QED BY <1>2, <1>3

LEMMA TrimmedTwice ==
  ASSUME NEW f \in Strings
  PROVE  Trimmed(Trimmed(f)) = Trimmed(f)
<1> DEFINE s == Trimmed(f)
<1>1. s \in Strings /\ Len(s) \in Nat /\ (s = <<>> \/ Last(s) # Space)
  BY TrimmedIs
<1> HIDE DEF s
<1>2. Padded(s, Len(s)) = s
  <2>1. /\ Padded(s, Len(s)) \in Strings /\ Len(Padded(s, Len(s))) = Len(s)
        /\ \A i \in 1 .. Len(s) : Padded(s, Len(s))[i] = IF i <= Len(s) THEN s[i] ELSE Space
    BY <1>1, PaddedIs
  <2> QED BY <1>1, <2>1, Equal
<1>3. Trimmed(Padded(s, Len(s))) = s
  BY <1>1, TrimmedPadded
<1> QED BY <1>2, <1>3 DEF s

LEMMA FirstDot ==
  ASSUME NEW s \in Strings
  PROVE  /\ (\A i \in 1 .. Len(s) : s[i] # Dot) => NameEnd(s) = Len(s) + 1
         /\ \A k \in 1 .. Len(s) :
              s[k] = Dot /\ (\A i \in 1 .. k - 1 : s[i] # Dot) => NameEnd(s) = k
         /\ \A i \in 1 .. NameEnd(s) - 1 : s[i] # Dot
<1> DEFINE dots == {i \in 1 .. Len(s) : s[i] = Dot}
<1>1. Len(s) \in Nat
  BY DEF Strings
<1>2. CASE dots = {}
  <2>1. NameEnd(s) = Len(s) + 1
    BY <1>2 DEF NameEnd
  <2> QED BY <1>1, <1>2, <2>1
<1>3. CASE dots # {}
  <2>1. PICK d \in dots : \A j \in dots : d <= j
    <3>1. dots \subseteq Nat
      OBVIOUS
    <3> HIDE DEF dots
    <3> QED BY <1>3, <3>1, Smallest
  <2>2. NameEnd(s) = d
    <3>1. NameEnd(s) = CHOOSE i \in dots : \A j \in dots : i <= j
      BY <1>3 DEF NameEnd
    <3>2. \A i \in dots : (\A j \in dots : i <= j) => i = d
      BY <2>1
    <3> HIDE DEF dots
    <3> QED BY <2>1, <3>1, <3>2
  <2>3. \A i \in 1 .. d - 1 : s[i] # Dot
    BY <1>1, <2>1
  <2>4. \A k \in 1 .. Len(s) : s[k] = Dot /\ (\A i \in 1 .. k - 1 : s[i] # Dot) => k = d
    <3> TAKE k \in 1 .. Len(s)
    <3> SUFFICES ASSUME s[k] = Dot, \A i \in 1 .. k - 1 : s[i] # Dot PROVE k = d
      OBVIOUS
    <3>1. k \in dots /\ d <= k
      BY <2>1
    <3>2. ~(d \in 1 .. k - 1)
      BY <2>1
    <3> QED BY <2>1, <3>1, <3>2
  <2> QED BY <1>3, <2>2, <2>3, <2>4
<1> QED BY <1>2, <1>3

(* What two fields are written out as is regular, if no dot is in the name. *)
LEMMA WrittenOut ==
  ASSUME NEW n \in Strings, NEW x \in Strings, x # <<>>,
         \A i \in 1 .. Len(n) : n[i] # Dot
  PROVE  Regular(Trimmed(n) \o (IF x[1] = Space THEN <<>> ELSE <<Dot>> \o Trimmed(x)))
<1> DEFINE a == Trimmed(n)
           b == Trimmed(x)
           d == <<Dot>>
<1>1. /\ a \in Strings /\ Len(a) \in Nat /\ Trimmed(a) = a
      /\ \A i \in 1 .. Len(a) : a[i] # Dot
  <2>1. /\ a \in Strings /\ Len(a) \in Nat /\ Len(a) <= Len(n) /\ Len(n) \in Nat
        /\ \A i \in 1 .. Len(a) : a[i] = n[i]
    BY TrimmedIs DEF Strings
  <2>2. Trimmed(a) = a
    BY TrimmedTwice
  <2> QED BY <2>1, <2>2
<1>2. /\ b \in Strings /\ Len(b) \in Nat /\ Trimmed(b) = b
      /\ \A i \in 1 .. Len(b) : b[i] = x[i]
      /\ x[1] # Space => b # <<>>
  BY TrimmedIs, TrimmedTwice
<1>3. d \in Strings /\ Len(d) = 1 /\ d[1] = Dot
  BY ArgsAssumption DEF Strings
<1> HIDE DEF a, b, d
<1>4. CASE x[1] = Space
  <2>1. a \o <<>> = a
    BY <1>1 DEF Strings
  <2>2. NameEnd(a) = Len(a) + 1
    BY <1>1, FirstDot
  <2>3. /\ NamePart(a) \in Strings /\ Len(NamePart(a)) = Len(a)
        /\ ExtPart(a) \in Strings /\ Len(ExtPart(a)) = 0
        /\ \A i \in 1 .. Len(NamePart(a)) : NamePart(a)[i] = a[i]
    BY <1>1, <2>2, Parts
  <2>4. NamePart(a) = a
    BY <1>1, <2>3, Equal
  <2>5. ExtPart(a) = <<>>
    BY <2>3 DEF Strings
  <2>6. Trimmed(<<>>) = <<>>
    BY DEF Trimmed
  <2>7. Regular(a)
    BY <1>1, <2>3, <2>4, <2>5, <2>6 DEF Regular
  <2> QED BY <1>4, <2>1, <2>7 DEF a
<1>5. CASE x[1] # Space
  <2> DEFINE y == d \o b
             z == a \o y
  <2>1. /\ y \in Strings /\ Len(y) = 1 + Len(b) /\ y[1] = Dot
        /\ \A i \in 1 .. Len(b) : y[1 + i] = b[i]
    <3>1. /\ y \in Strings /\ Len(y) = Len(d) + Len(b)
          /\ \A i \in 1 .. Len(d) : y[i] = d[i]
          /\ \A i \in 1 .. Len(b) : y[Len(d) + i] = b[i]
      BY <1>2, <1>3, JoinIs
    <3>2. 1 \in 1 .. Len(d)
      BY <1>3
    <3> QED BY <1>3, <3>1, <3>2
  <2> HIDE DEF y
  <2>2. /\ z \in Strings /\ Len(z) = Len(a) + Len(y)
        /\ \A i \in 1 .. Len(a) : z[i] = a[i]
        /\ \A i \in 1 .. Len(y) : z[Len(a) + i] = y[i]
    BY <1>1, <2>1, JoinIs
  <2> HIDE DEF z
  <2>3. Len(a) + 1 \in 1 .. Len(z) /\ z[Len(a) + 1] = Dot
    <3>1. 1 \in 1 .. Len(y)
      BY <1>2, <2>1
    <3> QED BY <1>1, <1>2, <2>1, <2>2, <3>1
  <2>4. NameEnd(z) = Len(a) + 1
    <3>1. \A i \in 1 .. (Len(a) + 1) - 1 : z[i] # Dot
      BY <1>1, <2>2
    <3> QED BY <2>2, <2>3, <3>1, FirstDot
  <2>5. /\ NamePart(z) \in Strings /\ Len(NamePart(z)) = Len(a)
        /\ ExtPart(z) \in Strings /\ Len(ExtPart(z)) = Len(b)
        /\ \A i \in 1 .. Len(NamePart(z)) : NamePart(z)[i] = z[i]
        /\ \A i \in 1 .. Len(ExtPart(z)) : ExtPart(z)[i] = z[(Len(a) + 1) + i]
    <3>1. /\ Len(NamePart(z)) = (Len(a) + 1) - 1
          /\ Len(ExtPart(z)) = IF Len(a) + 1 <= Len(z) THEN Len(z) - (Len(a) + 1) ELSE 0
      BY <2>2, <2>4, Parts
    <3>2. Len(NamePart(z)) = Len(a) /\ Len(ExtPart(z)) = Len(b)
      BY <1>1, <1>2, <2>1, <2>2, <2>3, <3>1
    <3> QED BY <2>2, <2>4, <3>2, Parts
  <2>6. NamePart(z) = a
    BY <1>1, <2>2, <2>5, Equal
  <2>7. ExtPart(z) = b
    <3>1. ASSUME NEW i \in 1 .. Len(b) PROVE z[(Len(a) + 1) + i] = b[i]
      <4>1. 1 + i \in 1 .. Len(y) /\ (Len(a) + 1) + i = Len(a) + (1 + i)
        BY <1>1, <1>2, <2>1
      <4> QED BY <2>1, <2>2, <4>1
    <3>2. \A i \in 1 .. Len(ExtPart(z)) : ExtPart(z)[i] = b[i]
      BY <2>5, <3>1
    <3> QED BY <1>2, <2>5, <3>2, Equal
  <2>8. b # <<>> /\ b[1] # Space
    <3>1. b # <<>> /\ Len(b) # 0
      BY <1>2, <1>5 DEF Strings
    <3>2. 1 \in 1 .. Len(b)
      BY <1>2, <3>1
    <3> QED BY <1>2, <1>5, <3>1, <3>2
  <2>9. Regular(z)
    BY <1>1, <1>2, <2>6, <2>7, <2>8 DEF Regular
  <2> QED BY <1>5, <2>9 DEF a, b, d, y, z
<1> QED BY <1>4, <1>5


-----------------------------------------------------------------------------
(* Paths.                                                                   *)

LEMMA LastSlashIs ==
  ASSUME NEW s \in Strings
  PROVE  /\ LastSlash(s) \in Nat /\ LastSlash(s) <= Len(s) /\ (s # <<>> => LastSlash(s) < Len(s))
         /\ LastSlash(s) # 0 => s[LastSlash(s) + 1] = Slash
         /\ \A j \in 1 .. Len(s) : s[j] = Slash => j <= LastSlash(s) + 1
<1> DEFINE at == {i \in 1 .. Len(s) : s[i] = Slash}
<1>0. Len(s) \in Nat /\ (s # <<>> => Len(s) # 0)
  BY DEF Strings
<1>1. CASE at = {}
  BY <1>0, <1>1 DEF LastSlash
<1>2. CASE at # {}
  <2>1. PICK k \in at : \A j \in at : j <= k
    <3>1. at \subseteq 1 .. Len(s)
      OBVIOUS
    <3> HIDE DEF at
    <3> QED BY <1>0, <1>2, <3>1, Largest
  <2>2. (CHOOSE i \in at : \A j \in at : j <= i) = k
    <3>1. \A i \in at : (\A j \in at : j <= i) => i = k
      BY <2>1
    <3> HIDE DEF at
    <3> QED BY <2>1, <3>1
  <2>3. LastSlash(s) = k - 1
    BY <1>2, <2>2 DEF LastSlash
  <2>4. k \in 1 .. Len(s) /\ s[k] = Slash /\ k - 1 + 1 = k
    BY <2>1
  <2> QED BY <1>0, <2>1, <2>3, <2>4
<1> QED BY <1>1, <1>2

LEMMA CopyIs ==
  ASSUME NEW s \in Strings, NEW size \in Nat \ {0}
  PROVE  /\ strlcpy(s, size) \in Strings /\ Len(strlcpy(s, size)) < size
         /\ Len(s) < size => strlcpy(s, size) = s
<1>1. size - 1 \in Nat /\ Len(s) \in Nat
  BY DEF Strings
<1>2. /\ Cut(s, size - 1) \in Strings /\ Len(Cut(s, size - 1)) <= size - 1
      /\ Len(s) <= size - 1 => Cut(s, size - 1) = s
  BY <1>1, CutIs
<1>3. Len(Cut(s, size - 1)) \in Nat
  BY <1>2 DEF Strings
<1> QED BY <1>1, <1>2, <1>3 DEF strlcpy

LEMMA AppendIs ==
  ASSUME NEW s \in Strings, NEW c \in Letters
  PROVE  /\ Append(s, c) \in Strings /\ Len(Append(s, c)) = Len(s) + 1
         /\ \A i \in 1 .. Len(s) : Append(s, c)[i] = s[i]
         /\ Append(s, c)[Len(s) + 1] = c
BY DEF Strings

LEMMA ResolvedIs ==
  ASSUME NEW arg \in Strings, current_path \in Strings, NEW size \in Nat \ {0}
  PROVE  Resolved(arg, size) \in Strings /\ Len(Resolved(arg, size)) < size
<1>1. CASE arg = <<>>
  <2>1. Resolved(arg, size) = strlcpy(current_path, size)
    BY <1>1 DEF Resolved
  <2> QED BY <2>1, CopyIs
<1>2. CASE arg # <<>> /\ arg[1] = Slash
  <2>1. Resolved(arg, size) = strlcpy(arg, size)
    BY <1>2 DEF Resolved
  <2> QED BY <2>1, CopyIs
<1>3. CASE arg # <<>> /\ arg[1] # Slash
  <2> DEFINE base == strlcpy(current_path, size)
             out == IF base # <<>> /\ Last(base) # Slash /\ Len(base) < size - 1
                    THEN Append(base, Slash) ELSE base
             rest == strlcpy(arg, size - Len(out))
  <2>1. Resolved(arg, size) = out \o rest
    BY <1>3 DEF Resolved
  <2>2. base \in Strings /\ Len(base) < size /\ Len(base) \in Nat
    BY CopyIs DEF Strings
  <2> HIDE DEF base
  <2>3. out \in Strings /\ Len(out) < size /\ Len(out) \in Nat
    <3>1. Slash \in Letters
      BY ArgsAssumption
    <3>2. Append(base, Slash) \in Strings /\ Len(Append(base, Slash)) = Len(base) + 1
      BY <2>2, <3>1, AppendIs
    <3> QED BY <2>2, <3>2
  <2> HIDE DEF out
  <2>4. size - Len(out) \in Nat \ {0}
    BY <2>3
  <2>5. rest \in Strings /\ Len(rest) < size - Len(out)
    BY <2>4, CopyIs
  <2> HIDE DEF rest
  <2>6. Len(rest) \in Nat
    BY <2>5 DEF Strings
  <2>7. out \o rest \in Strings /\ Len(out \o rest) = Len(out) + Len(rest)
    BY <2>3, <2>5, JoinIs
  <2> QED BY <2>1, <2>3, <2>5, <2>6, <2>7
<1> QED BY <1>1, <1>2, <1>3

LEMMA PathIs ==
  ASSUME NEW arg \in Strings, current_path \in Strings
  PROVE  path_resolve(arg) \in Strings /\ Len(path_resolve(arg)) < Size
<1>1. Size \in Nat \ {0}
  BY BuffersAssumption
<1> QED BY <1>1, ResolvedIs DEF path_resolve

LEMMA BaseIs ==
  ASSUME NEW s \in Strings
  PROVE  Base(s) \in Strings
<1>1. PICK l \in Nat : l = LastSlash(s)
  BY LastSlashIs
<1>2. PICK n \in Nat : n = Len(s)
  BY DEF Strings
<1>3. l + 2 \in Nat \ {0} /\ n \in 0 .. Len(s) /\ CompMax \in Nat
  BY <1>1, <1>2, FieldsAssumption
<1>4. SubSeq(s, l + 2, n) \in Strings
  BY <1>3, PartIs
<1>5. Cut(SubSeq(s, l + 2, n), CompMax) \in Strings
  BY <1>3, <1>4, CutIs
<1> QED BY <1>1, <1>2, <1>5 DEF Base

LEMMA ParentIs ==
  ASSUME NEW s \in Strings
  PROVE  Parent(s) \in Strings
<1>1. Size \in Nat \ {0} /\ LastSlash(s) \in Nat
  BY BuffersAssumption, LastSlashIs
<1>2. strlcpy(Cut(s, LastSlash(s)), Size) \in Strings
  BY <1>1, CutIs, CopyIs
<1>3. <<Slash>> \in Strings
  BY ArgsAssumption DEF Strings
<1> QED BY <1>2, <1>3 DEF Parent


-----------------------------------------------------------------------------
(* Walks, over any tree: a walk is as long as it is asked to be.            *)

KindIn(t, node) == IF node = Root THEN "dir"
                   ELSE IF node = NotFound THEN "none" ELSE t[node].kind
IsDirIn(t, node) == KindIn(t, node) = "dir"
MatchIn(t, d, s) == {i \in 1 .. Len(t) : t[i].dir = d /\ format_83(t[i]) = s}
FindIn(t, d, s) ==
  IF ~IsDirIn(t, d) THEN NotFound
  ELSE IF d # Root /\ s = <<Dot>> THEN d
  ELSE IF d # Root /\ s = <<Dot, Dot>> THEN t[d].dir
  ELSE IF MatchIn(t, d, s) = {} THEN NotFound
  ELSE CHOOSE i \in MatchIn(t, d, s) : \A j \in MatchIn(t, d, s) : i <= j
Place(t, node, steps, n) ==
  LET current[i \in 0 .. n] ==
        IF i = 0 THEN node ELSE FindIn(t, current[i - 1], steps[i])
  IN current[n]
WalkIn(t, node, steps) == Place(t, node, steps, Len(steps))

LEMMA WalkIs ==
  ASSUME NEW node, NEW steps
  PROVE  /\ Walk(node, steps) = WalkIn(tree, node, steps)
         /\ IsDir(node) <=> IsDirIn(tree, node)
<1>1. \A d, s : vfs_finddir(d, s) = FindIn(tree, d, s)
  BY DEF vfs_finddir, fat16_vfs_finddir, FindIn, MatchIn, IsDir, IsDirIn, Kind, KindIn
<1>2. Walk(node, steps) = WalkIn(tree, node, steps)
  BY <1>1 DEF Walk, WalkIn, Place
<1> QED BY <1>2 DEF IsDir, IsDirIn, Kind, KindIn

IsTrail(w, t, node, steps, n) ==
  w = [i \in 0 .. n |-> IF i = 0 THEN node ELSE FindIn(t, w[i - 1], steps[i])]

LEMMA TrailExists ==
  ASSUME NEW t, NEW node, NEW steps, NEW n \in Nat
  PROVE  \E w : IsTrail(w, t, node, steps, n)
<1> DEFINE S == {m \in Nat : ~ \E w : IsTrail(w, t, node, steps, m)}
<1> SUFFICES ASSUME S # {} PROVE FALSE
  OBVIOUS
<1>1. PICK m \in S : \A l \in S : m <= l
  <2>1. S \subseteq Nat
    OBVIOUS
  <2> HIDE DEF S
  <2> QED BY <2>1, Smallest
<1>2. m # 0
  <2>1. SUFFICES ASSUME m = 0 PROVE FALSE
    OBVIOUS
  <2> DEFINE w == [i \in 0 .. 0 |-> node]
  <2>2. IsTrail(w, t, node, steps, 0)
    <3>1. \A i \in 0 .. 0 : i = 0
      OBVIOUS
    <3>2. w = [i \in 0 .. 0 |-> IF i = 0 THEN node ELSE FindIn(t, w[i - 1], steps[i])]
      BY <3>1
    <3> HIDE DEF w
    <3> QED BY <3>2 DEF IsTrail
  <2> QED BY <1>1, <2>1, <2>2
<1>3. PICK l \in Nat : m = l + 1
  <2>1. m - 1 \in Nat /\ m = m - 1 + 1
    BY <1>1, <1>2
  <2> QED BY <2>1
<1>4. PICK v : IsTrail(v, t, node, steps, l)
  <2>1. l \notin S
    BY <1>1, <1>3
  <2> QED BY <2>1
<1> DEFINE w == [i \in 0 .. m |-> IF i <= l THEN v[i] ELSE FindIn(t, v[l], steps[m])]
<1>5. \A i \in 0 .. l : v[i] = IF i = 0 THEN node ELSE FindIn(t, v[i - 1], steps[i])
  BY <1>4 DEF IsTrail
<1>6. \A i \in 0 .. m : w[i] = IF i = 0 THEN node ELSE FindIn(t, w[i - 1], steps[i])
  <2> TAKE i \in 0 .. m
  <2>1. CASE i <= l
    <3>1. i \in 0 .. l /\ (i # 0 => i - 1 \in 0 .. m /\ i - 1 <= l)
      BY <2>1, <1>3
    <3>2. w[i] = v[i] /\ (i # 0 => w[i - 1] = v[i - 1])
      BY <3>1, <2>1
    <3> QED BY <3>1, <3>2, <1>5
  <2>2. CASE i = m
    <3>1. ~(m <= l) /\ l \in 0 .. m /\ l <= l /\ m - 1 = l /\ m # 0 /\ m \in 0 .. m
      BY <1>3
    <3>2. w[m] = FindIn(t, v[l], steps[m]) /\ w[m - 1] = v[l]
      BY <3>1
    <3> QED BY <3>1, <3>2, <2>2
  <2> QED BY <2>1, <2>2, <1>3
<1>7. w = [i \in 0 .. m |-> IF i = 0 THEN node ELSE FindIn(t, w[i - 1], steps[i])]
  <2>1. w = [i \in 0 .. m |-> w[i]]
    OBVIOUS
  <2> HIDE DEF w
  <2> QED BY <1>6, <2>1
<1>8. IsTrail(w, t, node, steps, m)
  <2> HIDE DEF w
  <2> QED BY <1>7 DEF IsTrail
<1> QED BY <1>1, <1>8

LEMMA PlaceIs ==
  ASSUME NEW t, NEW node, NEW steps, NEW n \in Nat
  PROVE  \E w : IsTrail(w, t, node, steps, n) /\ Place(t, node, steps, n) = w[n]
<1> DEFINE Eq(w) == w = [i \in 0 .. n |-> IF i = 0 THEN node
                                          ELSE FindIn(t, w[i - 1], steps[i])]
<1>1. \E w : Eq(w)
  <2>1. PICK w : IsTrail(w, t, node, steps, n)
    BY TrailExists
  <2>2. Eq(w)
    BY <2>1 DEF IsTrail
  <2> HIDE DEF Eq
  <2> QED BY <2>2
<1> DEFINE c == CHOOSE w : Eq(w)
<1>2. Eq(c)
  <2> HIDE DEF Eq
  <2> QED BY <1>1
<1>3. Place(t, node, steps, n) = c[n]
  BY DEF Place
<1>4. IsTrail(c, t, node, steps, n)
  <2> HIDE DEF c
  <2> QED BY <1>2 DEF IsTrail
<1> HIDE DEF c
<1> QED BY <1>3, <1>4

LEMMA TrailsAgree ==
  ASSUME NEW t, NEW node, NEW steps, NEW m \in Nat, NEW n \in Nat, m <= n,
         NEW v, IsTrail(v, t, node, steps, m), NEW w, IsTrail(w, t, node, steps, n),
         NEW i \in 0 .. m
  PROVE  v[i] = w[i]
<1> DEFINE S == {j \in Nat : j <= m /\ v[j] # w[j]}
<1> SUFFICES ASSUME S # {} PROVE FALSE
  OBVIOUS
<1>1. PICK j \in S : \A l \in S : j <= l
  <2>1. S \subseteq Nat
    OBVIOUS
  <2> HIDE DEF S
  <2> QED BY <2>1, Smallest
<1>2. /\ \A k \in 0 .. m : v[k] = IF k = 0 THEN node ELSE FindIn(t, v[k - 1], steps[k])
      /\ \A k \in 0 .. n : w[k] = IF k = 0 THEN node ELSE FindIn(t, w[k - 1], steps[k])
  BY DEF IsTrail
<1>3. j \in 0 .. m /\ j \in 0 .. n
  BY <1>1
<1>4. j # 0
  BY <1>1, <1>2, <1>3
<1>5. j - 1 \in Nat /\ j - 1 <= m /\ ~(j <= j - 1)
  BY <1>3, <1>4
<1>6. v[j - 1] = w[j - 1]
  <2>1. j - 1 \notin S
    BY <1>1, <1>5
  <2> QED BY <2>1, <1>5
<1> QED BY <1>1, <1>2, <1>3, <1>4, <1>6

LEMMA PlaceNext ==
  ASSUME NEW t, NEW node, NEW steps, NEW n \in Nat
  PROVE  /\ Place(t, node, steps, 0) = node
         /\ Place(t, node, steps, n + 1) = FindIn(t, Place(t, node, steps, n), steps[n + 1])
<1>1. PICK u : IsTrail(u, t, node, steps, 0) /\ Place(t, node, steps, 0) = u[0]
  BY PlaceIs
<1>2. PICK v : IsTrail(v, t, node, steps, n) /\ Place(t, node, steps, n) = v[n]
  BY PlaceIs
<1>3. PICK w : IsTrail(w, t, node, steps, n + 1) /\ Place(t, node, steps, n + 1) = w[n + 1]
  <2>1. n + 1 \in Nat
    OBVIOUS
  <2> QED BY <2>1, PlaceIs
<1>4. v[n] = w[n]
  <2>1. n + 1 \in Nat /\ n <= n + 1 /\ n \in 0 .. n
    OBVIOUS
  <2> QED BY <2>1, <1>2, <1>3, TrailsAgree
<1>5. w[n + 1] = FindIn(t, w[n], steps[n + 1])
  <2>1. n + 1 \in 0 .. n + 1 /\ n + 1 # 0 /\ n + 1 - 1 = n
    OBVIOUS
  <2>2. w[n + 1] = IF n + 1 = 0 THEN node ELSE FindIn(t, w[n + 1 - 1], steps[n + 1])
    BY <2>1, <1>3 DEF IsTrail
  <2> QED BY <2>1, <2>2
<1>6. u[0] = node
  <2>1. 0 \in 0 .. 0
    OBVIOUS
  <2> QED BY <2>1, <1>1 DEF IsTrail
<1> QED BY <1>1, <1>2, <1>3, <1>4, <1>5, <1>6


(* The entries of a tree are numbered so that a directory comes before what *)
(* is in it.                                                                *)
Entry == [dir : Nat, kind : {"dir", "file"}, name : Strings, ext : Strings]
Nodes(t) == {Root} \cup 1 .. Len(t)
TreeOK(t) ==
  /\ t \in Seq(Entry)
  /\ \A i \in 1 .. Len(t) :
       /\ t[i].dir \in {Root} \cup 1 .. i - 1 /\ IsDirIn(t, t[i].dir)
       /\ Len(t[i].name) = NameMax /\ Len(t[i].ext) = ExtMax

LEMMA FindIs ==
  ASSUME NEW t, TreeOK(t), NEW d \in Nodes(t) \cup {NotFound}, NEW s
  PROVE  /\ FindIn(t, d, s) \in Nodes(t) \cup {NotFound}
         /\ FindIn(t, d, s) # NotFound => d \in Nodes(t) /\ IsDirIn(t, d)
<1>0. Len(t) \in Nat
  BY DEF TreeOK
<1>1. NotFound \notin Nat /\ Root \in Nat /\ ~IsDirIn(t, NotFound)
  BY NullAssumption DEF Root, IsDirIn, KindIn
<1>2. FindIn(t, d, s) # NotFound => d \in Nodes(t) /\ IsDirIn(t, d)
  BY <1>1 DEF FindIn
<1>3. CASE ~IsDirIn(t, d)
  BY <1>3, <1>2 DEF FindIn
<1>4. CASE IsDirIn(t, d) /\ d # Root /\ s = <<Dot>>
  BY <1>4, <1>2 DEF FindIn
<1>5. CASE IsDirIn(t, d) /\ d # Root /\ s = <<Dot, Dot>> /\ s # <<Dot>>
  <2>1. d \in 1 .. Len(t)
    BY <1>1, <1>5 DEF Nodes
  <2>2. t[d].dir \in Nodes(t)
    BY <2>1, <1>0 DEF TreeOK, Nodes
  <2>3. FindIn(t, d, s) = t[d].dir
    BY <1>5 DEF FindIn
  <2> QED BY <2>2, <2>3, <1>2
<1>6. CASE IsDirIn(t, d) /\ ~(d # Root /\ s = <<Dot>>) /\ ~(d # Root /\ s = <<Dot, Dot>>)
  <2>1. CASE MatchIn(t, d, s) = {}
    BY <2>1, <1>6, <1>2 DEF FindIn
  <2>2. CASE MatchIn(t, d, s) # {}
    <3>1. MatchIn(t, d, s) \subseteq 1 .. Len(t) /\ MatchIn(t, d, s) \subseteq Nat
      BY DEF MatchIn
    <3>2. PICK k \in MatchIn(t, d, s) : \A j \in MatchIn(t, d, s) : k <= j
      BY <3>1, <2>2, Smallest
    <3>3. FindIn(t, d, s) = CHOOSE i \in MatchIn(t, d, s) : \A j \in MatchIn(t, d, s) : i <= j
      BY <1>6, <2>2 DEF FindIn
    <3>4. FindIn(t, d, s) \in MatchIn(t, d, s)
      BY <3>2, <3>3
    <3> QED BY <3>1, <3>4, <1>2 DEF Nodes
  <2> QED BY <2>1, <2>2
<1> QED BY <1>3, <1>4, <1>5, <1>6

(* What is found stays found when an entry is added at the end.             *)
Longer(u, t) ==
  /\ Len(t) \in Nat /\ Len(u) \in Nat /\ Len(t) <= Len(u)
  /\ \A i \in 1 .. Len(t) : u[i] = t[i]

LEMMA KindKept ==
  ASSUME NEW t, NEW u, Longer(u, t), NEW d \in Nodes(t) \cup {NotFound}
  PROVE  IsDirIn(u, d) <=> IsDirIn(t, d)
BY DEF Longer, IsDirIn, KindIn, Nodes

LEMMA FindKept ==
  ASSUME NEW t, TreeOK(t), NEW u, Longer(u, t), NEW d \in Nodes(t) \cup {NotFound}, NEW s,
         FindIn(t, d, s) # NotFound
  PROVE  FindIn(u, d, s) = FindIn(t, d, s)
<1>1. IsDirIn(t, d) /\ d \in Nodes(t) /\ IsDirIn(u, d)
  BY FindIs, KindKept
<1>2. CASE d # Root /\ s = <<Dot>>
  BY <1>1, <1>2 DEF FindIn
<1>3. CASE d # Root /\ s = <<Dot, Dot>> /\ s # <<Dot>>
  <2>1. d \in 1 .. Len(t)
    BY <1>1, <1>3 DEF Nodes
  <2>2. u[d] = t[d]
    BY <2>1 DEF Longer
  <2> QED BY <2>2, <1>1, <1>3 DEF FindIn
<1>4. CASE ~(d # Root /\ s = <<Dot>>) /\ ~(d # Root /\ s = <<Dot, Dot>>)
  <2> DEFINE M == MatchIn(t, d, s)
             K == MatchIn(u, d, s)
  <2>1. /\ M \subseteq 1 .. Len(t) /\ M \subseteq K /\ K \subseteq 1 .. Len(u)
        /\ \A i \in 1 .. Len(t) : i \in K => i \in M
    BY DEF MatchIn, Longer
  <2>2. M # {} /\ K # {}
    BY <1>1, <1>4, <2>1 DEF FindIn
  <2>3. /\ FindIn(t, d, s) = CHOOSE i \in M : \A j \in M : i <= j
        /\ FindIn(u, d, s) = CHOOSE i \in K : \A j \in K : i <= j
    BY <1>1, <1>4, <2>2 DEF FindIn
  <2> HIDE DEF M, K
  <2>4. Len(t) \in Nat /\ Len(u) \in Nat
    BY DEF Longer
  <2>5. PICK k \in M : \A j \in M : k <= j
    <3>1. M \subseteq Nat
      BY <2>1
    <3> QED BY <2>2, <3>1, Smallest
  <2>6. k \in K /\ \A j \in K : k <= j
    BY <2>1, <2>4, <2>5
  <2>7. \A i \in M : (\A j \in M : i <= j) => i = k
    BY <2>1, <2>5
  <2>8. \A i \in K : (\A j \in K : i <= j) => i = k
    BY <2>1, <2>6
  <2>9. (CHOOSE i \in M : \A j \in M : i <= j) = k
    BY <2>5, <2>7
  <2>10. (CHOOSE i \in K : \A j \in K : i <= j) = k
    BY <2>6, <2>8
  <2> QED BY <2>3, <2>9, <2>10
<1> QED BY <1>2, <1>3, <1>4

LEMMA PlaceIsNode ==
  ASSUME NEW t, TreeOK(t), NEW node \in Nodes(t) \cup {NotFound}, NEW steps, NEW n \in Nat
  PROVE  Place(t, node, steps, n) \in Nodes(t) \cup {NotFound}
<1> DEFINE S == {m \in Nat : Place(t, node, steps, m) \notin Nodes(t) \cup {NotFound}}
<1> SUFFICES ASSUME S # {} PROVE FALSE
  OBVIOUS
<1>1. PICK m \in S : \A l \in S : m <= l
  <2>1. S \subseteq Nat
    OBVIOUS
  <2> HIDE DEF S
  <2> QED BY <2>1, Smallest
<1>2. m # 0
  BY <1>1, PlaceNext
<1>3. PICK l \in Nat : m = l + 1
  <2>1. m - 1 \in Nat /\ m = m - 1 + 1
    BY <1>1, <1>2
  <2> QED BY <2>1
<1>4. Place(t, node, steps, l) \in Nodes(t) \cup {NotFound}
  BY <1>1, <1>3
<1>5. Place(t, node, steps, l + 1) = FindIn(t, Place(t, node, steps, l), steps[l + 1])
  BY PlaceNext
<1>6. Place(t, node, steps, l + 1) \in Nodes(t) \cup {NotFound}
  <2> DEFINE c == Place(t, node, steps, l)
             a == steps[l + 1]
  <2>1. c \in Nodes(t) \cup {NotFound}
    BY <1>4
  <2> HIDE DEF c, a
  <2>2. FindIn(t, c, a) \in Nodes(t) \cup {NotFound}
    BY <2>1, FindIs
  <2> QED BY <2>2, <1>5 DEF c, a
<1> QED BY <1>1, <1>3, <1>6

LEMMA PlaceKept ==
  ASSUME NEW t, TreeOK(t), NEW u, Longer(u, t), NEW node \in Nodes(t) \cup {NotFound},
         NEW steps, NEW n \in Nat, Place(t, node, steps, n) # NotFound
  PROVE  Place(u, node, steps, n) = Place(t, node, steps, n)
<1> DEFINE S == {m \in Nat : /\ Place(t, node, steps, m) # NotFound
                             /\ Place(u, node, steps, m) # Place(t, node, steps, m)}
<1> SUFFICES ASSUME S # {} PROVE FALSE
  OBVIOUS
<1>1. PICK m \in S : \A l \in S : m <= l
  <2>1. S \subseteq Nat
    OBVIOUS
  <2> HIDE DEF S
  <2> QED BY <2>1, Smallest
<1>2. m # 0
  BY <1>1, PlaceNext
<1>3. PICK l \in Nat : m = l + 1
  <2>1. m - 1 \in Nat /\ m = m - 1 + 1
    BY <1>1, <1>2
  <2> QED BY <2>1
<1> DEFINE c == Place(t, node, steps, l)
           a == steps[l + 1]
<1>4. c \in Nodes(t) \cup {NotFound}
  BY PlaceIsNode
<1>5. Place(t, node, steps, m) = FindIn(t, c, a)
  BY <1>3, PlaceNext
<1>6. Place(u, node, steps, m) = FindIn(u, Place(u, node, steps, l), a)
  BY <1>3, PlaceNext
<1>7. l \notin S
  BY <1>1, <1>3
<1>8. FindIn(t, c, a) # NotFound
  BY <1>1, <1>5
<1>9. c # NotFound => Place(u, node, steps, l) = c
  BY <1>7
<1> HIDE DEF c, a
<1>10. c \in Nodes(t)
  BY <1>4, <1>8, FindIs
<1>11. c # NotFound
  <2>1. Nodes(t) \subseteq Nat
    BY DEF Nodes, Root
  <2> QED BY <1>10, <2>1, NullAssumption
<1>12. FindIn(u, c, a) = FindIn(t, c, a)
  BY <1>4, <1>8, FindKept
<1> QED BY <1>1, <1>5, <1>6, <1>9, <1>11, <1>12

(* A walk that is one after another.                                        *)
LEMMA PlaceJoin ==
  ASSUME NEW p \in Seq(Strings), NEW q \in Seq(Strings), NEW t, NEW node
  PROVE  WalkIn(t, node, p \o q) = WalkIn(t, WalkIn(t, node, p), q)
<1> DEFINE r == p \o q
           e == WalkIn(t, node, p)
<1>0. /\ Len(p) \in Nat /\ Len(q) \in Nat /\ Len(r) = Len(p) + Len(q)
      /\ \A i \in 1 .. Len(p) : r[i] = p[i]
      /\ \A i \in 1 .. Len(q) : r[Len(p) + i] = q[i]
  OBVIOUS
<1> HIDE DEF r
<1>1. ASSUME NEW n \in Nat, n <= Len(p) PROVE Place(t, node, r, n) = Place(t, node, p, n)
  <2> DEFINE S == {m \in Nat : m <= Len(p) /\ Place(t, node, r, m) # Place(t, node, p, m)}
  <2> SUFFICES ASSUME S # {} PROVE FALSE
    BY <1>1
  <2>1. PICK m \in S : \A l \in S : m <= l
    <3>1. S \subseteq Nat
      OBVIOUS
    <3> HIDE DEF S
    <3> QED BY <3>1, Smallest
  <2>2. m # 0
    BY <2>1, PlaceNext
  <2>3. PICK l \in Nat : m = l + 1
    <3>1. m - 1 \in Nat /\ m = m - 1 + 1
      BY <2>1, <2>2
    <3> QED BY <3>1
  <2>4. l \notin S /\ l <= Len(p) /\ l + 1 \in 1 .. Len(p)
    BY <2>1, <2>3, <1>0
  <2>5. Place(t, node, r, l) = Place(t, node, p, l) /\ r[l + 1] = p[l + 1]
    BY <2>4, <1>0
  <2>6. Place(t, node, r, l + 1) = FindIn(t, Place(t, node, r, l), r[l + 1])
    BY PlaceNext
  <2>7. Place(t, node, p, l + 1) = FindIn(t, Place(t, node, p, l), p[l + 1])
    BY PlaceNext
  <2>8. Place(t, node, r, m) = Place(t, node, p, m)
    BY <2>3, <2>5, <2>6, <2>7
  <2> QED BY <2>1, <2>8
<1>2. Place(t, node, r, Len(p)) = e
  BY <1>0, <1>1 DEF WalkIn
<1> HIDE DEF e
<1>3. ASSUME NEW n \in Nat, n <= Len(q)
      PROVE  Place(t, node, r, Len(p) + n) = Place(t, e, q, n)
  <2> DEFINE S == {m \in Nat : /\ m <= Len(q)
                               /\ Place(t, node, r, Len(p) + m) # Place(t, e, q, m)}
  <2> SUFFICES ASSUME S # {} PROVE FALSE
    BY <1>3
  <2>1. PICK m \in S : \A l \in S : m <= l
    <3>1. S \subseteq Nat
      OBVIOUS
    <3> HIDE DEF S
    <3> QED BY <3>1, Smallest
  <2>2. m # 0
    <3>1. Place(t, e, q, 0) = e /\ Len(p) + 0 = Len(p)
      BY PlaceNext, <1>0
    <3> QED BY <2>1, <3>1, <1>2
  <2>3. PICK l \in Nat : m = l + 1
    <3>1. m - 1 \in Nat /\ m = m - 1 + 1
      BY <2>1, <2>2
    <3> QED BY <3>1
  <2>4. l \notin S /\ l <= Len(q) /\ l + 1 \in 1 .. Len(q)
    BY <2>1, <2>3, <1>0
  <2>5. /\ Place(t, node, r, Len(p) + l) = Place(t, e, q, l)
        /\ r[Len(p) + (l + 1)] = q[l + 1]
    BY <2>4, <1>0
  <2>6. Place(t, e, q, l + 1) = FindIn(t, Place(t, e, q, l), q[l + 1])
    BY PlaceNext
  <2>7. /\ Len(p) + l \in Nat /\ Len(p) + l + 1 = Len(p) + (l + 1)
    BY <1>0
  <2>8. Place(t, node, r, Len(p) + l + 1)
          = FindIn(t, Place(t, node, r, Len(p) + l), r[Len(p) + l + 1])
    BY <2>7, PlaceNext
  <2> QED BY <2>1, <2>3, <2>5, <2>6, <2>7, <2>8
<1>4. Place(t, node, r, Len(p) + Len(q)) = Place(t, e, q, Len(q))
  BY <1>0, <1>3
<1> QED BY <1>0, <1>4 DEF WalkIn, r, e

(* It passes through directories.                                           *)
LEMMA WalkedFrom ==
  ASSUME NEW V, NEW q \in Seq(V), NEW t, TreeOK(t), NEW node \in Nodes(t) \cup {NotFound},
         IsDirIn(t, WalkIn(t, node, q))
  PROVE  IsDirIn(t, node)
<1> SUFFICES ASSUME ~IsDirIn(t, node) PROVE FALSE
  OBVIOUS
<1> DEFINE S == {m \in Nat : IsDirIn(t, Place(t, node, q, m))}
<1>1. Len(q) \in S
  BY DEF WalkIn
<1>2. PICK m \in S : \A l \in S : m <= l
  <2>1. S \subseteq Nat /\ S # {}
    BY <1>1
  <2> HIDE DEF S
  <2> QED BY <2>1, Smallest
<1>3. m # 0
  BY <1>2, PlaceNext
<1>4. PICK l \in Nat : m = l + 1
  <2>1. m - 1 \in Nat /\ m = m - 1 + 1
    BY <1>2, <1>3
  <2> QED BY <2>1
<1>5. ~IsDirIn(t, Place(t, node, q, l))
  BY <1>2, <1>4
<1>6. Place(t, node, q, m) = FindIn(t, Place(t, node, q, l), q[l + 1])
  BY <1>4, PlaceNext
<1>7. Place(t, node, q, m) = NotFound
  BY <1>5, <1>6 DEF FindIn
<1>8. ~IsDirIn(t, NotFound)
  BY NullAssumption DEF IsDirIn, KindIn, Root
<1> QED BY <1>2, <1>7, <1>8


-----------------------------------------------------------------------------
(* The components of a path.                                                *)

PieceEnd(s, p) == CHOOSE e \in p .. p + CompMax :
                    /\ e = p + CompMax \/ e = Len(s) + 1 \/ s[e] = Slash
                    /\ \A i \in p .. e - 1 : i <= Len(s) /\ s[i] # Slash
PieceNext(s, p) == IF PieceEnd(s, p) <= Len(s) /\ s[PieceEnd(s, p)] = Slash
                   THEN PieceEnd(s, p) + 1 ELSE PieceEnd(s, p)
IsSplit(w, s, m) ==
  w = [p \in m .. Len(s) + 1 |->
         IF p = Len(s) + 1 THEN <<>>
         ELSE <<SubSeq(s, p, PieceEnd(s, p) - 1)>> \o w[PieceNext(s, p)]]
Pieces(s) == CHOOSE w : IsSplit(w, s, 1)

(* Where a component that begins at p ends.                                 *)
EndsAt(s, p, e) ==
  /\ e \in p .. p + CompMax /\ e <= Len(s) + 1
  /\ e = p + CompMax \/ e = Len(s) + 1 \/ s[e] = Slash
  /\ \A i \in p .. e - 1 : i <= Len(s) /\ s[i] # Slash

LEMMA EndIs ==
  ASSUME NEW s \in Strings, NEW p \in 1 .. Len(s)
  PROVE  /\ EndsAt(s, p, PieceEnd(s, p))
         /\ \A e \in Nat : EndsAt(s, p, e) => e = PieceEnd(s, p)
         /\ PieceNext(s, p) \in p + 1 .. Len(s) + 1
<1> DEFINE S == {e \in Nat : e >= p /\ (e = p + CompMax \/ e = Len(s) + 1 \/ s[e] = Slash)}
<1>1. Len(s) \in Nat /\ p \in Nat /\ CompMax \in Nat \ {0}
  BY FieldsAssumption DEF Strings
<1>2. PICK k \in S : \A e \in S : k <= e
  <2>1. S \subseteq Nat /\ Len(s) + 1 \in S
    BY <1>1
  <2> HIDE DEF S
  <2> QED BY <2>1, Smallest
<1>3. p + CompMax \in S /\ Len(s) + 1 \in S
  BY <1>1
<1>4. k \in p .. p + CompMax /\ k <= Len(s) + 1 /\ k \in Nat
  BY <1>1, <1>2, <1>3
<1>5. \A i \in p .. k - 1 : i <= Len(s) /\ s[i] # Slash
  <2> TAKE i \in p .. k - 1
  <2>1. i \in Nat /\ i >= p /\ ~(k <= i)
    BY <1>1, <1>4
  <2>2. i \notin S
    BY <1>2, <2>1
  <2> QED BY <1>4, <2>1, <2>2, <1>1
<1>6. EndsAt(s, p, k)
  BY <1>2, <1>4, <1>5 DEF EndsAt
<1>7. ASSUME NEW e \in p .. p + CompMax,
             e = p + CompMax \/ e = Len(s) + 1 \/ s[e] = Slash,
             \A i \in p .. e - 1 : i <= Len(s) /\ s[i] # Slash
      PROVE  e = k
  <2>1. e \in S
    BY <1>1, <1>7
  <2>2. k <= e
    BY <1>2, <2>1
  <2>3. ASSUME k < e PROVE FALSE
    <3>1. k \in p .. e - 1
      BY <2>3, <1>1, <1>4
    <3>2. k <= Len(s) /\ s[k] # Slash
      BY <3>1, <1>7
    <3>3. k = p + CompMax
      BY <3>2, <1>2, <1>1
    <3> QED BY <3>3, <2>3, <1>1
  <2> QED BY <2>2, <2>3, <1>1, <1>4
<1>8. PieceEnd(s, p) = k
  <2>1. /\ k \in p .. p + CompMax
        /\ k = p + CompMax \/ k = Len(s) + 1 \/ s[k] = Slash
        /\ \A i \in p .. k - 1 : i <= Len(s) /\ s[i] # Slash
    BY <1>2, <1>4, <1>5
  <2> QED BY <2>1, <1>7 DEF PieceEnd
<1>9. \A e \in Nat : EndsAt(s, p, e) => e = k
  BY <1>7 DEF EndsAt
<1>10. PieceNext(s, p) \in p + 1 .. Len(s) + 1
  <2>1. CASE k <= Len(s) /\ s[k] = Slash
    BY <2>1, <1>1, <1>4, <1>8 DEF PieceNext
  <2>2. CASE ~(k <= Len(s) /\ s[k] = Slash)
    <3>1. k # p
      BY <2>2, <1>1, <1>2
    <3> QED BY <3>1, <2>2, <1>1, <1>4, <1>8 DEF PieceNext
  <2> QED BY <2>1, <2>2
<1> QED BY <1>6, <1>8, <1>9, <1>10

LEMMA SplitExists ==
  ASSUME NEW s \in Strings, NEW k \in Nat, k <= Len(s)
  PROVE  \E w : IsSplit(w, s, Len(s) + 1 - k)
<1> DEFINE l == Len(s)
           S == {m \in Nat : m <= l /\ ~ \E w : IsSplit(w, s, l + 1 - m)}
<1>0. l \in Nat
  BY DEF Strings
<1> SUFFICES ASSUME S # {} PROVE FALSE
  OBVIOUS
<1>1. PICK m \in S : \A n \in S : m <= n
  <2>1. S \subseteq Nat
    OBVIOUS
  <2> HIDE DEF S
  <2> QED BY <2>1, Smallest
<1> HIDE DEF l
<1>2. m # 0
  <2> DEFINE w == [q \in l + 1 .. l + 1 |-> <<>>]
  <2>1. w = [q \in l + 1 .. l + 1 |->
               IF q = l + 1 THEN <<>>
               ELSE <<SubSeq(s, q, PieceEnd(s, q) - 1)>> \o w[PieceNext(s, q)]]
    <3>1. \A q \in l + 1 .. l + 1 : q = l + 1
      BY <1>0
    <3> QED BY <3>1
  <2> HIDE DEF w
  <2>2. IsSplit(w, s, l + 1)
    BY <2>1 DEF IsSplit, l
  <2>3. l + 1 - 0 = l + 1
    BY <1>0
  <2> QED BY <1>1, <2>2, <2>3
<1>3. PICK n \in Nat : m = n + 1
  <2>1. m - 1 \in Nat /\ m = m - 1 + 1
    BY <1>1, <1>2
  <2> QED BY <2>1
<1>4. PICK v : IsSplit(v, s, l + 1 - n)
  <2>1. n \notin S /\ n <= l
    BY <1>0, <1>1, <1>3
  <2> QED BY <2>1
<1>5. PICK a \in Nat : a = l + 1 - m /\ l + 1 - n = a + 1 /\ a \in 1 .. l
  <2>1. l + 1 - m \in 1 .. l /\ l + 1 - n = l + 1 - m + 1
    BY <1>0, <1>1, <1>2, <1>3
  <2> QED BY <2>1
<1> DEFINE piece(q) == <<SubSeq(s, q, PieceEnd(s, q) - 1)>>
           w == [q \in a .. l + 1 |-> IF q = a THEN piece(a) \o v[PieceNext(s, a)] ELSE v[q]]
<1>6. PieceNext(s, a) \in a + 1 .. l + 1
  BY <1>5, EndIs DEF l
<1>7. \A q \in a + 1 .. l + 1 :
        /\ v[q] = IF q = l + 1 THEN <<>> ELSE piece(q) \o v[PieceNext(s, q)]
        /\ q # l + 1 => PieceNext(s, q) \in a + 1 .. l + 1
  <2> TAKE q \in a + 1 .. l + 1
  <2>1. v[q] = IF q = l + 1 THEN <<>> ELSE piece(q) \o v[PieceNext(s, q)]
    BY <1>4, <1>5 DEF IsSplit, l
  <2>2. q # l + 1 => PieceNext(s, q) \in a + 1 .. l + 1
    <3>1. SUFFICES ASSUME q # l + 1 PROVE PieceNext(s, q) \in a + 1 .. l + 1
      OBVIOUS
    <3>2. q \in 1 .. l
      BY <3>1, <1>0, <1>5
    <3>3. PieceNext(s, q) \in q + 1 .. l + 1
      BY <3>2, EndIs DEF l
    <3> QED BY <3>2, <3>3, <1>0, <1>5
  <2> QED BY <2>1, <2>2
<1> HIDE DEF piece
<1>8. \A q \in a .. l + 1 :
        w[q] = IF q = l + 1 THEN <<>> ELSE piece(q) \o w[PieceNext(s, q)]
  <2>1. \A q \in a + 1 .. l + 1 : w[q] = v[q]
    BY <1>0, <1>5
  <2>2. w[a] = piece(a) \o v[PieceNext(s, a)] /\ a # l + 1
    <3>1. a \in a .. l + 1 /\ a # l + 1
      BY <1>0, <1>5
    <3>2. w[a] = IF a = a THEN piece(a) \o v[PieceNext(s, a)] ELSE v[a]
      BY <3>1
    <3> QED BY <3>1, <3>2
  <2>3. w[PieceNext(s, a)] = v[PieceNext(s, a)]
    BY <2>1, <1>6
  <2> HIDE DEF w
  <2> TAKE q \in a .. l + 1
  <2>4. CASE q = a
    BY <2>2, <2>3, <2>4
  <2>5. CASE q # a
    <3>1. q \in a + 1 .. l + 1
      BY <2>5, <1>0, <1>5
    <3>2. q # l + 1 => w[PieceNext(s, q)] = v[PieceNext(s, q)]
      BY <3>1, <2>1, <1>7
    <3>3. w[q] = v[q]
      BY <3>1, <2>1
    <3> QED BY <3>1, <3>2, <3>3, <1>7
  <2> QED BY <2>4, <2>5
<1>9. w = [q \in a .. l + 1 |-> w[q]]
  OBVIOUS
<1> HIDE DEF w
<1>10. w = [q \in a .. l + 1 |-> IF q = l + 1 THEN <<>>
                                 ELSE piece(q) \o w[PieceNext(s, q)]]
  BY <1>8, <1>9
<1>11. IsSplit(w, s, a)
  BY <1>10 DEF IsSplit, piece, l
<1> QED BY <1>1, <1>5, <1>11

LEMMA PiecesAre ==
  ASSUME NEW s \in Strings
  PROVE  /\ Components(s) = Pieces(s)[1]
         /\ Pieces(s)[Len(s) + 1] = <<>>
         /\ \A p \in 1 .. Len(s) :
              Pieces(s)[p] = <<SubSeq(s, p, PieceEnd(s, p) - 1)>>
                               \o Pieces(s)[PieceNext(s, p)]
<1>0. Len(s) \in Nat
  BY DEF Strings
<1>1. IsSplit(Pieces(s), s, 1)
  <2>1. Len(s) + 1 - Len(s) = 1 /\ Len(s) <= Len(s)
    BY <1>0
  <2>2. \E w : IsSplit(w, s, 1)
    BY <2>1, <1>0, SplitExists
  <2> QED BY <2>2 DEF Pieces
<1>2. Components(s) = Pieces(s)[1]
  BY Zenon DEF Components, Pieces, IsSplit, PieceEnd, PieceNext
<1>3. \A p \in 1 .. Len(s) + 1 :
        Pieces(s)[p] = IF p = Len(s) + 1 THEN <<>>
                       ELSE <<SubSeq(s, p, PieceEnd(s, p) - 1)>>
                              \o Pieces(s)[PieceNext(s, p)]
  BY <1>1 DEF IsSplit
<1>4. Len(s) + 1 \in 1 .. Len(s) + 1
      /\ \A p \in 1 .. Len(s) : p \in 1 .. Len(s) + 1 /\ p # Len(s) + 1
  BY <1>0
<1> QED BY <1>2, <1>3, <1>4


LEMMA PieceIs ==
  ASSUME NEW s \in Strings, NEW p \in 1 .. Len(s)
  PROVE  /\ PieceEnd(s, p) \in p .. Len(s) + 1
         /\ SubSeq(s, p, PieceEnd(s, p) - 1) \in Strings
<1>1. Len(s) \in Nat /\ CompMax \in Nat
  BY FieldsAssumption DEF Strings
<1>2. EndsAt(s, p, PieceEnd(s, p))
  BY EndIs
<1> DEFINE e == PieceEnd(s, p)
<1> HIDE DEF e
<1>3. e \in p .. Len(s) + 1
  BY <1>1, <1>2 DEF EndsAt, e
<1>4. p \in Nat \ {0} /\ e - 1 \in 0 .. Len(s)
  BY <1>1, <1>3
<1>5. SubSeq(s, p, e - 1) \in Strings
  BY <1>4, PartIs
<1> QED BY <1>3, <1>5 DEF e

LEMMA PiecesTyped ==
  ASSUME NEW s \in Strings, NEW p \in 1 .. Len(s) + 1
  PROVE  Pieces(s)[p] \in Seq(Strings)
<1> DEFINE S == {q \in 1 .. Len(s) + 1 : Pieces(s)[q] \notin Seq(Strings)}
<1>0. Len(s) \in Nat /\ Len(s) + 1 \in Nat
  BY DEF Strings
<1> SUFFICES ASSUME S # {} PROVE FALSE
  OBVIOUS
<1>1. PICK q \in S : \A r \in S : r <= q
  <2>1. S \subseteq 1 .. Len(s) + 1
    OBVIOUS
  <2> HIDE DEF S
  <2> QED BY <1>0, <2>1, Largest
<1>2. q # Len(s) + 1
  <2>1. <<>> \in Seq(Strings)
    OBVIOUS
  <2>2. Pieces(s)[Len(s) + 1] = <<>>
    BY PiecesAre
  <2> QED BY <1>1, <2>1, <2>2
<1>3. q \in 1 .. Len(s)
  BY <1>0, <1>1, <1>2
<1>4. PieceNext(s, q) \in q + 1 .. Len(s) + 1
  BY <1>3, EndIs
<1>5. Pieces(s)[PieceNext(s, q)] \in Seq(Strings)
  <2>1. PieceNext(s, q) \in 1 .. Len(s) + 1 /\ ~(PieceNext(s, q) <= q)
    BY <1>0, <1>3, <1>4
  <2> QED BY <2>1, <1>1
<1>6. Pieces(s)[q] = <<SubSeq(s, q, PieceEnd(s, q) - 1)>> \o Pieces(s)[PieceNext(s, q)]
  BY <1>3, PiecesAre
<1>7. SubSeq(s, q, PieceEnd(s, q) - 1) \in Strings
  BY <1>3, PieceIs
<1> DEFINE a == SubSeq(s, q, PieceEnd(s, q) - 1)
           b == Pieces(s)[PieceNext(s, q)]
<1> HIDE DEF a, b
<1>8. <<a>> \o b \in Seq(Strings)
  <2>1. a \in Strings /\ b \in Seq(Strings)
    BY <1>5, <1>7 DEF a, b
  <2>2. <<a>> \in Seq(Strings)
    BY <2>1
  <2> QED BY <2>1, <2>2, ConcatProperties
<1> QED BY <1>1, <1>6, <1>8 DEF a, b

LEMMA ComponentsTyped ==
  ASSUME NEW s \in Strings
  PROVE  Components(s) \in Seq(Strings) /\ Components(<<>>) = <<>> /\ <<>> \in Strings
<1>1. 1 \in 1 .. Len(s) + 1
  BY DEF Strings
<1>2. Components(s) \in Seq(Strings)
  BY <1>1, PiecesAre, PiecesTyped
<1>3. <<>> \in Strings /\ Len(<<>>) + 1 = 1
  BY DEF Strings
<1>4. Components(<<>>) = Pieces(<<>>)[1] /\ Pieces(<<>>)[Len(<<>>) + 1] = <<>>
  BY <1>3, PiecesAre
<1> QED BY <1>2, <1>3, <1>4

Joined(p, q, r) == p \o q = r

(* After a slash a path goes on as if it began there.                       *)
LEMMA SplitAtSlash ==
  ASSUME NEW a \in Strings, NEW b \in Strings, a # <<>>, Last(a) = Slash
  PROVE  Components(a \o b) = Components(a) \o Components(b)
<1> DEFINE s == a \o b
           m == Len(a)
           n == Len(b)
<1>0. /\ s \in Strings /\ Len(s) = m + n /\ m \in Nat \ {0} /\ n \in Nat
      /\ \A i \in 1 .. m : s[i] = a[i]
      /\ \A i \in 1 .. n : s[m + i] = b[i]
      /\ a[m] = Slash /\ Len(a) = m /\ Len(b) = n /\ CompMax \in Nat
  BY JoinIs, FieldsAssumption DEF Strings, Last
<1> HIDE DEF s, m, n
<1>1. ASSUME NEW p \in 1 .. m
      PROVE  /\ PieceEnd(s, p) = PieceEnd(a, p) /\ PieceNext(s, p) = PieceNext(a, p)
             /\ SubSeq(s, p, PieceEnd(s, p) - 1) = SubSeq(a, p, PieceEnd(a, p) - 1)
  <2> DEFINE e == PieceEnd(a, p)
  <2>1. EndsAt(a, p, e)
    BY <1>0, EndIs
  <2> HIDE DEF e
  <2>2. e \in p .. m /\ e \in Nat /\ p \in Nat
    <3>1. e \in p .. m + 1
      BY <1>0, <2>1 DEF EndsAt
    <3>2. e # m + 1
      <4>1. SUFFICES ASSUME e = m + 1 PROVE FALSE
        OBVIOUS
      <4>2. m \in p .. e - 1
        BY <4>1, <1>0
      <4> QED BY <4>2, <2>1, <1>0 DEF EndsAt
    <3> QED BY <3>1, <3>2, <1>0
  <2>3. s[e] = a[e] /\ \A i \in p .. e - 1 : i <= m /\ s[i] = a[i]
    BY <2>2, <1>0
  <2>4. EndsAt(s, p, e)
    BY <2>1, <2>2, <2>3, <1>0 DEF EndsAt
  <2>5. PieceEnd(s, p) = e
    <3>1. p \in 1 .. Len(s)
      BY <1>0
    <3> QED BY <3>1, <2>2, <2>4, <1>0, EndIs
  <2>6. PieceNext(s, p) = PieceNext(a, p)
    BY <2>2, <2>3, <2>5, <1>0 DEF PieceNext, e
  <2>7. SubSeq(s, p, e - 1) = SubSeq(a, p, e - 1)
    <3>1. p \in Nat \ {0} /\ e - 1 \in 0 .. Len(s) /\ e - 1 \in 0 .. Len(a)
      BY <2>2, <1>0
    <3> DEFINE l == IF p <= e - 1 THEN e - 1 - p + 1 ELSE 0
    <3>2. /\ SubSeq(s, p, e - 1) \in Strings /\ Len(SubSeq(s, p, e - 1)) = l
          /\ \A i \in 1 .. l : SubSeq(s, p, e - 1)[i] = s[p + i - 1]
      BY <3>1, <1>0, PartIs
    <3>3. /\ SubSeq(a, p, e - 1) \in Strings /\ Len(SubSeq(a, p, e - 1)) = l
          /\ \A i \in 1 .. l : SubSeq(a, p, e - 1)[i] = a[p + i - 1]
      BY <3>1, <1>0, PartIs
    <3>4. \A i \in 1 .. l : p + i - 1 \in p .. e - 1
      BY <2>2
    <3> HIDE DEF l
    <3>5. \A i \in 1 .. l : SubSeq(s, p, e - 1)[i] = SubSeq(a, p, e - 1)[i]
      BY <3>2, <3>3, <3>4, <2>3
    <3> QED BY <3>2, <3>3, <3>5, Equal
  <2> QED BY <2>5, <2>6, <2>7 DEF e
<1>2. ASSUME NEW q \in 1 .. n
      PROVE  /\ PieceEnd(s, m + q) = m + PieceEnd(b, q)
             /\ PieceNext(s, m + q) = m + PieceNext(b, q)
             /\ SubSeq(s, m + q, PieceEnd(s, m + q) - 1) = SubSeq(b, q, PieceEnd(b, q) - 1)
  <2> DEFINE e == PieceEnd(b, q)
  <2>1. EndsAt(b, q, e)
    BY <1>0, EndIs
  <2> HIDE DEF e
  <2>2. e \in q .. n + 1 /\ e \in Nat /\ q \in Nat /\ e <= q + CompMax
    BY <1>0, <2>1 DEF EndsAt
  <2>3. (e <= n => s[m + e] = b[e]) /\ \A i \in q .. e - 1 : s[m + i] = b[i]
    BY <2>2, <1>0
  <2>4. EndsAt(s, m + q, m + e)
    <3>1. /\ m + e \in m + q .. m + q + CompMax /\ m + e <= Len(s) + 1
          /\ m + e = m + q + CompMax <=> e = q + CompMax
          /\ m + e = Len(s) + 1 <=> e = n + 1
      BY <2>2, <1>0
    <3>2. m + e = m + q + CompMax \/ m + e = Len(s) + 1 \/ s[m + e] = Slash
      <4>1. e = q + CompMax \/ e = n + 1 \/ b[e] = Slash
        BY <2>1, <1>0 DEF EndsAt
      <4>2. e = n + 1 \/ e <= n
        BY <2>2, <1>0
      <4> QED BY <4>1, <4>2, <3>1, <2>3
    <3>3. ASSUME NEW i \in m + q .. (m + e) - 1 PROVE i <= Len(s) /\ s[i] # Slash
      <4>1. i - m \in q .. e - 1 /\ m + (i - m) = i
        BY <2>2, <1>0
      <4>2. i - m <= n /\ b[i - m] # Slash
        BY <4>1, <2>1, <1>0 DEF EndsAt
      <4>3. s[m + (i - m)] = b[i - m]
        BY <4>1, <2>3
      <4> QED BY <4>1, <4>2, <4>3, <1>0
    <3>4. \A i \in m + q .. (m + e) - 1 : i <= Len(s) /\ s[i] # Slash
      BY <3>3
    <3> QED BY <3>1, <3>2, <3>4, Zenon DEF EndsAt
  <2>5. PieceEnd(s, m + q) = m + e
    <3>1. m + q \in 1 .. Len(s) /\ m + e \in Nat
      BY <1>0, <2>2
    <3> QED BY <3>1, <2>4, <1>0, EndIs
  <2>6. PieceNext(s, m + q) = m + PieceNext(b, q)
    <3>1. /\ m + e <= Len(s) <=> e <= n
          /\ m + e + 1 = m + (e + 1)
      BY <1>0, <2>2
    <3>2. (m + e <= Len(s) /\ s[m + e] = Slash) <=> (e <= n /\ b[e] = Slash)
      BY <3>1, <2>3
    <3>3. PieceNext(s, m + q) = IF m + e <= Len(s) /\ s[m + e] = Slash
                                THEN m + e + 1 ELSE m + e
      BY <2>5 DEF PieceNext
    <3>4. PieceNext(b, q) = IF e <= n /\ b[e] = Slash THEN e + 1 ELSE e
      BY <1>0 DEF PieceNext, e
    <3> QED BY <3>1, <3>2, <3>3, <3>4
  <2>7. SubSeq(s, m + q, (m + e) - 1) = SubSeq(b, q, e - 1)
    <3>1. /\ m + q \in Nat \ {0} /\ (m + e) - 1 \in 0 .. Len(s)
          /\ q \in Nat \ {0} /\ e - 1 \in 0 .. Len(b)
      BY <2>2, <1>0
    <3> DEFINE l == IF q <= e - 1 THEN e - 1 - q + 1 ELSE 0
    <3>2. /\ SubSeq(s, m + q, (m + e) - 1) \in Strings
          /\ Len(SubSeq(s, m + q, (m + e) - 1))
               = IF m + q <= (m + e) - 1 THEN (m + e) - 1 - (m + q) + 1 ELSE 0
          /\ \A i \in 1 .. Len(SubSeq(s, m + q, (m + e) - 1)) :
               SubSeq(s, m + q, (m + e) - 1)[i] = s[m + q + i - 1]
      BY <3>1, <1>0, PartIs
    <3>3. Len(SubSeq(s, m + q, (m + e) - 1)) = l
      <4>1. m + q <= (m + e) - 1 <=> q <= e - 1
        BY <1>0, <2>2
      <4>2. (m + e) - 1 - (m + q) + 1 = e - 1 - q + 1
        BY <1>0, <2>2
      <4> QED BY <3>2, <4>1, <4>2
    <3>4. /\ SubSeq(b, q, e - 1) \in Strings /\ Len(SubSeq(b, q, e - 1)) = l
          /\ \A i \in 1 .. l : SubSeq(b, q, e - 1)[i] = b[q + i - 1]
      BY <3>1, <1>0, PartIs
    <3>5. \A i \in 1 .. l : q + i - 1 \in q .. e - 1 /\ m + q + i - 1 = m + (q + i - 1)
      BY <2>2, <1>0
    <3> HIDE DEF l
    <3>6. ASSUME NEW i \in 1 .. l
          PROVE  SubSeq(s, m + q, (m + e) - 1)[i] = SubSeq(b, q, e - 1)[i]
      <4>1. SubSeq(s, m + q, (m + e) - 1)[i] = s[m + q + i - 1]
        BY <3>2, <3>3
      <4>2. s[m + (q + i - 1)] = b[q + i - 1]
        BY <3>5, <2>3
      <4>3. SubSeq(b, q, e - 1)[i] = b[q + i - 1]
        BY <3>4
      <4> QED BY <4>1, <4>2, <4>3, <3>5
    <3> QED BY <3>2, <3>3, <3>4, <3>6, Equal
  <2>8. PieceEnd(s, m + q) - 1 = (m + e) - 1
    BY <2>5
  <2> QED BY <2>5, <2>6, <2>7, <2>8, Zenon DEF e
<1>3. ASSUME NEW q \in 1 .. n + 1 PROVE Pieces(s)[m + q] = Pieces(b)[q]
  <2> DEFINE S == {r \in 1 .. n + 1 : Pieces(s)[m + r] # Pieces(b)[r]}
  <2> SUFFICES ASSUME S # {} PROVE FALSE
    OBVIOUS
  <2>1. PICK r \in S : \A u \in S : u <= r
    <3>1. S \subseteq 1 .. n + 1 /\ n + 1 \in Nat
      BY <1>0
    <3> HIDE DEF S
    <3> QED BY <3>1, Largest
  <2>2. r # n + 1
    <3>1. Pieces(s)[Len(s) + 1] = <<>> /\ Pieces(b)[Len(b) + 1] = <<>>
      BY <1>0, PiecesAre
    <3>2. Len(s) + 1 = m + (n + 1)
      BY <1>0
    <3> QED BY <3>1, <3>2, <2>1, <1>0
  <2>3. r \in 1 .. n /\ r \in 1 .. Len(b) /\ m + r \in 1 .. Len(s)
    BY <2>1, <2>2, <1>0
  <2>4. PieceNext(b, r) \in r + 1 .. n + 1
    BY <2>3, <1>0, EndIs
  <2>5. Pieces(s)[m + PieceNext(b, r)] = Pieces(b)[PieceNext(b, r)]
    <3>1. PieceNext(b, r) \in 1 .. n + 1 /\ ~(PieceNext(b, r) <= r)
      BY <2>3, <2>4, <1>0
    <3> QED BY <3>1, <2>1
  <2>6. Pieces(s)[m + r] = <<SubSeq(s, m + r, PieceEnd(s, m + r) - 1)>>
                             \o Pieces(s)[PieceNext(s, m + r)]
    BY <2>3, <1>0, PiecesAre
  <2>7. Pieces(b)[r] = <<SubSeq(b, r, PieceEnd(b, r) - 1)>> \o Pieces(b)[PieceNext(b, r)]
    BY <2>3, <1>0, PiecesAre
  <2>8. /\ PieceNext(s, m + r) = m + PieceNext(b, r)
        /\ SubSeq(s, m + r, PieceEnd(s, m + r) - 1) = SubSeq(b, r, PieceEnd(b, r) - 1)
    BY <2>3, <1>2
  <2> QED BY <2>1, <2>5, <2>6, <2>7, <2>8
<1> DEFINE rest == Pieces(s)[m + 1]
<1>4. rest = Components(b) /\ rest \in Seq(Strings)
  <2>1. 1 \in 1 .. n + 1
    BY <1>0
  <2>2. Pieces(s)[m + 1] = Pieces(b)[1]
    BY <2>1, <1>3
  <2> QED BY <2>2, PiecesAre, ComponentsTyped
<1>5. ASSUME NEW p \in 1 .. m + 1 PROVE Joined(Pieces(a)[p], rest, Pieces(s)[p])
  <2> DEFINE S == {r \in 1 .. m + 1 : ~Joined(Pieces(a)[r], rest, Pieces(s)[r])}
  <2> SUFFICES ASSUME S # {} PROVE FALSE
    OBVIOUS
  <2>1. PICK r \in S : \A u \in S : u <= r
    <3>1. S \subseteq 1 .. m + 1 /\ m + 1 \in Nat
      BY <1>0
    <3> HIDE DEF S
    <3> QED BY <3>1, Largest
  <2>2. r # m + 1
    <3>1. Pieces(a)[m + 1] = <<>>
      BY <1>0, PiecesAre
    <3>2. <<>> \o rest = rest
      BY <1>4
    <3>3. Joined(Pieces(a)[m + 1], rest, Pieces(s)[m + 1])
      BY <3>1, <3>2 DEF Joined
    <3> QED BY <3>3, <2>1
  <2>3. r \in 1 .. m /\ r \in 1 .. Len(a) /\ r \in 1 .. Len(s)
    BY <2>1, <2>2, <1>0
  <2> DEFINE x == SubSeq(a, r, PieceEnd(a, r) - 1)
             k == PieceNext(a, r)
  <2>4. k \in r + 1 .. m + 1
    BY <2>3, <1>0, EndIs
  <2>5. /\ Pieces(a)[r] = <<x>> \o Pieces(a)[k]
        /\ PieceNext(s, r) = k /\ SubSeq(s, r, PieceEnd(s, r) - 1) = x
    BY <2>3, <1>1, <1>0, PiecesAre
  <2>6. Pieces(s)[r] = <<x>> \o Pieces(s)[k]
    BY <2>3, <2>5, <1>0, PiecesAre
  <2>7. x \in Strings
    BY <2>3, PieceIs
  <2> HIDE DEF x, k
  <2>8. k \in 1 .. Len(a) + 1 /\ ~(k <= r)
    BY <2>3, <2>4, <1>0
  <2>9. Pieces(a)[k] \o rest = Pieces(s)[k]
    BY <2>8, <2>1, <1>0 DEF Joined
  <2>10. Pieces(a)[k] \in Seq(Strings) /\ <<x>> \in Seq(Strings)
    BY <2>7, <2>8, PiecesTyped
  <2>11. (<<x>> \o Pieces(a)[k]) \o rest = <<x>> \o (Pieces(a)[k] \o rest)
    <3> DEFINE y == <<x>>
               z == Pieces(a)[k]
    <3>1. y \in Seq(Strings) /\ z \in Seq(Strings) /\ rest \in Seq(Strings)
      BY <2>10, <1>4
    <3> HIDE DEF y, z, rest
    <3>2. (y \o z) \o rest = y \o (z \o rest)
      BY <3>1, ConcatAssociative
    <3> QED BY <3>2 DEF y, z
  <2>12. Joined(Pieces(a)[r], rest, Pieces(s)[r])
    BY <2>5, <2>6, <2>9, <2>11 DEF Joined
  <2> QED BY <2>12, <2>1
<1>6. 1 \in 1 .. m + 1
  BY <1>0
<1>7. Components(a) = Pieces(a)[1] /\ Components(s) = Pieces(s)[1]
  BY <1>0, PiecesAre
<1> HIDE DEF rest
<1>8. Pieces(a)[1] \o rest = Pieces(s)[1]
  BY <1>5, <1>6 DEF Joined
<1> QED BY <1>4, <1>7, <1>8 DEF s


(* The slash after a component that is not empty adds nothing.              *)
LEMMA SlashEnds ==
  ASSUME NEW a \in Strings, a # <<>>, Last(a) # Slash
  PROVE  Components(Append(a, Slash)) = Components(a)
<1> DEFINE s == Append(a, Slash)
           m == Len(a)
<1>0. /\ s \in Strings /\ Len(s) = m + 1 /\ m \in Nat \ {0} /\ Len(a) = m
      /\ \A i \in 1 .. m : s[i] = a[i]
      /\ s[m + 1] = Slash /\ a[m] # Slash /\ CompMax \in Nat
  <2>1. m \in Nat \ {0} /\ a[m] # Slash
    BY DEF Strings, Last
  <2>2. Slash \in Letters /\ CompMax \in Nat
    BY ArgsAssumption, FieldsAssumption
  <2> QED BY <2>1, <2>2, AppendIs
<1> HIDE DEF s, m
<1>1. ASSUME NEW p \in 1 .. m
      PROVE  /\ PieceNext(a, p) <= m => PieceNext(s, p) = PieceNext(a, p)
             /\ PieceNext(a, p) = m + 1 => PieceNext(s, p) = m + 2
             /\ SubSeq(s, p, PieceEnd(s, p) - 1) = SubSeq(a, p, PieceEnd(a, p) - 1)
  <2> DEFINE e == PieceEnd(a, p)
  <2>1. EndsAt(a, p, e)
    BY <1>0, EndIs
  <2> HIDE DEF e
  <2>2. e \in p .. m + 1 /\ e \in Nat /\ p \in Nat
    BY <1>0, <2>1 DEF EndsAt
  <2>3. (e <= m => s[e] = a[e]) /\ \A i \in p .. e - 1 : i <= m /\ s[i] = a[i]
    BY <2>2, <1>0
  <2>4. EndsAt(s, p, e)
    <3>1. e \in p .. p + CompMax /\ e <= Len(s) + 1
      BY <2>1, <2>2, <1>0 DEF EndsAt
    <3>2. e = p + CompMax \/ e = Len(s) + 1 \/ s[e] = Slash
      <4>1. e = p + CompMax \/ e = m + 1 \/ a[e] = Slash
        BY <2>1, <1>0 DEF EndsAt
      <4>2. e <= m \/ e = m + 1
        BY <2>2, <1>0
      <4> QED BY <4>1, <4>2, <2>3, <1>0
    <3>3. \A i \in p .. e - 1 : i <= Len(s) /\ s[i] # Slash
      BY <2>1, <2>2, <2>3, <1>0 DEF EndsAt
    <3> QED BY <3>1, <3>2, <3>3, Zenon DEF EndsAt
  <2>5. PieceEnd(s, p) = e
    <3>1. p \in 1 .. Len(s)
      BY <1>0
    <3> QED BY <3>1, <2>2, <2>4, <1>0, EndIs
  <2>6. /\ PieceNext(a, p) <= m => PieceNext(s, p) = PieceNext(a, p)
        /\ PieceNext(a, p) = m + 1 => PieceNext(s, p) = m + 2
    <3>1. PieceNext(a, p) = IF e <= m /\ a[e] = Slash THEN e + 1 ELSE e
      BY <1>0 DEF PieceNext, e
    <3>2. PieceNext(s, p) = IF e <= m + 1 /\ s[e] = Slash THEN e + 1 ELSE e
      BY <1>0, <2>5 DEF PieceNext
    <3>3. CASE e <= m /\ a[e] = Slash
      BY <3>1, <3>2, <3>3, <2>2, <2>3, <1>0
    <3>4. CASE e <= m /\ a[e] # Slash
      BY <3>1, <3>2, <3>4, <2>2, <2>3, <1>0
    <3>5. CASE e = m + 1
      BY <3>1, <3>2, <3>5, <2>2, <2>3, <1>0
    <3> QED BY <3>3, <3>4, <3>5, <2>2, <1>0
  <2>7. SubSeq(s, p, e - 1) = SubSeq(a, p, e - 1)
    <3>1. p \in Nat \ {0} /\ e - 1 \in 0 .. Len(s) /\ e - 1 \in 0 .. Len(a)
      BY <2>2, <1>0
    <3> DEFINE l == IF p <= e - 1 THEN e - 1 - p + 1 ELSE 0
    <3>2. /\ SubSeq(s, p, e - 1) \in Strings /\ Len(SubSeq(s, p, e - 1)) = l
          /\ \A i \in 1 .. l : SubSeq(s, p, e - 1)[i] = s[p + i - 1]
      BY <3>1, <1>0, PartIs
    <3>3. /\ SubSeq(a, p, e - 1) \in Strings /\ Len(SubSeq(a, p, e - 1)) = l
          /\ \A i \in 1 .. l : SubSeq(a, p, e - 1)[i] = a[p + i - 1]
      BY <3>1, <1>0, PartIs
    <3>4. \A i \in 1 .. l : p + i - 1 \in p .. e - 1
      BY <2>2
    <3> HIDE DEF l
    <3>5. \A i \in 1 .. l : SubSeq(s, p, e - 1)[i] = SubSeq(a, p, e - 1)[i]
      BY <3>2, <3>3, <3>4, <2>3
    <3> QED BY <3>2, <3>3, <3>5, Equal
  <2> QED BY <2>5, <2>6, <2>7 DEF e
<1>2. ASSUME NEW p \in 1 .. m PROVE Pieces(s)[p] = Pieces(a)[p]
  <2> DEFINE S == {r \in 1 .. m : Pieces(s)[r] # Pieces(a)[r]}
  <2> SUFFICES ASSUME S # {} PROVE FALSE
    OBVIOUS
  <2>1. PICK r \in S : \A u \in S : u <= r
    <3>1. S \subseteq 1 .. m /\ m \in Nat
      BY <1>0
    <3> HIDE DEF S
    <3> QED BY <3>1, Largest
  <2>2. r \in 1 .. m /\ r \in 1 .. Len(a) /\ r \in 1 .. Len(s)
    BY <2>1, <1>0
  <2> DEFINE k == PieceNext(a, r)
             x == SubSeq(a, r, PieceEnd(a, r) - 1)
             l == PieceNext(s, r)
  <2>3. k \in r + 1 .. m + 1
    BY <2>2, <1>0, EndIs
  <2>4. Pieces(a)[r] = <<x>> \o Pieces(a)[k]
    BY <2>2, PiecesAre
  <2>5. SubSeq(s, r, PieceEnd(s, r) - 1) = x /\ (k <= m => l = k) /\ (k = m + 1 => l = m + 2)
    BY <2>2, <1>1
  <2>6. Pieces(s)[r] = <<x>> \o Pieces(s)[l]
    BY <2>2, <2>5, <1>0, PiecesAre
  <2> HIDE DEF k, x, l
  <2>7. Pieces(s)[l] = Pieces(a)[k]
    <3>1. CASE k <= m
      <4>1. k \in 1 .. m /\ ~(k <= r)
        BY <3>1, <2>2, <2>3, <1>0
      <4> QED BY <4>1, <3>1, <2>1, <2>5
    <3>2. CASE k = m + 1
      <4>1. Pieces(s)[Len(s) + 1] = <<>> /\ Pieces(a)[Len(a) + 1] = <<>>
        BY <1>0, PiecesAre
      <4>2. Len(s) + 1 = m + 2 /\ Len(a) + 1 = m + 1
        BY <1>0
      <4> QED BY <4>1, <4>2, <3>2, <2>5
    <3> QED BY <3>1, <3>2, <2>3, <1>0
  <2> QED BY <2>1, <2>4, <2>6, <2>7
<1>3. 1 \in 1 .. m
  BY <1>0
<1>4. Components(a) = Pieces(a)[1] /\ Components(s) = Pieces(s)[1]
  BY <1>0, PiecesAre
<1> QED BY <1>2, <1>3, <1>4 DEF s

(* A string without a slash that is not too long is one component.          *)
LEMMA OneComponent ==
  ASSUME NEW s \in Strings, s # <<>>, Len(s) <= CompMax,
         \A i \in 1 .. Len(s) : s[i] # Slash
  PROVE  Components(s) = <<s>>
<1> DEFINE n == Len(s)
<1>0. n \in Nat \ {0} /\ CompMax \in Nat /\ Len(s) = n /\ n <= CompMax
  BY FieldsAssumption DEF Strings
<1> HIDE DEF n
<1>1. 1 \in 1 .. n /\ 1 \in 1 .. Len(s) /\ n + 1 \in Nat
  BY <1>0
<1>2. EndsAt(s, 1, n + 1)
  BY <1>0 DEF EndsAt
<1>3. PieceEnd(s, 1) = n + 1
  BY <1>1, <1>2, EndIs
<1>4. PieceNext(s, 1) = n + 1
  BY <1>0, <1>3 DEF PieceNext
<1>5. SubSeq(s, 1, (n + 1) - 1) = s
  <2>1. (n + 1) - 1 = Len(s)
    BY <1>0
  <2>2. SubSeq(s, 1, Len(s)) = s
    BY SubSeqFull DEF Strings
  <2> QED BY <2>1, <2>2
<1>6. Pieces(s)[n + 1] = <<>>
  BY <1>0, PiecesAre
<1>7. Pieces(s)[1] = <<SubSeq(s, 1, PieceEnd(s, 1) - 1)>> \o Pieces(s)[PieceNext(s, 1)]
  BY <1>1, PiecesAre
<1>8. <<s>> \o <<>> = <<s>>
  OBVIOUS
<1>9. Pieces(s)[1] = <<s>>
  <2>1. Pieces(s)[1] = <<SubSeq(s, 1, PieceEnd(s, 1) - 1)>> \o <<>>
    BY <1>4, <1>6, <1>7
  <2>2. SubSeq(s, 1, PieceEnd(s, 1) - 1) = s
    BY <1>3, <1>5, Zenon
  <2> QED BY <2>1, <2>2, <1>8, Zenon
<1> QED BY <1>9, PiecesAre

(* A string is what stands before a slash in it, the slash, and the rest.   *)
LEMMA AtSlash ==
  ASSUME NEW s \in Strings, NEW k \in 1 .. Len(s), s[k] = Slash
  PROVE  /\ SubSeq(s, 1, k) = Append(SubSeq(s, 1, k - 1), Slash)
         /\ SubSeq(s, 1, k) \in Strings /\ SubSeq(s, 1, k - 1) \in Strings
         /\ SubSeq(s, k + 1, Len(s)) \in Strings
         /\ s = SubSeq(s, 1, k) \o SubSeq(s, k + 1, Len(s))
         /\ Components(s) = Components(SubSeq(s, 1, k)) \o Components(SubSeq(s, k + 1, Len(s)))
<1> DEFINE n == Len(s)
           a == SubSeq(s, 1, k)
           b == SubSeq(s, k + 1, n)
           c == SubSeq(s, 1, k - 1)
<1>0. n \in Nat /\ k \in Nat \ {0} /\ k <= n /\ Slash \in Letters /\ Len(s) = n
  BY ArgsAssumption DEF Strings
<1> HIDE DEF n
<1>1. a \in Strings /\ Len(a) = k /\ \A i \in 1 .. k : a[i] = s[i]
  <2>1. 1 \in Nat \ {0} /\ k \in 0 .. Len(s)
    BY <1>0
  <2>2. Len(a) = IF 1 <= k THEN k - 1 + 1 ELSE 0
    BY <2>1, PartIs
  <2>3. a \in Strings /\ \A i \in 1 .. Len(a) : a[i] = s[1 + i - 1]
    BY <2>1, PartIs
  <2>4. \A i \in Nat : 1 + i - 1 = i
    OBVIOUS
  <2> HIDE DEF a
  <2> QED BY <2>2, <2>3, <2>4, <1>0
<1>2. c \in Strings /\ Len(c) = k - 1 /\ \A i \in 1 .. k - 1 : c[i] = s[i]
  <2>1. 1 \in Nat \ {0} /\ k - 1 \in 0 .. Len(s)
    BY <1>0
  <2>2. Len(c) = IF 1 <= k - 1 THEN k - 1 - 1 + 1 ELSE 0
    BY <2>1, PartIs
  <2>3. c \in Strings /\ \A i \in 1 .. Len(c) : c[i] = s[1 + i - 1]
    BY <2>1, PartIs
  <2>4. \A i \in Nat : 1 + i - 1 = i
    OBVIOUS
  <2> HIDE DEF c
  <2> QED BY <2>2, <2>3, <2>4, <1>0
<1>3. b \in Strings /\ Len(b) = n - k /\ \A i \in 1 .. n - k : b[i] = s[k + i]
  <2>1. k + 1 \in Nat \ {0} /\ n \in 0 .. Len(s)
    BY <1>0
  <2>2. Len(b) = IF k + 1 <= n THEN n - (k + 1) + 1 ELSE 0
    BY <2>1, PartIs
  <2>3. b \in Strings /\ \A i \in 1 .. Len(b) : b[i] = s[k + 1 + i - 1]
    BY <2>1, PartIs
  <2>4. \A i \in Nat : k + 1 + i - 1 = k + i
    BY <1>0
  <2> HIDE DEF b
  <2>5. Len(b) = n - k
    BY <2>2, <1>0
  <2> QED BY <2>3, <2>4, <2>5, <1>0
<1> HIDE DEF a, b, c
<1>4. a = Append(c, Slash)
  <2> DEFINE d == Append(c, Slash)
  <2>1. /\ d \in Strings /\ Len(d) = Len(c) + 1
        /\ \A i \in 1 .. Len(c) : d[i] = c[i]
        /\ d[Len(c) + 1] = Slash
    BY <1>0, <1>2, AppendIs
  <2> HIDE DEF d
  <2>2. Len(d) = k /\ Len(c) + 1 = k
    BY <2>1, <1>0, <1>2
  <2>3. \A i \in 1 .. k : a[i] = d[i]
    <3> TAKE i \in 1 .. k
    <3>1. CASE i = k
      BY <3>1, <2>1, <2>2, <1>1, <1>0
    <3>2. CASE i # k
      <4>1. i \in 1 .. k - 1
        BY <3>2, <1>0
      <4> QED BY <4>1, <2>1, <1>1, <1>2
    <3> QED BY <3>1, <3>2
  <2>4. a = d
    BY <2>1, <2>2, <2>3, <1>1, Equal
  <2> QED BY <2>4 DEF d
<1>5. s = a \o b
  <2> DEFINE d == a \o b
  <2>1. /\ d \in Strings /\ Len(d) = Len(a) + Len(b)
        /\ \A i \in 1 .. Len(a) : d[i] = a[i]
        /\ \A i \in 1 .. Len(b) : d[Len(a) + i] = b[i]
    BY <1>1, <1>3, JoinIs
  <2> HIDE DEF d
  <2>2. Len(d) = n
    BY <2>1, <1>0, <1>1, <1>3
  <2>3. \A i \in 1 .. n : s[i] = d[i]
    <3> TAKE i \in 1 .. n
    <3>1. CASE i <= k
      <4>1. i \in 1 .. k
        BY <3>1, <1>0
      <4> QED BY <4>1, <2>1, <1>1
    <3>2. CASE i > k
      <4>1. i - k \in 1 .. n - k /\ k + (i - k) = i
        BY <3>2, <1>0
      <4>2. d[k + (i - k)] = b[i - k]
        BY <4>1, <2>1, <1>1, <1>3
      <4>3. b[i - k] = s[k + (i - k)]
        BY <4>1, <1>3
      <4> QED BY <4>1, <4>2, <4>3
    <3> QED BY <3>1, <3>2, <1>0
  <2>4. s = d
    BY <2>1, <2>2, <2>3, <1>0, Equal
  <2> QED BY <2>4 DEF d
<1>6. a # <<>> /\ Last(a) = Slash
  <2>1. a[k] = Slash
    BY <1>0, <1>1
  <2> QED BY <2>1, <1>0, <1>1 DEF Last
<1>7. Components(a \o b) = Components(a) \o Components(b)
  BY <1>1, <1>3, <1>6, SplitAtSlash
<1> QED BY <1>1, <1>2, <1>3, <1>4, <1>5, <1>7 DEF a, b, c, n

(* What a path leads through before a slash, it leads through with it.      *)
Leads(p, q) == \E x \in Seq(Strings) : Joined(p, x, q)

LEMMA CutLeads ==
  ASSUME NEW s \in Strings, NEW k \in 1 .. Len(s), s[k] = Slash
  PROVE  Leads(Components(SubSeq(s, 1, k - 1)), Components(s))
<1> DEFINE a == SubSeq(s, 1, k)
           b == SubSeq(s, k + 1, Len(s))
           c == SubSeq(s, 1, k - 1)
<1>1. /\ a = Append(c, Slash) /\ a \in Strings /\ b \in Strings /\ c \in Strings
      /\ Components(s) = Components(a) \o Components(b)
  BY AtSlash
<1> HIDE DEF a, b, c
<1>2. /\ Components(a) \in Seq(Strings) /\ Components(b) \in Seq(Strings)
      /\ Components(c) \in Seq(Strings) /\ Components(s) \in Seq(Strings)
  BY <1>1, ComponentsTyped
<1>3. CASE c = <<>>
  <2>1. Components(c) = <<>>
    BY <1>1, <1>3, ComponentsTyped
  <2>2. Components(c) \o Components(s) = Components(s)
    BY <2>1, <1>2
  <2> QED BY <2>2, <1>2 DEF Leads, Joined, c
<1>4. CASE c # <<>> /\ Last(c) # Slash
  <2>1. Components(a) = Components(c)
    BY <1>1, <1>4, SlashEnds
  <2> QED BY <2>1, <1>1, <1>2 DEF Leads, Joined, c
<1>5. CASE c # <<>> /\ Last(c) = Slash
  <2> DEFINE d == <<Slash>>
  <2>1. d \in Strings
    BY ArgsAssumption DEF Strings
  <2>2. Append(c, Slash) = c \o d
    BY <1>1, ArgsAssumption, AppendIsConcat DEF Strings
  <2> HIDE DEF d
  <2>3. Components(c \o d) = Components(c) \o Components(d)
    BY <1>1, <1>5, <2>1, SplitAtSlash
  <2>4. Components(d) \in Seq(Strings)
    BY <2>1, ComponentsTyped
  <2> DEFINE x == Components(c)
             y == Components(d)
             z == Components(b)
  <2>5. x \in Seq(Strings) /\ y \in Seq(Strings) /\ z \in Seq(Strings)
    BY <1>2, <2>4
  <2>6. Components(s) = (x \o y) \o z
    BY <1>1, <2>2, <2>3
  <2> HIDE DEF x, y, z
  <2>7. y \o z \in Seq(Strings) /\ x \o (y \o z) = (x \o y) \o z
    <3>1. y \o z \in Seq(Strings)
      BY <2>5, ConcatProperties
    <3>2. (x \o y) \o z = x \o (y \o z)
      BY <2>5, ConcatAssociative
    <3> QED BY <3>1, <3>2
  <2>8. Leads(x, Components(s))
    BY <2>6, <2>7 DEF Leads, Joined
  <2> QED BY <2>8 DEF x, c
<1> QED BY <1>3, <1>4, <1>5


-----------------------------------------------------------------------------
(* The invariant: the path is absolute, fits and leads to a directory of a  *)
(* tree.                                                                    *)

OpenIn(t, s) ==
  WalkIn(t, Root, Components(IF s # <<>> /\ s[1] = Slash THEN Tail(s) ELSE s))

PathsInv ==
  /\ current_path \in Strings /\ current_path # <<>> /\ current_path[1] = Slash
  /\ Len(current_path) < Size
  /\ TreeOK(tree) /\ Len(tree) <= MaxEntries
  /\ IsDirIn(tree, OpenIn(tree, current_path))

LEMMA OpenIs ==
  ASSUME NEW s
  PROVE  vfs_open(s) = OpenIn(tree, s)
BY WalkIs DEF vfs_open, OpenIn

LEMMA RootOpens ==
  ASSUME NEW t
  PROVE  OpenIn(t, <<Slash>>) = Root /\ IsDirIn(t, Root)
<1>1. <<Slash>> # <<>> /\ <<Slash>>[1] = Slash /\ Tail(<<Slash>>) = <<>>
  OBVIOUS
<1>2. <<>> \in Strings
  BY DEF Strings
<1>3. OpenIn(t, <<Slash>>) = WalkIn(t, Root, Components(<<>>))
  BY <1>1 DEF OpenIn
<1>4. Components(<<>>) = <<>> /\ Len(<<>>) = 0 /\ 0 \in Nat
  BY <1>2, ComponentsTyped
<1>5. WalkIn(t, Root, <<>>) = Root
  BY <1>4, PlaceNext DEF WalkIn
<1> QED BY <1>3, <1>4, <1>5 DEF IsDirIn, KindIn

LEMMA OpenIsNode ==
  ASSUME NEW t, TreeOK(t), NEW s \in Strings
  PROVE  OpenIn(t, s) \in Nodes(t) \cup {NotFound}
         /\ (IsDirIn(t, OpenIn(t, s)) => OpenIn(t, s) \in Nodes(t))
<1> DEFINE r == IF s # <<>> /\ s[1] = Slash THEN Tail(s) ELSE s
           c == Components(r)
<1>1. Root \in Nodes(t) /\ Root \in Nodes(t) \cup {NotFound}
  BY DEF Nodes
<1>2. Len(c) \in Nat
  <2>1. r \in Strings
    BY DEF Strings
  <2> HIDE DEF r
  <2>2. c \in Seq(Strings)
    BY <2>1, ComponentsTyped
  <2> QED BY <2>2
<1> HIDE DEF c
<1>3. WalkIn(t, Root, c) \in Nodes(t) \cup {NotFound}
  BY <1>1, <1>2, PlaceIsNode DEF WalkIn
<1>4. OpenIn(t, s) = WalkIn(t, Root, c)
  BY DEF OpenIn, c
<1>5. ~IsDirIn(t, NotFound)
  BY NullAssumption DEF IsDirIn, KindIn, Root
<1> QED BY <1>3, <1>4, <1>5

LEMMA TailIs ==
  ASSUME NEW s \in Strings, s # <<>>
  PROVE  /\ Tail(s) \in Strings /\ Len(Tail(s)) = Len(s) - 1 /\ Len(s) \in Nat \ {0}
         /\ \A i \in 1 .. Len(s) - 1 : Tail(s)[i] = s[i + 1]
BY DEF Strings

LEMMA PathsInitOK == PathsInit => PathsInv
<1> SUFFICES ASSUME PathsInit PROVE PathsInv
  OBVIOUS
<1>1. current_path = <<Slash>> /\ tree = <<>>
  BY DEF PathsInit
<1>2. current_path \in Strings /\ current_path # <<>> /\ current_path[1] = Slash
      /\ Len(current_path) = 1
  BY <1>1, ArgsAssumption DEF Strings
<1>3. tree \in Seq(Entry) /\ Len(tree) = 0
  BY <1>1
<1>4. TreeOK(tree)
  BY <1>3 DEF TreeOK
<1>5. IsDirIn(tree, OpenIn(tree, current_path))
  BY <1>1, RootOpens
<1> QED BY <1>2, <1>3, <1>4, <1>5, BuffersAssumption DEF PathsInv

LEMMA CurrentIs ==
  ASSUME PathsInv
  PROVE  CurrentDirExists
<1>1. IsDir(vfs_open(current_path))
  BY OpenIs, WalkIs DEF PathsInv
<1>2. \A i \in 1 .. Len(tree) : IsDir(tree[i].dir)
  BY DEF PathsInv, TreeOK, IsDir, IsDirIn, Kind, KindIn
<1>3. PathsTypeOK
  BY <1>2 DEF PathsTypeOK, PathsInv, TreeOK
<1> QED BY <1>1, <1>3 DEF CurrentDirExists

(* A path is absolute, however it was given.                                *)
LEMMA Starts ==
  ASSUME NEW arg \in Strings, PathsInv
  PROVE  path_resolve(arg) # <<>> /\ path_resolve(arg)[1] = Slash
<1>0. Size \in Nat \ {0, 1} /\ Size \in Nat \ {0} /\ Slash \in Letters
  BY BuffersAssumption, ArgsAssumption
<1>1. /\ current_path \in Strings /\ strlcpy(current_path, Size) = current_path
      /\ current_path # <<>> /\ current_path[1] = Slash /\ Len(current_path) \in Nat \ {0}
      /\ Len(current_path) < Size
  BY <1>0, CopyIs DEF PathsInv, Strings
<1>2. CASE arg = <<>>
  BY <1>1, <1>2 DEF path_resolve, Resolved
<1>3. CASE arg # <<>> /\ arg[1] = Slash
  <2>1. path_resolve(arg) = Cut(arg, Size - 1)
    BY <1>3 DEF path_resolve, Resolved, strlcpy
  <2>2. Len(arg) \in Nat \ {0} /\ Size - 1 \in Nat \ {0}
    BY <1>0, <1>3 DEF Strings
  <2>3. /\ Len(Cut(arg, Size - 1)) = IF Len(arg) < Size - 1 THEN Len(arg) ELSE Size - 1
        /\ \A i \in 1 .. Len(Cut(arg, Size - 1)) : Cut(arg, Size - 1)[i] = arg[i]
    BY <2>2, CutIs
  <2>4. 1 \in 1 .. Len(Cut(arg, Size - 1))
    <3> DEFINE l == Len(Cut(arg, Size - 1))
    <3>1. l = IF Len(arg) < Size - 1 THEN Len(arg) ELSE Size - 1
      BY <2>3
    <3> HIDE DEF l
    <3>2. 1 \in 1 .. l
      BY <2>2, <3>1, <1>0
    <3> QED BY <3>2 DEF l
  <2>5. Cut(arg, Size - 1)[1] = Slash
    BY <2>3, <2>4, <1>3
  <2> QED BY <2>1, <2>4, <2>5
<1>4. CASE arg # <<>> /\ arg[1] # Slash
  <2> DEFINE out == IF Last(current_path) # Slash /\ Len(current_path) < Size - 1
                    THEN Append(current_path, Slash) ELSE current_path
             rest == strlcpy(arg, Size - Len(out))
  <2>1. path_resolve(arg) = out \o rest
    BY <1>1, <1>4 DEF path_resolve, Resolved
  <2>2. /\ Append(current_path, Slash) \in Strings
        /\ Len(Append(current_path, Slash)) = Len(current_path) + 1
        /\ \A i \in 1 .. Len(current_path) : Append(current_path, Slash)[i] = current_path[i]
    BY <1>0, <1>1, AppendIs
  <2>3. 1 \in 1 .. Len(current_path)
    BY <1>1
  <2>4. out \in Strings /\ Len(out) \in Nat \ {0} /\ Len(out) < Size /\ out[1] = Slash
    BY <2>2, <2>3, <1>0, <1>1
  <2> HIDE DEF out
  <2>5. Size - Len(out) \in Nat \ {0}
    BY <2>4, <1>0
  <2>6. rest \in Strings
    BY <2>5, CopyIs
  <2> HIDE DEF rest
  <2>7. /\ Len(out \o rest) = Len(out) + Len(rest) /\ Len(rest) \in Nat
        /\ out \o rest \in Strings
        /\ \A i \in 1 .. Len(out) : (out \o rest)[i] = out[i]
    BY <2>4, <2>6, JoinIs DEF Strings
  <2>8. 1 \in 1 .. Len(out)
    BY <2>4
  <2>9. (out \o rest)[1] = Slash /\ Len(out \o rest) # 0
    BY <2>4, <2>7, <2>8
  <2>10. out \o rest # <<>>
    BY <2>9, <2>7 DEF Strings
  <2> QED BY <2>1, <2>9, <2>10
<1> QED BY <1>2, <1>3, <1>4

LEMMA UpOpens ==
  ASSUME NEW t, TreeOK(t), NEW s \in Strings, s # <<>>, s[1] = Slash, LastSlash(s) # 0,
         IsDirIn(t, OpenIn(t, s))
  PROVE  /\ Cut(s, LastSlash(s)) \in Strings /\ Cut(s, LastSlash(s)) # <<>>
         /\ Cut(s, LastSlash(s))[1] = Slash /\ Len(Cut(s, LastSlash(s))) <= Len(s)
         /\ IsDirIn(t, OpenIn(t, Cut(s, LastSlash(s))))
<1>1. PICK l \in Nat : l = LastSlash(s) /\ l # 0 /\ l < Len(s) /\ s[l + 1] = Slash
  BY LastSlashIs
<1> DEFINE u == Cut(s, l)
           r == Tail(s)
           c == SubSeq(r, 1, l - 1)
<1>2. Len(s) \in Nat
  BY DEF Strings
<1>3. /\ u \in Strings /\ Len(u) = l /\ \A i \in 1 .. l : u[i] = s[i]
  BY <1>1, <1>2, CutIs
<1> HIDE DEF u
<1>4. u # <<>> /\ u[1] = Slash
  <2>1. 1 \in 1 .. l
    BY <1>1
  <2> QED BY <2>1, <1>1, <1>3
<1>5. /\ r \in Strings /\ Len(r) = Len(s) - 1
      /\ \A i \in 1 .. Len(s) - 1 : r[i] = s[i + 1]
  BY TailIs
<1>6. l \in 1 .. Len(r) /\ r[l] = Slash
  BY <1>1, <1>2, <1>5
<1>7. Leads(Components(c), Components(r))
  <2> HIDE DEF r
  <2> QED BY <1>5, <1>6, CutLeads
<1>8. Tail(u) = c
  <2>1. Tail(u) \in Strings /\ Len(Tail(u)) = l - 1
        /\ \A i \in 1 .. l - 1 : Tail(u)[i] = u[i + 1]
    BY <1>3, <1>4, TailIs
  <2>2. /\ c \in Strings /\ Len(c) = l - 1
        /\ \A i \in 1 .. l - 1 : c[i] = r[i]
    <3>1. 1 \in Nat \ {0} /\ l - 1 \in 0 .. Len(r)
      BY <1>1, <1>6, <1>2, <1>5
    <3> HIDE DEF r
    <3>2. /\ c \in Strings /\ Len(c) = IF 1 <= l - 1 THEN l - 1 - 1 + 1 ELSE 0
          /\ \A i \in 1 .. Len(c) : c[i] = r[1 + i - 1]
      BY <3>1, <1>5, PartIs
    <3>3. \A i \in Nat : 1 + i - 1 = i
      OBVIOUS
    <3> HIDE DEF c
    <3> QED BY <3>2, <3>3, <1>1
  <2> HIDE DEF r, c
  <2>3. \A i \in 1 .. l - 1 : Tail(u)[i] = c[i]
    <3> TAKE i \in 1 .. l - 1
    <3>1. i + 1 \in 1 .. l /\ i \in 1 .. Len(s) - 1
      BY <1>1, <1>2
    <3>2. Tail(u)[i] = u[i + 1] /\ u[i + 1] = s[i + 1]
      BY <3>1, <2>1, <1>3
    <3>3. c[i] = r[i] /\ r[i] = s[i + 1]
      BY <3>1, <2>2, <1>5
    <3> QED BY <3>2, <3>3
  <2> QED BY <2>1, <2>2, <2>3, Equal
<1>9. c \in Strings
  BY <1>3, <1>4, <1>8, TailIs
<1> HIDE DEF r, c
<1>10. /\ OpenIn(t, s) = WalkIn(t, Root, Components(r))
       /\ OpenIn(t, u) = WalkIn(t, Root, Components(c))
  BY <1>4, <1>8 DEF OpenIn, r
<1>11. PICK x \in Seq(Strings) : Joined(Components(c), x, Components(r))
  BY <1>7 DEF Leads
<1>12. Components(c) \in Seq(Strings)
  BY <1>9, ComponentsTyped
<1> DEFINE p == Components(c)
           node == WalkIn(t, Root, p)
<1>13. p \in Seq(Strings)
  BY <1>12
<1> HIDE DEF p
<1>14. WalkIn(t, Root, p \o x) = WalkIn(t, node, x)
  BY <1>13, PlaceJoin
<1>15. node \in Nodes(t) \cup {NotFound}
  <2>1. Root \in Nodes(t) \cup {NotFound} /\ Len(p) \in Nat
    BY <1>13 DEF Nodes
  <2> QED BY <2>1, PlaceIsNode DEF WalkIn
<1> HIDE DEF node
<1>16. IsDirIn(t, WalkIn(t, node, x))
  BY <1>10, <1>11, <1>14 DEF Joined, p
<1>17. IsDirIn(t, node)
  BY <1>15, <1>16, WalkedFrom
<1> QED BY <1>1, <1>2, <1>3, <1>4, <1>10, <1>17 DEF u, p, node


(* What a command that creates does: nothing, or one more entry.            *)
Grown(resolved, kind) ==
  Append(tree, NewEntry(vfs_open(Parent(resolved)), Base(resolved), kind))
KindOf(op) == IF op = "mkdir" THEN "dir" ELSE "file"
Finds(resolved, room, t) ==
  /\ LookupNodes(Parent(resolved)) <= room
  /\ \E i \in 1 .. Len(t) : t[i].dir = vfs_open(Parent(resolved)) /\ format_83(t[i]) = Base(resolved)
Written(resolved, kind, room, r) ==
  /\ r.path = current_path /\ r.tree = Grown(resolved, kind)
  /\ IsDir(vfs_open(Parent(resolved))) /\ Fits83(Base(resolved)) /\ Len(tree) # MaxEntries
  /\ r.said = IF Finds(resolved, room, r.tree) THEN "" ELSE "failed"
Refused(r) == r.path = current_path /\ r.tree = tree

LEMMA SaysIs ==
  ASSUME NEW path, NEW entries, NEW said
  PROVE  /\ Says(path, entries, said).path = path
         /\ Says(path, entries, said).tree = entries
         /\ Says(path, entries, said).said = said
         /\ Refused(Refuses(said))
BY DEF Says, Refuses, Refused

LEMMA OpenedIs ==
  ASSUME NEW s, NEW room
  PROVE  IsDir(Opened(s, room)) => Opened(s, room) = vfs_open(s)
<1>1. ~IsDir(NotFound)
  BY NullAssumption DEF IsDir, Kind, Root
<1> QED BY <1>1 DEF Opened

LEMMA CreateIs ==
  ASSUME NEW resolved, NEW kind, NEW room
  PROVE  \/ Refused(Create(resolved, kind, room))
         \/ Written(resolved, kind, room, Create(resolved, kind, room))
<1> DEFINE d == Opened(Parent(resolved), room)
           base == Base(resolved)
           new == Append(tree, NewEntry(d, base, kind))
           found == /\ LookupNodes(Parent(resolved)) <= room
                    /\ \E i \in 1 .. Len(new) : new[i].dir = d /\ format_83(new[i]) = base
           create == Create(resolved, kind, room)
<1>1. create =
        IF ~IsDir(d) THEN Refuses("not found")
        ELSE IF ~Fits83(base) \/ Len(tree) = MaxEntries THEN Refuses("failed")
        ELSE Says(current_path, new, IF found THEN "" ELSE "failed")
  BY DEF Create
<1>2. CASE ~IsDir(d) \/ ~Fits83(base) \/ Len(tree) = MaxEntries
  <2>1. create = Refuses("not found") \/ create = Refuses("failed")
    BY <1>1, <1>2
  <2> QED BY <2>1, SaysIs
<1>3. CASE IsDir(d) /\ Fits83(base) /\ Len(tree) # MaxEntries
  <2>1. create = Says(current_path, new, IF found THEN "" ELSE "failed")
    BY <1>1, <1>3
  <2> DEFINE r == Says(current_path, new, IF found THEN "" ELSE "failed")
  <2>2. r.path = current_path /\ r.tree = new /\ r.said = (IF found THEN "" ELSE "failed")
    BY DEF Says
  <2>3. d = vfs_open(Parent(resolved))
    BY <1>3, OpenedIs
  <2>4. new = Grown(resolved, kind)
    BY <2>3 DEF Grown
  <2>5. found = Finds(resolved, room, new)
    BY <2>3 DEF Finds
  <2> HIDE DEF r, new, found, create
  <2>6. Written(resolved, kind, room, r)
    BY <1>3, <2>2, <2>3, <2>4, <2>5 DEF Written
  <2> QED BY <2>1, <2>6 DEF r, create
<1> QED BY <1>2, <1>3

LEMMA NewIs ==
  ASSUME NEW op \in {"mkdir", "touch", "echo"}, NEW arg, NEW room
  PROVE  \/ Refused(New(op, arg, room))
         \/ arg # <<>> /\ Written(path_resolve(arg), KindOf(op), room, New(op, arg, room))
<1> DEFINE resolved == path_resolve(arg)
           r == New(op, arg, room)
           made == Create(resolved, KindOf(op), room)
<1>1. \/ r \in {Refuses("missing"), Refuses("invalid"), Refuses("")}
      \/ arg # <<>> /\ r = made
  <2>1. CASE arg = <<>>
    <3>1. r = Refuses("missing")
      BY <2>1, Zenon DEF New
    <3> QED BY <3>1
  <2>2. CASE arg # <<>> /\ op = "mkdir"
    <3>1. r = IF Base(resolved) = <<>> THEN Refuses("invalid")
              ELSE Create(resolved, "dir", room)
      BY <2>2 DEF New
    <3>2. KindOf(op) = "dir"
      BY <2>2 DEF KindOf
    <3> QED BY <3>1, <3>2, <2>2
  <2>3. CASE arg # <<>> /\ op = "touch"
    <3>1. r = IF Base(resolved) = <<>> THEN Refuses("invalid")
              ELSE Create(resolved, "file", room)
      BY <2>3 DEF New
    <3>2. KindOf(op) = "file"
      BY <2>3 DEF KindOf
    <3> QED BY <3>1, <3>2, <2>3
  <2>4. CASE arg # <<>> /\ op = "echo"
    <3>1. r = IF Opened(resolved, room) = NotFound THEN Create(resolved, "file", room)
              ELSE Refuses("")
      BY <2>4 DEF New
    <3>2. KindOf(op) = "file"
      BY <2>4 DEF KindOf
    <3> QED BY <3>1, <3>2, <2>4
  <2> QED BY <2>1, <2>2, <2>3, <2>4
<1>2. Refused(Refuses("missing")) /\ Refused(Refuses("invalid")) /\ Refused(Refuses(""))
  BY DEF Refused, Refuses, Says
<1>3. Refused(made) \/ Written(resolved, KindOf(op), room, made)
  BY CreateIs
<1> HIDE DEF r, made, resolved
<1> QED BY <1>1, <1>2, <1>3 DEF r, made, resolved

LEMMA FieldsFit ==
  ASSUME NEW s \in Strings
  PROVE  /\ format_name_83(s).name = Padded(NamePart(s), NameMax)
         /\ format_name_83(s).ext = Padded(ExtPart(s), ExtMax)
         /\ format_name_83(s).name \in Strings /\ Len(format_name_83(s).name) = NameMax
         /\ format_name_83(s).ext \in Strings /\ Len(format_name_83(s).ext) = ExtMax
<1>1. /\ format_name_83(s).name = Padded(NamePart(s), NameMax)
      /\ format_name_83(s).ext = Padded(ExtPart(s), ExtMax)
  BY DEF format_name_83
<1>2. NameMax \in Nat /\ ExtMax \in Nat /\ NamePart(s) \in Strings /\ ExtPart(s) \in Strings
  BY FieldsAssumption, Parts
<1> QED BY <1>1, <1>2, PaddedIs

LEMMA GrownIs ==
  ASSUME NEW s \in Strings, NEW kind \in {"dir", "file"}, TreeOK(tree),
         IsDir(vfs_open(Parent(s)))
  PROVE  /\ TreeOK(Grown(s, kind)) /\ Longer(Grown(s, kind), tree)
         /\ Len(Grown(s, kind)) = Len(tree) + 1
         /\ Grown(s, kind)[Len(tree) + 1] = NewEntry(vfs_open(Parent(s)), Base(s), kind)
<1> DEFINE d == vfs_open(Parent(s))
           e == NewEntry(d, Base(s), kind)
           u == Append(tree, e)
<1>1. d \in Nodes(tree) /\ IsDirIn(tree, d)
  <2>1. Parent(s) \in Strings
    BY ParentIs
  <2>2. d = OpenIn(tree, Parent(s)) /\ IsDirIn(tree, d)
    BY OpenIs, WalkIs
  <2> QED BY <2>1, <2>2, OpenIsNode
<1>2. Base(s) \in Strings
  BY BaseIs
<1>3. /\ e.dir = d /\ e.kind = kind
      /\ e.name = format_name_83(Base(s)).name /\ e.ext = format_name_83(Base(s)).ext
  BY DEF NewEntry
<1>4. /\ Len(e.name) = NameMax /\ Len(e.ext) = ExtMax
      /\ e.name \in Strings /\ e.ext \in Strings
  BY <1>2, <1>3, FieldsFit
<1>5. d \in Nat /\ Len(tree) \in Nat
  BY <1>1 DEF Nodes, Root, TreeOK
<1>6. e \in Entry
  <2>1. e = [dir |-> e.dir, kind |-> e.kind, name |-> e.name, ext |-> e.ext]
    BY DEF NewEntry
  <2> HIDE DEF e
  <2>2. [dir |-> e.dir, kind |-> e.kind, name |-> e.name, ext |-> e.ext] \in Entry
    BY <1>3, <1>4, <1>5 DEF Entry
  <2> QED BY <2>1, <2>2
<1> HIDE DEF e, d
<1>7. /\ u \in Seq(Entry) /\ Len(u) = Len(tree) + 1 /\ u[Len(tree) + 1] = e
      /\ \A i \in 1 .. Len(tree) : u[i] = tree[i]
  BY <1>6, AppendProperties DEF TreeOK
<1> HIDE DEF u
<1>8. Longer(u, tree)
  BY <1>5, <1>7 DEF Longer
<1>9. ASSUME NEW i \in 1 .. Len(u)
      PROVE  /\ u[i].dir \in {Root} \cup 1 .. i - 1 /\ IsDirIn(u, u[i].dir)
             /\ Len(u[i].name) = NameMax /\ Len(u[i].ext) = ExtMax
  <2>1. CASE i \in 1 .. Len(tree)
    <3>1. /\ tree[i].dir \in {Root} \cup 1 .. i - 1 /\ IsDirIn(tree, tree[i].dir)
          /\ Len(tree[i].name) = NameMax /\ Len(tree[i].ext) = ExtMax
      BY <2>1 DEF TreeOK
    <3> DEFINE c == tree[i].dir
    <3>2. c \in Nodes(tree) \cup {NotFound}
      BY <3>1, <2>1, <1>5 DEF Nodes
    <3> HIDE DEF c
    <3>3. IsDirIn(u, c) <=> IsDirIn(tree, c)
      BY <3>2, <1>8, KindKept
    <3> QED BY <3>1, <3>3, <1>7, <2>1 DEF c
  <2>2. CASE i = Len(tree) + 1
    <3>1. IsDirIn(u, d)
      BY <1>1, <1>8, KindKept
    <3>2. d \in {Root} \cup 1 .. i - 1
      BY <2>2, <1>1, <1>5 DEF Nodes
    <3> QED BY <3>1, <3>2, <2>2, <1>3, <1>4, <1>7
  <2> QED BY <2>1, <2>2, <1>5, <1>7
<1>10. TreeOK(u)
  BY <1>7, <1>9 DEF TreeOK
<1> QED BY <1>7, <1>8, <1>10 DEF u, e, d, Grown

LEMMA PathsStep == PathsInv /\ [PathsNext]_pathVars => PathsInv'
<1> SUFFICES ASSUME PathsInv, [PathsNext]_pathVars PROVE PathsInv'
  OBVIOUS
<1>0. Args \subseteq Strings /\ NewArgs \subseteq Strings /\ <<Slash>> \in Strings
  BY ArgsAssumption DEF Strings
<1>1. ASSUME NEW room \in Rooms, NEW arg \in Args, cmd_cd(arg, room)
      PROVE  PathsInv'
  <2>1. arg \in Strings
    BY <1>0
  <2>2. current_path' = Cd(arg, room).path /\ tree' = Cd(arg, room).tree
    BY <1>1 DEF cmd_cd
  <2>3. CASE arg \in {<<>>, <<Slash>>}
    <3>1. current_path' = <<Slash>> /\ tree' = tree
      <4>1. Cd(arg, room) = Says(<<Slash>>, tree, "")
        <5>1. arg # <<Dot, Dot>>
          BY <2>3 DEF Slash, Dot
        <5> QED BY <5>1, <2>3 DEF Cd
      <4>2. Says(<<Slash>>, tree, "").path = <<Slash>> /\ Says(<<Slash>>, tree, "").tree = tree
        BY DEF Says
      <4> QED BY <4>1, <4>2, <2>2, Zenon
    <3>2. IsDirIn(tree, OpenIn(tree, <<Slash>>))
      BY RootOpens
    <3>3. <<Slash>> # <<>> /\ <<Slash>>[1] = Slash /\ Len(<<Slash>>) = 1
      OBVIOUS
    <3> QED BY <3>1, <3>2, <3>3, <1>0, BuffersAssumption DEF PathsInv
  <2>4. CASE arg = <<Dot, Dot>> /\ arg \notin {<<>>, <<Slash>>}
    <3>1. current_path' = GoUp /\ tree' = tree
      <4>1. Cd(arg, room) = Says(GoUp, tree, "")
        BY <2>4 DEF Cd
      <4>2. Says(GoUp, tree, "").path = GoUp /\ Says(GoUp, tree, "").tree = tree
        BY DEF Says
      <4> QED BY <4>1, <4>2, <2>2, Zenon
    <3>2. CASE LastSlash(current_path) = 0
      <4>1. GoUp = <<Slash>>
        BY <3>2 DEF GoUp
      <4>2. IsDirIn(tree, OpenIn(tree, <<Slash>>))
        BY RootOpens
      <4>3. <<Slash>> # <<>> /\ <<Slash>>[1] = Slash /\ Len(<<Slash>>) = 1
        OBVIOUS
      <4> QED BY <3>1, <4>1, <4>2, <4>3, <1>0, BuffersAssumption DEF PathsInv
    <3>3. CASE LastSlash(current_path) # 0
      <4> DEFINE u == Cut(current_path, LastSlash(current_path))
      <4>1. GoUp = u
        BY <3>3 DEF GoUp
      <4>2. /\ u \in Strings /\ u # <<>> /\ u[1] = Slash /\ Len(u) <= Len(current_path)
            /\ IsDirIn(tree, OpenIn(tree, u))
        BY <3>3, UpOpens DEF PathsInv
      <4> HIDE DEF u
      <4>3. Len(u) < Size
        BY <4>2, BuffersAssumption DEF PathsInv, Strings
      <4> QED BY <3>1, <4>1, <4>2, <4>3 DEF PathsInv
    <3> QED BY <3>2, <3>3
  <2>5. CASE arg # <<Dot, Dot>> /\ arg \notin {<<>>, <<Slash>>}
    <3> DEFINE s == path_resolve(arg)
    <3>1. Cd(arg, room) = IF IsDir(Opened(s, room)) THEN Says(strlcpy(s, Size), tree, "")
                    ELSE Refuses("not found")
      BY <2>5 DEF Cd
    <3>2. s \in Strings /\ Len(s) < Size /\ s # <<>> /\ s[1] = Slash
      BY <2>1, PathIs, Starts DEF PathsInv
    <3> HIDE DEF s
    <3>3. CASE IsDir(Opened(s, room))
      <4>1. strlcpy(s, Size) = s
        BY <3>2, BuffersAssumption, CopyIs
      <4>2. current_path' = s /\ tree' = tree
        <5>1. Cd(arg, room) = Says(s, tree, "")
          BY <3>1, <3>3, <4>1
        <5>2. Says(s, tree, "").path = s /\ Says(s, tree, "").tree = tree
          BY DEF Says
        <5> QED BY <5>1, <5>2, <2>2, Zenon
      <4>3. IsDirIn(tree, OpenIn(tree, s))
        BY <3>3, OpenedIs, OpenIs, WalkIs
      <4> QED BY <3>2, <4>2, <4>3 DEF PathsInv
    <3>4. CASE ~IsDir(Opened(s, room))
      <4>1. current_path' = current_path /\ tree' = tree
        <5>1. Cd(arg, room) = Refuses("not found")
          BY <3>1, <3>4
        <5>2. Refused(Cd(arg, room))
          BY <5>1, SaysIs
        <5> QED BY <5>2, <2>2 DEF Refused
      <4> QED BY <4>1 DEF PathsInv
    <3> QED BY <3>3, <3>4
  <2> QED BY <2>3, <2>4, <2>5
<1>2. ASSUME NEW room \in Rooms, NEW op \in {"mkdir", "touch", "echo"},
             NEW arg \in NewArgs, Creates(op, arg, room)
      PROVE  PathsInv'
  <2>1. current_path' = New(op, arg, room).path /\ tree' = New(op, arg, room).tree
    BY <1>2 DEF Creates
  <2>2. CASE Refused(New(op, arg, room))
    <3>1. current_path' = current_path /\ tree' = tree
      BY <2>1, <2>2 DEF Refused
    <3> QED BY <3>1 DEF PathsInv
  <2>3. ASSUME Written(path_resolve(arg), KindOf(op), room, New(op, arg, room))
        PROVE  PathsInv'
    <3> DEFINE kind == KindOf(op)
    s == path_resolve(arg)
               u == Grown(s, kind)
               node == OpenIn(tree, current_path)
    <3>0. kind \in {"dir", "file"}
      BY DEF KindOf
    <3>1. s \in Strings
      BY <1>0, PathIs DEF PathsInv
    <3>2. /\ current_path' = current_path /\ tree' = u
          /\ IsDir(vfs_open(Parent(s))) /\ Len(tree) # MaxEntries
      BY <2>1, <2>3 DEF Written
    <3> HIDE DEF s, kind
    <3>3. TreeOK(u) /\ Longer(u, tree) /\ Len(u) = Len(tree) + 1
      BY <3>0, <3>1, <3>2, GrownIs DEF PathsInv
    <3> HIDE DEF u
    <3>4. Len(u) <= MaxEntries
      BY <3>2, <3>3, BuffersAssumption DEF PathsInv, Longer
    <3>5. node \in Nodes(tree) /\ IsDirIn(tree, node)
      BY OpenIsNode DEF PathsInv
    <3>6. OpenIn(u, current_path) = node
      <4> DEFINE r == IF current_path # <<>> /\ current_path[1] = Slash
                      THEN Tail(current_path) ELSE current_path
                 c == Components(r)
      <4>1. r \in Strings
        BY TailIs DEF PathsInv
      <4> HIDE DEF r
      <4>2. Len(c) \in Nat
        <5>1. c \in Seq(Strings)
          BY <4>1, ComponentsTyped
        <5> QED BY <5>1
      <4>3. OpenIn(u, current_path) = WalkIn(u, Root, c) /\ node = WalkIn(tree, Root, c)
        BY DEF OpenIn, c, r
      <4> HIDE DEF c
      <4>4. node # NotFound
        BY <3>5, NullAssumption DEF Nodes, Root
      <4>5. Root \in Nodes(tree) \cup {NotFound}
        BY DEF Nodes
      <4> HIDE DEF node
      <4>6. Place(u, Root, c, Len(c)) = Place(tree, Root, c, Len(c))
        BY <3>3, <4>2, <4>3, <4>4, <4>5, PlaceKept DEF PathsInv, WalkIn
      <4> QED BY <4>3, <4>6 DEF WalkIn
    <3> HIDE DEF node
    <3>7. IsDirIn(u, node)
      BY <3>3, <3>5, KindKept
    <3>8. IsDirIn(u, OpenIn(u, current_path))
      BY <3>6, <3>7
    <3> QED BY <3>2, <3>3, <3>4, <3>8 DEF PathsInv
  <2> QED BY <2>2, <2>3, NewIs
<1>3. CASE UNCHANGED pathVars
  BY <1>3 DEF PathsInv, pathVars
<1> QED BY <1>1, <1>2, <1>3 DEF PathsNext

(* The invariant of the shell's paths, in every reachable state.            *)
LEMMA PathsInvariant == PathsSpec => []PathsInv
BY PathsInitOK, PathsStep, PTL DEF PathsSpec

(* The prompt shows a directory that is there: what cd stores, and what a   *)
(* full buffer or "cd .." leaves of it, opens, and no file or directory     *)
(* created since comes in its way (cmd_cd of builtins.c, vfs_open).         *)
THEOREM CurrentDirOpens == PathsSpec => []CurrentDirExists
BY PathsInvariant, CurrentIs, PTL


(* No name has a dot in it: it ends where the first one was.                *)
Dotless == \A i \in 1 .. Len(tree) : \A k \in 1 .. NameMax : tree[i].name[k] # Dot

LEMMA NameHasNoDot ==
  ASSUME NEW s \in Strings
  PROVE  \A k \in 1 .. NameMax : format_name_83(s).name[k] # Dot
<1>1. PICK e \in Nat : e = NameEnd(s) /\ Len(NamePart(s)) = e - 1 /\ e >= 1
  <2>1. NameEnd(s) \in 1 .. Len(s) + 1 /\ Len(s) \in Nat
    BY NameEndIs DEF Strings
  <2>2. Len(NamePart(s)) = NameEnd(s) - 1
    BY Parts
  <2> QED BY <2>1, <2>2
<1>2. /\ NamePart(s) \in Strings /\ NameMax \in Nat
      /\ \A i \in 1 .. Len(NamePart(s)) : NamePart(s)[i] # Dot
  <2>1. \A i \in 1 .. Len(NamePart(s)) : NamePart(s)[i] = s[i]
    BY Parts
  <2>2. \A i \in 1 .. e - 1 : s[i] # Dot
    BY <1>1, FirstDot
  <2> QED BY <1>1, <2>1, <2>2, Parts, FieldsAssumption
<1>3. \A k \in 1 .. NameMax : Padded(NamePart(s), NameMax)[k]
        = IF k <= Len(NamePart(s)) THEN NamePart(s)[k] ELSE Space
  BY <1>2, PaddedIs
<1>4. Space # Dot
  BY DEF Space, Dot
<1> QED BY <1>1, <1>2, <1>3, <1>4, FieldsFit

LEMMA StillDotless ==
  ASSUME PathsInv, Dotless, NEW s \in Strings, NEW kind \in {"dir", "file"},
         IsDir(vfs_open(Parent(s))), NEW i \in 1 .. Len(Grown(s, kind)), NEW k \in 1 .. NameMax
  PROVE  Grown(s, kind)[i].name[k] # Dot
<1> DEFINE u == Grown(s, kind)
           e == NewEntry(vfs_open(Parent(s)), Base(s), kind)
<1>1. /\ Longer(u, tree) /\ Len(u) = Len(tree) + 1 /\ u[Len(tree) + 1] = e
      /\ Len(tree) \in Nat
  BY GrownIs DEF PathsInv, TreeOK
<1>2. Base(s) \in Strings /\ e.name = format_name_83(Base(s)).name
  BY BaseIs DEF NewEntry
<1> HIDE DEF u, e
<1>3. ASSUME i \in 1 .. Len(tree) PROVE u[i].name[k] # Dot
  <2>1. u[i] = tree[i]
    BY <1>1, <1>3 DEF Longer
  <2> QED BY <1>3, <2>1 DEF Dotless
<1>4. ASSUME i = Len(tree) + 1 PROVE u[i].name[k] # Dot
  BY <1>1, <1>2, <1>4, NameHasNoDot
<1>5. i \in 1 .. Len(u)
  BY DEF u
<1> QED BY <1>1, <1>3, <1>4, <1>5 DEF u

LEMMA DotlessStep == PathsInv /\ Dotless /\ [PathsNext]_pathVars => Dotless'
<1> SUFFICES ASSUME PathsInv, Dotless, [PathsNext]_pathVars PROVE Dotless'
  OBVIOUS
<1>1. ASSUME NEW room \in Rooms, NEW arg \in Args, cmd_cd(arg, room) PROVE Dotless'
  <2>1. Cd(arg, room).tree = tree
    <3>1. \/ \E path : Cd(arg, room) = Says(path, tree, "")
          \/ Cd(arg, room) = Refuses("not found")
      <4>1. CASE arg \in {<<>>, <<Slash>>}
        <5>1. arg # <<Dot, Dot>>
          BY <4>1 DEF Slash, Dot
        <5> QED BY <4>1, <5>1 DEF Cd
      <4>2. CASE arg = <<Dot, Dot>> /\ arg \notin {<<>>, <<Slash>>}
        BY <4>2 DEF Cd
      <4>3. CASE arg # <<Dot, Dot>> /\ arg \notin {<<>>, <<Slash>>}
        BY <4>3 DEF Cd
      <4> QED BY <4>1, <4>2, <4>3
    <3>2. CASE Cd(arg, room) = Refuses("not found")
      <4>1. Refused(Cd(arg, room))
        BY <3>2, SaysIs
      <4> QED BY <4>1 DEF Refused
    <3>3. ASSUME NEW path, Cd(arg, room) = Says(path, tree, "") PROVE Cd(arg, room).tree = tree
      <4>1. Says(path, tree, "").tree = tree
        BY DEF Says
      <4> QED BY <3>3, <4>1
    <3> QED BY <3>1, <3>2, <3>3
  <2>2. tree' = tree
    BY <1>1, <2>1 DEF cmd_cd
  <2> QED BY <2>2 DEF Dotless
<1>2. ASSUME NEW room \in Rooms, NEW op \in {"mkdir", "touch", "echo"},
             NEW arg \in NewArgs, Creates(op, arg, room)
      PROVE  Dotless'
  <2>1. tree' = New(op, arg, room).tree
    BY <1>2 DEF Creates
  <2>2. CASE Refused(New(op, arg, room))
    BY <2>1, <2>2 DEF Refused, Dotless
  <2>3. ASSUME Written(path_resolve(arg), KindOf(op), room, New(op, arg, room))
        PROVE  Dotless'
    <3> DEFINE s == path_resolve(arg)
               kind == KindOf(op)
    <3>1. s \in Strings /\ kind \in {"dir", "file"}
      BY PathIs, ArgsAssumption DEF PathsInv, Strings, KindOf
    <3>2. tree' = Grown(s, kind) /\ IsDir(vfs_open(Parent(s)))
      BY <2>1, <2>3 DEF Written
    <3> HIDE DEF s, kind
    <3>3. \A i \in 1 .. Len(Grown(s, kind)) : \A k \in 1 .. NameMax :
            Grown(s, kind)[i].name[k] # Dot
      BY <3>1, <3>2, StillDotless
    <3> QED BY <3>2, <3>3 DEF Dotless
  <2> QED BY <2>2, <2>3, NewIs
<1>3. CASE UNCHANGED pathVars
  BY <1>3 DEF Dotless, pathVars
<1> QED BY <1>1, <1>2, <1>3 DEF PathsNext

(* The entry a command has written is one that it finds, as far as the heap *)
(* goes, exactly if its name is regular.                                    *)
LEMMA FailureIs ==
  ASSUME PathsInv, Dotless
  PROVE  FailureIsTold
<1> SUFFICES ASSUME NEW op \in {"mkdir", "touch", "echo"}, NEW arg \in NewArgs,
                    NEW room \in Rooms, New(op, arg, room).tree # tree
             PROVE  New(op, arg, room).said = ""
                      <=> /\ Regular(Base(path_resolve(arg)))
                          /\ LookupNodes(Parent(path_resolve(arg))) <= room
  BY DEF FailureIsTold
<1> DEFINE s == path_resolve(arg)
           kind == KindOf(op)
           d == vfs_open(Parent(s))
           e == NewEntry(d, Base(s), kind)
           u == Grown(s, kind)
           r == New(op, arg, room)
<1>1. s \in Strings /\ Base(s) \in Strings /\ kind \in {"dir", "file"}
  BY PathIs, BaseIs, ArgsAssumption DEF PathsInv, Strings, KindOf
<1>2. /\ r.tree = u /\ IsDir(d) /\ Fits83(Base(s))
      /\ r.said = IF Finds(s, room, u) THEN "" ELSE "failed"
  <2>1. Written(s, kind, room, r)
    BY NewIs DEF Refused
  <2> HIDE DEF r, s, kind
  <2>2. r.tree = u /\ IsDir(d) /\ Fits83(Base(s))
    BY <2>1 DEF Written
  <2>3. r.said = IF Finds(s, room, r.tree) THEN "" ELSE "failed"
    BY <2>1 DEF Written
  <2> HIDE DEF u
  <2> QED BY <2>2, <2>3
<1>3. r.said = "" <=> Finds(s, room, u)
  BY <1>2
<1> HIDE DEF r, s, kind
<1>4. /\ Len(u) = Len(tree) + 1 /\ u[Len(tree) + 1] = e /\ Len(tree) \in Nat /\ TreeOK(u)
  <2>1. TreeOK(tree) /\ Len(tree) \in Nat
    BY DEF PathsInv, TreeOK
  <2> QED BY <1>1, <1>2, <2>1, GrownIs
<1>5. ASSUME Regular(Base(s)) PROVE u[Len(tree) + 1].dir = d /\ format_83(e) = Base(s)
  <2>1. /\ e.dir = d
        /\ e.name = format_name_83(Base(s)).name /\ e.ext = format_name_83(Base(s)).ext
    BY DEF NewEntry
  <2> HIDE DEF e
  <2>2. format_83(e) = Base(s)
    BY <1>1, <1>2, <1>5, <2>1, RoundTrip DEF format_83
  <2> QED BY <1>4, <2>1, <2>2
<1>6. ASSUME NEW i \in 1 .. Len(u) PROVE Regular(format_83(u[i]))
  <2> DEFINE n == u[i].name
             x == u[i].ext
  <2>1. n \in Strings /\ x \in Strings /\ Len(n) = NameMax /\ Len(x) = ExtMax
    <3> HIDE DEF u
    <3>1. u[i] \in Entry /\ Len(n) = NameMax /\ Len(x) = ExtMax
      BY <1>4 DEF TreeOK
    <3> QED BY <3>1 DEF Entry
  <2>2. \A k \in 1 .. NameMax : n[k] # Dot
    BY <1>1, <1>2, StillDotless
  <2>3. format_83(u[i]) = Trimmed(n) \o (IF x[1] = Space THEN <<>> ELSE <<Dot>> \o Trimmed(x))
    BY DEF format_83
  <2> HIDE DEF n, x, u
  <2>4. x # <<>>
    BY <2>1, FieldsAssumption
  <2>5. \A k \in 1 .. Len(n) : n[k] # Dot
    BY <2>1, <2>2
  <2> QED BY <2>1, <2>3, <2>4, <2>5, WrittenOut
<1>7. Len(tree) + 1 \in 1 .. Len(u)
  BY <1>4
<1> HIDE DEF u, e, d
<1>8. Finds(s, room, u) <=> Regular(Base(s)) /\ LookupNodes(Parent(s)) <= room
  BY <1>4, <1>5, <1>6, <1>7 DEF Finds, d
<1> QED BY <1>3, <1>8 DEF r, s

(* A touch, mkdir or echo that made its entry says that it failed if and    *)
(* only if the heap has no room for the node the entry is looked up with,   *)
(* or the name is one that the fields of an entry do not keep (vfs_create,  *)
(* fat16_vfs_finddir, format_name_83).                                      *)
THEOREM FailureIsTrue == PathsSpec => []FailureIsTold
<1>1. PathsInit => Dotless
  BY DEF PathsInit, Dotless
<1>2. PathsSpec => []Dotless
  BY <1>1, PathsInvariant, DotlessStep, PTL DEF PathsSpec
<1>3. PathsInv /\ Dotless => FailureIsTold
  BY FailureIs
<1> QED BY <1>2, <1>3, PathsInvariant, PTL


-----------------------------------------------------------------------------
(* Where commands go.                                                       *)

LEMMA TailJoin ==
  ASSUME NEW p \in Strings, NEW q \in Strings, p # <<>>
  PROVE  Tail(p \o q) = Tail(p) \o q
<1> DEFINE s == p \o q
           m == Len(p) - 1
           n == Len(q)
           t == Tail(p)
           u == t \o q
<1>1. /\ s \in Strings /\ Len(s) = Len(p) + n /\ n \in Nat
      /\ \A i \in 1 .. Len(p) : s[i] = p[i]
      /\ \A i \in 1 .. n : s[Len(p) + i] = q[i]
  BY JoinIs DEF Strings
<1>2. /\ t \in Strings /\ Len(t) = m /\ m \in Nat /\ Len(p) = m + 1
      /\ \A i \in 1 .. m : t[i] = p[i + 1]
  BY TailIs
<1> HIDE DEF s, t
<1>3. /\ u \in Strings /\ Len(u) = m + n
      /\ \A i \in 1 .. m : u[i] = t[i]
      /\ \A i \in 1 .. n : u[m + i] = q[i]
  <2> HIDE DEF m, n
  <2>1. /\ u \in Strings /\ Len(u) = Len(t) + Len(q)
        /\ \A i \in 1 .. Len(t) : u[i] = t[i]
        /\ \A i \in 1 .. Len(q) : u[Len(t) + i] = q[i]
    BY <1>2, JoinIs
  <2> QED BY <2>1, <1>2 DEF n
<1>4. s # <<>>
  <2>1. Len(s) # 0
    BY <1>1, <1>2
  <2> QED BY <2>1
<1>5. /\ Tail(s) \in Strings /\ Len(Tail(s)) = m + n
      /\ \A i \in 1 .. m + n : Tail(s)[i] = s[i + 1]
  <2>1. /\ Tail(s) \in Strings /\ Len(Tail(s)) = Len(s) - 1
        /\ \A i \in 1 .. Len(s) - 1 : Tail(s)[i] = s[i + 1]
    BY <1>1, <1>4, TailIs
  <2>2. Len(s) - 1 = m + n
    BY <1>1, <1>2
  <2> QED BY <2>1, <2>2
<1> HIDE DEF u, m, n
<1>6. \A i \in 1 .. m + n : Tail(s)[i] = u[i]
  <2> TAKE i \in 1 .. m + n
  <2>1. CASE i <= m
    <3>1. i \in 1 .. m /\ i + 1 \in 1 .. Len(p)
      BY <2>1, <1>1, <1>2
    <3>2. Tail(s)[i] = s[i + 1] /\ s[i + 1] = p[i + 1]
      BY <3>1, <1>1, <1>5
    <3>3. u[i] = t[i] /\ t[i] = p[i + 1]
      BY <3>1, <1>2, <1>3
    <3> QED BY <3>2, <3>3
  <2>2. CASE i > m
    <3>1. i - m \in 1 .. n /\ Len(p) + (i - m) = i + 1 /\ m + (i - m) = i
      BY <2>2, <1>1, <1>2
    <3>2. s[Len(p) + (i - m)] = q[i - m]
      BY <3>1, <1>1
    <3>3. u[m + (i - m)] = q[i - m]
      BY <3>1, <1>3
    <3> QED BY <3>1, <3>2, <3>3, <1>5
  <2> QED BY <2>1, <2>2, <1>1, <1>2
<1>7. Tail(s) = u
  BY <1>3, <1>5, <1>6, Equal
<1> QED BY <1>7 DEF s, t, u

LEMMA AppendJoins ==
  ASSUME NEW s \in Strings
  PROVE  /\ <<Slash>> \in Strings /\ Append(s, Slash) = s \o <<Slash>>
         /\ s # <<>> => Tail(Append(s, Slash)) = Append(Tail(s), Slash)
<1>1. <<Slash>> \in Strings
  BY ArgsAssumption DEF Strings
<1>2. \A x \in Strings : Append(x, Slash) = x \o <<Slash>>
  BY ArgsAssumption, AppendIsConcat DEF Strings
<1>3. ASSUME s # <<>> PROVE Tail(Append(s, Slash)) = Append(Tail(s), Slash)
  <2>1. Tail(s \o <<Slash>>) = Tail(s) \o <<Slash>>
    BY <1>1, <1>3, TailJoin
  <2>2. Tail(s) \in Strings
    BY <1>3, TailIs
  <2> QED BY <2>1, <2>2, <1>2
<1> QED BY <1>1, <1>2, <1>3

(* The components that a relative path is put behind.                       *)
Before(arg) == IF Absolute(arg) THEN <<>> ELSE Components(Tail(current_path))

LEMMA BehindCurrent ==
  ASSUME NEW p \in Strings, p # <<>>, p[1] = Slash, NEW arg \in Strings
  PROVE  Components(Tail((IF Last(p) # Slash THEN Append(p, Slash) ELSE p) \o arg))
           = Components(Tail(p)) \o Components(arg)
<1> DEFINE t == Tail(p)
           out == IF Last(p) # Slash THEN Append(p, Slash) ELSE p
<1>1. /\ t \in Strings /\ Len(t) = Len(p) - 1 /\ Len(p) \in Nat \ {0}
      /\ \A i \in 1 .. Len(p) - 1 : t[i] = p[i + 1]
  BY TailIs
<1>2. Components(t) \in Seq(Strings) /\ Components(arg) \in Seq(Strings)
  BY <1>1, ComponentsTyped
<1> HIDE DEF t
<1>3. t # <<>> => Last(t) = Last(p)
  <2>1. SUFFICES ASSUME t # <<>> PROVE Last(t) = Last(p)
    OBVIOUS
  <2>2. Len(t) # 0
    BY <2>1, <1>1 DEF Strings
  <2>3. Len(t) \in 1 .. Len(p) - 1 /\ Len(t) + 1 = Len(p)
    BY <1>1, <2>2
  <2> QED BY <2>3, <1>1 DEF Last
<1>4. CASE t = <<>>
  <2>1. Len(p) = 1
    BY <1>1, <1>4
  <2>2. Last(p) = Slash
    BY <2>1 DEF Last
  <2>3. Tail(p \o arg) = t \o arg
    BY TailJoin DEF t
  <2>4. t \o arg = arg
    BY <1>4 DEF Strings
  <2>5. Components(t) = <<>>
    BY <1>1, <1>4, ComponentsTyped
  <2>6. <<>> \o Components(arg) = Components(arg)
    BY <1>2
  <2> QED BY <2>2, <2>3, <2>4, <2>5, <2>6 DEF t
<1>5. CASE t # <<>> /\ Last(p) = Slash
  <2>1. Tail(p \o arg) = t \o arg
    BY TailJoin DEF t
  <2>2. Components(t \o arg) = Components(t) \o Components(arg)
    BY <1>1, <1>3, <1>5, SplitAtSlash
  <2> QED BY <2>1, <2>2, <1>5 DEF t
<1>6. CASE t # <<>> /\ Last(p) # Slash
  <2> DEFINE a == Append(p, Slash)
             b == Append(t, Slash)
  <2>1. /\ a \in Strings /\ Len(a) = Len(p) + 1
        /\ b \in Strings /\ Len(b) = Len(t) + 1 /\ b[Len(t) + 1] = Slash
    BY <1>1, ArgsAssumption, AppendIs
  <2>2. Tail(a) = b
    BY AppendJoins DEF t
  <2>3. a # <<>> /\ b # <<>> /\ Last(b) = Slash
    <3>1. Len(a) # 0 /\ Len(b) # 0
      BY <2>1, <1>1
    <3>2. Last(b) = Slash
      BY <2>1 DEF Last
    <3> HIDE DEF a, b
    <3> QED BY <3>1, <3>2
  <2>4. Components(b) = Components(t)
    BY <1>1, <1>3, <1>6, SlashEnds
  <2> HIDE DEF a, b
  <2>5. Tail(a \o arg) = b \o arg
    BY <2>1, <2>2, <2>3, TailJoin
  <2>6. Components(b \o arg) = Components(b) \o Components(arg)
    BY <2>1, <2>3, SplitAtSlash
  <2>7. out = a
    BY <1>6 DEF a
  <2> QED BY <2>4, <2>5, <2>6, <2>7 DEF t
<1> QED BY <1>4, <1>5, <1>6

LEMMA StepsOf ==
  ASSUME PathsInv, NEW arg \in Strings, arg # <<>>, Whole(arg)
  PROVE  /\ path_resolve(arg) \in Strings /\ path_resolve(arg) # <<>>
         /\ path_resolve(arg)[1] = Slash
         /\ Before(arg) \in Seq(Strings) /\ Steps(arg) \in Seq(Strings)
         /\ From(arg) = WalkIn(tree, Root, Before(arg))
         /\ Joined(Before(arg), Steps(arg), Components(Tail(path_resolve(arg))))
<1>0. /\ Size \in Nat \ {0, 1} /\ Len(arg) \in Nat \ {0} /\ current_path \in Strings
      /\ Len(current_path) \in Nat \ {0} /\ Len(current_path) < Size
      /\ current_path # <<>> /\ current_path[1] = Slash
  BY BuffersAssumption DEF PathsInv, Strings
<1>1. /\ path_resolve(arg) \in Strings /\ path_resolve(arg) # <<>>
      /\ path_resolve(arg)[1] = Slash
  BY <1>0, PathIs, Starts
<1>2. Tail(arg) \in Strings /\ Tail(current_path) \in Strings
  BY <1>0, TailIs
<1>3. Before(arg) \in Seq(Strings) /\ Steps(arg) \in Seq(Strings)
  <2>1. <<>> \in Seq(Strings)
    OBVIOUS
  <2> QED BY <2>1, <1>2, ComponentsTyped DEF Before, Steps
<1>4. CASE Absolute(arg)
  <2>1. arg[1] = Slash /\ Len(arg) < Size
    BY <1>4, <1>0 DEF Absolute, Whole
  <2>2. path_resolve(arg) = strlcpy(arg, Size)
    BY <2>1 DEF path_resolve, Resolved
  <2>3. strlcpy(arg, Size) = arg
    BY <2>1, <1>0, CopyIs
  <2>4. Before(arg) = <<>> /\ Steps(arg) = Components(Tail(arg)) /\ From(arg) = Root
    BY <1>4 DEF Before, Steps, From
  <2>5. <<>> \o Steps(arg) = Steps(arg)
    BY <1>3
  <2>6. WalkIn(tree, Root, <<>>) = Root
    <3>1. Len(<<>>) = 0 /\ 0 \in Nat
      OBVIOUS
    <3> QED BY <3>1, PlaceNext DEF WalkIn
  <2> QED BY <1>1, <1>3, <2>2, <2>3, <2>4, <2>5, <2>6 DEF Joined
<1>5. CASE ~Absolute(arg)
  <2>1. arg[1] # Slash /\ Len(arg) + (Len(current_path) + 1) < Size
    BY <1>5 DEF Absolute, Whole
  <2> DEFINE out == IF Last(current_path) # Slash THEN Append(current_path, Slash)
                    ELSE current_path
  <2>2. strlcpy(current_path, Size) = current_path /\ Len(current_path) < Size - 1
    BY <2>1, <1>0, CopyIs
  <2>3. path_resolve(arg) = out \o strlcpy(arg, Size - Len(out))
    BY <2>1, <2>2, <1>0 DEF path_resolve, Resolved
  <2>4. Len(out) \in Nat /\ Len(out) <= Len(current_path) + 1
    BY <1>0, ArgsAssumption, AppendIs
  <2>5. strlcpy(arg, Size - Len(out)) = arg
    <3> HIDE DEF out
    <3>1. Size - Len(out) \in Nat \ {0} /\ Len(arg) < Size - Len(out)
      BY <2>1, <2>4, <1>0
    <3> QED BY <3>1, CopyIs
  <2>6. Components(Tail(out \o arg)) = Components(Tail(current_path)) \o Components(arg)
    BY <1>0, BehindCurrent
  <2>7. /\ Before(arg) = Components(Tail(current_path)) /\ Steps(arg) = Components(arg)
        /\ From(arg) = vfs_open(current_path)
    BY <1>5 DEF Before, Steps, From
  <2>8. vfs_open(current_path) = WalkIn(tree, Root, Components(Tail(current_path)))
    BY <1>0, OpenIs DEF OpenIn
  <2> QED BY <1>1, <1>3, <2>3, <2>5, <2>6, <2>7, <2>8 DEF Joined
<1> QED BY <1>4, <1>5

LEMMA WalkTaken ==
  ASSUME PathsInv
  PROVE  WalkIsTaken
<1> SUFFICES ASSUME NEW arg \in Args, NEW room \in Rooms, Whole(arg),
                    arg \notin {<<>>, <<Dot, Dot>>}
             PROVE  IF /\ IsDir(Walk(From(arg), Steps(arg)))
                       /\ NodesFor(path_resolve(arg)) <= room
                    THEN /\ Cd(arg, room).said = ""
                         /\ vfs_open(Cd(arg, room).path) = Walk(From(arg), Steps(arg))
                    ELSE Cd(arg, room) = Refuses("not found")
  BY DEF WalkIsTaken
<1> DEFINE s == path_resolve(arg)
           target == Walk(From(arg), Steps(arg))
<1>1. arg \in Strings /\ arg # <<>>
  BY ArgsAssumption DEF Strings
<1>2. /\ s \in Strings /\ s # <<>> /\ s[1] = Slash
      /\ Before(arg) \in Seq(Strings) /\ Steps(arg) \in Seq(Strings)
      /\ From(arg) = WalkIn(tree, Root, Before(arg))
      /\ Before(arg) \o Steps(arg) = Components(Tail(s))
  BY <1>1, StepsOf DEF Joined
<1>3. target = WalkIn(tree, From(arg), Steps(arg))
  BY WalkIs
<1>4. WalkIn(tree, Root, Before(arg) \o Steps(arg)) = WalkIn(tree, From(arg), Steps(arg))
  <2> DEFINE p == Before(arg)
             q == Steps(arg)
  <2>1. p \in Seq(Strings) /\ q \in Seq(Strings)
    BY <1>2
  <2> HIDE DEF p, q
  <2>2. WalkIn(tree, Root, p \o q) = WalkIn(tree, WalkIn(tree, Root, p), q)
    BY <2>1, PlaceJoin
  <2> QED BY <2>2, <1>2 DEF p, q
<1> HIDE DEF s
<1>5. vfs_open(s) = target
  <2>1. vfs_open(s) = WalkIn(tree, Root, Components(Tail(s)))
    BY <1>2, OpenIs DEF OpenIn
  <2> QED BY <2>1, <1>2, <1>3, <1>4
<1> HIDE DEF target
<1>6. s \in Strings /\ strlcpy(s, Size) = s
  <2>1. Len(s) < Size /\ Size \in Nat \ {0}
    BY <1>1, PathIs, BuffersAssumption DEF PathsInv, s
  <2> QED BY <1>2, <2>1, CopyIs
<1>7. CASE arg = <<Slash>>
  <2>1. s = <<Slash>>
    <3>1. path_resolve(arg) = strlcpy(arg, Size)
      BY <1>7 DEF path_resolve, Resolved
    <3>2. Len(arg) = 1 /\ Size \in Nat \ {0} /\ 1 < Size
      BY <1>7, BuffersAssumption
    <3>3. strlcpy(arg, Size) = arg
      BY <1>1, <3>2, CopyIs
    <3> QED BY <3>1, <3>3, <1>7 DEF s
  <2>2. Cd(arg, room) = Says(<<Slash>>, tree, "")
    <3>1. arg # <<Dot, Dot>>
      OBVIOUS
    <3> QED BY <3>1, <1>7 DEF Cd
  <2>3. Says(<<Slash>>, tree, "").path = <<Slash>> /\ Says(<<Slash>>, tree, "").said = ""
    BY DEF Says
  <2>4. IsDir(target)
    BY <1>5, <2>1, RootOpens, OpenIs, WalkIs
  <2>5. NodesFor(s) <= room
    <3>1. <<Slash>> # <<>> /\ <<Slash>>[1] = Slash /\ Tail(<<Slash>>) = <<>> /\ <<>> \in Strings
      BY DEF Strings
    <3>2. Len(Components(<<>>)) = 0
      BY <3>1, ComponentsTyped
    <3>3. NodesFor(s) = 0
      BY <2>1, <3>1, <3>2 DEF NodesFor, Plenty
    <3> QED BY <3>3 DEF Rooms, Plenty
  <2> QED BY <1>5, <2>1, <2>2, <2>3, <2>4, <2>5 DEF target, s
<1>8. CASE arg # <<Slash>>
  <2>1. Cd(arg, room) = IF IsDir(Opened(s, room)) THEN Says(strlcpy(s, Size), tree, "")
                        ELSE Refuses("not found")
    BY <1>8 DEF Cd, s
  <2>2. Says(s, tree, "").path = s /\ Says(s, tree, "").said = ""
    BY DEF Says
  <2>3. CASE IsDir(target) /\ NodesFor(s) <= room
    <3>1. Opened(s, room) = target
      BY <1>5, <2>3 DEF Opened
    <3>2. Cd(arg, room) = Says(s, tree, "")
      BY <2>1, <2>3, <3>1, <1>6
    <3> QED BY <3>2, <2>2, <2>3, <1>5 DEF target, s
  <2>4. CASE ~(IsDir(target) /\ NodesFor(s) <= room)
    <3>1. ~IsDir(Opened(s, room))
      <4>1. ~IsDir(NotFound)
        BY NullAssumption DEF IsDir, Kind, Root
      <4> QED BY <1>5, <2>4, <4>1 DEF Opened
    <3>2. Cd(arg, room) = Refuses("not found")
      BY <2>1, <3>1
    <3> QED BY <3>2, <2>4 DEF target, s
  <2> QED BY <2>3, <2>4
<1> QED BY <1>7, <1>8


(* The directory above, by the path, and the last component.                *)
Up(s) == IF LastSlash(s) = 0 THEN <<Slash>> ELSE Cut(s, LastSlash(s))
Final(s) == SubSeq(s, LastSlash(s) + 2, Len(s))

LEMMA LastComponent ==
  ASSUME NEW s \in Strings, s # <<>>, s[1] = Slash, Single(s), Last(s) # Slash
  PROVE  /\ Final(s) \in Strings /\ Final(s) # <<>>
         /\ \A i \in 1 .. Len(Final(s)) : Final(s)[i] # Slash
         /\ Final(s)[Len(Final(s))] = s[Len(s)]
         /\ Up(s) \in Strings /\ Up(s) # <<>> /\ Up(s)[1] = Slash
         /\ Components(Tail(Up(s))) \in Seq(Strings)
         /\ Joined(Components(Tail(Up(s))), Components(Final(s)), Components(Tail(s)))
<1>1. PICK l \in Nat : /\ l = LastSlash(s) /\ l < Len(s) /\ (l # 0 => s[l + 1] = Slash)
                       /\ \A j \in 1 .. Len(s) : s[j] = Slash => j <= l + 1
  BY LastSlashIs
<1> DEFINE n == Len(s)
           b == SubSeq(s, l + 2, n)
           r == Tail(s)
<1>2. n \in Nat \ {0} /\ n = Len(s) /\ s[n] # Slash /\ n # 1
  BY DEF Strings, Last
<1> HIDE DEF n
<1>3. s[l + 1] = Slash /\ l + 1 # n
  BY <1>1, <1>2
<1>4. b \in Strings /\ Len(b) = n - (l + 1) /\ n - (l + 1) \in Nat \ {0}
      /\ \A i \in 1 .. n - (l + 1) : b[i] = s[l + 1 + i]
  <2>1. l + 2 \in Nat \ {0} /\ n \in 0 .. Len(s)
    BY <1>2
  <2>2. Len(b) = IF l + 2 <= n THEN n - (l + 2) + 1 ELSE 0
    BY <2>1, PartIs
  <2>3. b \in Strings /\ \A i \in 1 .. Len(b) : b[i] = s[(l + 2) + i - 1]
    BY <2>1, PartIs
  <2>4. \A i \in Nat : (l + 2) + i - 1 = l + 1 + i
    OBVIOUS
  <2> HIDE DEF b
  <2>5. Len(b) = n - (l + 1) /\ n - (l + 1) \in Nat \ {0}
    BY <2>2, <1>1, <1>2, <1>3
  <2> QED BY <2>3, <2>4, <2>5
<1>5. b = Final(s)
  BY <1>1 DEF Final, n
<1> HIDE DEF b
<1>6. /\ b # <<>> /\ b[Len(b)] = s[n]
      /\ \A i \in 1 .. Len(b) : b[i] # Slash
  <2>1. n - (l + 1) \in 1 .. n - (l + 1) /\ l + 1 + (n - (l + 1)) = n
    BY <1>2, <1>4
  <2>2. b[n - (l + 1)] = s[l + 1 + (n - (l + 1))]
    BY <2>1, <1>4
  <2>3. b # <<>>
    <3>1. Len(b) # 0
      BY <1>4
    <3> QED BY <3>1
  <2>4. ASSUME NEW i \in 1 .. Len(b) PROVE b[i] # Slash
    <3>1. i \in 1 .. n - (l + 1)
      BY <1>4
    <3>2. l + 1 + i \in 1 .. Len(s) /\ ~(l + 1 + i <= l + 1)
      BY <3>1, <1>2
    <3>3. s[l + 1 + i] # Slash
      BY <3>2, <1>1
    <3> QED BY <3>1, <3>3, <1>4
  <2> QED BY <2>1, <2>2, <2>3, <2>4, <1>4
<1>7. /\ r \in Strings /\ Len(r) = n - 1
      /\ \A i \in 1 .. n - 1 : r[i] = s[i + 1]
  BY <1>2, TailIs
<1> HIDE DEF r
<1>8. CASE l = 0
  <2>1. Up(s) = <<Slash>> /\ Tail(<<Slash>>) = <<>> /\ <<Slash>> # <<>> /\ <<Slash>>[1] = Slash
    BY <1>1, <1>8 DEF Up
  <2>2. <<Slash>> \in Strings /\ Components(<<>>) = <<>>
    BY ArgsAssumption, ComponentsTyped DEF Strings
  <2>3. r = b
    <3>1. Len(r) = Len(b) /\ Len(r) = n - 1
      BY <1>4, <1>7, <1>8
    <3>2. \A i \in 1 .. n - 1 : r[i] = b[i]
      <4> TAKE i \in 1 .. n - 1
      <4>1. i \in 1 .. n - (l + 1) /\ l + 1 + i = i + 1
        BY <1>8, <1>2
      <4> QED BY <4>1, <1>4, <1>7
    <3> QED BY <3>1, <3>2, <1>4, <1>7, Equal
  <2>4. Components(b) \in Seq(Strings) /\ <<>> \in Seq(Strings)
    BY <1>4, ComponentsTyped
  <2>5. <<>> \o Components(b) = Components(b)
    BY <2>4
  <2> QED BY <2>1, <2>2, <2>3, <2>4, <2>5, <1>2, <1>4, <1>5, <1>6 DEF Joined, r
<1>9. CASE l # 0
  <2> DEFINE u == Cut(s, l)
             c == SubSeq(r, 1, l - 1)
  <2>1. Up(s) = u
    BY <1>1, <1>9 DEF Up
  <2>2. u \in Strings /\ Len(u) = l /\ \A i \in 1 .. l : u[i] = s[i]
    BY <1>1, <1>2, CutIs
  <2> HIDE DEF u
  <2>3. u # <<>> /\ u[1] = Slash
    <3>1. 1 \in 1 .. l
      BY <1>9
    <3> QED BY <3>1, <2>2, <1>9
  <2>4. l # 1 /\ s[l] # Slash
    <3>1. l + 1 \in 2 .. Len(s) /\ l + 1 - 1 = l
      BY <1>1, <1>2, <1>9
    <3>2. s[l] # Slash
      BY <3>1, <1>3 DEF Single
    <3> QED BY <3>2
  <2>5. c \in Strings /\ Len(c) = l - 1 /\ \A i \in 1 .. l - 1 : c[i] = r[i]
    <3>1. 1 \in Nat \ {0} /\ l - 1 \in 0 .. Len(r)
      BY <1>1, <1>2, <1>7, <1>9
    <3>2. /\ c \in Strings /\ Len(c) = IF 1 <= l - 1 THEN l - 1 - 1 + 1 ELSE 0
          /\ \A i \in 1 .. Len(c) : c[i] = r[1 + i - 1]
      BY <3>1, <1>7, PartIs
    <3>3. \A i \in Nat : 1 + i - 1 = i
      OBVIOUS
    <3> HIDE DEF c
    <3> QED BY <3>2, <3>3, <1>9
  <2>6. Tail(u) = c
    <3>1. Tail(u) \in Strings /\ Len(Tail(u)) = l - 1
          /\ \A i \in 1 .. l - 1 : Tail(u)[i] = u[i + 1]
      BY <2>2, <2>3, TailIs
    <3> HIDE DEF c
    <3>2. \A i \in 1 .. l - 1 : Tail(u)[i] = c[i]
      <4> TAKE i \in 1 .. l - 1
      <4>1. i + 1 \in 1 .. l /\ i \in 1 .. n - 1
        BY <1>1, <1>2
      <4>2. Tail(u)[i] = u[i + 1] /\ u[i + 1] = s[i + 1]
        BY <4>1, <3>1, <2>2
      <4>3. c[i] = r[i] /\ r[i] = s[i + 1]
        BY <4>1, <2>5, <1>7
      <4> QED BY <4>2, <4>3
    <3> QED BY <3>1, <3>2, <2>5, Equal
  <2>7. l \in 1 .. Len(r) /\ r[l] = Slash
    <3>1. l \in 1 .. n - 1
      BY <1>1, <1>2, <1>9
    <3> QED BY <3>1, <1>3, <1>7
  <2>8. /\ SubSeq(r, 1, l) = Append(c, Slash)
        /\ Components(r) = Components(SubSeq(r, 1, l)) \o Components(SubSeq(r, l + 1, Len(r)))
    BY <2>7, <1>7, AtSlash
  <2>9. SubSeq(r, l + 1, Len(r)) = b
    <3> DEFINE d == SubSeq(r, l + 1, Len(r))
    <3>1. l + 1 \in Nat \ {0} /\ Len(r) \in 0 .. Len(r)
      BY <1>7, <1>2
    <3>2. /\ d \in Strings
          /\ Len(d) = IF l + 1 <= Len(r) THEN Len(r) - (l + 1) + 1 ELSE 0
          /\ \A i \in 1 .. Len(d) : d[i] = r[(l + 1) + i - 1]
      BY <3>1, <1>7, PartIs
    <3> HIDE DEF d
    <3>3. Len(d) = n - (l + 1)
      BY <3>2, <1>1, <1>2, <1>3, <1>7
    <3>4. \A i \in 1 .. n - (l + 1) : d[i] = b[i]
      <4> TAKE i \in 1 .. n - (l + 1)
      <4>1. (l + 1) + i - 1 = l + i /\ l + i \in 1 .. n - 1 /\ (l + i) + 1 = l + 1 + i
        BY <1>2
      <4>2. d[i] = r[l + i]
        BY <4>1, <3>2, <3>3
      <4>3. r[l + i] = s[l + 1 + i]
        BY <4>1, <1>7
      <4> QED BY <4>2, <4>3, <1>4
    <3>5. d = b
      BY <3>2, <3>3, <3>4, <1>4, Equal
    <3> QED BY <3>5 DEF d
  <2>10. c # <<>> /\ Last(c) # Slash
    <3>1. Len(c) # 0 /\ l - 1 \in 1 .. l - 1 /\ l - 1 \in 1 .. n - 1 /\ l - 1 + 1 = l
      BY <2>4, <2>5, <1>1, <1>2, <1>9
    <3>2. c[l - 1] = r[l - 1] /\ r[l - 1] = s[l - 1 + 1]
      BY <3>1, <2>5, <1>7
    <3> HIDE DEF c
    <3> QED BY <3>1, <3>2, <2>4, <2>5 DEF Last
  <2> HIDE DEF c
  <2>11. Components(SubSeq(r, 1, l)) = Components(c)
    BY <2>5, <2>8, <2>10, SlashEnds
  <2>12. Components(c) \in Seq(Strings)
    BY <2>5, ComponentsTyped
  <2>13. Joined(Components(c), Components(b), Components(r))
    BY <2>8, <2>9, <2>11 DEF Joined
  <2> QED BY <2>1, <2>2, <2>3, <2>6, <2>12, <2>13, <1>2, <1>4, <1>5, <1>6 DEF r
<1> QED BY <1>8, <1>9

(* No name in a directory is as long as the longest component.              *)
LEMMA NamesAreShort ==
  ASSUME NEW t, TreeOK(t), NEW i \in 1 .. Len(t)
  PROVE  Len(format_83(t[i])) < CompMax
<1> DEFINE e == t[i]
<1>1. /\ e.name \in Strings /\ Len(e.name) = NameMax
      /\ e.ext \in Strings /\ Len(e.ext) = ExtMax
  <2>1. t \in Seq(Entry) /\ Len(e.name) = NameMax /\ Len(e.ext) = ExtMax
    BY DEF TreeOK
  <2>2. e \in Entry
    BY <2>1
  <2> QED BY <2>1, <2>2 DEF Entry
<1> HIDE DEF e
<1>2. ASSUME NEW s \in Strings PROVE Trimmed(s) \in Strings /\ Len(Trimmed(s)) <= Len(s)
  <2> DEFINE at == {j \in 1 .. Len(s) : s[j] # Space}
  <2>0. Len(s) \in Nat
    BY DEF Strings
  <2>1. CASE at = {}
    <3>1. Trimmed(s) = <<>> /\ <<>> \in Strings /\ Len(<<>>) = 0
      BY <2>1 DEF Trimmed, Strings
    <3> QED BY <3>1, <2>0
  <2>2. CASE at # {}
    <3>1. PICK k \in at : \A j \in at : j <= k
      <4>1. at \subseteq 1 .. Len(s)
        OBVIOUS
      <4> HIDE DEF at
      <4> QED BY <2>0, <2>2, <4>1, Largest
    <3>2. (CHOOSE j \in at : \A h \in at : h <= j) = k
      <4>1. \A j \in at : (\A h \in at : h <= j) => j = k
        BY <3>1
      <4> HIDE DEF at
      <4> QED BY <3>1, <4>1
    <3>3. Trimmed(s) = SubSeq(s, 1, k)
      BY <2>2, <3>2 DEF Trimmed
    <3>4. k \in 0 .. Len(s) /\ k \in 1 .. Len(s) /\ 1 \in Nat \ {0}
      BY <3>1
    <3>5. SubSeq(s, 1, k) \in Strings /\ Len(SubSeq(s, 1, k)) = IF 1 <= k THEN k - 1 + 1 ELSE 0
      BY <3>4, PartIs
    <3> QED BY <3>3, <3>4, <3>5, <2>0
  <2> QED BY <2>1, <2>2
<1>3. /\ Trimmed(e.name) \in Strings /\ Len(Trimmed(e.name)) <= NameMax
      /\ Trimmed(e.ext) \in Strings /\ Len(Trimmed(e.ext)) <= ExtMax
  BY <1>1, <1>2
<1> DEFINE p == Trimmed(e.name)
           x == Trimmed(e.ext)
           y == IF e.ext[1] = Space THEN <<>> ELSE <<Dot>> \o x
<1>4. y \in Strings /\ Len(y) <= ExtMax + 1
  <2>1. <<Dot>> \in Strings /\ Len(<<Dot>>) = 1 /\ <<>> \in Strings /\ Len(<<>>) = 0
    BY ArgsAssumption DEF Strings
  <2>2. <<Dot>> \o x \in Strings /\ Len(<<Dot>> \o x) = 1 + Len(x)
    BY <2>1, <1>3, JoinIs
  <2>3. Len(x) \in Nat /\ ExtMax \in Nat
    BY <1>3, FieldsAssumption DEF Strings
  <2> HIDE DEF x
  <2>4. CASE e.ext[1] = Space
    BY <2>1, <2>3, <2>4
  <2>5. CASE e.ext[1] # Space
    BY <2>2, <2>3, <2>5, <1>3 DEF x
  <2> QED BY <2>4, <2>5
<1>5. format_83(t[i]) = p \o y
  BY DEF format_83, e
<1>6. p \in Strings /\ Len(p) <= NameMax /\ Len(p) \in Nat /\ Len(y) \in Nat
  BY <1>3, <1>4 DEF Strings
<1> HIDE DEF p, y
<1>7. Len(p \o y) = Len(p) + Len(y)
  BY <1>4, <1>6, JoinIs
<1> QED BY <1>4, <1>5, <1>6, <1>7, FieldsAssumption

(* What a walk finds by the last component of a path is an entry of the     *)
(* directory before.                                                        *)
LEMMA FoundInside ==
  ASSUME NEW t, TreeOK(t), NEW d \in Nodes(t) \cup {NotFound}, NEW b \in Strings, b # <<>>,
         \A i \in 1 .. Len(b) : b[i] # Slash,
         IsDirIn(t, WalkIn(t, d, Components(b))),
         d = Root \/ Components(b) # <<b>> \/ b \notin {<<Dot>>, <<Dot, Dot>>}
  PROVE  /\ Components(b) = <<b>> /\ WalkIn(t, d, Components(b)) \in 1 .. Len(t)
         /\ t[WalkIn(t, d, Components(b))].dir = d
<1>0. Len(b) \in Nat \ {0} /\ CompMax \in Nat /\ CompMax > 3
  BY FieldsAssumption DEF Strings
<1>1. ~IsDirIn(t, NotFound)
  BY NullAssumption DEF IsDirIn, KindIn, Root
<1>2. ASSUME NEW x PROVE WalkIn(t, d, <<x>>) = FindIn(t, d, x)
  <2>1. Len(<<x>>) = 0 + 1 /\ <<x>>[0 + 1] = x /\ 0 \in Nat
    OBVIOUS
  <2>2. Place(t, d, <<x>>, 0 + 1) = FindIn(t, Place(t, d, <<x>>, 0), <<x>>[0 + 1])
    BY <2>1, PlaceNext
  <2>3. Place(t, d, <<x>>, 0) = d
    BY <2>1, PlaceNext
  <2> QED BY <2>1, <2>2, <2>3 DEF WalkIn
<1>3. ASSUME Len(b) > CompMax PROVE FALSE
  <2> DEFINE e == PieceEnd(b, 1)
             x == SubSeq(b, 1, e - 1)
             y == Pieces(b)[PieceNext(b, 1)]
  <2>1. 1 \in 1 .. Len(b)
    BY <1>0
  <2>2. EndsAt(b, 1, 1 + CompMax)
    BY <1>0, <1>3 DEF EndsAt
  <2>3. e = 1 + CompMax
    <3>1. 1 + CompMax \in Nat
      BY <1>0
    <3> QED BY <2>1, <2>2, <3>1, EndIs
  <2>4. x \in Strings /\ Len(x) = CompMax
    <3>1. 1 \in Nat \ {0} /\ e - 1 \in 0 .. Len(b) /\ e - 1 = CompMax /\ 1 <= CompMax
          /\ CompMax - 1 + 1 = CompMax
      BY <2>3, <1>0, <1>3
    <3> HIDE DEF e
    <3>2. SubSeq(b, 1, e - 1) \in Strings
          /\ Len(SubSeq(b, 1, e - 1)) = IF 1 <= e - 1 THEN e - 1 - 1 + 1 ELSE 0
      BY <3>1, PartIs
    <3> QED BY <3>1, <3>2
  <2>5. Components(b) = <<x>> \o y
    BY <2>1, PiecesAre
  <2>6. y \in Seq(Strings)
    <3>1. PieceNext(b, 1) \in 1 + 1 .. Len(b) + 1
      BY <2>1, EndIs
    <3>2. PieceNext(b, 1) \in 1 .. Len(b) + 1
      BY <3>1, <1>0
    <3> QED BY <3>2, PiecesTyped
  <2> HIDE DEF e, x, y
  <2>7. <<x>> \in Seq(Strings)
    BY <2>4
  <2>8. FindIn(t, d, x) = NotFound
    <3>1. x # <<Dot>> /\ x # <<Dot, Dot>>
      <4>1. Len(<<Dot>>) = 1 /\ Len(<<Dot, Dot>>) = 2
        OBVIOUS
      <4>2. Len(x) # 1 /\ Len(x) # 2
        BY <2>4, <1>0
      <4> QED BY <4>1, <4>2
    <3>2. MatchIn(t, d, x) = {}
      <4>1. \A i \in 1 .. Len(t) : format_83(t[i]) # x
        <5> TAKE i \in 1 .. Len(t)
        <5>1. Len(format_83(t[i])) < CompMax
          BY NamesAreShort
        <5> QED BY <5>1, <2>4, <1>0
      <4> QED BY <4>1 DEF MatchIn
    <3> QED BY <3>1, <3>2 DEF FindIn
  <2> DEFINE p == <<x>>
  <2>9. WalkIn(t, d, p) = NotFound
    BY <2>8, <1>2
  <2>10. p \in Seq(Strings)
    BY <2>7
  <2>11. Components(b) = p \o y
    BY <2>5
  <2> HIDE DEF p
  <2>12. WalkIn(t, d, p \o y) = WalkIn(t, NotFound, y)
    <3>1. WalkIn(t, d, p \o y) = WalkIn(t, WalkIn(t, d, p), y)
      BY <2>6, <2>10, PlaceJoin
    <3> QED BY <3>1, <2>9
  <2>13. IsDirIn(t, WalkIn(t, NotFound, y))
    BY <2>11, <2>12
  <2>14. IsDirIn(t, NotFound)
    BY <2>6, <2>13, WalkedFrom
  <2> QED BY <2>14, <1>1
<1>4. Components(b) = <<b>>
  <2>1. Len(b) <= CompMax
    BY <1>0, <1>3
  <2> QED BY <2>1, OneComponent
<1> DEFINE f == FindIn(t, d, b)
<1>5. WalkIn(t, d, Components(b)) = f
  BY <1>4, <1>2
<1>6. f # NotFound
  BY <1>1, <1>5
<1>7. IsDirIn(t, d) /\ (d = Root \/ b \notin {<<Dot>>, <<Dot, Dot>>})
  BY <1>4, <1>6, FindIs
<1>8. f \in MatchIn(t, d, b)
  <2> DEFINE M == MatchIn(t, d, b)
  <2>1. M # {}
    BY <1>6, <1>7 DEF FindIn
  <2>2. f = CHOOSE i \in M : \A j \in M : i <= j
    BY <1>7, <2>1 DEF FindIn
  <2>3. \E i \in M : \A j \in M : i <= j
    <3>1. M \subseteq Nat
      BY DEF MatchIn
    <3> HIDE DEF M
    <3> QED BY <2>1, <3>1, Smallest
  <2> HIDE DEF M, f
  <2>4. f \in M
    BY <2>2, <2>3
  <2> QED BY <2>4 DEF M
<1> HIDE DEF f
<1>9. f \in 1 .. Len(t) /\ t[f].dir = d
  BY <1>8 DEF MatchIn
<1> QED BY <1>4, <1>5, <1>9


LEMMA UpTaken ==
  ASSUME PathsInv
  PROVE  GoUpIsParent
<1> SUFFICES ASSUME Canonical(current_path), vfs_open(current_path) # Root,
                    NEW room \in Rooms
             PROVE  vfs_open(Cd(<<Dot, Dot>>, room).path) = tree[vfs_open(current_path)].dir
  BY DEF GoUpIsParent
<1> DEFINE s == current_path
           b == Final(s)
           u == Up(s)
           p == Components(Tail(u))
           q == Components(b)
           node == WalkIn(tree, Root, Components(Tail(s)))
           d == WalkIn(tree, Root, p)
<1>1. /\ s \in Strings /\ s # <<>> /\ s[1] = Slash /\ TreeOK(tree)
      /\ Single(s) /\ Last(s) # Slash
      /\ Last(Components(s)) \notin {<<Dot>>, <<Dot, Dot>>}
  BY DEF PathsInv, Canonical
<1>2. /\ b \in Strings /\ b # <<>> /\ \A i \in 1 .. Len(b) : b[i] # Slash
      /\ u \in Strings /\ u # <<>> /\ u[1] = Slash /\ p \in Seq(Strings)
      /\ p \o q = Components(Tail(s))
  BY <1>1, LastComponent DEF Joined
<1>3. vfs_open(s) = node /\ IsDirIn(tree, node)
  BY <1>1, OpenIs DEF OpenIn, PathsInv
<1>4. vfs_open(Cd(<<Dot, Dot>>, room).path) = d
  <2>1. Cd(<<Dot, Dot>>, room) = Says(GoUp, tree, "")
    <3>1. <<Dot, Dot>> \notin {<<>>, <<Slash>>}
      BY DEF Slash, Dot
    <3> QED BY <3>1 DEF Cd
  <2>2. Says(GoUp, tree, "").path = GoUp
    BY DEF Says
  <2>3. GoUp = u
    BY DEF GoUp, Up
  <2>4. vfs_open(u) = WalkIn(tree, Root, p)
    BY <1>2, OpenIs DEF OpenIn
  <2> QED BY <2>1, <2>2, <2>3, <2>4
<1>5. q \in Seq(Strings) /\ Components(Tail(s)) \in Seq(Strings)
  BY <1>1, <1>2, ComponentsTyped, TailIs
<1>6. d \in Nodes(tree) \cup {NotFound}
  <2>1. Root \in Nodes(tree) \cup {NotFound} /\ Len(p) \in Nat
    BY <1>2 DEF Nodes
  <2> HIDE DEF p
  <2> QED BY <1>1, <2>1, PlaceIsNode DEF WalkIn
<1> HIDE DEF b, u, p
<1>7. node = WalkIn(tree, d, q)
  <2>1. p \in Seq(Strings) /\ q \in Seq(Strings)
    BY <1>2, <1>5
  <2> HIDE DEF q
  <2>2. WalkIn(tree, Root, p \o q) = WalkIn(tree, WalkIn(tree, Root, p), q)
    BY <2>1, PlaceJoin
  <2> QED BY <2>2, <1>2
<1>8. q = <<b>> => b \notin {<<Dot>>, <<Dot, Dot>>}
  <2>1. SUFFICES ASSUME q = <<b>> PROVE b = Last(Components(s))
    BY <1>1
  <2> DEFINE r == Tail(s)
             o == <<Slash>>
  <2>2. o \in Strings /\ o # <<>> /\ Last(o) = Slash
    BY ArgsAssumption DEF Strings, Last
  <2>3. r \in Strings
    BY <1>1, TailIs
  <2>4. s = o \o r
    <3>1. s \in Seq(Letters)
      BY <1>1 DEF Strings
    <3> QED BY <3>1, <1>1
  <2> HIDE DEF r, o
  <2>5. Components(o \o r) = Components(o) \o Components(r)
    BY <2>2, <2>3, SplitAtSlash
  <2> DEFINE x == Components(o)
             y == Components(r)
  <2>6. x \in Seq(Strings) /\ y \in Seq(Strings)
    BY <2>2, <2>3, ComponentsTyped
  <2>7. y = p \o <<b>>
    BY <1>2, <2>1 DEF r
  <2> HIDE DEF x, y, q
  <2>8. Len(y) = Len(p) + 1 /\ y[Len(p) + 1] = b /\ Len(p) \in Nat
    BY <1>2, <2>7
  <2>9. Len(x \o y) = Len(x) + Len(y) /\ (x \o y)[Len(x) + Len(y)] = y[Len(y)]
    BY <2>6, <2>8
  <2>10. Components(s) = x \o y
    BY <2>4, <2>5 DEF x, y
  <2> QED BY <2>8, <2>9, <2>10 DEF Last
<1> HIDE DEF d, node
<1>9. tree[WalkIn(tree, d, q)].dir = d
  <2>1. IsDirIn(tree, WalkIn(tree, d, Components(b)))
    BY <1>3, <1>7
  <2>2. Components(b) # <<b>> \/ b \notin {<<Dot>>, <<Dot, Dot>>}
    BY <1>8
  <2>3. d = Root \/ Components(b) # <<b>> \/ b \notin {<<Dot>>, <<Dot, Dot>>}
    BY <2>2
  <2>4. TreeOK(tree) /\ b \in Strings /\ b # <<>> /\ \A i \in 1 .. Len(b) : b[i] # Slash
    BY <1>1, <1>2
  <2>5. tree[WalkIn(tree, d, Components(b))].dir = d
    BY <1>6, <2>1, <2>3, <2>4, FoundInside
  <2> QED BY <2>5
<1> QED BY <1>3, <1>4, <1>7, <1>9

(* cd goes where it is asked to go, or says that there is no such place, or *)
(* none that the heap has room for:                                         *)
(* the components of the path it opens are those of the current path and    *)
(* then those of the argument, however the slashes stand and however long   *)
(* the components are, as long as the path is not cut; "cd .." goes to the  *)
(* directory that holds the current one (cmd_cd, path_resolve, vfs_open).   *)
THEOREM CdGoes == PathsSpec => []CdGoesWhereAsked
<1>1. PathsInv => CdGoesWhereAsked
  BY WalkTaken, UpTaken DEF CdGoesWhereAsked
<1> QED BY PathsInvariant, <1>1, PTL

LEMMA FitsIsShort ==
  ASSUME NEW s \in Strings, Fits83(s)
  PROVE  s # <<>> /\ Len(s) < CompMax
<1>1. PICK e \in Nat : e = NameEnd(s) /\ e <= Len(s) + 1
  BY NameEndIs DEF Strings
<1>2. /\ Len(NamePart(s)) = e - 1 /\ Len(ExtPart(s)) = IF e <= Len(s) THEN Len(s) - e ELSE 0
      /\ Len(NamePart(s)) \in 1 .. NameMax /\ Len(ExtPart(s)) <= ExtMax
  BY <1>1, Parts DEF Fits83
<1>3. Len(s) \in Nat
  BY DEF Strings
<1>4. e - 1 \in 1 .. NameMax /\ (e <= Len(s) => Len(s) - e <= ExtMax)
  BY <1>2
<1>5. Len(s) # 0 /\ Len(s) < CompMax
  BY <1>1, <1>3, <1>4, FieldsAssumption
<1> QED BY <1>5

(* The end of a sequence that another one also makes the end of.            *)
LEMMA SameEnd ==
  ASSUME NEW p \in Seq(Strings), NEW q \in Seq(Strings), NEW r \in Seq(Strings), NEW b,
         b \in Strings, q # <<>>, p \o q = r \o <<b>>
  PROVE  Last(q) = b /\ Front(q) \in Seq(Strings) /\ Joined(p, Front(q), r)
<1> DEFINE s == p \o q
           f == Front(q)
<1>1. /\ s \in Seq(Strings) /\ Len(s) = Len(p) + Len(q)
      /\ \A i \in 1 .. Len(p) : s[i] = p[i]
      /\ \A i \in 1 .. Len(q) : s[Len(p) + i] = q[i]
      /\ Len(p) \in Nat /\ Len(q) \in Nat \ {0} /\ Len(r) \in Nat
  <2>1. Len(q) # 0 /\ Len(r) \in Nat
    OBVIOUS
  <2> QED BY <2>1, ConcatIs
<1>2. /\ Len(s) = Len(r) + 1 /\ s[Len(r) + 1] = b
      /\ \A i \in 1 .. Len(r) : s[i] = r[i]
  OBVIOUS
<1>3. f \in Seq(Strings) /\ Len(f) = Len(q) - 1 /\ \A i \in 1 .. Len(q) - 1 : f[i] = q[i]
  BY <1>1 DEF Front
<1> HIDE DEF s, f
<1>4. Last(q) = b
  <2>1. Len(q) \in 1 .. Len(q) /\ Len(p) + Len(q) = Len(r) + 1
    BY <1>1, <1>2
  <2> QED BY <2>1, <1>1, <1>2 DEF Last
<1>5. p \o f = r
  <2> DEFINE t == p \o f
  <2>1. /\ t \in Seq(Strings) /\ Len(t) = Len(p) + Len(f)
        /\ \A i \in 1 .. Len(p) : t[i] = p[i]
        /\ \A i \in 1 .. Len(f) : t[Len(p) + i] = f[i]
    BY <1>3, ConcatIs
  <2> HIDE DEF t
  <2>2. Len(t) = Len(r)
    BY <2>1, <1>1, <1>2, <1>3
  <2>3. ASSUME NEW i \in 1 .. Len(r) PROVE t[i] = r[i]
    <3>1. CASE i <= Len(p)
      <4>1. i \in 1 .. Len(p)
        BY <3>1, <1>1
      <4> QED BY <4>1, <2>1, <1>1, <1>2
    <3>2. CASE i > Len(p)
      <4>1. i - Len(p) \in 1 .. Len(q) - 1 /\ i - Len(p) \in 1 .. Len(q)
            /\ Len(p) + (i - Len(p)) = i /\ i - Len(p) \in 1 .. Len(f)
        BY <3>2, <1>1, <1>2, <1>3
      <4>2. t[Len(p) + (i - Len(p))] = f[i - Len(p)]
        BY <4>1, <2>1
      <4>3. f[i - Len(p)] = q[i - Len(p)]
        BY <4>1, <1>3
      <4>4. s[Len(p) + (i - Len(p))] = q[i - Len(p)]
        BY <4>1, <1>1
      <4> QED BY <4>1, <4>2, <4>3, <4>4, <1>2
    <3> QED BY <3>1, <3>2, <1>1
  <2>4. t = r
    BY <2>1, <2>2, <2>3, SeqEqual
  <2> QED BY <2>4 DEF t
<1> QED BY <1>3, <1>4, <1>5 DEF Joined, f

LEMMA MadeIs ==
  ASSUME PathsInv
  PROVE  MadeWhereAsked
<1> SUFFICES ASSUME NEW op \in {"mkdir", "touch", "echo"}, NEW arg \in NewArgs,
                    NEW room \in Rooms,
                    Whole(arg), Single(path_resolve(arg)), New(op, arg, room).tree # tree
             PROVE  /\ Front(New(op, arg, room).tree) = tree
                    /\ Last(New(op, arg, room).tree).dir = Walk(From(arg), Front(Steps(arg)))
                    /\ Last(New(op, arg, room).tree).kind = KindOf(op)
                    /\ Last(New(op, arg, room).tree).name
                         = Padded(NamePart(Last(Steps(arg))), NameMax)
                    /\ Last(New(op, arg, room).tree).ext
                         = Padded(ExtPart(Last(Steps(arg))), ExtMax)
  BY DEF MadeWhereAsked, KindOf
<1> DEFINE s == path_resolve(arg)
           steps == Steps(arg)
           new == New(op, arg, room).tree
           kind == KindOf(op)
<1>1. arg \in Strings
  BY ArgsAssumption DEF Strings
<1>2. kind \in {"dir", "file"} /\ arg # <<>> /\ Written(s, kind, room, New(op, arg, room))
  BY NewIs DEF Refused, KindOf
<1> HIDE DEF kind
<1> DEFINE e == NewEntry(vfs_open(Parent(s)), Base(s), kind)
<1>3. /\ new = Grown(s, kind) /\ IsDir(vfs_open(Parent(s))) /\ Fits83(Base(s))
  BY <1>2 DEF Written
<1>4. /\ s \in Strings /\ s # <<>> /\ s[1] = Slash
      /\ Before(arg) \in Seq(Strings) /\ steps \in Seq(Strings)
      /\ From(arg) = WalkIn(tree, Root, Before(arg))
      /\ Before(arg) \o steps = Components(Tail(s))
  BY <1>1, <1>2, StepsOf DEF Joined
<1>5. Single(s) /\ Len(s) < Size /\ Size \in Nat \ {0} /\ Len(s) \in Nat
  BY <1>1, <1>4, PathIs, BuffersAssumption DEF PathsInv, Strings
<1> HIDE DEF s, new
<1>6. /\ Len(new) = Len(tree) + 1 /\ new[Len(tree) + 1] = e /\ Longer(new, tree)
      /\ TreeOK(new) /\ TreeOK(tree)
  BY <1>2, <1>3, <1>4, GrownIs DEF PathsInv
<1>7. /\ e.dir = vfs_open(Parent(s)) /\ e.kind = kind
      /\ e.name = Padded(NamePart(Base(s)), NameMax)
      /\ e.ext = Padded(ExtPart(Base(s)), ExtMax)
  <2>1. Base(s) \in Strings
    BY <1>4, BaseIs
  <2>2. /\ e.dir = vfs_open(Parent(s)) /\ e.kind = kind
        /\ e.name = format_name_83(Base(s)).name /\ e.ext = format_name_83(Base(s)).ext
    BY DEF NewEntry
  <2> QED BY <2>1, <2>2, FieldsFit
<1> HIDE DEF e
<1>8. Front(new) = tree
  <2>1. new \in Seq(Entry) /\ tree \in Seq(Entry) /\ Len(tree) \in Nat
        /\ \A i \in 1 .. Len(tree) : new[i] = tree[i]
    BY <1>6 DEF TreeOK, Longer
  <2>2. Front(new) = SubSeq(new, 1, Len(tree))
    BY <1>6, <2>1 DEF Front
  <2>3. /\ SubSeq(new, 1, Len(tree)) \in Seq(Entry)
        /\ Len(SubSeq(new, 1, Len(tree))) = Len(tree)
        /\ \A i \in 1 .. Len(tree) : SubSeq(new, 1, Len(tree))[i] = new[i]
    BY <1>6, <2>1
  <2>4. SubSeq(new, 1, Len(tree)) = tree
    BY <2>1, <2>3, SeqEqual
  <2> QED BY <2>2, <2>4
<1>9. Last(new) = e
  BY <1>6 DEF Last
<1>10. /\ Base(s) = Final(s) /\ Final(s) # <<>> /\ Len(Final(s)) <= CompMax
       /\ Final(s) \in Strings
  <2>1. PICK l \in Nat : l = LastSlash(s)
    BY <1>4, LastSlashIs
  <2>2. l + 2 \in Nat \ {0} /\ Len(s) \in 0 .. Len(s) /\ CompMax \in Nat
    BY <1>5, FieldsAssumption
  <2>3. Final(s) \in Strings
    BY <1>4, <2>1, <2>2, PartIs DEF Final
  <2>4. Base(s) = Cut(Final(s), CompMax)
    BY DEF Base, Final
  <2>5. Base(s) \in Strings /\ Base(s) # <<>> /\ Len(Base(s)) < CompMax
    BY <1>3, <1>4, BaseIs, FitsIsShort
  <2>6. /\ Len(Cut(Final(s), CompMax))
             = IF Len(Final(s)) < CompMax THEN Len(Final(s)) ELSE CompMax
        /\ Len(Final(s)) <= CompMax => Cut(Final(s), CompMax) = Final(s)
    BY <2>2, <2>3, CutIs
  <2>7. Len(Final(s)) \in Nat
    BY <2>3 DEF Strings
  <2>8. Len(Final(s)) <= CompMax
    BY <2>2, <2>4, <2>5, <2>6, <2>7
  <2> QED BY <2>3, <2>4, <2>5, <2>6, <2>8
<1>11. Last(s) # Slash
  <2>1. SUFFICES ASSUME Last(s) = Slash PROVE FALSE
    OBVIOUS
  <2>2. PICK l \in Nat : /\ l = LastSlash(s)
                         /\ \A j \in 1 .. Len(s) : s[j] = Slash => j <= l + 1
    BY <1>4, LastSlashIs
  <2>3. Len(s) \in 1 .. Len(s)
    BY <1>4, <1>5 DEF Strings
  <2>4. ~(l + 2 <= Len(s))
    BY <2>1, <2>2, <2>3 DEF Last
  <2>5. l + 2 \in Nat \ {0} /\ Len(s) \in 0 .. Len(s)
    BY <1>5
  <2>6. Len(SubSeq(s, l + 2, Len(s))) = 0
    BY <1>4, <2>4, <2>5, PartIs
  <2>7. SubSeq(s, l + 2, Len(s)) = Final(s)
    BY <2>2 DEF Final
  <2> QED BY <2>6, <2>7, <1>10 DEF Strings
<1> DEFINE b == Final(s)
           u == Up(s)
           p == Components(Tail(u))
<1>12. /\ \A i \in 1 .. Len(b) : b[i] # Slash
       /\ u \in Strings /\ u # <<>> /\ u[1] = Slash /\ p \in Seq(Strings)
       /\ p \o Components(b) = Components(Tail(s))
  BY <1>4, <1>5, <1>11, LastComponent DEF Joined
<1>13. Components(b) = <<b>>
  BY <1>10, <1>12, OneComponent
<1>14. vfs_open(Parent(s)) = WalkIn(tree, Root, p)
  <2>1. Parent(s) = u
    <3>1. CASE LastSlash(s) = 0
      BY <3>1 DEF Parent, Up
    <3>2. CASE LastSlash(s) # 0
      <4>1. u = Cut(s, LastSlash(s)) /\ Parent(s) = strlcpy(u, Size)
        BY <3>2 DEF Parent, Up
      <4>2. LastSlash(s) \in Nat
        BY <1>4, LastSlashIs
      <4>3. Len(Cut(s, LastSlash(s))) <= Len(s) /\ Len(Cut(s, LastSlash(s))) \in Nat
        BY <1>4, <4>2, CutIs DEF Strings
      <4> HIDE DEF u
      <4>4. Len(u) < Size
        BY <4>1, <4>3, <1>5
      <4> QED BY <4>1, <4>4, <1>5, <1>12, CopyIs
    <3> QED BY <3>1, <3>2
  <2> QED BY <2>1, <1>12, OpenIs DEF OpenIn
<1>15. steps # <<>>
  <2>1. SUFFICES ASSUME steps = <<>> PROVE FALSE
    OBVIOUS
  <2>2. CASE Absolute(arg)
    <3>1. Before(arg) = <<>>
      BY <2>2 DEF Before
    <3>2. <<>> = p \o <<b>>
      BY <1>4, <1>12, <1>13, <2>1, <3>1
    <3> HIDE DEF p, b
    <3>3. Len(p \o <<b>>) = Len(p) + 1 /\ Len(p) \in Nat
      BY <1>12
    <3> QED BY <3>2, <3>3
  <2>3. CASE ~Absolute(arg)
    <3>1. steps = Components(arg)
      BY <2>3 DEF Steps
    <3>2. 1 \in 1 .. Len(arg)
      BY <1>1, <1>2 DEF Strings
    <3> DEFINE x == SubSeq(arg, 1, PieceEnd(arg, 1) - 1)
               y == Pieces(arg)[PieceNext(arg, 1)]
    <3>3. steps = <<x>> \o y
      BY <1>1, <3>1, <3>2, PiecesAre
    <3>4. y \in Seq(Strings)
      <4>1. PieceNext(arg, 1) \in 1 + 1 .. Len(arg) + 1
        BY <1>1, <3>2, EndIs
      <4>2. PieceNext(arg, 1) \in 1 .. Len(arg) + 1
        BY <4>1, <3>2
      <4> QED BY <1>1, <4>2, PiecesTyped
    <3>5. x \in Strings
      BY <1>1, <3>2, PieceIs
    <3> HIDE DEF x, y
    <3>6. Len(<<x>> \o y) = 1 + Len(y) /\ Len(y) \in Nat
      BY <3>4, <3>5
    <3>7. Len(<<x>> \o y) # 0 /\ Len(<<>>) = 0
      BY <3>6
    <3> QED BY <2>1, <3>3, <3>7, Zenon
  <2> QED BY <2>2, <2>3
<1> DEFINE a == Before(arg)
           f == Front(steps)
<1>16. Last(steps) = b /\ f \in Seq(Strings) /\ a \o f = p
  <2>1. a \o steps = p \o <<b>>
    BY <1>4, <1>12, <1>13
  <2>2. a \in Seq(Strings) /\ steps \in Seq(Strings) /\ p \in Seq(Strings) /\ b \in Strings
    BY <1>4, <1>10, <1>12
  <2> HIDE DEF a, steps, p, b, f
  <2>3. Last(steps) = b /\ Front(steps) \in Seq(Strings) /\ Joined(a, Front(steps), p)
    BY <2>1, <2>2, <1>15, SameEnd
  <2> QED BY <2>3 DEF f, Joined
<1>17. Walk(From(arg), f) = WalkIn(tree, Root, p)
  <2>1. Walk(From(arg), f) = WalkIn(tree, From(arg), f)
    BY WalkIs
  <2>2. From(arg) = WalkIn(tree, Root, a) /\ a \o f = p
    BY <1>4, <1>16
  <2>3. a \in Seq(Strings) /\ f \in Seq(Strings)
    BY <1>4, <1>16
  <2> HIDE DEF a, f
  <2>4. WalkIn(tree, Root, a \o f) = WalkIn(tree, WalkIn(tree, Root, a), f)
    BY <2>3, PlaceJoin
  <2> QED BY <2>1, <2>2, <2>4
<1>18. Last(new).dir = Walk(From(arg), Front(Steps(arg)))
  BY <1>7, <1>9, <1>14, <1>17
<1>19. /\ Last(new).kind = kind
       /\ Last(new).name = Padded(NamePart(Last(Steps(arg))), NameMax)
       /\ Last(new).ext = Padded(ExtPart(Last(Steps(arg))), ExtMax)
  BY <1>7, <1>9, <1>10, <1>16
<1> QED BY <1>8, <1>18, <1>19 DEF new, kind

(* touch, mkdir and echo > add their entry to the directory that the path   *)
(* leads to without its last component, under that component and of their   *)
(* kind, and leave every other entry as it was, however little the heap has *)
(* left (path_parent_and_name, vfs_create).                                 *)
THEOREM MadeWhere == PathsSpec => []MadeWhereAsked
BY PathsInvariant, MadeIs, PTL

=============================================================================
