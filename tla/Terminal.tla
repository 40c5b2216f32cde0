------------------------------ MODULE Terminal ------------------------------
(* The screen and the line the shell edits on it: drivers/vga.c keeps a row *)
(* and a column, scrolls when the row runs off the bottom and moves back    *)
(* over line ends on backspace; shell_run counts the characters of its line *)
(* and trusts the screen to follow.  Commands and programs print in         *)
(* between, backspaces too, and a program can be killed half-way through a  *)
(* character.                                                               *)
EXTENDS Integers, Sequences

CONSTANTS
  Width, Height,   \* VGA_WIDTH (80) and VGA_HEIGHT (25)
  Word,            \* a size_t wraps here (2^32)
  InputSize,       \* INPUT_SIZE (256), with the closing zero
  Chars,           \* characters of one cell; every other byte looks like one
  BannerText, PromptText,   \* what shell_run prints
  ExitText,        \* what cmd_exec prints after a program
  MaxClimb         \* bound: rows that cat takes the cursor above the screen

ASSUME SizeAssumption == Width \in Nat \ {0, 1} /\ Height \in Nat \ {0, 1}
ASSUME WordAssumption == Word \in Nat /\ Word >= (Height + 1) * Width
ASSUME InputAssumption == InputSize \in 1 .. Width * (Height - 1) + 1
ASSUME ClimbAssumption == MaxClimb \in 0 .. Word - Height

VARIABLES
  terminal_row, terminal_column,
  terminal_buffer,   \* the characters on the screen, row after row
  pc,                \* edit, or what runs: command, program, ended; or
                     \* what is printed: prompt, exit
  text,              \* what printf has still to print of it
  line,              \* input[0 .. i - 1]
  start,             \* history: where on the screen the line begins,
                     \* unless climbed
  climbed            \* history: a command has printed a backspace in the
                     \* first cell, and the screen has not been cleared since

terminal == <<terminal_row, terminal_column, terminal_buffer>>
vars == <<terminal, pc, text, line, start, climbed>>

Blank == " "
Newline == "\n"
Backspace == "backspace"
Printed == Chars \cup {Newline}
ASSUME CharsAssumption == Newline \notin Chars /\ Backspace \notin Chars
ASSUME TextAssumption == {BannerText, PromptText, ExitText} \subseteq Seq(Printed)

Cells == 0 .. Width * Height - 1

Term == [row |-> terminal_row, col |-> terminal_column, buf |-> terminal_buffer]
SetTerm(t) == /\ terminal_row' = t.row /\ terminal_column' = t.col
              /\ terminal_buffer' = t.buf

-----------------------------------------------------------------------------
terminal_initialize == [row |-> 0, col |-> 0, buf |-> [k \in Cells |-> Blank]]

(* Where a character goes; an index that is not on the screen hits other    *)
(* video memory.                                                            *)
Index(t) == (t.row * Width + t.col) % Word
terminal_putentryat(t, c) ==
  IF Index(t) \in Cells THEN [t EXCEPT !.buf[Index(t)] = c] ELSE t

(* Mutant: the row that is cleared is the first one.                        *)
terminal_scroll_ClearsTop(t) ==
  [t EXCEPT !.row = Height - 1,
            !.buf = [k \in Cells |-> IF k < Width THEN Blank
                                     ELSE IF k + Width \in Cells
                                     THEN t.buf[k + Width] ELSE t.buf[k]]]

terminal_scroll(t) ==
  [t EXCEPT !.row = Height - 1,
            !.buf = [k \in Cells |-> IF k + Width \in Cells
                                     THEN t.buf[k + Width] ELSE Blank]]

(* To the beginning of the next row, which may have to be made.             *)
NextRow(t) ==
  LET down == [t EXCEPT !.row = (@ + 1) % Word, !.col = 0]
  IN IF down.row = Height THEN terminal_scroll(down) ELSE down

Advance(t) ==
  IF t.col + 1 = Width THEN NextRow(t) ELSE [t EXCEPT !.col = @ + 1]

(* Mutant: backspace stays in its row.                                      *)
Retreat_SameRow(t) ==
  IF t.col > 0 THEN [t EXCEPT !.col = @ - 1] ELSE [t EXCEPT !.col = Width - 1]

(* Nothing stops at the top: above row 0 is row 2^32 - 1.                   *)
Retreat(t) ==
  IF t.col > 0 THEN [t EXCEPT !.col = @ - 1]
  ELSE [t EXCEPT !.row = (@ + Word - 1) % Word, !.col = Width - 1]

terminal_putchar(t, c) ==
  CASE c = Newline -> NextRow(t)
    [] c = Backspace -> terminal_putentryat(Retreat(t), Blank)
    [] OTHER -> Advance(terminal_putentryat(t, c))

Position(t) == t.row * Width + t.col

Init ==
  /\ terminal_row = 0 /\ terminal_column = 0
  /\ terminal_buffer = terminal_initialize.buf
  /\ pc = "prompt" /\ text = BannerText \o PromptText
  /\ start = 0 /\ line = <<>> /\ climbed = FALSE

(* printf, one character at a time, and what comes after it.                *)
printf ==
  /\ text # <<>>
  /\ SetTerm(terminal_putchar(Term, Head(text)))
  /\ text' = Tail(text)
  /\ UNCHANGED <<pc, line, start, climbed>>

Prompted ==
  /\ pc = "prompt" /\ text = <<>>
  /\ pc' = "edit" /\ line' = <<>>
  /\ start' = IF climbed THEN 0 ELSE Position(Term)
  /\ UNCHANGED <<terminal, text, climbed>>

-----------------------------------------------------------------------------
(* shell_run, a key at a time, from the keyboard or the serial line.        *)

Scrolls(c) == Index(Term) = Width * Height - 1 /\ c # Backspace

HasRoom == Len(line) < InputSize - 1

TypeKey(c) ==
  /\ pc = "edit" /\ HasRoom
  /\ line' = Append(line, c)
  /\ SetTerm(terminal_putchar(Term, c))
  /\ start' = IF Scrolls(c) /\ ~climbed THEN start - Width ELSE start
  /\ UNCHANGED <<pc, text, climbed>>

EraseKey ==
  /\ pc = "edit" /\ line # <<>>
  /\ line' = SubSeq(line, 1, Len(line) - 1)
  /\ SetTerm(terminal_putchar(Term, Backspace))
  /\ UNCHANGED <<pc, text, start, climbed>>

EnterKey ==
  /\ pc = "edit"
  /\ SetTerm(terminal_putchar(Term, Newline))
  /\ pc' = "command"
  /\ UNCHANGED <<text, line, start, climbed>>

-----------------------------------------------------------------------------
(* The commands: they print, cat whatever bytes the file has; cmd_clear     *)
(* clears, cmd_exec runs a program.                                         *)

CommandPrints(c) ==
  /\ pc = "command"
  /\ c = Backspace /\ terminal_column = 0 => terminal_row # (Word - MaxClimb) % Word
  /\ SetTerm(terminal_putchar(Term, c))
  /\ climbed' = (climbed \/ (c = Backspace /\ Position(Term) = 0))
  /\ UNCHANGED <<pc, text, line, start>>

cmd_clear ==
  /\ pc = "command"
  /\ SetTerm(terminal_initialize) /\ climbed' = FALSE
  /\ UNCHANGED <<pc, text, line, start>>

Prompt ==
  /\ pc = "command"
  /\ pc' = "prompt" /\ text' = PromptText
  /\ UNCHANGED <<terminal, line, start, climbed>>

RunProgram ==
  /\ pc = "command"
  /\ pc' = "program"
  /\ UNCHANGED <<terminal, text, line, start, climbed>>

(* sys_write has no ideas about what a program may print.                   *)
ProgramWrites(c) ==
  /\ pc = "program"
  /\ SetTerm(terminal_putchar(Term, c))
  /\ UNCHANGED <<pc, text, line, start, climbed>>

ProgramExits ==
  /\ pc = "program"
  /\ pc' = "ended"
  /\ UNCHANGED <<terminal, text, line, start, climbed>>

(* The kill abandons terminal_putchar between two of its stores: in a       *)
(* character, in a line end, in a backspace over one.  What is on the       *)
(* screen then does not matter, Returned clears it.                         *)
ProgramKilled ==
  /\ pc = "program"
  /\ \/ terminal_column' = terminal_column + 1 /\ UNCHANGED terminal_row
     \/ /\ terminal_column' = 0
        /\ terminal_row' \in {terminal_row, (terminal_row + 1) % Word}
     \/ /\ terminal_column = 0 /\ UNCHANGED terminal_column
        /\ terminal_row' = (terminal_row + Word - 1) % Word
  /\ pc' = "ended"
  /\ UNCHANGED <<terminal_buffer, text, line, start, climbed>>

(* "[exec] returned" lands anywhere; then a new screen and the exit code.   *)
Returned ==
  /\ pc = "ended"
  /\ SetTerm(terminal_initialize) /\ climbed' = FALSE
  /\ pc' = "exit" /\ text' = ExitText
  /\ UNCHANGED <<line, start>>

ExitPrinted ==
  /\ pc = "exit" /\ text = <<>>
  /\ pc' = "command"
  /\ UNCHANGED <<terminal, text, line, start, climbed>>

Next ==
  \/ \E c \in Chars : TypeKey(c) \/ CommandPrints(c) \/ ProgramWrites(c)
  \/ EraseKey \/ EnterKey
  \/ CommandPrints(Newline) \/ CommandPrints(Backspace) \/ cmd_clear \/ Prompt \/ RunProgram
  \/ ProgramWrites(Newline) \/ ProgramWrites(Backspace)
  \/ ProgramExits \/ ProgramKilled \/ Returned \/ ExitPrinted
  \/ printf \/ Prompted

Spec == Init /\ [][Next]_vars

-----------------------------------------------------------------------------
TypeOK ==
  /\ terminal_row \in 0 .. Word - 1 /\ terminal_column \in 0 .. Width
  /\ terminal_buffer \in [Cells -> Chars \cup {Blank}]
  /\ pc \in {"prompt", "edit", "command", "program", "ended", "exit"}
  /\ text \in Seq(Printed)
  /\ line \in Seq(Chars) /\ Len(line) < InputSize
  /\ start \in Nat /\ climbed \in BOOLEAN

(* What the shell would execute is what the user sees: the line stands on   *)
(* the screen from where it began to the cursor, over row ends, after       *)
(* scrolling, after backspaces back over both, and whatever a program did   *)
(* to the terminal before.  One thing alone puts it elsewhere: a file that  *)
(* cat printed takes the cursor back past the first cell, and the screen    *)
(* has not been cleared since.                                              *)
LineOnScreen ==
  pc = "edit" /\ ~climbed =>
    /\ Position(Term) = start + Len(line)
    /\ Position(Term) \in Cells
    /\ \A i \in 1 .. Len(line) : terminal_buffer[start + i - 1] = line[i]

(* Editing erases nothing that was there before the line: not the prompt,   *)
(* not the output above, but for what scrolls off the top.                  *)
PromptNotErased ==
  [][pc = "edit" /\ pc' = "edit" /\ ~climbed =>
       \A k \in 0 .. start' - 1 :
         terminal_buffer'[k] = terminal_buffer[k + (start - start')]]_vars
=============================================================================
