------------------------------ MODULE Console ------------------------------
(* The text console of WeensyOS (src/pset4/lib.cc): Rows * Columns cells in   *)
(* video memory, the cursor that console_printf() calls with a negative       *)
(* position share, and the character printer that writes, wraps and scrolls.  *)
(* The text is what printer_vprintf() hands over one character at a time      *)
(* (module Strings); its colour is left out.                                  *)
EXTENDS Integers, Sequences, FiniteSetsExt

CONSTANTS
    Rows, Columns,   \* CONSOLE_ROWS 25, CONSOLE_COLUMNS 80
    Texts,           \* what the callers print: sequences of character codes
    Positions        \* the positions they print at; a negative one scrolls

ASSUME ConsoleAssumption ==
    /\ Rows \in Nat \ {0} /\ Columns \in Nat \ {0}
    /\ Positions \subseteq Int /\ Texts \subseteq Seq(Nat)

Screen == Rows * Columns
Newline == 10
Blank == 32

VARIABLES
    console,    \* the cells, from 0
    cursorpos,  \* where the next print with a negative position starts
    printed     \* history: the last print and the position it returned

consoleVars == <<console, cursorpos, printed>>

Cleared == [i \in 0..Screen - 1 |-> Blank]

\* The screen moved up one row; the cells below are memset to zero.
Scrolled(cells) ==
    [i \in 0..Screen - 1 |-> IF i + Columns < Screen THEN cells[i + Columns] ELSE 0]

\* A mutant: a print at a position scrolls as well.
Room_AlwaysScrolls(at, scroll) ==
    IF at.cursor < Screen THEN at
    ELSE [cells |-> Scrolled(at.cells), cursor |-> at.cursor - Columns]

\* Before a character: a cursor beyond the last cell scrolls or returns to the top.
Room(at, scroll) ==
    IF at.cursor < Screen THEN at
    ELSE IF scroll THEN [cells |-> Scrolled(at.cells), cursor |-> at.cursor - Columns]
    ELSE [at EXCEPT !.cursor = 0]

\* A newline blanks the rest of its row, one cell after the other.
RestOfRow(at) == at.cursor..(at.cursor + Columns - 1 - (at.cursor % Columns))

Putc(at, c, scroll) ==
    LET here == Room(at, scroll)
        to   == IF c = Newline THEN RestOfRow(here) ELSE {here.cursor}
    IN  [cells  |-> [i \in DOMAIN here.cells |->
                        IF i \notin to THEN here.cells[i]
                        ELSE IF c = Newline THEN Blank ELSE c],
         cursor |-> here.cursor + (IF c = Newline THEN Columns - (here.cursor % Columns) ELSE 1)]

\* Where console_vprintf() starts: a position beyond the screen means the top.
StartCell(cpos) == IF cpos < 0 THEN cursorpos ELSE IF cpos <= Screen THEN cpos ELSE 0

\* The characters of a text, one after the other.
PutAll(from, text, scroll) ==
    LET at[n \in 0..Len(text)] == IF n = 0 THEN from ELSE Putc(at[n - 1], text[n], scroll)
    IN  at[Len(text)]

ConsolePrintf(cpos, text) ==
    LET at == PutAll([cells |-> console, cursor |-> StartCell(cpos)], text, cpos < 0)
    IN  /\ console' = at.cells
        /\ cursorpos' = IF cpos < 0 THEN at.cursor ELSE cursorpos
        /\ printed' = [text |-> text, cpos |-> cpos, stop |-> at.cursor]

ConsoleClear == /\ console' = Cleared
                /\ cursorpos' = 0
                /\ UNCHANGED printed

ConsoleInit == /\ console = Cleared
               /\ cursorpos = 0
               /\ printed = [text |-> << >>, cpos |-> 0, stop |-> 0]

ConsoleNext == \/ \E cpos \in Positions, text \in Texts : ConsolePrintf(cpos, text)
               \/ ConsoleClear

ConsoleSpec == ConsoleInit /\ [][ConsoleNext]_consoleVars

-----------------------------------------------------------------------------
(* The reference: print on an endless roll of paper, then look at its end.    *)

\* A text as it fills the roll from a given place: newlines turned into blanks.
OnPaper(text, start) ==
    LET roll[n \in 0..Len(text)] ==
            IF n = 0 THEN << >>
            ELSE IF text[n] # Newline THEN Append(roll[n - 1], text[n])
            ELSE roll[n - 1] \o
                 [i \in 1..Columns - ((start + Len(roll[n - 1])) % Columns) |-> Blank]
    IN  roll[Len(text)]

\* Rows the roll had to move for the last character to be on the screen.
RowsUp(end) == IF end <= Screen THEN 0 ELSE (end - Screen + Columns - 1) \div Columns

\* The cell i of the screen once that paper ends at its last cell.
RolledCell(paper, start, i) ==
    LET place == i + RowsUp(start + Len(paper)) * Columns
    IN  IF place >= start /\ place < start + Len(paper) THEN paper[place - start + 1]
        ELSE IF place < Screen THEN console[place] ELSE 0

\* Without scrolling the text goes round the screen, and the last lap wins.
WrappedCell(paper, start, i) ==
    LET here == {k \in 1..Len(paper) : (start + k - 1) % Screen = i}
    IN  IF here = {} THEN console[i] ELSE paper[Max(here)]

\* The place just after the last character of the paper; nothing printed, no move.
StopCell(paper, start, scroll) ==
    LET end == start + Len(paper)
    IN  IF scroll THEN end - RowsUp(end) * Columns
        ELSE IF paper = << >> THEN start
        ELSE ((end - 1) % Screen) + 1

\* Wherever a print starts and however long it is, the screen afterwards is the
\* end of the roll, no cell outside the screen is written, and the call returns the
\* cell just after the last character: console_putc() scrolls exactly as many rows
\* as the text needs, and a print at a position never moves what it does not hit.
\* The next scrolling print goes on where this one stopped; a print at a position
\* leaves that place alone.
PrintsAsRoll ==
    [][ConsoleClear \/
       LET scroll == printed'.cpos < 0
           start  == StartCell(printed'.cpos)
           paper  == OnPaper(printed'.text, start)
       IN  /\ printed'.stop = StopCell(paper, start, scroll)
           /\ cursorpos' = IF scroll THEN printed'.stop ELSE cursorpos
           /\ console' = [i \in 0..Screen - 1 |-> IF scroll THEN RolledCell(paper, start, i)
                                                 ELSE WrappedCell(paper, start, i)]]_consoleVars

=============================================================================
