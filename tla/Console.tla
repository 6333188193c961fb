------------------------------- MODULE Console -------------------------------
(***************************************************************************)
(* The VGA text writer of src/vga_buffer.rs.  Text enters at the bottom    *)
(* row; a newline, or a character past the last column, scrolls the screen *)
(* up.  Each call runs under the writer's lock with interrupts off, so a   *)
(* byte is one step.                                                       *)
(***************************************************************************)
EXTENDS Naturals, Sequences

CONSTANTS
    BUFFER_HEIGHT,
    BUFFER_WIDTH,
    Printable,  \* printable characters, the space included
    Other,      \* bytes outside the printable range
    Colors,     \* colour codes
    Default,    \* DEFAULT_FOREGROUND on DEFAULT_BACKGROUND
    MaxBytes    \* bound: bytes printed in a behaviour

\* The space, the newline and the block 0xfe shown for a byte of Other.
Space == "space"
Newline == "newline"
Block == "block"

ASSUME ConsoleAssumption ==
    /\ BUFFER_HEIGHT \in Nat \ {0} /\ BUFFER_WIDTH \in Nat \ {0}
    /\ Space \in Printable /\ {Newline, Block} \cap Printable = {}
    /\ Default \in Colors
    /\ MaxBytes \in Nat

Rows == 1 .. BUFFER_HEIGHT
Cols == 1 .. BUFFER_WIDTH
Cell == [char : Printable \cup {Block}, color : Colors]

VARIABLES
    chars,            \* the screen
    column_position,  \* characters already in the bottom row
    color_code,       \* colour of what is written next
    lines,            \* history: the lines written, each [text, color]
    steps             \* bytes printed so far

consoleVars == <<chars, column_position, color_code, lines, steps>>

\* A line of the history: its cells, and the colour of the blanks after them.
EmptyLine(c) == [text |-> <<>>, blank |-> c]

\* What the screen shows at boot stands for lines printed before.
ConsoleInit ==
    /\ color_code = Default
    /\ chars = [row \in Rows |-> [col \in Cols |->
                   [char |-> Space, color |-> color_code]]]
    /\ column_position = 0
    /\ lines = [row \in Rows |-> EmptyLine(color_code)]
    /\ steps = 0

-----------------------------------------------------------------------------
(* The writer, on a record of the screen and the column.                   *)

Screen == [chars |-> chars, column |-> column_position]

Blanks == [col \in Cols |-> [char |-> Space, color |-> color_code]]

\* A plausible slip: the row left behind is not cleared.
NewLineUncleared(w) ==
    [chars |-> [row \in Rows |-> w.chars[IF row < BUFFER_HEIGHT THEN row + 1 ELSE row]],
     column |-> 0]

\* new_line: every row moves up, the bottom row is cleared in the current
\* colour, the column returns to the left.
NewLine(w) ==
    [chars |-> [row \in Rows |->
                   IF row < BUFFER_HEIGHT THEN w.chars[row + 1] ELSE Blanks],
     column |-> 0]

\* A plausible slip: the line is broken one column early.
WrappedEarly(w) == IF w.column + 1 >= BUFFER_WIDTH THEN NewLine(w) ELSE w

\* The writer made ready for one more character.
Wrapped(w) == IF w.column >= BUFFER_WIDTH THEN NewLine(w) ELSE w

Put(w, ch) ==
    [chars |-> [w.chars EXCEPT ![BUFFER_HEIGHT][w.column + 1] =
                   [char |-> ch, color |-> color_code]],
     column |-> w.column + 1]

\* write_byte.
Written(w, byte) == IF byte = Newline THEN NewLine(w) ELSE Put(Wrapped(w), byte)

\* write_string replaces what it cannot show.
Shown(byte) == IF byte \in Printable \cup {Newline} THEN byte ELSE Block

\* The history gains a cell in its last line, or a line.
Recorded(byte) ==
    LET n == Len(lines)
        cell == [char |-> Shown(byte), color |-> color_code]
        full == Len(lines[n].text) = BUFFER_WIDTH
    IN  IF byte = Newline THEN Append(lines, EmptyLine(color_code))
        ELSE IF full THEN Append(lines, [text |-> <<cell>>, blank |-> color_code])
        ELSE [lines EXCEPT ![n].text = Append(@, cell)]

\* _print, for the next byte of its text.
PrintByte(byte) ==
    /\ steps < MaxBytes
    /\ LET w == Written(Screen, Shown(byte)) IN
          chars' = w.chars /\ column_position' = w.column
    /\ lines' = Recorded(byte)
    /\ steps' = steps + 1
    /\ UNCHANGED color_code

SetColor(c) ==
    /\ color_code' = c
    /\ UNCHANGED <<chars, column_position, lines, steps>>
-----------------------------------------------------------------------------
\* The cells a line of the history shows.
Displayed(line) ==
    [col \in Cols |-> IF col <= Len(line.text) THEN line.text[col]
                      ELSE [char |-> Space, color |-> line.blank]]

\* The screen is the last BUFFER_HEIGHT lines of everything printed, broken at
\* BUFFER_WIDTH: newline, wrap, scroll and clear lose, double or recolour no
\* cell, and a full line followed by a newline leaves no empty row.
ScreenIsTailOfOutput ==
    \A row \in Rows :
        chars[row] = Displayed(lines[Len(lines) - BUFFER_HEIGHT + row])
=============================================================================
