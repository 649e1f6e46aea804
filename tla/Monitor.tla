------------------------------- MODULE Monitor --------------------------------
(***************************************************************************)
(* The VGA text screen: src/kernel/core/monitor.c.                         *)
(* The colour of a cell is left out; nothing depends on it.                *)
(***************************************************************************)
EXTENDS Integers, Sequences, SequencesExt

CONSTANTS
    Width, Height,      \* 80 by 25
    TabStop,            \* 4
    ScrollbackLines,    \* 100
    Glyphs              \* characters that have a cell, the blank among them

Blank == " "
Newline == "newline"
Backspace == "backspace"
TabKey == "tab"
Columns == 0 .. Width - 1
Rows == 0 .. Height - 1
Chars == Glyphs \cup {Newline, Backspace, TabKey}

ASSUME MonitorAssumption ==
    /\ Width \in Nat \ {0} /\ Height \in Nat \ {0} /\ TabStop \in Nat \ {0}
    /\ Width % TabStop = 0
    /\ ScrollbackLines \in Nat
    /\ Blank \in Glyphs /\ Glyphs \cap {Newline, Backspace, TabKey} = {}

VARIABLES
    video_memory,           \* a character for every row and column
    cursor_x, cursor_y,
    scrollback_buffer,      \* the lines saved by scrolling
    dropped                 \* history: those scrolled off when it was full

monitor == <<video_memory, cursor_x, cursor_y, scrollback_buffer, dropped>>

BlankLine == [x \in Columns |-> Blank]

Cleared ==
    [memory |-> [y \in Rows |-> BlankLine], x |-> 0, y |-> 0, saved |-> <<>>, lost |-> <<>>]

\* The screen as one value, and an operation's result put back.
Screen ==
    [memory |-> video_memory, x |-> cursor_x, y |-> cursor_y,
     saved |-> scrollback_buffer, lost |-> dropped]

Show(s) ==
    /\ video_memory' = s.memory /\ cursor_x' = s.x /\ cursor_y' = s.y
    /\ scrollback_buffer' = s.saved /\ dropped' = s.lost

MonitorInit ==
    /\ video_memory = Cleared.memory /\ cursor_x = 0 /\ cursor_y = 0
    /\ scrollback_buffer = <<>> /\ dropped = <<>>

ClearScreen == Show(Cleared)

\* save_line_to_scrollback: the buffer keeps the lines it got first.
Saved(s) ==
    IF Len(s.saved) < ScrollbackLines
    THEN [s EXCEPT !.saved = Append(@, s.memory[0])]
    ELSE [s EXCEPT !.lost = Append(@, s.memory[0])]

ShiftedBare(memory) ==      \* mutant: the freed row is not blanked
    [y \in Rows |-> IF y = Height - 1 THEN memory[y] ELSE memory[y + 1]]

Shifted(memory) ==
    [y \in Rows |-> IF y = Height - 1 THEN BlankLine ELSE memory[y + 1]]

Scrolled(s) ==
    IF s.y < Height THEN s
    ELSE [Saved(s) EXCEPT !.memory = Shifted(@), !.y = Height - 1]

Wrapped(s) == IF s.x >= Width THEN [s EXCEPT !.x = 0, !.y = @ + 1] ELSE s

AfterTab(x) == (x + TabStop) - ((x + TabStop) % TabStop)

Placed(s, c) ==
    CASE c = Newline -> [s EXCEPT !.x = 0, !.y = @ + 1]
      [] c = Backspace ->
            IF s.x > 0 THEN [s EXCEPT !.x = @ - 1, !.memory[s.y][s.x - 1] = Blank] ELSE s
      [] c = TabKey -> [s EXCEPT !.x = AfterTab(@)]
      [] OTHER -> [s EXCEPT !.memory[s.y][s.x] = c, !.x = @ + 1]

Printed(s, c) == Scrolled(Wrapped(Placed(s, c)))
PrintChar(c) == Show(Printed(Screen, c))
===============================================================================
