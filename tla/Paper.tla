-------------------------------- MODULE Paper ---------------------------------
(***************************************************************************)
(* What the text screen promises: endless paper.  Characters go to the     *)
(* last line, a full line starts another, nothing printed is lost.         *)
(***************************************************************************)
EXTENDS Integers, Sequences

CONSTANTS Width, TabStop, Glyphs

Blank == " "
Columns == 0 .. Width - 1
BlankLine == [x \in Columns |-> Blank]

VARIABLES
    lines,  \* the lines begun so far, each a function of its columns
    col     \* where the next character goes, in the last line

vars == <<lines, col>>

Init == lines = <<BlankLine>> /\ col = 0

Last == Len(lines)

\* The pen moves to column c; past the last one a line is begun.
Goto(page, c) ==
    IF c < Width THEN lines' = page /\ col' = c
                 ELSE lines' = Append(page, BlankLine) /\ col' = 0

Put == \E g \in Glyphs : Goto([lines EXCEPT ![Last][col] = g], col + 1)
NewLine == Goto(lines, Width)
TabTo == Goto(lines, (col \div TabStop + 1) * TabStop)
Erase == col > 0 /\ Goto([lines EXCEPT ![Last][col - 1] = Blank], col - 1)
NewPage == lines' = <<BlankLine>> /\ col' = 0

Next == Put \/ NewLine \/ TabTo \/ Erase \/ NewPage
Spec == Init /\ [][Next]_vars
===============================================================================
