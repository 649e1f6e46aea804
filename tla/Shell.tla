-------------------------------- MODULE Shell ---------------------------------
(***************************************************************************)
(* The shell's line editor and command parser, over the text screen:       *)
(* src/kernel/shell/shell.c.  Its output is printed character by           *)
(* character, and a key is read only when all is printed.                  *)
(***************************************************************************)
EXTENDS Monitor

CONSTANTS
    Keys,               \* what keyboard_getchar may return, but 0 and newline
    BufferMax,          \* 255, the last index of input_buffer
    CmdMax, ArgMax,     \* 63 and 191, the room in cmd and args
    Prompt, Banner, Unknown,    \* texts
    Texts,              \* what the commands without arguments print
    Clear, Echo,        \* the names of the two other commands
    MaxKeys             \* bound of the model on the keys pressed

NUL == "nul"
ClearOp == "clear_screen"   \* in output: a call of clear_screen

\* What is printed before a prompt ends the line.
EndsLine(text) == text = <<>> \/ text[Len(text)] = Newline

ASSUME ShellAssumption ==
    /\ Keys \subseteq Chars \ {Newline}
    /\ BufferMax \in Nat /\ CmdMax \in Nat /\ ArgMax \in Nat /\ MaxKeys \in Nat
    /\ Prompt \in Seq(Glyphs) /\ Len(Prompt) \in 2 .. Width - 1
    /\ Banner \in Seq(Chars) /\ EndsLine(Banner)
    /\ Unknown \in Seq(Chars)
    /\ \A name \in DOMAIN Texts : Texts[name] \in Seq(Chars) /\ EndsLine(Texts[name])
    /\ Clear # Echo /\ {Clear, Echo} \cap DOMAIN Texts = {}
    /\ NUL \notin Chars /\ ClearOp \notin Chars

VARIABLES
    input_buffer,       \* characters and NULs, indices 0 .. BufferMax
    input_index,
    output,             \* the calls of print_char and clear_screen still to come
    promptRow,          \* history: the row of the last prompt, negative if gone
    typed,              \* history: the keys since that prompt
    ran,                \* history: the last command and its arguments
    pressed             \* number of keys pressed

history == <<promptRow, typed, ran, pressed>>
vars == <<monitor, input_buffer, input_index, output, history>>

Empty == [i \in 0 .. BufferMax |-> NUL]

\* shell_init, and the prompt shell_run begins with.
Init ==
    /\ MonitorInit
    /\ input_buffer = Empty /\ input_index = 0
    /\ output = <<ClearOp>> \o Banner \o Prompt
    /\ promptRow = -1 /\ typed = <<>> /\ ran = [cmd |-> <<>>, args |-> <<>>]
    /\ pressed = 0

\* The string in a buffer: what comes before the first NUL.
StringIn(buffer) ==
    LET n == CHOOSE n \in 0 .. BufferMax :
                buffer[n] = NUL /\ \A i \in 0 .. n - 1 : buffer[i] # NUL
    IN [i \in 1 .. n |-> buffer[i - 1]]

-----------------------------------------------------------------------------
(* shell_execute.                                                           *)

IsWordEnd(command, n) ==
    n = Len(command) \/ command[n + 1] = Blank \/ n = CmdMax

WordLength(command) ==
    CHOOSE n \in 0 .. Len(command) :
        IsWordEnd(command, n) /\ \A i \in 0 .. n - 1 : ~IsWordEnd(command, i)

Upto(command, first, last) ==
    SubSeq(command, first, IF last < Len(command) THEN last ELSE Len(command))

CmdIn(command) == SubSeq(command, 1, WordLength(command))

ArgsAtSpace(command, n) ==      \* mutant: the space is not skipped
    Upto(command, n + 1, n + ArgMax)

ArgsAfter(command, n) == Upto(command, n + 2, n + 1 + ArgMax)

\* Arguments follow a space; a word cut short has none.
ArgsIn(command) ==
    LET n == WordLength(command) IN
    IF n < Len(command) /\ command[n + 1] = Blank THEN ArgsAfter(command, n) ELSE <<>>

Output(cmd, args) ==
    CASE cmd = Clear -> <<ClearOp>> \o Banner
      [] cmd = Echo -> args \o <<Newline>>
      [] cmd \in DOMAIN Texts -> Texts[cmd]
      [] OTHER -> Unknown \o cmd \o <<Newline>>

Executed(command) ==
    IF command = <<>> THEN <<>> ELSE Output(CmdIn(command), ArgsIn(command))

-----------------------------------------------------------------------------
(* shell_run, one key at a time.                                            *)

Key(c) ==
    /\ output = <<>> /\ pressed < MaxKeys
    /\ c \in Keys
    /\ typed' = Append(typed, c)
    /\ pressed' = pressed + 1
    /\ UNCHANGED <<monitor, promptRow>>

Enter ==
    /\ output = <<>> /\ pressed < MaxKeys
    /\ LET command == StringIn([input_buffer EXCEPT ![input_index] = NUL]) IN
        /\ output' = <<Newline>> \o Executed(command) \o Prompt
        /\ ran' = [cmd |-> CmdIn(command), args |-> ArgsIn(command)]
    /\ input_index' = 0
    /\ input_buffer' = Empty
    /\ typed' = <<>>
    /\ pressed' = pressed + 1
    /\ UNCHANGED <<monitor, promptRow>>

ErasableAlways == TRUE              \* mutant: erases although nothing is typed
Erasable == input_index > 0

EraseKey ==
    /\ Key(Backspace)
    /\ Erasable
    /\ input_index' = input_index - 1
    /\ input_buffer' = [input_buffer EXCEPT ![input_index - 1] = NUL]
    /\ output' = <<Backspace>>
    /\ UNCHANGED ran

HasRoom == input_index < BufferMax

OtherKey ==
    \E c \in Keys \ {Backspace} :
        /\ Key(c)
        /\ HasRoom
        /\ input_buffer' = [input_buffer EXCEPT ![input_index] = c]
        /\ input_index' = input_index + 1
        /\ output' = <<c>>
        /\ UNCHANGED ran

IgnoredKey ==
    \E c \in Keys :
        /\ Key(c)
        /\ IF c = Backspace THEN ~Erasable ELSE ~HasRoom
        /\ UNCHANGED <<input_buffer, input_index, output, ran>>

\* The screen moves up by one when the cursor would leave it.
ScrollsOn(c) == Wrapped(Placed(Screen, c)).y >= Height

Emit ==
    /\ output # <<>>
    /\ IF Head(output) = ClearOp THEN ClearScreen ELSE PrintChar(Head(output))
    /\ promptRow' =
        IF output = Prompt THEN cursor_y
        ELSE IF Head(output) = ClearOp THEN -1
        ELSE IF ScrollsOn(Head(output)) /\ promptRow >= 0 THEN promptRow - 1
        ELSE promptRow
    /\ output' = Tail(output)
    /\ UNCHANGED <<input_buffer, input_index, typed, ran, pressed>>

\* keyboard_getchar returns 0.
NoKey == output = <<>> /\ UNCHANGED vars

Next == Enter \/ EraseKey \/ OtherKey \/ IgnoredKey \/ Emit \/ NoKey

Spec == Init /\ [][Next]_vars

-----------------------------------------------------------------------------
\* Types of the variables.  Between calls the cursor is on the screen, so that
\* no character is written outside video memory.
TypeOK ==
    /\ video_memory \in [Rows -> [Columns -> Glyphs]]
    /\ cursor_x \in Columns /\ cursor_y \in Rows
    /\ scrollback_buffer \in Seq([Columns -> Glyphs]) /\ dropped \in Seq([Columns -> Glyphs])
    /\ Len(scrollback_buffer) <= ScrollbackLines
    /\ input_index \in 0 .. BufferMax
    /\ input_buffer \in [0 .. BufferMax -> Keys \cup {NUL}]
    /\ output \in Seq(Chars \cup {ClearOp})
    /\ promptRow \in Int

\* However a line is edited, wrapped lines and tabs included, backspace never
\* eats the prompt: it stands as printed until it is scrolled off.
PromptKept ==
    output = <<>> /\ promptRow >= 0 =>
        \A i \in DOMAIN Prompt : video_memory[promptRow][i - 1] = Prompt[i]

\* The line a sequence of keys makes: backspace takes back the last one, and
\* what comes after BufferMax characters is dropped.
EditedBy(line, key) ==
    IF key = Backspace THEN IF line = <<>> THEN line ELSE Front(line)
    ELSE IF Len(line) < BufferMax THEN Append(line, key) ELSE line

Edited(keys) ==
    LET upto[n \in 0 .. Len(keys)] ==
            IF n = 0 THEN <<>> ELSE EditedBy(upto[n - 1], keys[n])
    IN  upto[Len(keys)]

\* A line is a word, up to the first space, and what follows that space.
SpaceIn(line) == SelectInSeq(line, LAMBDA c : c = Blank)
WordOf(line) == IF SpaceIn(line) = 0 THEN line ELSE SubSeq(line, 1, SpaceIn(line) - 1)
RestOf(line) == IF SpaceIn(line) = 0 THEN <<>> ELSE SubSeq(line, SpaceIn(line) + 1, Len(line))

\* The part of a line that was run: the word and the rest, up to the room there
\* is for each.
Runs(r, line) ==
    /\ IsPrefix(r.cmd, WordOf(line)) /\ IsPrefix(r.args, RestOf(line))
    /\ Len(WordOf(line)) <= CmdMax =>
         /\ r.cmd = WordOf(line)
         /\ Len(RestOf(line)) <= ArgMax => r.args = RestOf(line)

\* What is run is what was typed, and no character of a line before.
RunsWhatWasTyped == [][Enter => Runs(ran', Edited(typed))]_vars

\* Scrolling loses nothing: the lines saved, those the full scrollback dropped
\* and the rows down to the cursor are all that was printed since the screen
\* was last cleared, each once and in order.
Lines == scrollback_buffer \o dropped \o [y \in 1 .. cursor_y + 1 |-> video_memory[y - 1]]
ThePaper == INSTANCE Paper WITH lines <- Lines, col <- cursor_x
RefinesPaper == ThePaper!Spec
===============================================================================
