------------------------------ MODULE Keyboard -------------------------------
(***************************************************************************)
(* The keyboard driver, src/kernel/drivers/keyboard/keyboard.c: the IRQ 1  *)
(* handler fills a ring of Size characters, keyboard_getchar empties it    *)
(* with interrupts on.  The handler runs behind an interrupt gate, so it   *)
(* is atomic; getchar is cut at its accesses to the shared ring, and the   *)
(* interrupt may come between any two of them.                             *)
(***************************************************************************)
EXTENDS Integers, Sequences

CONSTANTS
    Size,       \* the 256 of input_buffer
    Keys,       \* the keys with an entry in the scancode tables
    Chars,      \* characters those entries name
    NoChar,     \* the 0 of the tables and of an empty getchar
    Plain,      \* scancode_to_ascii
    Shifted,    \* scancode_to_ascii_shift
    MaxTyped    \* bound of the model on the characters typed

ASSUME KeyboardAssumption ==
    /\ Size \in Nat \ {0, 1}
    /\ NoChar \notin Chars
    /\ Plain \in [Keys -> Chars \cup {NoChar}]
    /\ Shifted \in [Keys -> Chars \cup {NoChar}]
    /\ MaxTyped \in Nat

ShiftKeys == {"left", "right"}

VARIABLES
    input_buffer, buffer_head, buffer_tail, shift_pressed, caps_lock,
    pc,         \* where the reader is in keyboard_getchar
    c,          \* its local variable
    held,       \* the shift keys the user holds down
    accepted,   \* history: characters stored in the ring
    last, delivered, lost   \* history: what getchar returned, what was dropped

ring == <<input_buffer, buffer_head, shift_pressed, caps_lock>>
reader == <<buffer_tail, pc, c, last, delivered>>
vars == <<ring, reader, held, accepted, lost>>

Slots == 0 .. (Size - 1)
Succ(i) == (i + 1) % Size

Init ==
    /\ input_buffer = [i \in Slots |-> NoChar]
    /\ buffer_head = 0 /\ buffer_tail = 0
    /\ shift_pressed = FALSE /\ caps_lock = FALSE
    /\ pc = "idle" /\ c = NoChar
    /\ held = {}
    /\ accepted = 0 /\ last = NoChar /\ delivered = 0 /\ lost = 0

-----------------------------------------------------------------------------
(* keyboard_handler, one action per kind of scancode.                       *)

ShiftMake(s) ==
    /\ s \notin held
    /\ held' = held \cup {s}
    /\ shift_pressed' = TRUE
    /\ UNCHANGED <<input_buffer, buffer_head, caps_lock, reader, accepted, lost>>

\* Either release clears the one flag, even if the other key is still down.
ShiftBreakLeft(s) ==        \* mutant: only the left key clears the flag
    /\ s \in held
    /\ held' = held \ {s}
    /\ shift_pressed' = (shift_pressed /\ s # "left")
    /\ UNCHANGED <<input_buffer, buffer_head, caps_lock, reader, accepted, lost>>

ShiftBreak(s) ==
    /\ s \in held
    /\ held' = held \ {s}
    /\ shift_pressed' = FALSE
    /\ UNCHANGED <<input_buffer, buffer_head, caps_lock, reader, accepted, lost>>

CapsMake ==
    /\ caps_lock' = ~caps_lock
    /\ UNCHANGED <<input_buffer, buffer_head, shift_pressed, reader, held, accepted, lost>>

Ascii(k) == IF shift_pressed \/ caps_lock THEN Shifted[k] ELSE Plain[k]

HasRoomAlways == TRUE                            \* mutant
HasRoom == Succ(buffer_head) # buffer_tail

\* A make code: store the character, or drop it when one more would make a
\* full ring look empty.  (Break codes change nothing.)
KeyMake(k) ==
    /\ accepted + lost < MaxTyped
    /\ Ascii(k) # NoChar
    /\ IF HasRoom
       THEN /\ input_buffer' = [input_buffer EXCEPT ![buffer_head] = Ascii(k)]
            /\ buffer_head' = Succ(buffer_head)
            /\ accepted' = accepted + 1
            /\ UNCHANGED lost
       ELSE /\ lost' = lost + 1
            /\ UNCHANGED <<input_buffer, buffer_head, accepted>>
    /\ UNCHANGED <<shift_pressed, caps_lock, reader, held>>

DeadKey(k) ==
    /\ Ascii(k) = NoChar
    /\ UNCHANGED vars

Handler ==
    \/ \E s \in ShiftKeys : ShiftMake(s) \/ ShiftBreak(s)
    \/ CapsMake
    \/ \E k \in Keys : KeyMake(k) \/ DeadKey(k)

-----------------------------------------------------------------------------
(* keyboard_getchar, called again and again by shell_run.                   *)

\* Line 80: nothing there, return 0; the caller polls again.
Empty ==
    /\ pc = "idle" /\ buffer_head = buffer_tail
    /\ UNCHANGED vars

\* Line 80: something there.
SomethingAhead == buffer_head > buffer_tail      \* mutant: forgets the wrap
Something == buffer_head # buffer_tail

NotEmpty ==
    /\ pc = "idle" /\ Something
    /\ pc' = "nonempty"
    /\ UNCHANGED <<ring, buffer_tail, c, last, delivered, held, accepted, lost>>

OldestSkipped == input_buffer[Succ(buffer_tail)] \* mutant
Oldest == input_buffer[buffer_tail]

\* Line 84: read the character; its slot stays taken until the next step.
ReadChar ==
    /\ pc = "nonempty"
    /\ c' = Oldest
    /\ pc' = "read"
    /\ UNCHANGED <<ring, buffer_tail, last, delivered, held, accepted, lost>>

\* Lines 85-86: give the slot back and return the character.
Advance ==
    /\ pc = "read"
    /\ buffer_tail' = Succ(buffer_tail)
    /\ pc' = "idle"
    /\ last' = c
    /\ delivered' = delivered + 1
    /\ UNCHANGED <<ring, c, held, accepted, lost>>

Getchar == Empty \/ NotEmpty \/ ReadChar \/ Advance

Next == Handler \/ Getchar

\* shell_run polls for ever; interrupts delay the reader, never stop it.
Fairness == WF_vars(Getchar)

Spec == Init /\ [][Next]_vars /\ Fairness

-----------------------------------------------------------------------------
\* The number of unread characters, and the k-th of them.
Fill == (buffer_head - buffer_tail) % Size
Unread(k) == input_buffer[(buffer_tail + k - 1) % Size]
Contents == [k \in 1 .. Fill |-> Unread(k)]

\* Types of the variables.
TypeOK ==
    /\ input_buffer \in [Slots -> Chars \cup {NoChar}]
    /\ buffer_head \in Slots /\ buffer_tail \in Slots
    /\ shift_pressed \in BOOLEAN /\ caps_lock \in BOOLEAN
    /\ pc \in {"idle", "nonempty", "read"}
    /\ c \in Chars \cup {NoChar} /\ last \in Chars \cup {NoChar}
    /\ held \in SUBSET ShiftKeys
    /\ accepted \in Nat /\ delivered \in Nat /\ lost \in Nat

\* Between the test of line 80 and the return, whatever keys arrive, the ring
\* stays nonempty and the character read stays the oldest unread one.
ReaderSafe ==
    /\ pc \in {"nonempty", "read"} => buffer_head # buffer_tail
    /\ pc = "read" => c = input_buffer[buffer_tail]

\* Shift is never stuck on: the flag is set only while a shift key is down.
NoStuckShift == shift_pressed => held # {}

\* The ring behaves as a FIFO of Size - 1 characters, to handler and reader.
Fifo == INSTANCE BoundedFifo WITH Capacity <- Size - 1, fifo <- Contents
RefinesFifo == Fifo!FifoSpec

\* Every character stored is delivered some day, if the shell keeps polling.
Delivered == \A n \in 1 .. MaxTyped : (accepted >= n) ~> (delivered >= n)
==============================================================================
