------------------------------ MODULE ShellProofs ----------------------------
(***************************************************************************)
(* Proofs about the text screen and the line editor over it, for every     *)
(* size of the screen, the scrollback and the line, and every text that    *)
(* ends its line.                                                          *)
(***************************************************************************)
EXTENDS Shell, SequenceTheorems, WellFoundedInduction, TLAPS

P == Len(Prompt)

\* The line is in the buffer, and NULs behind it.
Terminated == \A i \in 0 .. BufferMax : input_buffer[i] = NUL <=> i >= input_index

\* No row below the cursor was written on.
BlankBelow == \A y \in Rows : y > cursor_y => video_memory[y] = BlankLine

\* Nothing is dropped before the scrollback is full.
FullBefore == dropped # <<>> => Len(scrollback_buffer) = ScrollbackLines

\* Where the prompt begins in the output.
PromptAhead ==
    /\ Len(output) >= P
    /\ \A i \in 1 .. P : output[Len(output) - P + i] = Prompt[i]
    /\ IF Len(output) = P THEN cursor_x = 0 ELSE output[Len(output) - P] \in {Newline, ClearOp}
    /\ input_index = 0

\* The first k characters of the prompt are on the screen.
Shown(k) == \A i \in 1 .. k : video_memory[promptRow][i - 1] = Prompt[i]

PromptBegun ==
    /\ Len(output) \in 1 .. P - 1
    /\ \A i \in 1 .. Len(output) : output[i] = Prompt[P - Len(output) + i]
    /\ cursor_x = P - Len(output) /\ promptRow = cursor_y /\ Shown(cursor_x)
    /\ input_index = 0

\* The room the cursor keeps from the prompt while it is on the same row: a
\* column for every character that has been typed and printed.
Printed1 ==
    IF output = <<>> THEN input_index
    ELSE IF output = <<Backspace>> THEN input_index + 1 ELSE input_index - 1

Editing ==
    /\ output = <<>> \/ \E c \in Chars : output = <<c>>
    /\ promptRow <= cursor_y
    /\ promptRow >= 0 => Shown(P)
    /\ Printed1 >= 0
    /\ promptRow = cursor_y => cursor_x >= P + Printed1

IInv ==
    /\ TypeOK /\ Terminated /\ BlankBelow /\ FullBefore
    /\ PromptAhead \/ PromptBegun \/ Editing

-----------------------------------------------------------------------------
(* What a character does to the screen.                                     *)

Line == [Columns -> Glyphs]

\* The parts of a screen.
Has(s, m, x, y, saved, lost) ==
    /\ DOMAIN s = {"memory", "x", "y", "saved", "lost"}
    /\ s.memory = m /\ s.x = x /\ s.y = y /\ s.saved = saved /\ s.lost = lost

LEMMA PlacedIs ==
  ASSUME NEW s, NEW m, NEW x, NEW y, NEW saved, NEW lost, Has(s, m, x, y, saved, lost)
  PROVE  /\ Has(Placed(s, Newline), m, 0, y + 1, saved, lost)
         /\ x > 0 => Has(Placed(s, Backspace), [m EXCEPT ![y][x - 1] = Blank], x - 1, y, saved, lost)
         /\ ~(x > 0) => Has(Placed(s, Backspace), m, x, y, saved, lost)
         /\ Has(Placed(s, TabKey), m, AfterTab(x), y, saved, lost)
         /\ \A g \in Glyphs : Has(Placed(s, g), [m EXCEPT ![y][x] = g], x + 1, y, saved, lost)
  <1>1. Newline # Backspace /\ Newline # TabKey /\ Backspace # TabKey
    BY DEF Newline, Backspace, TabKey
  <1>2. \A g \in Glyphs : g # Newline /\ g # Backspace /\ g # TabKey
    BY MonitorAssumption
  <1>3. Has(Placed(s, Newline), m, 0, y + 1, saved, lost)
    <2>1. Placed(s, Newline) = [s EXCEPT !.x = 0, !.y = @ + 1]
      BY <1>1 DEF Placed
    <2> QED
      BY <2>1 DEF Has
  <1>4. x > 0 => Has(Placed(s, Backspace), [m EXCEPT ![y][x - 1] = Blank], x - 1, y, saved, lost)
    <2> DEFINE t == [s EXCEPT !.x = s.x - 1, !.memory[s.y][s.x - 1] = Blank]
               new == [m EXCEPT ![y][x - 1] = Blank]
    <2>1. x > 0 => Placed(s, Backspace) = t
      BY <1>1 DEF Placed, Has
    <2>2. t.x = x - 1 /\ t.y = y /\ t.saved = saved /\ t.lost = lost
      BY DEF Has
    <2>3. t.memory = new
      BY DEF Has
    <2>4. DOMAIN t = {"memory", "x", "y", "saved", "lost"}
      BY DEF Has
    <2> HIDE DEF t
    <2> QED
      BY <2>1, <2>2, <2>3, <2>4 DEF Has
  <1>5. ~(x > 0) => Has(Placed(s, Backspace), m, x, y, saved, lost)
    BY <1>1 DEF Placed, Has
  <1>6. Has(Placed(s, TabKey), m, AfterTab(x), y, saved, lost)
    BY <1>1 DEF Placed, Has
  <1>7. ASSUME NEW g \in Glyphs
        PROVE  Has(Placed(s, g), [m EXCEPT ![y][x] = g], x + 1, y, saved, lost)
    BY <1>2 DEF Placed, Has
  <1> QED
    BY <1>3, <1>4, <1>5, <1>6, <1>7

LEMMA WrappedIs ==
  ASSUME NEW s, NEW m, NEW x, NEW y, NEW saved, NEW lost, Has(s, m, x, y, saved, lost)
  PROVE  /\ x >= Width => Has(Wrapped(s), m, 0, y + 1, saved, lost)
         /\ ~(x >= Width) => Has(Wrapped(s), m, x, y, saved, lost)
  BY DEF Wrapped, Has

LEMMA ScrolledIs ==
  ASSUME NEW s, NEW m, NEW x, NEW y, NEW saved, NEW lost, Has(s, m, x, y, saved, lost)
  PROVE  /\ y < Height => Has(Scrolled(s), m, x, y, saved, lost)
         /\ ~(y < Height) /\ Len(saved) < ScrollbackLines =>
               Has(Scrolled(s), Shifted(m), x, Height - 1, Append(saved, m[0]), lost)
         /\ ~(y < Height) /\ ~(Len(saved) < ScrollbackLines) =>
               Has(Scrolled(s), Shifted(m), x, Height - 1, saved, Append(lost, m[0]))
  <1>1. y < Height => Has(Scrolled(s), m, x, y, saved, lost)
    BY DEF Scrolled, Has
  <1>2. /\ Len(saved) < ScrollbackLines => Has(Saved(s), m, x, y, Append(saved, m[0]), lost)
        /\ ~(Len(saved) < ScrollbackLines) => Has(Saved(s), m, x, y, saved, Append(lost, m[0]))
    BY DEF Saved, Has
  <1>3. ASSUME NEW t, NEW sv, NEW lo, Has(t, m, x, y, sv, lo), Saved(s) = t, ~(y < Height)
        PROVE  Has(Scrolled(s), Shifted(m), x, Height - 1, sv, lo)
    BY <1>3 DEF Scrolled, Has
  <1> QED
    BY <1>1, <1>2, <1>3

\* The cursor lands in a column of a row, with this memory before it scrolls.
Landed(c, m, x, y) ==
    /\ ScrollsOn(c) <=> ~(y < Height)
    /\ cursor_x' = x
    /\ y < Height =>
         video_memory' = m /\ cursor_y' = y /\ UNCHANGED <<scrollback_buffer, dropped>>
    /\ ~(y < Height) =>
         /\ video_memory' = Shifted(m) /\ cursor_y' = Height - 1
         /\ \/ /\ Len(scrollback_buffer) < ScrollbackLines
               /\ scrollback_buffer' = Append(scrollback_buffer, m[0]) /\ UNCHANGED dropped
            \/ /\ ~(Len(scrollback_buffer) < ScrollbackLines)
               /\ dropped' = Append(dropped, m[0]) /\ UNCHANGED scrollback_buffer

\* A screen that is wrapped, scrolled and shown.
LEMMA LandsWhere ==
  ASSUME NEW c, NEW m, NEW x \in Int, NEW y \in Int, PrintChar(c),
         Has(Placed(Screen, c), m, x, y, scrollback_buffer, dropped)
  PROVE  /\ x >= Width => Landed(c, m, 0, y + 1)
         /\ ~(x >= Width) => Landed(c, m, x, y)
  <1> DEFINE sv == scrollback_buffer
             lo == dropped
             w == Wrapped(Placed(Screen, c))
  <1>1. /\ x >= Width => Has(w, m, 0, y + 1, sv, lo)
        /\ ~(x >= Width) => Has(w, m, x, y, sv, lo)
    BY WrappedIs
  <1>2. Show(Scrolled(w)) /\ (ScrollsOn(c) <=> w.y >= Height)
    BY DEF PrintChar, Printed, ScrollsOn
  <1> HIDE DEF w
  <1>3. ASSUME NEW x2, NEW y2 \in Int, Has(w, m, x2, y2, sv, lo) PROVE Landed(c, m, x2, y2)
    <2>1. ScrollsOn(c) <=> ~(y2 < Height)
      BY <1>2, <1>3, MonitorAssumption DEF Has
    <2>2. CASE y2 < Height
      <3>1. Has(Scrolled(w), m, x2, y2, sv, lo)
        BY <1>3, <2>2, ScrolledIs
      <3> QED
        BY <1>2, <2>1, <2>2, <3>1 DEF Landed, Show, Has
    <2>3. CASE ~(y2 < Height) /\ Len(sv) < ScrollbackLines
      <3>1. Has(Scrolled(w), Shifted(m), x2, Height - 1, Append(sv, m[0]), lo)
        BY <1>3, <2>3, ScrolledIs
      <3> QED
        BY <1>2, <2>1, <2>3, <3>1 DEF Landed, Show, Has
    <2>4. CASE ~(y2 < Height) /\ ~(Len(sv) < ScrollbackLines)
      <3>1. Has(Scrolled(w), Shifted(m), x2, Height - 1, sv, Append(lo, m[0]))
        BY <1>3, <2>4, ScrolledIs
      <3> QED
        BY <1>2, <2>1, <2>4, <3>1 DEF Landed, Show, Has
    <2> QED
      BY <2>2, <2>3, <2>4
  <1>4. y + 1 \in Int
    OBVIOUS
  <1> QED
    BY <1>1, <1>3, <1>4

\* Character by character: where it lands.
LEMMA LandsAs ==
  ASSUME TypeOK, NEW c, PrintChar(c)
  PROVE  /\ c = Newline => Landed(c, video_memory, 0, cursor_y + 1)
         /\ c = Backspace =>
              /\ cursor_x > 0 =>
                   Landed(c, [video_memory EXCEPT ![cursor_y][cursor_x - 1] = Blank], cursor_x - 1, cursor_y)
              /\ ~(cursor_x > 0) => Landed(c, video_memory, cursor_x, cursor_y)
         /\ c = TabKey => /\ AfterTab(cursor_x) >= Width => Landed(c, video_memory, 0, cursor_y + 1)
                          /\ ~(AfterTab(cursor_x) >= Width) =>
                               Landed(c, video_memory, AfterTab(cursor_x), cursor_y)
         /\ c \in Glyphs =>
              /\ cursor_x + 1 >= Width =>
                   Landed(c, [video_memory EXCEPT ![cursor_y][cursor_x] = c], 0, cursor_y + 1)
              /\ ~(cursor_x + 1 >= Width) =>
                   Landed(c, [video_memory EXCEPT ![cursor_y][cursor_x] = c], cursor_x + 1, cursor_y)
  <1>1. /\ cursor_x \in Int /\ cursor_y \in Int /\ cursor_x - 1 \in Int /\ cursor_x + 1 \in Int
        /\ cursor_y + 1 \in Int /\ 0 \in Int /\ ~(0 >= Width)
        /\ ~(cursor_x >= Width) /\ ~(cursor_x - 1 >= Width)
    BY MonitorAssumption DEF TypeOK, Columns, Rows
  <1>2. AfterTab(cursor_x) \in Int
    <2>1. TabStop \in Nat \ {0}
      BY MonitorAssumption
    <2> QED
      BY <1>1, <2>1 DEF AfterTab
  <1>3. Has(Screen, video_memory, cursor_x, cursor_y, scrollback_buffer, dropped)
    BY DEF Screen, Has
  <1>4. CASE c = Newline
    <2>1. Has(Placed(Screen, c), video_memory, 0, cursor_y + 1, scrollback_buffer, dropped)
      BY <1>3, <1>4, PlacedIs
    <2>2. Landed(c, video_memory, 0, cursor_y + 1)
      BY <1>1, <2>1, LandsWhere
    <2>3. c # Backspace /\ c # TabKey /\ c \notin Glyphs
      BY <1>4, MonitorAssumption DEF Newline, Backspace, TabKey
    <2> QED
      BY <2>2, <2>3
  <1>5. CASE c = Backspace
    <2>1. c # Newline /\ c # TabKey /\ c \notin Glyphs
      BY <1>5, MonitorAssumption DEF Newline, Backspace, TabKey
    <2>2. CASE cursor_x > 0
      <3> DEFINE m == [video_memory EXCEPT ![cursor_y][cursor_x - 1] = Blank]
      <3>1. Has(Placed(Screen, c), m, cursor_x - 1, cursor_y, scrollback_buffer, dropped)
        BY <1>3, <1>5, <2>2, PlacedIs
      <3> HIDE DEF m
      <3>2. Landed(c, m, cursor_x - 1, cursor_y)
        BY <1>1, <3>1, LandsWhere
      <3> QED
        BY <2>1, <2>2, <3>2 DEF m
    <2>3. CASE ~(cursor_x > 0)
      <3>1. Has(Placed(Screen, c), video_memory, cursor_x, cursor_y, scrollback_buffer, dropped)
        BY <1>3, <1>5, <2>3, PlacedIs
      <3>2. Landed(c, video_memory, cursor_x, cursor_y)
        BY <1>1, <3>1, LandsWhere
      <3> QED
        BY <2>1, <2>3, <3>2
    <2> QED
      BY <2>2, <2>3
  <1>6. CASE c = TabKey
    <2>1. c # Newline /\ c # Backspace /\ c \notin Glyphs
      BY <1>6, MonitorAssumption DEF Newline, Backspace, TabKey
    <2>2. Has(Placed(Screen, c), video_memory, AfterTab(cursor_x), cursor_y, scrollback_buffer, dropped)
      BY <1>3, <1>6, PlacedIs
    <2>3. /\ AfterTab(cursor_x) >= Width => Landed(c, video_memory, 0, cursor_y + 1)
          /\ ~(AfterTab(cursor_x) >= Width) => Landed(c, video_memory, AfterTab(cursor_x), cursor_y)
      BY <1>1, <1>2, <2>2, LandsWhere
    <2> QED
      BY <2>1, <2>3
  <1>7. CASE c \in Glyphs
    <2> DEFINE m == [video_memory EXCEPT ![cursor_y][cursor_x] = c]
    <2>1. c # Newline /\ c # Backspace /\ c # TabKey
      BY <1>7, MonitorAssumption
    <2>2. Has(Placed(Screen, c), m, cursor_x + 1, cursor_y, scrollback_buffer, dropped)
      BY <1>3, <1>7, PlacedIs
    <2> HIDE DEF m
    <2>3. /\ cursor_x + 1 >= Width => Landed(c, m, 0, cursor_y + 1)
          /\ ~(cursor_x + 1 >= Width) => Landed(c, m, cursor_x + 1, cursor_y)
      BY <1>1, <2>2, LandsWhere
    <2> QED
      BY <2>1, <2>3 DEF m
  <1> QED
    BY <1>4, <1>5, <1>6, <1>7

\* All that the invariant needs to know of it: only the row of the cursor
\* changes, nothing left of the cursor but what backspace takes, and the cursor
\* moves right, or back by one, or to the start of the next row.
Moved(c, m, x, y) ==
    /\ Landed(c, m, x, y)
    /\ m \in [Rows -> Line] /\ x \in Columns /\ y \in {cursor_y, cursor_y + 1}
    /\ \A r \in Rows : r # cursor_y => m[r] = video_memory[r]
    /\ \A j \in Columns : j < (IF c = Backspace THEN cursor_x - 1 ELSE cursor_x) =>
          m[cursor_y][j] = video_memory[cursor_y][j]
    /\ y = cursor_y + 1 => x = 0
    /\ y = cursor_y => IF c = Backspace THEN x >= cursor_x - 1 ELSE x > cursor_x
    /\ c = Newline => y = cursor_y + 1
    /\ c \in Glyphs => /\ m[cursor_y][cursor_x] = c
                       /\ cursor_x + 1 < Width => y = cursor_y /\ x = cursor_x + 1

\* A tab moves the cursor right.
LEMMA TabMoves == \A x \in Nat : AfterTab(x) \in Int /\ AfterTab(x) > x
  <1> TAKE x \in Nat
  <1>1. TabStop \in Nat \ {0}
    BY MonitorAssumption
  <1> DEFINE r == (x + TabStop) % TabStop
  <1>2. r \in 0 .. TabStop - 1
    BY <1>1
  <1> HIDE DEF r
  <1>3. AfterTab(x) = (x + TabStop) - r
    BY DEF AfterTab, r
  <1> QED
    BY <1>1, <1>2, <1>3

LEMMA CellWritten ==
  ASSUME TypeOK, NEW g \in Glyphs, NEW x \in Columns
  PROVE  /\ [video_memory EXCEPT ![cursor_y][x] = g] \in [Rows -> Line]
         /\ \A r \in Rows : r # cursor_y => [video_memory EXCEPT ![cursor_y][x] = g][r] = video_memory[r]
         /\ \A j \in Columns : j # x =>
               [video_memory EXCEPT ![cursor_y][x] = g][cursor_y][j] = video_memory[cursor_y][j]
         /\ [video_memory EXCEPT ![cursor_y][x] = g][cursor_y][x] = g
  BY DEF TypeOK, Line

LEMMA PrintMoves ==
  ASSUME TypeOK, NEW c \in Chars, PrintChar(c)
  PROVE  \E m, x, y : Moved(c, m, x, y)
  <1>1. /\ cursor_x \in Nat /\ cursor_x < Width /\ cursor_x \in Columns /\ Width \in Nat \ {0}
        /\ cursor_y \in Rows /\ cursor_y \in Nat /\ cursor_y # cursor_y + 1 /\ 0 \in Columns
    BY MonitorAssumption DEF TypeOK, Columns, Rows
  <1>2. video_memory \in [Rows -> Line]
    BY DEF TypeOK, Line
  <1>3. Blank \in Glyphs
    BY MonitorAssumption
  <1>4. CASE c = Newline
    <2>1. Landed(c, video_memory, 0, cursor_y + 1)
      BY <1>4, LandsAs
    <2>2. c # Backspace /\ c \notin Glyphs
      BY <1>4, MonitorAssumption DEF Newline, Backspace, TabKey
    <2>3. Moved(c, video_memory, 0, cursor_y + 1)
      BY <1>1, <1>2, <2>1, <2>2 DEF Moved
    <2> QED
      BY <2>3
  <1>5. CASE c = Backspace
    <2>1. c # Newline /\ c \notin Glyphs
      BY <1>5, MonitorAssumption DEF Newline, Backspace, TabKey
    <2>2. CASE cursor_x > 0
      <3> DEFINE m == [video_memory EXCEPT ![cursor_y][cursor_x - 1] = Blank]
      <3>1. Landed(c, m, cursor_x - 1, cursor_y)
        BY <1>5, <2>2, LandsAs
      <3>2. cursor_x - 1 \in Columns
        BY <1>1, <2>2 DEF Columns
      <3>3. /\ m \in [Rows -> Line]
            /\ \A r \in Rows : r # cursor_y => m[r] = video_memory[r]
            /\ \A j \in Columns : j # cursor_x - 1 => m[cursor_y][j] = video_memory[cursor_y][j]
        BY <1>3, <3>2, CellWritten
      <3> HIDE DEF m
      <3>4. \A j \in Columns : j < cursor_x - 1 => j # cursor_x - 1
        BY <1>1 DEF Columns
      <3>5. cursor_x - 1 >= cursor_x - 1
        BY <1>1
      <3>6. Moved(c, m, cursor_x - 1, cursor_y)
        BY <1>1, <1>5, <2>1, <3>1, <3>2, <3>3, <3>4, <3>5 DEF Moved
      <3> QED
        BY <3>6
    <2>3. CASE ~(cursor_x > 0)
      <3>1. Landed(c, video_memory, cursor_x, cursor_y)
        BY <1>5, <2>3, LandsAs
      <3>2. Moved(c, video_memory, cursor_x, cursor_y)
        BY <1>1, <1>2, <1>5, <2>1, <3>1 DEF Moved
      <3> QED
        BY <3>2
    <2> QED
      BY <2>2, <2>3
  <1>6. CASE c = TabKey
    <2>1. c # Newline /\ c # Backspace /\ c \notin Glyphs
      BY <1>6, MonitorAssumption DEF Newline, Backspace, TabKey
    <2>2. AfterTab(cursor_x) \in Int /\ AfterTab(cursor_x) > cursor_x
      BY <1>1, TabMoves
    <2>3. CASE AfterTab(cursor_x) >= Width
      <3>1. Landed(c, video_memory, 0, cursor_y + 1)
        BY <1>6, <2>3, LandsAs
      <3>2. Moved(c, video_memory, 0, cursor_y + 1)
        BY <1>1, <1>2, <2>1, <3>1 DEF Moved
      <3> QED
        BY <3>2
    <2>4. CASE ~(AfterTab(cursor_x) >= Width)
      <3>1. Landed(c, video_memory, AfterTab(cursor_x), cursor_y)
        BY <1>6, <2>4, LandsAs
      <3>2. AfterTab(cursor_x) \in Columns
        BY <1>1, <2>2, <2>4 DEF Columns
      <3>3. Moved(c, video_memory, AfterTab(cursor_x), cursor_y)
        BY <1>1, <1>2, <2>1, <2>2, <3>1, <3>2 DEF Moved
      <3> QED
        BY <3>3
    <2> QED
      BY <2>3, <2>4
  <1>7. CASE c \in Glyphs
    <2> DEFINE m == [video_memory EXCEPT ![cursor_y][cursor_x] = c]
    <2>1. c # Newline /\ c # Backspace
      BY <1>7, MonitorAssumption
    <2>2. /\ cursor_x + 1 >= Width => Landed(c, m, 0, cursor_y + 1)
          /\ ~(cursor_x + 1 >= Width) => Landed(c, m, cursor_x + 1, cursor_y)
      BY <1>7, LandsAs
    <2>3. /\ m \in [Rows -> Line]
          /\ \A r \in Rows : r # cursor_y => m[r] = video_memory[r]
          /\ \A j \in Columns : j # cursor_x => m[cursor_y][j] = video_memory[cursor_y][j]
          /\ m[cursor_y][cursor_x] = c
      BY <1>1, <1>7, CellWritten
    <2> HIDE DEF m
    <2>4. \A j \in Columns : j < cursor_x => j # cursor_x
      BY <1>1 DEF Columns
    <2>5. CASE cursor_x + 1 >= Width
      <3>1. Moved(c, m, 0, cursor_y + 1)
        <4>1. ~(cursor_x + 1 < Width)
          BY <1>1, <2>5
        <4> QED
          BY <1>1, <2>1, <2>2, <2>3, <2>4, <2>5, <4>1 DEF Moved
      <3> QED
        BY <3>1
    <2>6. CASE ~(cursor_x + 1 >= Width)
      <3>1. cursor_x + 1 \in Columns /\ cursor_x + 1 > cursor_x
        BY <1>1, <2>6 DEF Columns
      <3>2. Moved(c, m, cursor_x + 1, cursor_y)
        BY <1>1, <2>1, <2>2, <2>3, <2>4, <2>6, <3>1 DEF Moved
      <3> QED
        BY <3>2
    <2> QED
      BY <2>5, <2>6
  <1> QED
    BY <1>4, <1>5, <1>6, <1>7 DEF Chars

-----------------------------------------------------------------------------
(* The screen by itself.                                                    *)

\* A row of the screen scrolled up, and the last one.
LEMMA ShiftedIs ==
  ASSUME NEW m \in [Rows -> Line]
  PROVE  /\ Shifted(m) \in [Rows -> Line] /\ m[0] \in Line
         /\ Shifted(m)[Height - 1] = BlankLine
         /\ \A r \in Rows : r # 0 => Shifted(m)[r - 1] = m[r]
         /\ \A r \in Rows : r # Height - 1 => r + 1 \in Rows /\ Shifted(m)[r] = m[r + 1]
  <1>1. Height \in Nat \ {0} /\ Blank \in Glyphs
    BY MonitorAssumption
  <1>2. BlankLine \in Line
    BY <1>1 DEF BlankLine, Line
  <1>3. 0 \in Rows /\ Height - 1 \in Rows
    BY <1>1 DEF Rows
  <1>4. ASSUME NEW r \in Rows, r # Height - 1
        PROVE  r + 1 \in Rows /\ Shifted(m)[r] = m[r + 1]
    <2>1. r + 1 \in Rows
      BY <1>1, <1>4 DEF Rows
    <2> QED
      BY <1>4, <2>1 DEF Shifted
  <1>5. ASSUME NEW r \in Rows, r # 0 PROVE Shifted(m)[r - 1] = m[r]
    <2>1. r - 1 \in Rows /\ r - 1 # Height - 1 /\ (r - 1) + 1 = r
      BY <1>1, <1>5 DEF Rows
    <2> QED
      BY <1>4, <2>1
  <1>6. Shifted(m)[Height - 1] = BlankLine
    BY <1>3 DEF Shifted
  <1>7. Shifted(m) \in [Rows -> Line]
    <2>1. \A r \in Rows : (IF r = Height - 1 THEN BlankLine ELSE m[r + 1]) \in Line
      BY <1>2, <1>4
    <2> QED
      BY <2>1 DEF Shifted
  <1> QED
    BY <1>3, <1>4, <1>5, <1>6, <1>7

\* The rows after a character: moved up by one when the screen scrolls.
LEMMA RowsAfter ==
  ASSUME TypeOK, NEW c, NEW m, NEW x, NEW y, Moved(c, m, x, y)
  PROVE  /\ y \in Nat /\ cursor_x' = x
         /\ ~ScrollsOn(c) => y \in Rows /\ cursor_y' = y /\ video_memory' = m
         /\ ScrollsOn(c) => /\ y = cursor_y + 1 /\ cursor_y = Height - 1 /\ cursor_y' = cursor_y
                            /\ \A r \in Rows : r # 0 => video_memory'[r - 1] = m[r]
  <1>1. Height \in Nat \ {0} /\ cursor_y \in 0 .. Height - 1
    BY MonitorAssumption DEF TypeOK, Rows
  <1>2. y \in {cursor_y, cursor_y + 1} /\ m \in [Rows -> Line] /\ Landed(c, m, x, y)
    BY DEF Moved
  <1>3. CASE y < Height
    BY <1>1, <1>2, <1>3 DEF Landed, Rows
  <1>4. CASE ~(y < Height)
    <2>1. y = cursor_y + 1 /\ cursor_y = Height - 1
      BY <1>1, <1>2, <1>4
    <2>2. ScrollsOn(c) /\ video_memory' = Shifted(m) /\ cursor_y' = Height - 1 /\ cursor_x' = x
      BY <1>2, <1>4 DEF Landed
    <2> QED
      BY <1>1, <1>2, <2>1, <2>2, ShiftedIs
  <1> QED
    BY <1>3, <1>4

ScreenInv ==
    /\ video_memory \in [Rows -> Line] /\ cursor_x \in Columns /\ cursor_y \in Rows
    /\ scrollback_buffer \in Seq(Line) /\ dropped \in Seq(Line)
    /\ Len(scrollback_buffer) <= ScrollbackLines
    /\ BlankBelow /\ FullBefore

\* print_char keeps the cursor on the screen and the rows below it blank.
LEMMA PrintScreen ==
  ASSUME TypeOK, BlankBelow, FullBefore, NEW c \in Chars, PrintChar(c)
  PROVE  ScreenInv'
  <1>1. PICK m, x, y : Moved(c, m, x, y)
    BY PrintMoves
  <1>2. /\ m \in [Rows -> Line] /\ x \in Columns /\ y \in {cursor_y, cursor_y + 1}
        /\ Landed(c, m, x, y)
        /\ \A r \in Rows : r # cursor_y => m[r] = video_memory[r]
    BY <1>1 DEF Moved
  <1>3. Height \in Nat \ {0} /\ cursor_y \in 0 .. Height - 1 /\ ScrollbackLines \in Nat
    BY MonitorAssumption DEF TypeOK, Rows
  <1>4. scrollback_buffer \in Seq(Line) /\ dropped \in Seq(Line) /\ Len(scrollback_buffer) <= ScrollbackLines
    BY DEF TypeOK, Line
  <1>5. \A r \in Rows : r > cursor_y => m[r] = BlankLine
    BY <1>2, <1>3 DEF BlankBelow, Rows
  <1>6. CASE y < Height
    <2>1. /\ cursor_x' = x /\ video_memory' = m /\ cursor_y' = y
          /\ scrollback_buffer' = scrollback_buffer /\ dropped' = dropped
      BY <1>2, <1>6 DEF Landed
    <2>2. y \in Rows
      BY <1>2, <1>3, <1>6 DEF Rows
    <2>3. BlankBelow'
      <3> SUFFICES ASSUME NEW r \in Rows, r > y PROVE m[r] = BlankLine
        BY <2>1 DEF BlankBelow
      <3>1. r > cursor_y
        BY <1>2, <1>3 DEF Rows
      <3> QED
        BY <1>5, <3>1
    <2>4. FullBefore'
      BY <2>1 DEF FullBefore
    <2> QED
      BY <1>2, <1>4, <2>1, <2>2, <2>3, <2>4 DEF ScreenInv
  <1>7. CASE ~(y < Height)
    <2>1. cursor_x' = x /\ video_memory' = Shifted(m) /\ cursor_y' = Height - 1
      BY <1>2, <1>7 DEF Landed
    <2>2. Height - 1 \in Rows /\ Shifted(m) \in [Rows -> Line] /\ m[0] \in Line
      BY <1>2, <1>3, ShiftedIs DEF Rows
    <2>3. BlankBelow'
      BY <1>3, <2>1 DEF BlankBelow, Rows
    <2>4. CASE /\ Len(scrollback_buffer) < ScrollbackLines
               /\ scrollback_buffer' = Append(scrollback_buffer, m[0]) /\ UNCHANGED dropped
      <3>1. /\ scrollback_buffer' \in Seq(Line)
            /\ Len(scrollback_buffer') = Len(scrollback_buffer) + 1 /\ Len(scrollback_buffer) \in Nat
        BY <1>4, <2>2, <2>4, AppendProperties, LenProperties
      <3>2. Len(scrollback_buffer') <= ScrollbackLines
        BY <1>3, <2>4, <3>1
      <3>3. dropped = << >>
        BY <1>3, <2>4, <3>1 DEF FullBefore
      <3>4. FullBefore'
        BY <2>4, <3>3 DEF FullBefore
      <3> QED
        BY <1>2, <1>4, <2>1, <2>2, <2>3, <2>4, <3>1, <3>2, <3>4 DEF ScreenInv
    <2>5. CASE /\ ~(Len(scrollback_buffer) < ScrollbackLines)
               /\ dropped' = Append(dropped, m[0]) /\ UNCHANGED scrollback_buffer
      <3>1. dropped' \in Seq(Line)
        BY <1>4, <2>2, <2>5, AppendProperties
      <3>2. Len(scrollback_buffer) = ScrollbackLines
        BY <1>3, <1>4, <2>5, LenProperties
      <3>3. FullBefore'
        BY <2>5, <3>2 DEF FullBefore
      <3> QED
        BY <1>2, <1>4, <2>1, <2>2, <2>3, <2>5, <3>1, <3>3 DEF ScreenInv
    <2> QED
      BY <1>2, <1>7, <2>4, <2>5 DEF Landed
  <1> QED
    BY <1>6, <1>7

\* clear_screen blanks the rows and empties the scrollback.
LEMMA ClearedScreen ==
  /\ MonitorInit => ScreenInv
  /\ ClearScreen => ScreenInv' /\ cursor_x' = 0
  <1> DEFINE empty == << >>
             blank == [y \in Rows |-> BlankLine]
  <1>1. Height \in Nat \ {0} /\ Width \in Nat \ {0} /\ Blank \in Glyphs /\ ScrollbackLines \in Nat
    BY MonitorAssumption
  <1>2. blank \in [Rows -> Line] /\ 0 \in Rows /\ 0 \in Columns /\ \A y \in Rows : blank[y] = BlankLine
    BY <1>1 DEF BlankLine, Line, Rows, Columns
  <1>3. empty \in Seq(Line) /\ Len(empty) <= ScrollbackLines
    BY <1>1
  <1>4. Cleared.memory = blank
    BY DEF Cleared
  <1>5. /\ MonitorInit => /\ video_memory = blank /\ cursor_x = 0 /\ cursor_y = 0
                          /\ scrollback_buffer = empty /\ dropped = empty
        /\ ClearScreen => /\ video_memory' = blank /\ cursor_x' = 0 /\ cursor_y' = 0
                          /\ scrollback_buffer' = empty /\ dropped' = empty
    BY <1>4 DEF MonitorInit, ClearScreen, Show, Cleared
  <1> HIDE DEF blank
  <1>6. MonitorInit => ScreenInv
    BY <1>2, <1>3, <1>5 DEF ScreenInv, BlankBelow, FullBefore
  <1>7. ClearScreen => ScreenInv' /\ cursor_x' = 0
    BY <1>2, <1>3, <1>5 DEF ScreenInv, BlankBelow, FullBefore
  <1> QED
    BY <1>6, <1>7

-----------------------------------------------------------------------------
(* What is to be printed.                                                   *)

All == Chars \cup {ClearOp}

\* The prompt then begins at the left edge.
Closes(c) == c \in {Newline, ClearOp}
ClosesLine(o) == o = << >> \/ Closes(o[Len(o)])

LEMMA PromptIs == Prompt \in Seq(Glyphs) /\ Prompt \in Seq(All) /\ P \in Nat /\ P >= 2 /\ P < Width
  <1>1. Prompt \in Seq(Glyphs) /\ Len(Prompt) \in 2 .. Width - 1
    BY ShellAssumption
  <1>2. Prompt \in Seq(All)
    BY <1>1, SeqMonotonic DEF All, Chars
  <1>3. Width \in Nat
    BY MonitorAssumption
  <1> QED
    BY <1>1, <1>2, <1>3 DEF P

\* What ends with the prompt after a line is closed has the prompt ahead.
LEMMA AheadOf ==
  ASSUME NEW s \in Seq(All), s # << >>, Closes(s[Len(s)])
  PROVE  /\ s \o Prompt \in Seq(All) /\ Len(s \o Prompt) > P
         /\ \A i \in 1 .. P : (s \o Prompt)[Len(s \o Prompt) - P + i] = Prompt[i]
         /\ Closes((s \o Prompt)[Len(s \o Prompt) - P])
  <1> DEFINE o == s \o Prompt
             n == Len(s)
  <1>1. Prompt \in Seq(All) /\ P \in Nat /\ P = Len(Prompt)
    BY PromptIs DEF P
  <1>2. n \in Nat \ {0}
    BY EmptySeq
  <1>3. /\ o \in Seq(All) /\ Len(o) = n + P
        /\ \A i \in 1 .. n + P : o[i] = IF i <= n THEN s[i] ELSE Prompt[i - n]
    BY <1>1, ConcatProperties
  <1> HIDE DEF o, n
  <1>4. Len(o) - P = n /\ Len(o) > P /\ o[n] = s[n]
    BY <1>1, <1>2, <1>3
  <1>5. ASSUME NEW i \in 1 .. P PROVE o[n + i] = Prompt[i]
    <2>1. n + i \in 1 .. n + P /\ ~(n + i <= n) /\ (n + i) - n = i
      BY <1>1, <1>2
    <2> QED
      BY <1>3, <2>1
  <1>6. Closes(o[n])
    BY <1>4 DEF n
  <1> QED
    BY <1>3, <1>4, <1>5, <1>6 DEF o

\* Two texts that close their lines make one.
LEMMA Joins ==
  ASSUME NEW s \in Seq(All), NEW t \in Seq(All), s # << >>, Closes(s[Len(s)]), ClosesLine(t)
  PROVE  s \o t \in Seq(All) /\ s \o t # << >> /\ Closes((s \o t)[Len(s \o t)])
  <1> DEFINE o == s \o t
             n == Len(s)
             k == Len(t)
  <1>1. n \in Nat \ {0} /\ k \in Nat /\ (k = 0 => t = << >>)
    BY EmptySeq, LenProperties
  <1>2. /\ o \in Seq(All) /\ Len(o) = n + k
        /\ \A i \in 1 .. n + k : o[i] = IF i <= n THEN s[i] ELSE t[i - n]
    BY ConcatProperties
  <1>3. ClosesLine(t) /\ Closes(s[n])
    BY DEF n
  <1>4. o # << >>
    <2>1. Len(o) # 0
      BY <1>1, <1>2
    <2> QED
      BY <2>1, EmptySeq
  <1>5. CASE k = 0
    <2>1. o[n + k] = s[n]
      <3>1. n + k \in 1 .. n + k /\ n + k <= n /\ n + k = n
        BY <1>1, <1>5
      <3> QED
        BY <1>2, <3>1
    <2> QED
      BY <1>2, <1>3, <1>4, <2>1
  <1>6. CASE k # 0
    <2>1. o[n + k] = t[k]
      <3>1. n + k \in 1 .. n + k /\ ~(n + k <= n) /\ (n + k) - n = k
        BY <1>1, <1>6
      <3> QED
        BY <1>2, <3>1
    <2>2. Closes(t[k])
      <3>1. t # << >>
        BY <1>6, EmptySeq
      <3> QED
        BY <3>1 DEF ClosesLine
    <2> QED
      BY <1>2, <1>4, <2>1, <2>2
  <1> QED
    BY <1>5, <1>6

\* The order of the natural numbers is well founded, with its pairs in sight.
LEMMA LessIsWellFounded == IsWellFoundedOn({ss \in Nat \X Nat : ss[1] < ss[2]}, Nat)
  BY NatLessThanWellFounded, Zenon DEF OpToRel

\* A set of numbers that is not empty has a least one.
LEMMA Least ==
  ASSUME NEW S \in SUBSET Nat, S # {}
  PROVE  \E m \in S : \A k \in S : m <= k
  <1>1. PICK m \in S : \A k \in S : <<k, m>> \notin {ss \in Nat \X Nat : ss[1] < ss[2]}
    BY LessIsWellFounded, WFMin, Zenon
  <1>2. \A k \in S : ~(k < m)
    BY <1>1
  <1> QED
    BY <1>2

\* The line is what the buffer holds before the first NUL.
LEMMA LineRead ==
  ASSUME TypeOK, Terminated, NEW b, b = [input_buffer EXCEPT ![input_index] = NUL]
  PROVE  StringIn(b) \in Seq(Keys)
  <1> DEFINE Ends(n) == b[n] = NUL /\ \A i \in 0 .. n - 1 : b[i] # NUL
             n == CHOOSE n \in 0 .. BufferMax : Ends(n)
  <1>1. BufferMax \in Nat /\ input_index \in 0 .. BufferMax
    BY ShellAssumption DEF TypeOK
  <1>2. \A i \in 0 .. BufferMax : b[i] \in Keys \cup {NUL}
    BY DEF TypeOK
  <1>3. Ends(input_index)
    <2>1. b[input_index] = NUL
      BY <1>1 DEF TypeOK
    <2>2. ASSUME NEW i \in 0 .. input_index - 1 PROVE b[i] # NUL
      <3>1. i \in 0 .. BufferMax /\ i # input_index /\ ~(i >= input_index)
        BY <1>1
      <3>2. b[i] = input_buffer[i]
        BY <3>1 DEF TypeOK
      <3> QED
        BY <3>1, <3>2 DEF Terminated
    <2> QED
      BY <2>1, <2>2
  <1>4. n \in 0 .. BufferMax /\ Ends(n)
    BY <1>1, <1>3
  <1>5. StringIn(b) = [i \in 1 .. n |-> b[i - 1]]
    BY DEF StringIn
  <1> HIDE DEF n
  <1>6. ASSUME NEW i \in 1 .. n PROVE b[i - 1] \in Keys
    <2>1. i - 1 \in 0 .. n - 1 /\ i - 1 \in 0 .. BufferMax
      BY <1>1, <1>4
    <2> QED
      BY <1>2, <1>4, <2>1
  <1>7. n \in Nat /\ [i \in 1 .. n |-> b[i - 1]] \in [1 .. n -> Keys]
    BY <1>1, <1>4, <1>6
  <1> QED
    BY <1>5, <1>7, SeqDef

\* A command and its arguments are cut from the line.
LEMMA CutFrom ==
  ASSUME NEW line \in Seq(Keys)
  PROVE  CmdIn(line) \in Seq(Keys) /\ ArgsIn(line) \in Seq(Keys)
  <1> DEFINE n == WordLength(line)
             L == Len(line)
             Ends(k) == IsWordEnd(line, k)
             S == {k \in 0 .. L : Ends(k)}
  <1>1. L \in Nat /\ \A i \in 1 .. L : line[i] \in Keys
    BY LenProperties, ElementOfSeq
  <1>2. ArgMax \in Nat
    BY ShellAssumption
  <1>3. n \in 0 .. L
    <2>1. L \in S /\ S \in SUBSET Nat
      BY <1>1 DEF IsWordEnd
    <2>2. PICK m \in S : \A k \in S : m <= k
      BY <2>1, Least
    <2>3. \A i \in 0 .. m - 1 : ~Ends(i)
      BY <1>1, <2>2
    <2>4. \E k \in 0 .. L : Ends(k) /\ \A i \in 0 .. k - 1 : ~Ends(i)
      BY <2>2, <2>3
    <2>5. n = CHOOSE k \in 0 .. L : Ends(k) /\ \A i \in 0 .. k - 1 : ~Ends(i)
      BY DEF WordLength
    <2> HIDE DEF n, Ends, L
    <2> QED
      BY <2>4, <2>5
  <1> HIDE DEF n
  <1>4. ASSUME NEW i \in Nat \ {0}, NEW j \in Int, j <= L PROVE SubSeq(line, i, j) \in Seq(Keys)
    <2>1. \A k \in i .. j : line[k] \in Keys
      BY <1>1, <1>4
    <2> QED
      BY <1>4, <2>1, SubSeqProperties
  <1>5. CmdIn(line) \in Seq(Keys)
    <2>1. 1 \in Nat \ {0} /\ n \in Int /\ n <= L
      BY <1>1, <1>3
    <2> QED
      BY <1>4, <2>1 DEF CmdIn, n
  <1>6. ArgsAfter(line, n) \in Seq(Keys)
    <2> DEFINE last == IF n + 1 + ArgMax < L THEN n + 1 + ArgMax ELSE L
    <2>1. n + 2 \in Nat \ {0} /\ last \in Int /\ last <= L
      BY <1>1, <1>2, <1>3
    <2>2. ArgsAfter(line, n) = SubSeq(line, n + 2, last)
      BY DEF ArgsAfter, Upto
    <2> HIDE DEF last
    <2> QED
      BY <1>4, <2>1, <2>2
  <1>7. ArgsIn(line) = ArgsAfter(line, n) \/ ArgsIn(line) = << >>
    BY DEF ArgsIn, n
  <1> QED
    BY <1>5, <1>6, <1>7, EmptySeq

\* Every command closes the line it prints last.
LEMMA Prints ==
  ASSUME NEW line \in Seq(Keys)
  PROVE  Executed(line) \in Seq(All) /\ ClosesLine(Executed(line))
  <1> DEFINE cmd == CmdIn(line)
             args == ArgsIn(line)
             nl == <<Newline>>
             cl == <<ClearOp>>
  <1>1. cmd \in Seq(All) /\ args \in Seq(All)
    <2>1. Keys \subseteq All
      BY ShellAssumption DEF All
    <2> QED
      BY <2>1, CutFrom, SeqMonotonic
  <1>2. /\ nl \in Seq(All) /\ nl # << >> /\ Closes(nl[Len(nl)])
        /\ cl \in Seq(All) /\ cl # << >> /\ Closes(cl[Len(cl)])
    BY DEF All, Chars, Closes
  <1>3. \A text \in Seq(Chars) : text \in Seq(All)
    BY SeqMonotonic DEF All
  <1>4. \A text : EndsLine(text) => ClosesLine(text)
    BY DEF EndsLine, ClosesLine, Closes
  <1>5. ASSUME NEW s \in Seq(All) PROVE s \o nl \in Seq(All) /\ ClosesLine(s \o nl)
    <2>1. Len(s) \in Nat /\ Len(nl) = 1 /\ nl[1] = Newline
      BY LenProperties
    <2> HIDE DEF nl
    <2>2. /\ s \o nl \in Seq(All) /\ Len(s \o nl) = Len(s) + 1
          /\ (s \o nl)[Len(s) + 1] = nl[1]
      <3>1. /\ s \o nl \in Seq(All) /\ Len(s \o nl) = Len(s) + Len(nl)
            /\ \A i \in 1 .. Len(s) + Len(nl) : (s \o nl)[i] = IF i <= Len(s) THEN s[i] ELSE nl[i - Len(s)]
        BY <1>2, ConcatProperties
      <3>2. /\ Len(s) + 1 \in 1 .. Len(s) + Len(nl) /\ ~(Len(s) + 1 <= Len(s))
            /\ (Len(s) + 1) - Len(s) = 1
        BY <2>1
      <3> QED
        BY <2>1, <3>1, <3>2
    <2> QED
      BY <2>1, <2>2 DEF ClosesLine, Closes
  <1> HIDE DEF cmd, args, nl, cl
  <1>6. Clear # Echo /\ Clear \notin DOMAIN Texts /\ Echo \notin DOMAIN Texts
    BY ShellAssumption
  <1>7. CASE cmd = Clear
    <2>1. Output(cmd, args) = cl \o Banner
      BY <1>6, <1>7 DEF Output, cl
    <2>2. Banner \in Seq(All) /\ ClosesLine(Banner)
      BY <1>3, <1>4, ShellAssumption
    <2>3. cl \o Banner \in Seq(All) /\ Closes((cl \o Banner)[Len(cl \o Banner)])
      BY <1>2, <2>2, Joins
    <2> QED
      BY <2>1, <2>3, EmptySeq DEF Executed, ClosesLine, cmd, args
  <1>8. CASE cmd = Echo
    <2>1. Output(cmd, args) = args \o nl
      BY <1>6, <1>8 DEF Output, nl
    <2> QED
      BY <1>1, <1>5, <2>1, EmptySeq DEF Executed, ClosesLine, cmd, args
  <1>9. CASE cmd \in DOMAIN Texts
    <2>1. Output(cmd, args) = Texts[cmd]
      BY <1>6, <1>9 DEF Output
    <2>2. Texts[cmd] \in Seq(All) /\ ClosesLine(Texts[cmd])
      BY <1>3, <1>4, <1>9, ShellAssumption
    <2> QED
      BY <2>1, <2>2, EmptySeq DEF Executed, ClosesLine, cmd, args
  <1>10. CASE cmd # Clear /\ cmd # Echo /\ cmd \notin DOMAIN Texts
    <2>1. Output(cmd, args) = (Unknown \o cmd) \o nl
      BY <1>10 DEF Output, nl
    <2>2. Unknown \o cmd \in Seq(All)
      BY <1>1, <1>3, ShellAssumption, ConcatProperties
    <2> QED
      BY <1>5, <2>1, <2>2, EmptySeq DEF Executed, ClosesLine, cmd, args
  <1> QED
    BY <1>7, <1>8, <1>9, <1>10

\* What is printed at the start and after a line: something that closes a line,
\* then the prompt.
LEMMA AfterLine ==
  ASSUME NEW c, Closes(c), NEW t \in Seq(All), ClosesLine(t), NEW o, o = <<c>> \o t \o Prompt
  PROVE  /\ o \in Seq(All) /\ Len(o) > P
         /\ \A i \in 1 .. P : o[Len(o) - P + i] = Prompt[i]
         /\ Closes(o[Len(o) - P])
  <1> DEFINE one == <<c>>
  <1>1. one \in Seq(All) /\ one # << >> /\ Closes(one[Len(one)])
    BY DEF Closes, All, Chars
  <1>2. o = (one \o t) \o Prompt
    OBVIOUS
  <1> HIDE DEF one
  <1>3. one \o t \in Seq(All) /\ one \o t # << >> /\ Closes((one \o t)[Len(one \o t)])
    BY <1>1, Joins
  <1> DEFINE s == one \o t
  <1> HIDE DEF s
  <1>4. s \in Seq(All) /\ s # << >> /\ Closes(s[Len(s)]) /\ o = s \o Prompt
    BY <1>2, <1>3 DEF s
  <1> QED
    BY <1>4, AheadOf

-----------------------------------------------------------------------------
(* The inductive invariant.                                                 *)

LEMMA InitInv == Init => IInv
  <1> SUFFICES ASSUME Init PROVE IInv
    OBVIOUS
  <1>1. ScreenInv
    BY ClearedScreen DEF Init
  <1>2. Banner \in Seq(All) /\ ClosesLine(Banner)
    <2>1. Banner \in Seq(Chars) /\ EndsLine(Banner)
      BY ShellAssumption
    <2> QED
      BY <2>1, SeqMonotonic DEF EndsLine, ClosesLine, Closes, All
  <1>3. output = <<ClearOp>> \o Banner \o Prompt /\ Closes(ClearOp)
    BY DEF Init, Closes
  <1>4. /\ output \in Seq(All) /\ Len(output) > P
        /\ \A i \in 1 .. P : output[Len(output) - P + i] = Prompt[i]
        /\ Closes(output[Len(output) - P])
    BY <1>2, <1>3, AfterLine
  <1>5. Len(output) \in Nat /\ P \in Nat
    BY <1>4, LenProperties, PromptIs
  <1>6. PromptAhead
    <2>1. Len(output) >= P /\ Len(output) # P
      BY <1>4, <1>5
    <2>2. input_index = 0
      BY DEF Init
    <2> QED
      BY <1>4, <2>1, <2>2 DEF PromptAhead, Closes
  <1>7. TypeOK /\ Terminated
    <2>1. BufferMax \in Nat /\ NUL \notin Keys
      BY ShellAssumption
    <2>2. input_index = 0 /\ input_buffer = Empty /\ promptRow = -1
      BY DEF Init
    <2>3. Terminated /\ input_index \in 0 .. BufferMax /\ input_buffer \in [0 .. BufferMax -> Keys \cup {NUL}]
      BY <2>1, <2>2 DEF Terminated, Empty
    <2> QED
      BY <1>1, <1>4, <2>2, <2>3 DEF TypeOK, ScreenInv, Line, All
  <1> QED
    BY <1>1, <1>6, <1>7 DEF IInv, ScreenInv

\* What every step of the printing does.
LEMMA EmitStep ==
  ASSUME IInv, Emit
  PROVE  /\ output \in Seq(All) /\ Len(output) \in Nat \ {0} /\ Head(output) = output[1]
         /\ Head(output) \in All
         /\ output' \in Seq(All) /\ Len(output') = Len(output) - 1
         /\ \A i \in 1 .. Len(output) - 1 : output'[i] = output[i + 1]
         /\ Head(output) = ClearOp => ClearScreen
         /\ Head(output) # ClearOp => Head(output) \in Chars /\ PrintChar(Head(output))
         /\ TypeOK' /\ Terminated' /\ BlankBelow' /\ FullBefore'
         /\ input_index' = input_index
  <1>1. output \in Seq(All) /\ output # << >>
    BY DEF IInv, TypeOK, Emit, All
  <1>2. output' = Tail(output)
    BY DEF Emit
  <1>3. Len(output) \in Nat \ {0} /\ Head(output) = output[1]
    BY <1>1, EmptySeq
  <1>4. /\ Head(output) \in All /\ output' \in Seq(All) /\ Len(output') = Len(output) - 1
        /\ \A i \in 1 .. Len(output) - 1 : output'[i] = output[i + 1]
    BY <1>1, <1>2, HeadTailProperties
  <1>5. /\ Head(output) = ClearOp => ClearScreen
        /\ Head(output) # ClearOp => Head(output) \in Chars /\ PrintChar(Head(output))
    BY <1>4 DEF Emit, All
  <1>6. TypeOK /\ BlankBelow /\ FullBefore /\ Terminated
    BY DEF IInv
  <1>7. ScreenInv'
    BY <1>5, <1>6, PrintScreen, ClearedScreen
  <1>8. promptRow' \in Int
    <2>1. cursor_y \in Int /\ promptRow \in Int
      BY <1>6, MonitorAssumption DEF TypeOK, Rows
    <2> QED
      BY <2>1 DEF Emit
  <1>9. input_index' = input_index /\ input_buffer' = input_buffer
    BY DEF Emit
  <1>10. Terminated'
    BY <1>6, <1>9 DEF Terminated
  <1>11. TypeOK'
    BY <1>4, <1>6, <1>7, <1>8, <1>9 DEF TypeOK, ScreenInv, Line, All
  <1> QED
    BY <1>1, <1>3, <1>4, <1>5, <1>7, <1>9, <1>10, <1>11 DEF ScreenInv

\* A character of the prompt, which fits on its row.
LEMMA GlyphShown ==
  ASSUME TypeOK, NEW c \in Glyphs, PrintChar(c), cursor_x + 1 < Width
  PROVE  /\ ~ScrollsOn(c) /\ cursor_y' = cursor_y /\ cursor_x' = cursor_x + 1
         /\ \A j \in Columns : j < cursor_x => video_memory'[cursor_y][j] = video_memory[cursor_y][j]
         /\ video_memory'[cursor_y][cursor_x] = c
  <1>1. c \in Chars /\ c # Backspace
    BY MonitorAssumption DEF Chars
  <1>2. PICK m, x, y : Moved(c, m, x, y)
    BY <1>1, PrintMoves
  <1>3. /\ y = cursor_y /\ x = cursor_x + 1 /\ m[cursor_y][cursor_x] = c
        /\ \A j \in Columns : j < cursor_x => m[cursor_y][j] = video_memory[cursor_y][j]
    BY <1>1, <1>2 DEF Moved
  <1>4. cursor_y \in Int
    BY MonitorAssumption DEF TypeOK, Rows
  <1>5. ~ScrollsOn(c)
    BY <1>2, <1>3, <1>4, RowsAfter
  <1> QED
    BY <1>2, <1>3, <1>5, RowsAfter

\* The prompt is still to come.
LEMMA EmitAhead ==
  ASSUME IInv, Emit, PromptAhead
  PROVE  PromptAhead' \/ PromptBegun'
  <1> DEFINE n == Len(output)
             c == Head(output)
  <1>1. /\ n \in Nat \ {0} /\ Len(output') = n - 1 /\ c = output[1]
        /\ \A i \in 1 .. n - 1 : output'[i] = output[i + 1]
        /\ input_index' = input_index
        /\ c = ClearOp => ClearScreen
        /\ c # ClearOp => c \in Chars /\ PrintChar(c)
    BY EmitStep
  <1>2. P \in Nat /\ P >= 2 /\ P < Width
    BY PromptIs
  <1>3. /\ n >= P /\ \A i \in 1 .. P : output[n - P + i] = Prompt[i]
        /\ IF n = P THEN cursor_x = 0 ELSE output[n - P] \in {Newline, ClearOp}
        /\ input_index = 0
    BY DEF PromptAhead
  <1>4. TypeOK
    BY DEF IInv
  <1> HIDE DEF n, c
  <1>5. CASE n > P
    <2>1. n - 1 >= P
      BY <1>1, <1>2, <1>5
    <2>2. ASSUME NEW i \in 1 .. P PROVE output'[(n - 1) - P + i] = Prompt[i]
      <3>1. (n - 1) - P + i \in 1 .. n - 1 /\ ((n - 1) - P + i) + 1 = n - P + i
        BY <1>1, <1>2, <1>5
      <3> QED
        BY <1>1, <1>3, <3>1
    <2>3. CASE n - 1 = P
      <3>1. n - P = 1 /\ n # P
        BY <1>1, <1>2, <2>3
      <3>2. c \in {Newline, ClearOp}
        BY <1>1, <1>3, <3>1
      <3>3. cursor_x' = 0
        <4>1. CASE c = ClearOp
          BY <1>1, <4>1, ClearedScreen
        <4>2. CASE c = Newline /\ c # ClearOp
          <5>1. PICK m, x, y : Moved(c, m, x, y)
            BY <1>1, <1>4, <4>2, PrintMoves
          <5>2. x = 0 /\ cursor_x' = x
            BY <1>4, <4>2, <5>1, RowsAfter DEF Moved
          <5> QED
            BY <5>2
        <4> QED
          BY <3>2, <4>1, <4>2
      <3> QED
        BY <1>1, <1>3, <2>1, <2>2, <2>3, <3>3 DEF PromptAhead
    <2>4. CASE n - 1 # P
      <3>1. (n - 1) - P \in 1 .. n - 1 /\ ((n - 1) - P) + 1 = n - P /\ n # P
        BY <1>1, <1>2, <1>5, <2>4
      <3>2. output'[(n - 1) - P] \in {Newline, ClearOp}
        BY <1>1, <1>3, <3>1
      <3> QED
        BY <1>1, <1>3, <2>1, <2>2, <2>4, <3>2 DEF PromptAhead
    <2> QED
      BY <2>3, <2>4
  <1>6. CASE n = P
    <2>1. cursor_x = 0
      BY <1>3, <1>6
    <2>2. \A i \in 1 .. P : n - P + i = i
      BY <1>2, <1>6
    <2>3. \A i \in 1 .. P : output[i] = Prompt[i]
      BY <1>3, <2>2
    <2>4. output = Prompt
      <3>1. output \in Seq(All) /\ Prompt \in Seq(All) /\ Len(output) = P /\ Len(Prompt) = P
        BY <1>6, EmitStep, PromptIs DEF n, P
      <3> QED
        BY <2>3, <3>1, SeqEqual
    <2>5. promptRow' = cursor_y
      BY <2>4 DEF Emit
    <2>6. c \in Glyphs /\ c = Prompt[1]
      <3>1. 1 \in 1 .. Len(Prompt) /\ Prompt \in Seq(Glyphs)
        BY <1>2, PromptIs DEF P
      <3> QED
        BY <1>1, <2>4, <3>1, ElementOfSeq
    <2>7. PrintChar(c) /\ cursor_x + 1 < Width
      <3>1. c # ClearOp
        BY <2>6, ShellAssumption DEF Chars
      <3>2. Width \in Nat
        BY MonitorAssumption
      <3> QED
        BY <1>1, <1>2, <2>1, <3>1, <3>2
    <2>8. /\ cursor_y' = cursor_y /\ cursor_x' = 1
          /\ video_memory'[cursor_y][0] = Prompt[1]
      BY <1>4, <2>1, <2>6, <2>7, GlyphShown
    <2>9. Len(output') \in 1 .. P - 1 /\ P - Len(output') = 1
      BY <1>1, <1>2, <1>6
    <2>10. ASSUME NEW i \in 1 .. Len(output') PROVE output'[i] = Prompt[P - Len(output') + i]
      <3>1. i \in 1 .. n - 1 /\ i + 1 \in 1 .. P /\ P - Len(output') + i = i + 1
        BY <1>1, <1>2, <1>6, <2>9
      <3> QED
        BY <1>1, <2>3, <3>1
    <2>11. Shown(cursor_x)'
      <3> SUFFICES ASSUME NEW i \in 1 .. 1 PROVE video_memory'[promptRow'][i - 1] = Prompt[i]
        BY <2>8 DEF Shown
      <3>1. i = 1 /\ i - 1 = 0
        OBVIOUS
      <3> QED
        BY <2>5, <2>8, <3>1
    <2> QED
      BY <1>1, <1>3, <2>5, <2>8, <2>9, <2>10, <2>11 DEF PromptBegun
  <1>7. n > P \/ n = P
    BY <1>1, <1>2, <1>3
  <1> QED
    BY <1>5, <1>6, <1>7

\* The prompt is being printed.
LEMMA EmitBegun ==
  ASSUME IInv, Emit, PromptBegun
  PROVE  PromptBegun' \/ Editing'
  <1> DEFINE n == Len(output)
             c == Head(output)
             k == P - n
  <1>1. /\ n \in Nat \ {0} /\ Len(output') = n - 1 /\ c = output[1]
        /\ \A i \in 1 .. n - 1 : output'[i] = output[i + 1]
        /\ input_index' = input_index
        /\ c # ClearOp => PrintChar(c)
        /\ output' \in Seq(All)
    BY EmitStep
  <1>2. P \in Nat /\ P >= 2 /\ P < Width /\ Width \in Nat
    BY PromptIs, MonitorAssumption
  <1>3. /\ n \in 1 .. P - 1 /\ \A i \in 1 .. n : output[i] = Prompt[k + i]
        /\ cursor_x = k /\ promptRow = cursor_y /\ Shown(cursor_x) /\ input_index = 0
    BY DEF PromptBegun
  <1>4. TypeOK
    BY DEF IInv
  <1> HIDE DEF n, c
  <1>5. k \in Nat /\ k + 1 \in 1 .. P /\ k + 1 < Width /\ 1 \in 1 .. n
    BY <1>1, <1>2, <1>3
  <1>6. c \in Glyphs /\ c = Prompt[k + 1]
    <2>1. c = Prompt[k + 1]
      BY <1>1, <1>3, <1>5
    <2>2. Prompt \in Seq(Glyphs) /\ k + 1 \in 1 .. Len(Prompt)
      BY <1>5, PromptIs DEF P
    <2> QED
      BY <2>1, <2>2, ElementOfSeq
  <1>7. c # ClearOp
    BY <1>6, ShellAssumption DEF Chars
  <1>8. /\ ~ScrollsOn(c) /\ cursor_y' = cursor_y /\ cursor_x' = k + 1
        /\ \A j \in Columns : j < k => video_memory'[cursor_y][j] = video_memory[cursor_y][j]
        /\ video_memory'[cursor_y][k] = c
    BY <1>1, <1>3, <1>4, <1>5, <1>6, <1>7, GlyphShown
  <1>9. promptRow' = promptRow
    <2>1. output # Prompt
      BY <1>2, <1>3 DEF n, P
    <2> QED
      BY <1>7, <1>8, <2>1 DEF Emit, c
  <1>10. ASSUME NEW i \in 1 .. k + 1 PROVE video_memory'[promptRow'][i - 1] = Prompt[i]
    <2>1. promptRow' = cursor_y
      BY <1>3, <1>9
    <2>2. CASE i = k + 1
      <3>1. i - 1 = k
        BY <1>5, <2>2
      <3> QED
        BY <1>6, <1>8, <2>1, <2>2, <3>1
    <2>3. CASE i # k + 1
      <3>1. i \in 1 .. k /\ i - 1 < k /\ i - 1 \in Columns
        BY <1>2, <1>5, <2>3 DEF Columns
      <3>2. video_memory[promptRow][i - 1] = Prompt[i]
        BY <1>3, <3>1 DEF Shown
      <3> QED
        BY <1>3, <1>8, <2>1, <3>1, <3>2
    <2> QED
      BY <2>2, <2>3
  <1>11. Shown(cursor_x)'
    BY <1>8, <1>10 DEF Shown
  <1>12. CASE n = 1
    <2>1. output' = << >>
      BY <1>1, <1>12, EmptySeq
    <2>2. k + 1 = P
      BY <1>2, <1>12
    <2>3. Shown(P)'
      BY <1>8, <1>11, <2>2 DEF P, Shown
    <2>4. Printed1' = 0
      BY <1>1, <1>3, <2>1 DEF Printed1
    <2>5. promptRow' = cursor_y' /\ cursor_y' \in Int
      BY <1>3, <1>4, <1>8, <1>9, MonitorAssumption DEF TypeOK, Rows
    <2>6. cursor_x' >= P + 0
      BY <1>2, <1>8, <2>2
    <2>7. Editing'
      BY <1>2, <2>1, <2>3, <2>4, <2>5, <2>6 DEF Editing, P
    <2> QED
      BY <2>7
  <1>13. CASE n # 1
    <2>1. Len(output') \in 1 .. P - 1 /\ P - Len(output') = k + 1
      BY <1>1, <1>2, <1>3, <1>13
    <2>2. ASSUME NEW i \in 1 .. Len(output') PROVE output'[i] = Prompt[P - Len(output') + i]
      <3>1. i \in 1 .. n - 1 /\ i + 1 \in 1 .. n /\ P - Len(output') + i = k + (i + 1)
        BY <1>1, <1>2, <1>3, <2>1
      <3> QED
        BY <1>1, <1>3, <3>1
    <2>3. cursor_x' = P - Len(output') /\ promptRow' = cursor_y' /\ input_index' = 0
      BY <1>1, <1>3, <1>8, <1>9, <2>1
    <2> QED
      BY <1>11, <2>1, <2>2, <2>3 DEF PromptBegun
  <1> QED
    BY <1>12, <1>13

\* A key is echoed.
LEMMA EmitEcho ==
  ASSUME IInv, Emit, Editing
  PROVE  Editing'
  <1>1. PICK c \in Chars : output = <<c>>
    BY DEF Editing, Emit
  <1>2. Head(output) = c /\ output' = << >> /\ c # ClearOp /\ PrintChar(c) /\ input_index' = input_index
    <2>1. Head(output) = c /\ Tail(output) = << >>
      BY <1>1
    <2>2. c # ClearOp
      BY ShellAssumption
    <2> QED
      BY <2>1, <2>2 DEF Emit
  <1>3. TypeOK /\ P \in Nat /\ P >= 2
    BY PromptIs DEF IInv
  <1>4. PICK m, x, y : Moved(c, m, x, y)
    BY <1>2, <1>3, PrintMoves
  <1>5. /\ cursor_x \in Int /\ cursor_y \in Nat /\ cursor_y <= Height - 1 /\ Height \in Nat /\ promptRow \in Int
        /\ input_index \in Nat /\ x \in Int /\ y \in {cursor_y, cursor_y + 1} /\ Width \in Nat
    BY <1>3, <1>4, MonitorAssumption, ShellAssumption DEF TypeOK, Rows, Columns, Moved
  <1>6. Printed1 = IF c = Backspace THEN input_index + 1 ELSE input_index - 1
    BY <1>1 DEF Printed1
  <1>7. Printed1' = input_index
    BY <1>2 DEF Printed1
  <1>8. /\ promptRow <= cursor_y /\ Printed1 >= 0
        /\ promptRow >= 0 => Shown(P)
        /\ promptRow = cursor_y => cursor_x >= P + Printed1
    BY DEF Editing
  <1>9. promptRow' = IF ScrollsOn(c) /\ promptRow >= 0 THEN promptRow - 1 ELSE promptRow
    <2>1. output # Prompt
      <3>1. Len(output) = 1
        BY <1>1
      <3>2. Len(Prompt) # 1
        BY PromptIs DEF P
      <3> QED
        BY <3>1, <3>2
    <2> QED
      BY <1>2, <2>1 DEF Emit
  <1>10. ASSUME promptRow >= 0, NEW i \in 1 .. P PROVE m[promptRow][i - 1] = Prompt[i]
    <2>1. promptRow \in Rows /\ i - 1 \in Columns
      BY <1>3, <1>5, <1>8, <1>10, PromptIs DEF Rows, Columns
    <2>2. video_memory[promptRow][i - 1] = Prompt[i]
      BY <1>8, <1>10 DEF Shown
    <2>3. CASE promptRow # cursor_y
      <3>1. m[promptRow] = video_memory[promptRow]
        BY <1>4, <2>1, <2>3 DEF Moved
      <3> QED
        BY <2>2, <3>1
    <2>4. CASE promptRow = cursor_y
      <3>1. i - 1 < IF c = Backspace THEN cursor_x - 1 ELSE cursor_x
        BY <1>3, <1>5, <1>6, <1>8, <2>4
      <3>2. m[cursor_y][i - 1] = video_memory[cursor_y][i - 1]
        BY <1>4, <2>1, <3>1 DEF Moved
      <3> QED
        BY <2>2, <2>4, <3>2
    <2> QED
      BY <2>3, <2>4
  <1>11. P' = P
    BY DEF P
  <1>12. CASE ~ScrollsOn(c)
    <2>1. cursor_y' = y /\ video_memory' = m /\ cursor_x' = x /\ promptRow' = promptRow
      BY <1>3, <1>4, <1>9, <1>12, RowsAfter
    <2>2. promptRow' <= cursor_y'
      BY <1>5, <1>8, <2>1
    <2>3. promptRow' >= 0 => Shown(P)'
      BY <1>10, <1>11, <2>1 DEF Shown
    <2>4. promptRow' = cursor_y' => cursor_x' >= P + input_index
      <3> SUFFICES ASSUME promptRow = y PROVE x >= P + input_index
        BY <2>1
      <3>1. y = cursor_y /\ promptRow = cursor_y
        BY <1>5, <1>8
      <3>2. cursor_x >= P + Printed1
        BY <1>8, <3>1
      <3>3. IF c = Backspace THEN x >= cursor_x - 1 ELSE x > cursor_x
        BY <1>4, <3>1 DEF Moved
      <3> QED
        BY <1>3, <1>5, <1>6, <3>2, <3>3
    <2> QED
      BY <1>2, <1>5, <1>7, <1>11, <2>2, <2>3, <2>4 DEF Editing
  <1>13. CASE ScrollsOn(c)
    <2>1. /\ cursor_y = Height - 1 /\ cursor_y' = cursor_y
          /\ \A r \in Rows : r # 0 => video_memory'[r - 1] = m[r]
      BY <1>3, <1>4, <1>13, RowsAfter
    <2>2. promptRow' < cursor_y'
      BY <1>5, <1>8, <1>9, <1>13, <2>1
    <2>3. ASSUME promptRow' >= 0 PROVE Shown(P)'
      <3>1. promptRow' = promptRow - 1 /\ promptRow \in Rows /\ promptRow # 0 /\ promptRow >= 0
        BY <1>5, <1>8, <1>9, <1>13, <2>3 DEF Rows
      <3>2. video_memory'[promptRow'] = m[promptRow]
        BY <2>1, <3>1
      <3> QED
        BY <1>10, <1>11, <3>1, <3>2 DEF Shown
    <2>4. promptRow' \in Int /\ cursor_y' \in Int
      BY <1>5, <1>9, <2>1
    <2> QED
      BY <1>2, <1>5, <1>7, <1>11, <2>2, <2>3, <2>4 DEF Editing
  <1> QED
    BY <1>12, <1>13

\* When all is printed, a line is being edited.
LEMMA Waiting ==
  ASSUME IInv, output = << >>
  PROVE  Editing
  <1>1. Len(output) = 0 /\ P \in Nat /\ P >= 2
    BY PromptIs
  <1> QED
    BY <1>1 DEF IInv, PromptAhead, PromptBegun

LEMMA NextInv == IInv /\ [Next]_vars => IInv'
  <1> SUFFICES ASSUME IInv, [Next]_vars PROVE IInv'
    OBVIOUS
  <1>1. /\ TypeOK /\ Terminated /\ BlankBelow /\ FullBefore
        /\ BufferMax \in Nat /\ input_index \in 0 .. BufferMax /\ NUL \notin Keys
        /\ input_buffer \in [0 .. BufferMax -> Keys \cup {NUL}]
    BY ShellAssumption DEF IInv, TypeOK
  <1>2. ASSUME UNCHANGED monitor, input_index' \in 0 .. BufferMax, Terminated',
               input_buffer' \in [0 .. BufferMax -> Keys \cup {NUL}],
               output' \in Seq(All), UNCHANGED promptRow
        PROVE  TypeOK' /\ Terminated' /\ BlankBelow' /\ FullBefore'
    BY <1>1, <1>2 DEF TypeOK, monitor, BlankBelow, FullBefore, All
  <1>3. ASSUME output = << >>, UNCHANGED <<monitor, promptRow>>, NEW c \in Chars, output' = <<c>>,
               input_index' \in Int, input_index' = IF c = Backspace THEN input_index - 1 ELSE input_index + 1
        PROVE  Editing'
    <2>1. Editing
      BY <1>3, Waiting
    <2>2. Printed1' = input_index /\ Printed1 = input_index
      <3>1. Printed1 = input_index
        BY <1>3 DEF Printed1
      <3>2. output' # << >> /\ (output' = <<Backspace>> <=> c = Backspace)
        BY <1>3
      <3>3. Printed1' = IF c = Backspace THEN input_index' + 1 ELSE input_index' - 1
        BY <3>2 DEF Printed1
      <3> QED
        BY <1>1, <1>3, <3>1, <3>3
    <2>3. /\ video_memory' = video_memory /\ cursor_x' = cursor_x /\ cursor_y' = cursor_y
          /\ promptRow' = promptRow
      BY <1>3 DEF monitor
    <2>4. Shown(P)' = Shown(P)
      BY <2>3 DEF Shown, P
    <2>5. P' = P
      BY DEF P
    <2>6. \E d \in Chars : output' = <<d>>
      BY <1>3
    <2> QED
      BY <2>1, <2>2, <2>3, <2>4, <2>5, <2>6 DEF Editing
  <1>4. CASE Enter
    <2> DEFINE line == StringIn([input_buffer EXCEPT ![input_index] = NUL])
    <2>1. line \in Seq(Keys)
      BY <1>1, LineRead
    <2>2. Executed(line) \in Seq(All) /\ ClosesLine(Executed(line))
      BY <2>1, Prints
    <2>3. /\ output' = <<Newline>> \o Executed(line) \o Prompt
          /\ input_index' = 0 /\ input_buffer' = Empty /\ UNCHANGED <<monitor, promptRow>>
      BY <1>4 DEF Enter
    <2> HIDE DEF line
    <2>4. Closes(Newline)
      BY DEF Closes
    <2>5. /\ output' \in Seq(All) /\ Len(output') > P
          /\ \A i \in 1 .. P : output'[Len(output') - P + i] = Prompt[i]
          /\ Closes(output'[Len(output') - P])
      BY <2>2, <2>3, <2>4, AfterLine
    <2>6. Len(output') \in Nat /\ P \in Nat /\ P' = P
      BY <2>5, LenProperties, PromptIs DEF P
    <2>7. Len(output') >= P /\ Len(output') # P
      BY <2>5, <2>6
    <2>8. PromptAhead'
      BY <2>3, <2>5, <2>6, <2>7 DEF PromptAhead, Closes
    <2>9. Terminated' /\ Empty \in [0 .. BufferMax -> Keys \cup {NUL}]
      BY <1>1, <2>3 DEF Terminated, Empty
    <2>10. 0 \in 0 .. BufferMax
      BY <1>1
    <2> QED
      BY <1>2, <2>3, <2>5, <2>8, <2>9, <2>10 DEF IInv
  <1>5. CASE EraseKey
    <2>1. /\ output = << >> /\ UNCHANGED <<monitor, promptRow>> /\ input_index > 0
          /\ input_index' = input_index - 1
          /\ input_buffer' = [input_buffer EXCEPT ![input_index - 1] = NUL]
          /\ output' = <<Backspace>> /\ Backspace \in Chars
      BY <1>5 DEF EraseKey, Key, Erasable, Chars
    <2>2. input_index' \in 0 .. BufferMax /\ input_buffer' \in [0 .. BufferMax -> Keys \cup {NUL}]
      BY <1>1, <2>1
    <2>3. Terminated'
      BY <1>1, <2>1 DEF Terminated
    <2>4. output' \in Seq(All)
      BY <2>1 DEF All
    <2>5. Editing'
      BY <1>3, <2>1, <2>2
    <2> QED
      BY <1>2, <2>1, <2>2, <2>3, <2>4, <2>5 DEF IInv
  <1>6. CASE OtherKey
    <2>1. PICK c \in Keys \ {Backspace} :
            /\ output = << >> /\ UNCHANGED <<monitor, promptRow>> /\ input_index < BufferMax
            /\ input_index' = input_index + 1
            /\ input_buffer' = [input_buffer EXCEPT ![input_index] = c]
            /\ output' = <<c>>
      BY <1>6 DEF OtherKey, Key, HasRoom
    <2>2. input_index' \in 0 .. BufferMax /\ input_buffer' \in [0 .. BufferMax -> Keys \cup {NUL}]
      BY <1>1, <2>1
    <2>3. Terminated'
      BY <1>1, <2>1 DEF Terminated
    <2>4. c \in Chars /\ c # Backspace
      BY ShellAssumption
    <2>5. output' \in Seq(All)
      BY <2>1, <2>4 DEF All
    <2>6. Editing'
      BY <1>3, <2>1, <2>2, <2>4
    <2> QED
      BY <1>2, <2>1, <2>2, <2>3, <2>5, <2>6 DEF IInv
  <1>7. CASE Emit
    <2>1. PromptAhead' \/ PromptBegun' \/ Editing'
      BY <1>7, EmitAhead, EmitBegun, EmitEcho DEF IInv
    <2> QED
      BY <1>7, <2>1, EmitStep DEF IInv
  <1>8. CASE IgnoredKey \/ NoKey \/ UNCHANGED vars
    <2>1. UNCHANGED <<monitor, input_buffer, input_index, output, promptRow>>
      BY <1>8 DEF IgnoredKey, NoKey, Key, vars, history
    <2> QED
      BY <2>1 DEF IInv, TypeOK, Terminated, BlankBelow, FullBefore, PromptAhead, PromptBegun, Editing,
                  Shown, Printed1, monitor, P
  <1> QED
    BY <1>4, <1>5, <1>6, <1>7, <1>8 DEF Next

\* The invariant, at every reachable state: the cursor is on the screen, the
\* line in the buffer ends where the index says, and until a line is finished
\* the cursor keeps a column right of the prompt for every character typed.
THEOREM ShellInvariant == Spec => []IInv
  <1>1. Init => IInv
    BY InitInv
  <1>2. IInv /\ [Next]_vars => IInv'
    BY NextInv
  <1> QED
    BY <1>1, <1>2, PTL DEF Spec

\* The variables keep their types: no character is written outside video
\* memory, none outside input_buffer.
THEOREM ShellTypeOK == Spec => []TypeOK
  <1>1. IInv => TypeOK
    BY DEF IInv
  <1> QED
    BY <1>1, ShellInvariant, PTL

\* Backspace never eats the prompt: where a line may be edited, the prompt
\* stands as print_string put it, until it is scrolled off.
THEOREM ShellPromptKept == Spec => []PromptKept
  <1>1. IInv => PromptKept
    <2> SUFFICES ASSUME IInv, output = << >>, promptRow >= 0, NEW i \in DOMAIN Prompt
                 PROVE  video_memory[promptRow][i - 1] = Prompt[i]
      BY DEF PromptKept
    <2>1. DOMAIN Prompt = 1 .. P
      BY PromptIs DEF P
    <2> QED
      BY <2>1, Waiting DEF Editing, Shown
  <1> QED
    BY <1>1, ShellInvariant, PTL

-----------------------------------------------------------------------------
(* The screen as paper.                                                     *)

\* Division with rest has one answer.
LEMMA OneQuotient ==
  ASSUME NEW T \in Nat \ {0}, NEW q \in Int, NEW p \in Int,
         NEW r \in 0 .. T - 1, NEW s \in 0 .. T - 1, q * T + r = p * T + s
  PROVE  q = p
  <1>1. CASE q < p
    <2>1. q + 1 <= p
      BY <1>1
    <2>2. (p - q) * T >= T
      BY <2>1
    <2>3. (p - q) * T = r - s
      OBVIOUS
    <2>4. r - s < T
      OBVIOUS
    <2> QED
      BY <2>2, <2>3, <2>4
  <1>2. CASE q > p
    <2>1. p + 1 <= q
      BY <1>2
    <2>2. (q - p) * T >= T
      BY <2>1
    <2>3. (q - p) * T = s - r
      OBVIOUS
    <2>4. s - r < T
      OBVIOUS
    <2> QED
      BY <2>2, <2>3, <2>4
  <1> QED
    BY <1>1, <1>2

LEMMA Divided ==
  ASSUME NEW T \in Nat \ {0}, NEW x \in Nat
  PROVE  x = (x \div T) * T + (x % T) /\ x % T \in 0 .. T - 1 /\ x \div T \in Nat
  OBVIOUS

\* A tab leads to the next multiple of TabStop, however it is computed.
LEMMA NextStop == \A x \in Nat : AfterTab(x) = (x \div TabStop + 1) * TabStop
  <1> TAKE x \in Nat
  <1> DEFINE T == TabStop
             q == x \div T
             r == x % T
             p == (x + T) \div T
             s == (x + T) % T
  <1>1. T \in Nat \ {0}
    BY MonitorAssumption
  <1>2. AfterTab(x) = (x + T) - s
    BY DEF AfterTab
  <1> HIDE DEF T
  <1>3. x = q * T + r /\ r \in 0 .. T - 1 /\ q \in Nat
    BY <1>1, Divided
  <1>4. x + T = p * T + s /\ s \in 0 .. T - 1 /\ p \in Nat
    <2>1. x + T \in Nat
      BY <1>1
    <2> QED
      BY <1>1, <2>1, Divided
  <1>5. AfterTab(x) = (x + T) - s
    BY <1>2
  <1> HIDE DEF q, r, p, s
  <1>6. (q + 1) * T = q * T + T
    BY <1>1, <1>3
  <1>7. p * T + s = (q + 1) * T + r
    <2>1. q * T \in Int
      BY <1>1, <1>3
    <2> QED
      BY <1>1, <1>3, <1>4, <1>6, <2>1
  <1>8. p = q + 1
    <2>1. q + 1 \in Int
      BY <1>3
    <2> QED
      BY <1>1, <1>3, <1>4, <1>7, <2>1, OneQuotient
  <1>9. (x + T) - s = p * T
    <2>1. p * T \in Int
      BY <1>1, <1>4
    <2> QED
      BY <1>1, <1>4, <2>1
  <1> QED
    BY <1>5, <1>8, <1>9 DEF q, T

\* The first rows of a memory, and the paper they end.
Top(m, y) == [i \in 1 .. y + 1 |-> m[i - 1]]
Saves == scrollback_buffer \o dropped
Page(m, y) == Saves \o Top(m, y)

LEMMA TopIs ==
  ASSUME NEW m \in [Rows -> Line], NEW y \in Rows
  PROVE  /\ Top(m, y) \in Seq(Line) /\ Len(Top(m, y)) = y + 1 /\ y \in Nat
         /\ \A i \in 1 .. y + 1 : Top(m, y)[i] = m[i - 1]
  <1>1. y \in Nat /\ y + 1 \in Nat /\ \A i \in 1 .. y + 1 : i - 1 \in Rows
    BY MonitorAssumption DEF Rows
  <1>2. Top(m, y) \in [1 .. y + 1 -> Line]
    BY <1>1 DEF Top
  <1>3. Top(m, y) \in Seq(Line)
    BY <1>1, <1>2, SeqDef
  <1>4. Len(Top(m, y)) = y + 1
    BY <1>1, <1>2, <1>3, LenProperties
  <1> QED
    BY <1>1, <1>3, <1>4 DEF Top

\* One more row.
LEMMA TopNext ==
  ASSUME NEW m \in [Rows -> Line], NEW y \in Rows, y + 1 \in Rows
  PROVE  Top(m, y + 1) = Append(Top(m, y), m[y + 1])
  <1> DEFINE s == Top(m, y)
             t == Append(s, m[y + 1])
             u == Top(m, y + 1)
  <1>1. s \in Seq(Line) /\ Len(s) = y + 1 /\ y \in Nat /\ \A i \in 1 .. y + 1 : s[i] = m[i - 1]
    BY TopIs
  <1>2. u \in Seq(Line) /\ Len(u) = (y + 1) + 1 /\ \A i \in 1 .. (y + 1) + 1 : u[i] = m[i - 1]
    BY TopIs
  <1> HIDE DEF s, u
  <1>3. /\ t \in Seq(Line) /\ Len(t) = Len(s) + 1
        /\ \A i \in 1 .. Len(s) : t[i] = s[i]
        /\ t[Len(s) + 1] = m[y + 1]
    BY <1>1, AppendProperties
  <1> HIDE DEF t
  <1>4. ASSUME NEW i \in 1 .. Len(u) PROVE u[i] = t[i]
    <2>1. CASE i = y + 2
      <3>1. i - 1 = y + 1 /\ Len(s) + 1 = i /\ i \in 1 .. (y + 1) + 1
        BY <1>1, <2>1
      <3> QED
        BY <1>2, <1>3, <3>1
    <2>2. CASE i # y + 2
      <3>1. i \in 1 .. y + 1 /\ i \in 1 .. (y + 1) + 1
        BY <1>1, <1>2, <2>2
      <3> QED
        BY <1>1, <1>2, <1>3, <3>1
    <2> QED
      BY <2>1, <2>2
  <1>5. Len(u) = Len(t)
    BY <1>1, <1>2, <1>3
  <1>6. u = t
    BY <1>2, <1>3, <1>4, <1>5, SeqEqual
  <1> QED
    BY <1>6 DEF s, t, u

\* The memory moved up, with the row that left it in front.
LEMMA TopShifted ==
  ASSUME NEW m \in [Rows -> Line]
  PROVE  <<m[0]>> \o Top(Shifted(m), Height - 1) = Append(Top(m, Height - 1), BlankLine)
  <1> DEFINE h == Height - 1
             s == <<m[0]>>
             t == Top(Shifted(m), h)
             u == Top(m, h)
             v == s \o t
             w == Append(u, BlankLine)
  <1>1. h \in Rows /\ h \in Nat /\ h + 1 = Height
    BY MonitorAssumption DEF Rows
  <1>2. /\ Shifted(m) \in [Rows -> Line] /\ m[0] \in Line /\ Shifted(m)[h] = BlankLine
        /\ \A r \in Rows : r # h => r + 1 \in Rows /\ Shifted(m)[r] = m[r + 1]
    BY ShiftedIs
  <1>3. BlankLine \in Line
    BY MonitorAssumption DEF BlankLine, Line
  <1>4. s \in Seq(Line) /\ Len(s) = 1 /\ s[1] = m[0]
    BY <1>2
  <1>5. t \in Seq(Line) /\ Len(t) = h + 1 /\ \A i \in 1 .. h + 1 : t[i] = Shifted(m)[i - 1]
    BY <1>1, <1>2, TopIs
  <1>6. u \in Seq(Line) /\ Len(u) = h + 1 /\ \A i \in 1 .. h + 1 : u[i] = m[i - 1]
    BY <1>1, TopIs
  <1> HIDE DEF s, t, u, h
  <1>7. /\ v \in Seq(Line) /\ Len(v) = Len(s) + Len(t)
        /\ \A i \in 1 .. Len(s) + Len(t) : v[i] = IF i <= Len(s) THEN s[i] ELSE t[i - Len(s)]
    BY <1>4, <1>5, ConcatProperties
  <1>8. /\ w \in Seq(Line) /\ Len(w) = Len(u) + 1
        /\ \A i \in 1 .. Len(u) : w[i] = u[i]
        /\ w[Len(u) + 1] = BlankLine
    BY <1>3, <1>6, AppendProperties
  <1> HIDE DEF v, w
  <1>9. Len(v) = h + 2 /\ Len(w) = h + 2
    BY <1>1, <1>4, <1>5, <1>6, <1>7, <1>8
  <1>10. ASSUME NEW i \in 1 .. Len(v) PROVE v[i] = w[i]
    <2>1. i \in 1 .. Len(s) + Len(t)
      BY <1>7
    <2>2. CASE i = 1
      <3>1. i <= Len(s) /\ i \in 1 .. Len(u) /\ i \in 1 .. h + 1 /\ i - 1 = 0
        BY <1>1, <1>4, <1>6, <2>2
      <3>2. v[i] = m[0]
        BY <1>4, <1>7, <2>1, <2>2, <3>1
      <3>3. w[i] = m[0]
        BY <1>6, <1>8, <3>1
      <3> QED
        BY <3>2, <3>3
    <2>3. CASE i # 1
      <3>1. /\ ~(i <= Len(s)) /\ i - Len(s) = i - 1 /\ i - 1 \in 1 .. h + 1
            /\ (i - 1) - 1 = i - 2 /\ i - 2 \in 0 .. h
        BY <1>1, <1>4, <1>9, <2>3
      <3>2. v[i] = Shifted(m)[i - 2]
        BY <1>5, <1>7, <2>1, <3>1
      <3>3. CASE i = h + 2
        <4>1. i - 2 = h /\ Len(u) + 1 = i
          BY <1>1, <1>6, <3>3
        <4> QED
          BY <1>2, <1>8, <3>2, <4>1
      <3>4. CASE i # h + 2
        <4>1. /\ i - 2 \in Rows /\ i - 2 # h /\ (i - 2) + 1 = i - 1
              /\ i \in 1 .. Len(u) /\ i \in 1 .. h + 1
          BY <1>1, <1>6, <1>9, <3>1, <3>4 DEF Rows
        <4>2. v[i] = m[i - 1]
          BY <1>2, <3>2, <4>1
        <4> QED
          BY <1>6, <1>8, <4>1, <4>2
      <3> QED
        BY <3>3, <3>4
    <2> QED
      BY <2>2, <2>3
  <1>11. v = w
    BY <1>7, <1>8, <1>9, <1>10, SeqEqual
  <1> QED
    BY <1>11 DEF h, s, t, u, v, w

\* To append to the end of two texts is to append to the second.
LEMMA AppendBehind ==
  ASSUME NEW S, NEW s \in Seq(S), NEW t \in Seq(S), NEW e \in S
  PROVE  s \o Append(t, e) = Append(s \o t, e)
  <1> DEFINE one == <<e>>
  <1>1. one \in Seq(S)
    OBVIOUS
  <1>2. Append(t, e) = t \o one /\ s \o t \in Seq(S)
    BY AppendIsConcat, ConcatProperties
  <1>3. Append(s \o t, e) = (s \o t) \o one
    BY <1>2, AppendIsConcat
  <1> HIDE DEF one
  <1>4. (s \o t) \o one = s \o (t \o one)
    BY <1>1, ConcatAssociative
  <1> QED
    BY <1>2, <1>3, <1>4

\* What is appended to the first of two texts comes before the second.
LEMMA AppendBetween ==
  ASSUME NEW S, NEW s \in Seq(S), NEW t \in Seq(S), NEW e \in S
  PROVE  Append(s, e) \o t = s \o (<<e>> \o t)
  <1> DEFINE one == <<e>>
  <1>1. one \in Seq(S)
    OBVIOUS
  <1>2. Append(s, e) = s \o one
    BY AppendIsConcat
  <1> HIDE DEF one
  <1>3. (s \o one) \o t = s \o (one \o t)
    BY <1>1, ConcatAssociative
  <1> QED
    BY <1>2, <1>3 DEF one

LEMMA PageIs ==
  ASSUME TypeOK, NEW m \in [Rows -> Line]
  PROVE  /\ Saves \in Seq(Line) /\ Len(Saves) \in Nat /\ cursor_y \in Nat
         /\ Page(m, cursor_y) \in Seq(Line) /\ Len(Page(m, cursor_y)) = Len(Saves) + cursor_y + 1
         /\ \A i \in 1 .. Len(Saves) + cursor_y + 1 :
               Page(m, cursor_y)[i] = IF i <= Len(Saves) THEN Saves[i] ELSE m[i - Len(Saves) - 1]
  <1> DEFINE s == Saves
             t == Top(m, cursor_y)
             n == Len(Saves)
  <1>1. s \in Seq(Line)
    <2>1. scrollback_buffer \in Seq(Line) /\ dropped \in Seq(Line)
      BY DEF TypeOK, Line
    <2> QED
      BY <2>1, ConcatProperties DEF Saves
  <1>2. n \in Nat
    BY <1>1, LenProperties
  <1>3. t \in Seq(Line) /\ Len(t) = cursor_y + 1 /\ cursor_y \in Nat /\ \A i \in 1 .. cursor_y + 1 : t[i] = m[i - 1]
    <2>1. cursor_y \in Rows
      BY DEF TypeOK
    <2> QED
      BY <2>1, TopIs
  <1> HIDE DEF t, n
  <1>4. /\ s \o t \in Seq(Line) /\ Len(s \o t) = Len(s) + Len(t)
        /\ \A i \in 1 .. Len(s) + Len(t) : (s \o t)[i] = IF i <= Len(s) THEN s[i] ELSE t[i - Len(s)]
    BY <1>1, <1>3, ConcatProperties
  <1>5. Page(m, cursor_y) = s \o t
    BY DEF Page, t
  <1>6. Len(s) = n /\ Len(s) + Len(t) = n + cursor_y + 1
    BY <1>2, <1>3 DEF n
  <1>7. ASSUME NEW i \in 1 .. n + cursor_y + 1
        PROVE  (s \o t)[i] = IF i <= n THEN s[i] ELSE m[i - n - 1]
    <2>1. CASE i <= n
      BY <1>4, <1>6, <2>1
    <2>2. CASE ~(i <= n)
      <3>1. i - n \in 1 .. cursor_y + 1 /\ (i - n) - 1 = i - n - 1
        BY <1>2, <1>3, <2>2
      <3> QED
        BY <1>3, <1>4, <1>6, <2>2, <3>1
    <2> QED
      BY <2>1, <2>2
  <1> QED
    BY <1>1, <1>2, <1>3, <1>4, <1>5, <1>6, <1>7 DEF n

LEMMA LinesIs == Lines = Page(video_memory, cursor_y)
  BY DEF Lines, Page, Saves, Top

\* A cell of the row of the cursor is a cell of the last line.
LEMMA PageWritten ==
  ASSUME TypeOK, NEW g \in Glyphs, NEW x \in Columns
  PROVE  Page([video_memory EXCEPT ![cursor_y][x] = g], cursor_y) = [Lines EXCEPT ![Len(Lines)][x] = g]
  <1> DEFINE m == [video_memory EXCEPT ![cursor_y][x] = g]
             n == Len(Saves)
             L == Lines
             K == Page(m, cursor_y)
             row == [L[Len(L)] EXCEPT ![x] = g]
             E == [L EXCEPT ![Len(L)] = row]
  <1>1. /\ m \in [Rows -> Line]
        /\ \A r \in Rows : r # cursor_y => m[r] = video_memory[r]
    BY CellWritten
  <1>2. m[cursor_y] = [video_memory[cursor_y] EXCEPT ![x] = g]
    BY DEF TypeOK
  <1>3. video_memory \in [Rows -> Line]
    BY DEF TypeOK, Line
  <1> HIDE DEF m
  <1>4. /\ n \in Nat /\ cursor_y \in Nat
        /\ K \in Seq(Line) /\ Len(K) = n + cursor_y + 1
        /\ \A i \in 1 .. n + cursor_y + 1 :
              K[i] = IF i <= n THEN Saves[i] ELSE m[i - n - 1]
    BY <1>1, PageIs
  <1>5. /\ L \in Seq(Line) /\ Len(L) = n + cursor_y + 1
        /\ \A i \in 1 .. n + cursor_y + 1 :
              L[i] = IF i <= n THEN Saves[i] ELSE video_memory[i - n - 1]
    BY <1>3, PageIs, LinesIs
  <1>6. cursor_y \in Rows
    BY DEF TypeOK
  <1> HIDE DEF n, L, K
  <1>7. Len(L) \in 1 .. Len(L) /\ ~(Len(L) <= n) /\ Len(L) - n - 1 = cursor_y /\ Len(L) \in 1 .. n + cursor_y + 1
    BY <1>4, <1>5
  <1>8. L[Len(L)] = video_memory[cursor_y]
    BY <1>5, <1>7
  <1>9. row = m[cursor_y] /\ row \in Line
    BY <1>1, <1>2, <1>6, <1>8
  <1> HIDE DEF row
  <1>10. /\ E \in Seq(Line) /\ Len(E) = Len(L)
         /\ \A i \in 1 .. Len(L) : E[i] = IF i = Len(L) THEN row ELSE L[i]
    BY <1>5, <1>7, <1>9, ExceptSeq
  <1> HIDE DEF E
  <1>11. ASSUME NEW i \in 1 .. Len(K) PROVE K[i] = E[i]
    <2>1. i \in 1 .. Len(L) /\ i \in 1 .. n + cursor_y + 1
      BY <1>4, <1>5
    <2>2. CASE i = Len(L)
      BY <1>4, <1>7, <1>9, <1>10, <2>1, <2>2
    <2>3. CASE i # Len(L) /\ ~(i <= n)
      <3>1. i - n - 1 \in Rows /\ i - n - 1 # cursor_y
        <4>1. i # n + cursor_y + 1 /\ ~(i <= n)
          BY <1>5, <2>3
        <4>2. n \in Nat /\ cursor_y \in 0 .. Height - 1 /\ Height \in Nat
          BY <1>4, <1>6, MonitorAssumption DEF Rows
        <4> QED
          BY <2>1, <4>1, <4>2 DEF Rows
      <3>2. m[i - n - 1] = video_memory[i - n - 1]
        BY <1>1, <3>1
      <3> QED
        BY <1>4, <1>5, <1>10, <2>1, <2>3, <3>2
    <2>4. CASE i # Len(L) /\ i <= n
      BY <1>4, <1>5, <1>10, <2>1, <2>4
    <2> QED
      BY <2>2, <2>3, <2>4
  <1>12. Len(K) = Len(E)
    BY <1>4, <1>5, <1>10
  <1>13. K = E
    BY <1>4, <1>10, <1>11, <1>12, SeqEqual
  <1>14. E = [L EXCEPT ![Len(L)][x] = g]
    BY <1>5 DEF E, row
  <1> QED
    BY <1>13, <1>14 DEF K, L, m

\* What scrolls off is saved or dropped, behind all that was before.
LEMMA SavesAfter ==
  ASSUME TypeOK, FullBefore, NEW line \in Line,
         \/ /\ Len(scrollback_buffer) < ScrollbackLines
            /\ scrollback_buffer' = Append(scrollback_buffer, line) /\ UNCHANGED dropped
         \/ /\ ~(Len(scrollback_buffer) < ScrollbackLines)
            /\ dropped' = Append(dropped, line) /\ UNCHANGED scrollback_buffer
  PROVE  Saves' = Append(Saves, line)
  <1>1. scrollback_buffer \in Seq(Line) /\ dropped \in Seq(Line) /\ ScrollbackLines \in Nat
    BY MonitorAssumption DEF TypeOK, Line
  <1>2. CASE Len(scrollback_buffer) < ScrollbackLines /\ scrollback_buffer' = Append(scrollback_buffer, line)
             /\ dropped' = dropped
    <2>1. Len(scrollback_buffer) \in Nat
      BY <1>1, LenProperties
    <2>2. dropped = << >>
      <3>1. Len(scrollback_buffer) # ScrollbackLines
        BY <1>1, <1>2, <2>1
      <3> QED
        BY <3>1 DEF FullBefore
    <2>3. Saves = scrollback_buffer
      BY <1>1, <2>2, ConcatEmptySeq DEF Saves
    <2>4. scrollback_buffer' \in Seq(Line) /\ dropped' = << >>
      BY <1>1, <1>2, <2>2, AppendProperties
    <2>5. Saves' = scrollback_buffer'
      BY <2>4, ConcatEmptySeq DEF Saves
    <2> QED
      BY <1>2, <2>3, <2>5
  <1>3. CASE dropped' = Append(dropped, line) /\ scrollback_buffer' = scrollback_buffer
    <2>1. Saves' = scrollback_buffer \o Append(dropped, line)
      BY <1>3 DEF Saves
    <2> QED
      BY <1>1, <2>1, AppendBehind DEF Saves
  <1> QED
    BY <1>2, <1>3

\* A character that stays on the row of the cursor.
LEMMA SameLine ==
  ASSUME TypeOK, NEW c, NEW m, NEW x, Landed(c, m, x, cursor_y)
  PROVE  Lines' = Page(m, cursor_y) /\ cursor_x' = x
  <1>1. cursor_y < Height
    BY MonitorAssumption DEF TypeOK, Rows
  <1>2. /\ video_memory' = m /\ cursor_y' = cursor_y /\ cursor_x' = x
        /\ scrollback_buffer' = scrollback_buffer /\ dropped' = dropped
    BY <1>1 DEF Landed
  <1> QED
    BY <1>2 DEF Lines, Page, Saves, Top

\* A character that leads to the next row.
LEMMA NextLine ==
  ASSUME TypeOK, BlankBelow, FullBefore, NEW c, NEW m \in [Rows -> Line], Landed(c, m, 0, cursor_y + 1),
         \A r \in Rows : r # cursor_y => m[r] = video_memory[r]
  PROVE  Lines' = Append(Page(m, cursor_y), BlankLine) /\ cursor_x' = 0
  <1>1. cursor_y \in Rows /\ cursor_y \in Nat /\ Height \in Nat \ {0} /\ cursor_y <= Height - 1
    BY MonitorAssumption DEF TypeOK, Rows
  <1>2. BlankLine \in Line
    BY MonitorAssumption DEF BlankLine, Line
  <1>3. Saves \in Seq(Line)
    BY PageIs
  <1>4. Lines' = Saves' \o Top(video_memory', cursor_y')
    BY DEF Lines, Saves, Top
  <1>5. Top(m, cursor_y) \in Seq(Line)
    BY <1>1, TopIs
  <1>6. CASE cursor_y + 1 < Height
    <2>1. /\ video_memory' = m /\ cursor_y' = cursor_y + 1 /\ cursor_x' = 0
          /\ scrollback_buffer' = scrollback_buffer /\ dropped' = dropped
      BY <1>6 DEF Landed
    <2>2. cursor_y + 1 \in Rows /\ cursor_y + 1 # cursor_y /\ cursor_y + 1 > cursor_y
      BY <1>1, <1>6 DEF Rows
    <2>3. m[cursor_y + 1] = BlankLine
      BY <2>2 DEF BlankBelow
    <2>4. Top(m, cursor_y + 1) = Append(Top(m, cursor_y), BlankLine)
      BY <1>1, <2>2, <2>3, TopNext
    <2>5. Saves' = Saves
      BY <2>1 DEF Saves
    <2>6. Lines' = Saves \o Append(Top(m, cursor_y), BlankLine)
      BY <1>4, <2>1, <2>4, <2>5
    <2> HIDE DEF Saves, Top
    <2>7. Saves \o Append(Top(m, cursor_y), BlankLine) = Append(Saves \o Top(m, cursor_y), BlankLine)
      BY <1>2, <1>3, <1>5, AppendBehind
    <2> QED
      BY <2>1, <2>6, <2>7 DEF Page
  <1>7. CASE ~(cursor_y + 1 < Height)
    <2>1. /\ video_memory' = Shifted(m) /\ cursor_y' = Height - 1 /\ cursor_x' = 0
          /\ \/ /\ Len(scrollback_buffer) < ScrollbackLines
                /\ scrollback_buffer' = Append(scrollback_buffer, m[0]) /\ UNCHANGED dropped
             \/ /\ ~(Len(scrollback_buffer) < ScrollbackLines)
                /\ dropped' = Append(dropped, m[0]) /\ UNCHANGED scrollback_buffer
      BY <1>7 DEF Landed
    <2>2. cursor_y = Height - 1
      BY <1>1, <1>7
    <2>3. m[0] \in Line /\ Shifted(m) \in [Rows -> Line]
      BY ShiftedIs
    <2>4. Saves' = Append(Saves, m[0])
      BY <2>1, <2>3, SavesAfter
    <2> DEFINE t == Top(Shifted(m), Height - 1)
    <2>5. t \in Seq(Line)
      BY <1>1, <2>2, <2>3, TopIs
    <2>6. Lines' = Append(Saves, m[0]) \o t
      BY <1>4, <2>1, <2>4
    <2>7. <<m[0]>> \o t = Append(Top(m, cursor_y), BlankLine)
      BY <2>2, TopShifted
    <2> HIDE DEF t
    <2>8. Append(Saves, m[0]) \o t = Saves \o (<<m[0]>> \o t)
      BY <1>3, <2>3, <2>5, AppendBetween
    <2>9. Saves \o Append(Top(m, cursor_y), BlankLine) = Append(Saves \o Top(m, cursor_y), BlankLine)
      BY <1>2, <1>3, <1>5, AppendBehind
    <2> QED
      BY <2>1, <2>6, <2>7, <2>8, <2>9 DEF Page
  <1> QED
    BY <1>6, <1>7

\* What a character does is what the paper promises.
LEMMA PrintGoes ==
  ASSUME TypeOK, BlankBelow, FullBefore, NEW c \in Chars, PrintChar(c)
  PROVE  ThePaper!Next \/ (Lines' = Lines /\ cursor_x' = cursor_x)
  <1>1. /\ cursor_x \in Nat /\ cursor_x < Width /\ cursor_x \in Columns /\ Width \in Nat \ {0}
        /\ Blank \in Glyphs
    BY MonitorAssumption DEF TypeOK, Columns
  <1>2. video_memory \in [Rows -> Line]
    BY DEF TypeOK, Line
  <1>3. ASSUME NEW m \in [Rows -> Line], NEW z \in Int,
               \A r \in Rows : r # cursor_y => m[r] = video_memory[r],
               z >= Width => Landed(c, m, 0, cursor_y + 1),
               ~(z >= Width) => Landed(c, m, z, cursor_y)
        PROVE  ThePaper!Goto(Page(m, cursor_y), z)
    <2>1. z >= Width => Lines' = Append(Page(m, cursor_y), BlankLine) /\ cursor_x' = 0
      BY <1>3, NextLine
    <2>2. ~(z >= Width) => Lines' = Page(m, cursor_y) /\ cursor_x' = z
      BY <1>3, SameLine
    <2>3. ThePaper!BlankLine = BlankLine
      BY DEF ThePaper!BlankLine, ThePaper!Columns, ThePaper!Blank, BlankLine, Columns, Blank
    <2>4. z < Width <=> ~(z >= Width)
      BY <1>1, <1>3
    <2> QED
      BY <2>1, <2>2, <2>3, <2>4 DEF ThePaper!Goto
  <1>4. Page(video_memory, cursor_y) = Lines
    BY LinesIs
  <1>5. CASE c = Newline
    <2>1. Landed(c, video_memory, 0, cursor_y + 1)
      BY <1>5, LandsAs
    <2>2. Width >= Width /\ Width \in Int
      BY <1>1
    <2>3. ThePaper!Goto(Lines, Width)
      BY <1>2, <1>3, <1>4, <2>1, <2>2
    <2> QED
      BY <2>3 DEF ThePaper!Next, ThePaper!NewLine
  <1>6. CASE c = Backspace
    <2>1. CASE cursor_x > 0
      <3> DEFINE x == cursor_x - 1
                 m == [video_memory EXCEPT ![cursor_y][x] = Blank]
      <3>1. Landed(c, m, x, cursor_y)
        BY <1>6, <2>1, LandsAs
      <3>2. x \in Columns /\ x \in Int /\ ~(x >= Width)
        BY <1>1, <2>1 DEF Columns
      <3> HIDE DEF x
      <3>3. m \in [Rows -> Line] /\ \A r \in Rows : r # cursor_y => m[r] = video_memory[r]
        BY <1>1, <3>2, CellWritten
      <3>4. Page(m, cursor_y) = [Lines EXCEPT ![Len(Lines)][x] = Blank]
        BY <1>1, <3>2, PageWritten
      <3> HIDE DEF m
      <3>5. ThePaper!Goto(Page(m, cursor_y), x)
        BY <1>3, <3>1, <3>2, <3>3
      <3>6. ThePaper!Goto([Lines EXCEPT ![Len(Lines)][x] = Blank], x)
        BY <3>4, <3>5
      <3>7. ThePaper!Erase
        BY <2>1, <3>6 DEF ThePaper!Erase, ThePaper!Last, ThePaper!Blank, Blank, x
      <3> QED
        BY <3>7 DEF ThePaper!Next
    <2>2. CASE ~(cursor_x > 0)
      <3>1. Landed(c, video_memory, cursor_x, cursor_y)
        BY <1>6, <2>2, LandsAs
      <3> QED
        BY <1>4, <3>1, SameLine
    <2> QED
      BY <2>1, <2>2
  <1>7. CASE c = TabKey
    <2>1. /\ AfterTab(cursor_x) >= Width => Landed(c, video_memory, 0, cursor_y + 1)
          /\ ~(AfterTab(cursor_x) >= Width) => Landed(c, video_memory, AfterTab(cursor_x), cursor_y)
      BY <1>7, LandsAs
    <2>2. AfterTab(cursor_x) \in Int
      BY <1>1, TabMoves
    <2>3. ThePaper!Goto(Lines, AfterTab(cursor_x))
      BY <1>2, <1>3, <1>4, <2>1, <2>2
    <2>4. AfterTab(cursor_x) = (cursor_x \div TabStop + 1) * TabStop
      BY <1>1, NextStop
    <2> QED
      BY <2>3, <2>4 DEF ThePaper!Next, ThePaper!TabTo
  <1>8. CASE c \in Glyphs
    <2> DEFINE m == [video_memory EXCEPT ![cursor_y][cursor_x] = c]
    <2>1. /\ cursor_x + 1 >= Width => Landed(c, m, 0, cursor_y + 1)
          /\ ~(cursor_x + 1 >= Width) => Landed(c, m, cursor_x + 1, cursor_y)
      BY <1>8, LandsAs
    <2>2. m \in [Rows -> Line] /\ \A r \in Rows : r # cursor_y => m[r] = video_memory[r]
      BY <1>1, <1>8, CellWritten
    <2>3. Page(m, cursor_y) = [Lines EXCEPT ![Len(Lines)][cursor_x] = c]
      BY <1>1, <1>8, PageWritten
    <2> HIDE DEF m
    <2>4. cursor_x + 1 \in Int
      BY <1>1
    <2>5. ThePaper!Goto(Page(m, cursor_y), cursor_x + 1)
      BY <1>3, <2>1, <2>2, <2>4
    <2>6. ThePaper!Goto([Lines EXCEPT ![Len(Lines)][cursor_x] = c], cursor_x + 1)
      BY <2>3, <2>5
    <2>7. ThePaper!Put
      BY <1>8, <2>6 DEF ThePaper!Put, ThePaper!Last
    <2> QED
      BY <2>7 DEF ThePaper!Next
  <1> QED
    BY <1>5, <1>6, <1>7, <1>8 DEF Chars

\* A cleared screen is a new page.
LEMMA ClearedPage ==
  /\ MonitorInit => Lines = <<BlankLine>> /\ cursor_x = 0
  /\ ClearScreen => Lines' = <<BlankLine>> /\ cursor_x' = 0
  <1> DEFINE blank == [y \in Rows |-> BlankLine]
             top == [i \in 1 .. 0 + 1 |-> blank[i - 1]]
  <1>1. /\ MonitorInit => /\ video_memory = blank /\ cursor_x = 0 /\ cursor_y = 0
                          /\ scrollback_buffer = << >> /\ dropped = << >>
        /\ ClearScreen => /\ video_memory' = blank /\ cursor_x' = 0 /\ cursor_y' = 0
                          /\ scrollback_buffer' = << >> /\ dropped' = << >>
    BY DEF MonitorInit, ClearScreen, Show, Cleared
  <1>2. << >> \o << >> \o top = <<BlankLine>>
    <2>1. 0 \in Rows
      BY MonitorAssumption DEF Rows
    <2>2. blank[0] = BlankLine
      BY <2>1
    <2> HIDE DEF blank
    <2>3. top = <<BlankLine>>
      BY <2>2
    <2> HIDE DEF top
    <2> QED
      BY <2>3
  <1> HIDE DEF blank
  <1>3. /\ MonitorInit => Lines = << >> \o << >> \o top
        /\ ClearScreen => Lines' = << >> \o << >> \o top
    BY <1>1 DEF Lines
  <1> QED
    BY <1>1, <1>2, <1>3

\* The text screen is endless paper: with what scrolled off, every character
\* printed since the screen was last cleared is there, once and in its place,
\* whatever wraps, scrolls, overruns the scrollback or is taken back.
THEOREM ShellRefinesPaper == Spec => RefinesPaper
  <1>1. ThePaper!BlankLine = BlankLine
    BY DEF ThePaper!BlankLine, ThePaper!Columns, ThePaper!Blank, BlankLine, Columns, Blank
  <1>2. Init => ThePaper!Init
    BY <1>1, ClearedPage DEF Init, ThePaper!Init
  <1>3. IInv /\ [Next]_vars => [ThePaper!Next]_(ThePaper!vars)
    <2> SUFFICES ASSUME IInv, [Next]_vars
                 PROVE  ThePaper!Next \/ (Lines' = Lines /\ cursor_x' = cursor_x)
      BY DEF ThePaper!vars
    <2>1. CASE Emit
      <3>1. TypeOK /\ BlankBelow /\ FullBefore
        BY DEF IInv
      <3>2. CASE Head(output) = ClearOp
        <4>1. Lines' = <<BlankLine>> /\ cursor_x' = 0
          BY <2>1, <3>2, EmitStep, ClearedPage
        <4> QED
          BY <1>1, <4>1 DEF ThePaper!Next, ThePaper!NewPage
      <3>3. CASE Head(output) # ClearOp
        <4>1. Head(output) \in Chars /\ PrintChar(Head(output))
          BY <2>1, <3>3, EmitStep
        <4> QED
          BY <3>1, <4>1, PrintGoes
      <3> QED
        BY <3>2, <3>3
    <2>2. CASE Enter \/ EraseKey \/ OtherKey \/ IgnoredKey \/ NoKey \/ UNCHANGED vars
      <3>1. UNCHANGED monitor
        BY <2>2 DEF Enter, EraseKey, OtherKey, IgnoredKey, NoKey, Key, vars
      <3> QED
        BY <3>1 DEF monitor, Lines
    <2> QED
      BY <2>1, <2>2 DEF Next
  <1> QED
    BY <1>2, <1>3, ShellInvariant, PTL DEF Spec, RefinesPaper, ThePaper!Spec

-----------------------------------------------------------------------------
(* What was typed is what is run.                                           *)

\* Induction along a sequence: a set that holds 0, and with every number below
\* N the next one, holds N, because no number is the least one it lacks.
LEMMA Induct ==
  ASSUME NEW N \in Nat, NEW S \in SUBSET (0 .. N), 0 \in S,
         \A k \in S : k < N => k + 1 \in S
  PROVE  N \in S
  <1> SUFFICES ASSUME N \notin S PROVE FALSE
    OBVIOUS
  <1> DEFINE U == (0 .. N) \ S
  <1>1. PICK m \in U : \A k \in U : m <= k
    <2>1. U \in SUBSET Nat /\ U # {}
      OBVIOUS
    <2> HIDE DEF U
    <2> QED
      BY <2>1, Least
  <1>2. m - 1 \in 0 .. N /\ m - 1 < N /\ ~(m <= m - 1) /\ (m - 1) + 1 = m
    <2>1. m \in 0 .. N /\ m # 0
      BY <1>1
    <2> QED
      BY <2>1
  <1>3. m - 1 \in S
    BY <1>1, <1>2
  <1> QED
    BY <1>1, <1>2, <1>3

\* The lines that a sequence of keys makes, one after the other.
IsEdit(keys, g) ==
    /\ g \in [0 .. Len(keys) -> Seq(Keys)]
    /\ g[0] = << >> /\ \A n \in 1 .. Len(keys) : g[n] = EditedBy(g[n - 1], keys[n])

LEMMA EditedIs ==
  ASSUME NEW keys \in Seq(Keys), NEW g, IsEdit(keys, g)
  PROVE  Edited(keys) = g[Len(keys)]
  <1> DEFINE N == Len(keys)
             IsUpto(h) == h = [n \in 0 .. N |-> IF n = 0 THEN << >> ELSE EditedBy(h[n - 1], keys[n])]
             f == CHOOSE h : IsUpto(h)
  <1>1. N \in Nat
    BY LenProperties
  <1>2. DOMAIN g = 0 .. N /\ g[0] = << >> /\ \A n \in 1 .. N : g[n] = EditedBy(g[n - 1], keys[n])
    BY DEF IsEdit
  <1>3. g = [n \in 0 .. N |-> g[n]]
    BY DEF IsEdit
  <1> HIDE DEF N
  <1>4. IsUpto(g)
    <2>1. \A n \in 0 .. N : g[n] = IF n = 0 THEN << >> ELSE EditedBy(g[n - 1], keys[n])
      BY <1>1, <1>2
    <2> QED
      BY <1>3, <2>1
  <1>5. IsUpto(f)
    BY <1>4
  <1>6. Edited(keys) = f[N]
    BY DEF Edited, N
  <1>7. f[0] = << >> /\ \A n \in 1 .. N : f[n] = EditedBy(f[n - 1], keys[n])
    <2> HIDE DEF f
    <2> QED
      BY <1>1, <1>5
  <1> DEFINE T == {n \in 0 .. N : f[n] = g[n]}
  <1>8. 0 \in T
    BY <1>1, <1>2, <1>7
  <1>9. ASSUME NEW n \in T, n < N PROVE n + 1 \in T
    <2>1. n + 1 \in 1 .. N /\ (n + 1) - 1 = n /\ n + 1 \in 0 .. N
      BY <1>1, <1>9
    <2> HIDE DEF f
    <2>2. f[n] = g[n]
      BY <1>9
    <2>3. f[n + 1] = EditedBy(f[n], keys[n + 1]) /\ g[n + 1] = EditedBy(g[n], keys[n + 1])
      BY <1>2, <1>7, <2>1
    <2> QED
      BY <2>1, <2>2, <2>3
  <1>10. T \in SUBSET (0 .. N) /\ \A n \in T : n < N => n + 1 \in T
    BY <1>9
  <1> HIDE DEF T, f
  <1>11. N \in T
    BY <1>1, <1>8, <1>10, Induct
  <1> QED
    BY <1>6, <1>11 DEF T, N

\* The line in the buffer.
HeldIn(b, n) == [i \in 1 .. n |-> b[i - 1]]
Held == HeldIn(input_buffer, input_index)

\* It is the line that the keys since the last prompt make.
LineHeld ==
    /\ typed \in Seq(Keys)
    /\ \E g : IsEdit(typed, g) /\ g[Len(typed)] = Held

LEMMA HeldIs ==
  ASSUME NEW b \in [0 .. BufferMax -> Keys \cup {NUL}], NEW n \in 0 .. BufferMax,
         \A i \in 0 .. BufferMax : b[i] = NUL <=> i >= n
  PROVE  /\ HeldIn(b, n) \in Seq(Keys) /\ Len(HeldIn(b, n)) = n /\ n \in Nat
         /\ \A i \in 1 .. n : HeldIn(b, n)[i] = b[i - 1]
  <1>1. n \in Nat
    BY ShellAssumption
  <1>2. ASSUME NEW i \in 1 .. n PROVE b[i - 1] \in Keys
    <2>1. i - 1 \in 0 .. BufferMax /\ ~(i - 1 >= n)
      BY ShellAssumption
    <2> QED
      BY <2>1
  <1>3. HeldIn(b, n) \in [1 .. n -> Keys]
    BY <1>2 DEF HeldIn
  <1>4. HeldIn(b, n) \in Seq(Keys)
    BY <1>1, <1>3, SeqDef
  <1>5. Len(HeldIn(b, n)) = n
    BY <1>1, <1>3, <1>4, LenProperties
  <1> QED
    BY <1>1, <1>4, <1>5 DEF HeldIn

\* One key more.
LEMMA EditMore ==
  ASSUME NEW keys \in Seq(Keys), NEW key \in Keys, NEW g, IsEdit(keys, g),
         NEW line \in Seq(Keys), line = EditedBy(g[Len(keys)], key)
  PROVE  \E h : IsEdit(Append(keys, key), h) /\ h[Len(Append(keys, key))] = line
  <1> DEFINE N == Len(keys)
             more == Append(keys, key)
             h == [n \in 0 .. N + 1 |-> IF n <= N THEN g[n] ELSE line]
  <1>1. N \in Nat
    BY LenProperties
  <1>2. /\ more \in Seq(Keys) /\ Len(more) = N + 1 /\ more[N + 1] = key
        /\ \A n \in 1 .. N : more[n] = keys[n]
    BY AppendProperties
  <1>3. /\ \A n \in 0 .. N : g[n] \in Seq(Keys)
        /\ g[0] = << >> /\ \A n \in 1 .. N : g[n] = EditedBy(g[n - 1], keys[n])
    BY DEF IsEdit
  <1>4. line = EditedBy(g[N], key)
    OBVIOUS
  <1> HIDE DEF N, more
  <1>5. h \in [0 .. N + 1 -> Seq(Keys)]
    BY <1>1, <1>3
  <1>6. (\A n \in 0 .. N : h[n] = g[n]) /\ h[N + 1] = line
    BY <1>1
  <1> HIDE DEF h
  <1>7. ASSUME NEW n \in 1 .. N + 1 PROVE h[n] = EditedBy(h[n - 1], more[n])
    <2>1. CASE n = N + 1
      <3>1. n - 1 = N /\ N \in 0 .. N
        BY <1>1, <2>1
      <3> QED
        BY <1>2, <1>4, <1>6, <2>1, <3>1
    <2>2. CASE n # N + 1
      <3>1. n \in 1 .. N /\ n \in 0 .. N /\ n - 1 \in 0 .. N
        BY <1>1, <2>2
      <3> QED
        BY <1>2, <1>3, <1>6, <3>1
    <2> QED
      BY <2>1, <2>2
  <1>8. h[0] = << >>
    BY <1>1, <1>3, <1>6
  <1>9. IsEdit(more, h)
    BY <1>2, <1>5, <1>7, <1>8 DEF IsEdit
  <1>10. h[Len(more)] = line
    BY <1>2, <1>6
  <1> QED
    BY <1>9, <1>10 DEF more

LEMMA NoKeys == IsEdit(<< >>, [n \in 0 .. 0 |-> << >>])
  <1> DEFINE empty == << >>
             g == [n \in 0 .. 0 |-> empty]
  <1>1. empty \in Seq(Keys) /\ Len(empty) = 0
    OBVIOUS
  <1> HIDE DEF empty
  <1>2. g \in [0 .. 0 -> Seq(Keys)] /\ g[0] = empty
    BY <1>1
  <1>3. \A n \in 1 .. 0 : FALSE
    OBVIOUS
  <1> HIDE DEF g
  <1>4. IsEdit(empty, g)
    BY <1>1, <1>2, <1>3 DEF IsEdit, empty
  <1> QED
    BY <1>4 DEF empty, g

LEMMA HeldInit == Init => LineHeld
  <1> SUFFICES ASSUME Init PROVE LineHeld
    OBVIOUS
  <1> DEFINE empty == << >>
             g == [n \in 0 .. 0 |-> << >>]
  <1>1. typed = empty /\ input_index = 0
    BY DEF Init
  <1>2. IsEdit(empty, g)
    BY NoKeys
  <1>3. g[0] = empty /\ Len(empty) = 0 /\ empty \in Seq(Keys)
    OBVIOUS
  <1>4. Held = empty
    BY <1>1 DEF Held, HeldIn
  <1> HIDE DEF empty, g
  <1>5. \E h : IsEdit(typed, h) /\ h[Len(typed)] = Held
    BY <1>1, <1>2, <1>3, <1>4
  <1> QED
    BY <1>1, <1>3, <1>5 DEF LineHeld

LEMMA HeldNext == IInv /\ IInv' /\ LineHeld /\ [Next]_vars => LineHeld'
  <1> SUFFICES ASSUME IInv, IInv', LineHeld, [Next]_vars PROVE LineHeld'
    OBVIOUS
  <1> DEFINE n == input_index
  <1>1. /\ n \in 0 .. BufferMax /\ BufferMax \in Nat
        /\ input_buffer \in [0 .. BufferMax -> Keys \cup {NUL}]
    BY ShellAssumption DEF IInv, TypeOK
  <1>2. Held \in Seq(Keys) /\ Len(Held) = n /\ n \in Nat /\ \A i \in 1 .. n : Held[i] = input_buffer[i - 1]
    BY HeldIs DEF IInv, TypeOK, Terminated, Held
  <1>3. Held' \in Seq(Keys) /\ Len(Held') = n' /\ n' \in Nat /\ \A i \in 1 .. n' : Held'[i] = input_buffer'[i - 1]
    <2>1. /\ n' \in 0 .. BufferMax /\ input_buffer' \in [0 .. BufferMax -> Keys \cup {NUL}]
          /\ \A i \in 0 .. BufferMax : input_buffer'[i] = NUL <=> i >= n'
      BY DEF IInv, TypeOK, Terminated
    <2>2. Held' = HeldIn(input_buffer', n')
      BY DEF Held
    <2> HIDE DEF n
    <2> QED
      BY <2>1, <2>2, HeldIs
  <1>4. PICK g : IsEdit(typed, g) /\ g[Len(typed)] = Held
    BY DEF LineHeld
  <1>5. typed \in Seq(Keys)
    BY DEF LineHeld
  <1>6. ASSUME NEW c \in Keys, typed' = Append(typed, c), Held' = EditedBy(Held, c)
        PROVE  LineHeld'
    <2>1. Held' = EditedBy(g[Len(typed)], c)
      BY <1>4, <1>6
    <2>2. PICK h : IsEdit(typed', h) /\ h[Len(typed')] = Held'
      BY <1>3, <1>4, <1>5, <1>6, <2>1, EditMore
    <2>3. typed' \in Seq(Keys)
      BY <1>5, <1>6, AppendProperties
    <2> QED
      BY <2>2, <2>3 DEF LineHeld
  <1> HIDE DEF n
  <1>7. CASE Enter
    <2> DEFINE empty == << >>
               f == [k \in 0 .. 0 |-> << >>]
    <2>1. typed' = empty /\ n' = 0
      BY <1>7 DEF Enter, n
    <2>2. Held' = empty
      BY <1>3, <2>1, EmptySeq
    <2>3. IsEdit(empty, f)
      BY NoKeys
    <2>4. f[0] = empty /\ Len(empty) = 0 /\ empty \in Seq(Keys)
      OBVIOUS
    <2> HIDE DEF empty, f
    <2>5. \E h : IsEdit(typed', h) /\ h[Len(typed')] = Held'
      BY <2>1, <2>2, <2>3, <2>4
    <2> QED
      BY <2>1, <2>4, <2>5 DEF LineHeld
  <1>8. CASE EraseKey
    <2>1. /\ typed' = Append(typed, Backspace) /\ Backspace \in Keys /\ n > 0 /\ n' = n - 1
          /\ input_buffer' = [input_buffer EXCEPT ![n - 1] = NUL]
      BY <1>8 DEF EraseKey, Key, Erasable, n
    <2>2. Held # << >>
      BY <1>2, <2>1, EmptySeq
    <2>3. EditedBy(Held, Backspace) = SubSeq(Held, 1, n - 1)
      BY <1>2, <2>2 DEF EditedBy, Front
    <2>4. /\ SubSeq(Held, 1, n - 1) \in Seq(Keys) /\ Len(SubSeq(Held, 1, n - 1)) = n - 1
          /\ \A i \in 1 .. n - 1 : SubSeq(Held, 1, n - 1)[i] = Held[i]
      <3>1. n - 1 \in Int /\ 1 \in Int /\ \A i \in 1 .. n - 1 : i \in 1 .. Len(Held)
        BY <1>2, <2>1
      <3>2. \A i \in 1 .. n - 1 : Held[i] \in Keys
        BY <1>2, <3>1, ElementOfSeq
      <3>3. /\ SubSeq(Held, 1, n - 1) \in Seq(Keys)
            /\ Len(SubSeq(Held, 1, n - 1)) = IF 1 <= n - 1 THEN (n - 1) - 1 + 1 ELSE 0
            /\ \A i \in 1 .. (n - 1) - 1 + 1 : SubSeq(Held, 1, n - 1)[i] = Held[1 + i - 1]
        BY <3>1, <3>2, SubSeqProperties
      <3>4. (n - 1) - 1 + 1 = n - 1 /\ (~(1 <= n - 1) => n - 1 = 0) /\ \A i \in 1 .. n - 1 : 1 + i - 1 = i
        BY <1>2, <2>1
      <3> QED
        BY <3>3, <3>4
    <2>5. ASSUME NEW i \in 1 .. n - 1 PROVE Held'[i] = Held[i]
      <3>1. i \in 1 .. n' /\ i \in 1 .. n /\ i - 1 \in 0 .. BufferMax /\ i - 1 # n - 1
        BY <1>1, <1>2, <2>1
      <3>2. input_buffer'[i - 1] = input_buffer[i - 1]
        BY <1>1, <2>1, <3>1
      <3> QED
        BY <1>2, <1>3, <3>1, <3>2
    <2>6. Held' = SubSeq(Held, 1, n - 1)
      <3> DEFINE t == SubSeq(Held, 1, n - 1)
      <3>1. t \in Seq(Keys) /\ Len(t) = n - 1 /\ \A i \in 1 .. n - 1 : t[i] = Held'[i]
        BY <2>4, <2>5
      <3> HIDE DEF t
      <3>2. Len(Held') = Len(t) /\ \A i \in 1 .. Len(Held') : Held'[i] = t[i]
        BY <1>3, <2>1, <3>1
      <3>3. Held' = t
        BY <1>3, <3>1, <3>2, SeqEqual
      <3> QED
        BY <3>3 DEF t
    <2> QED
      BY <1>6, <2>1, <2>3, <2>6
  <1>9. CASE OtherKey
    <2>1. PICK c \in Keys \ {Backspace} :
            /\ typed' = Append(typed, c) /\ n < BufferMax /\ n' = n + 1
            /\ input_buffer' = [input_buffer EXCEPT ![n] = c]
      BY <1>9 DEF OtherKey, Key, HasRoom, n
    <2>2. EditedBy(Held, c) = Append(Held, c)
      BY <1>2, <2>1 DEF EditedBy
    <2> DEFINE t == Append(Held, c)
    <2>3. /\ t \in Seq(Keys) /\ Len(t) = n + 1 /\ t[n + 1] = c
          /\ \A i \in 1 .. n : t[i] = Held[i]
      BY <1>2, AppendProperties
    <2> HIDE DEF t
    <2>4. ASSUME NEW i \in 1 .. n + 1 PROVE Held'[i] = t[i]
      <3>1. i \in 1 .. n'
        BY <2>1
      <3>2. CASE i = n + 1
        <4>1. i - 1 = n /\ n \in 0 .. BufferMax
          BY <1>1, <3>2
        <4>2. input_buffer'[n] = c
          BY <1>1, <2>1, <4>1
        <4> QED
          BY <1>3, <2>3, <3>1, <3>2, <4>1, <4>2
      <3>3. CASE i # n + 1
        <4>1. i \in 1 .. n /\ i - 1 \in 0 .. BufferMax /\ i - 1 # n
          BY <1>1, <1>2, <3>3
        <4>2. input_buffer'[i - 1] = input_buffer[i - 1]
          BY <1>1, <2>1, <4>1
        <4> QED
          BY <1>2, <1>3, <2>3, <3>1, <4>1, <4>2
      <3> QED
        BY <3>2, <3>3
    <2>5. Len(Held') = Len(t) /\ \A i \in 1 .. Len(Held') : Held'[i] = t[i]
      BY <1>3, <2>1, <2>3, <2>4
    <2>6. Held' = t
      BY <1>3, <2>3, <2>5, SeqEqual
    <2> QED
      BY <1>6, <2>1, <2>2, <2>6 DEF t
  <1>10. CASE IgnoredKey
    <2>1. PICK c \in Keys :
            /\ typed' = Append(typed, c) /\ n' = n /\ input_buffer' = input_buffer
            /\ IF c = Backspace THEN ~(n > 0) ELSE ~(n < BufferMax)
      BY <1>10 DEF IgnoredKey, Key, Erasable, HasRoom, n
    <2>2. Held' = Held
      BY <2>1 DEF Held, HeldIn, n
    <2>3. EditedBy(Held, c) = Held
      <3>1. CASE c = Backspace
        <4>1. Held = << >>
          <5>1. n = 0
            BY <1>2, <2>1, <3>1
          <5> QED
            BY <1>2, <5>1, EmptySeq
        <4> QED
          BY <3>1, <4>1 DEF EditedBy
      <3>2. CASE c # Backspace
        BY <1>2, <2>1, <3>2 DEF EditedBy
      <3> QED
        BY <3>1, <3>2
    <2> QED
      BY <1>6, <2>1, <2>2, <2>3
  <1>11. CASE Emit \/ NoKey \/ UNCHANGED vars
    <2>1. UNCHANGED <<typed, input_index, input_buffer>>
      BY <1>11 DEF Emit, NoKey, vars, history
    <2> QED
      BY <2>1 DEF LineHeld, Held, HeldIn
  <1> QED
    BY <1>7, <1>8, <1>9, <1>10, <1>11 DEF Next

\* What stands in the buffer is the line the keys make, through every echo and
\* whatever a longer line left behind.
THEOREM ShellLineHeld == Spec => []LineHeld
  <1>1. Init => LineHeld
    BY HeldInit
  <1>2. IInv /\ IInv' /\ LineHeld /\ [Next]_vars => LineHeld'
    BY HeldNext
  <1> QED
    BY <1>1, <1>2, ShellInvariant, PTL DEF Spec

\* Enter reads back exactly that line.
LEMMA LineIsHeld ==
  ASSUME TypeOK, Terminated
  PROVE  StringIn([input_buffer EXCEPT ![input_index] = NUL]) = Held
  <1> DEFINE b == [input_buffer EXCEPT ![input_index] = NUL]
             Ends(k) == b[k] = NUL /\ \A i \in 0 .. k - 1 : b[i] # NUL
             n == CHOOSE k \in 0 .. BufferMax : Ends(k)
  <1>1. /\ input_index \in 0 .. BufferMax /\ BufferMax \in Nat
        /\ input_buffer \in [0 .. BufferMax -> Keys \cup {NUL}]
    BY ShellAssumption DEF TypeOK
  <1>2. b[input_index] = NUL /\ \A i \in 0 .. BufferMax : i # input_index => b[i] = input_buffer[i]
    BY <1>1
  <1> HIDE DEF b
  <1>3. \A i \in 0 .. BufferMax : i < input_index => b[i] # NUL /\ b[i] = input_buffer[i]
    <2> SUFFICES ASSUME NEW i \in 0 .. BufferMax, i < input_index PROVE b[i] # NUL /\ b[i] = input_buffer[i]
      OBVIOUS
    <2>1. i # input_index /\ ~(i >= input_index)
      BY <1>1
    <2> QED
      BY <1>2, <2>1 DEF Terminated
  <1>4. Ends(input_index)
    <2>1. \A i \in 0 .. input_index - 1 : i \in 0 .. BufferMax /\ i < input_index
      BY <1>1
    <2> QED
      BY <1>2, <1>3, <2>1
  <1>5. n \in 0 .. BufferMax /\ Ends(n)
    BY <1>1, <1>4
  <1> HIDE DEF n
  <1>6. n = input_index
    <2>1. ~(n < input_index)
      BY <1>3, <1>5
    <2>2. ~(input_index < n)
      <3> SUFFICES ASSUME input_index < n PROVE FALSE
        OBVIOUS
      <3>1. input_index \in 0 .. n - 1
        BY <1>1, <1>5
      <3> QED
        BY <1>2, <1>5, <3>1
    <2> QED
      BY <1>1, <1>5, <2>1, <2>2
  <1>7. StringIn(b) = [i \in 1 .. n |-> b[i - 1]]
    BY DEF StringIn, n
  <1>8. ASSUME NEW i \in 1 .. n PROVE b[i - 1] = input_buffer[i - 1]
    <2>1. i - 1 \in 0 .. BufferMax /\ i - 1 < input_index
      BY <1>1, <1>6
    <2> QED
      BY <1>3, <2>1
  <1> QED
    BY <1>6, <1>7, <1>8 DEF Held, HeldIn, b

\* The first space of a line, or none.
LEMMA SpaceIs ==
  ASSUME NEW line \in Seq(Keys)
  PROVE  \/ SpaceIn(line) = 0 /\ \A i \in 1 .. Len(line) : line[i] # Blank
         \/ /\ SpaceIn(line) \in 1 .. Len(line) /\ line[SpaceIn(line)] = Blank
            /\ \A i \in 1 .. SpaceIn(line) - 1 : line[i] # Blank
  <1> DEFINE I == {i \in 1 .. Len(line) : line[i] = Blank}
  <1>1. SpaceIn(line) = IF I # {} THEN Min(I) ELSE 0
    BY DEF SpaceIn, SelectInSeq
  <1>2. CASE I = {}
    BY <1>1, <1>2
  <1>3. CASE I # {}
    <2>1. I \in SUBSET Nat
      OBVIOUS
    <2>2. \E m \in I : \A k \in I : m <= k
      <3> HIDE DEF I
      <3> QED
        BY <1>3, <2>1, Least
    <2>3. Min(I) \in I /\ \A k \in I : Min(I) <= k
      <3> HIDE DEF I
      <3> QED
        BY <2>2 DEF Min
    <2> DEFINE m == Min(I)
    <2> HIDE DEF m
    <2>4. m \in 1 .. Len(line) /\ line[m] = Blank /\ Len(line) \in Nat
      BY <2>3, LenProperties DEF m
    <2>5. ASSUME NEW i \in 1 .. m - 1 PROVE line[i] # Blank
      <3>1. i \in 1 .. Len(line) /\ ~(m <= i)
        BY <2>4
      <3>2. i \notin I
        BY <2>3, <3>1 DEF m
      <3> QED
        BY <3>1, <3>2
    <2>6. SpaceIn(line) = m
      BY <1>1, <1>3 DEF m
    <2> QED
      BY <2>4, <2>5, <2>6
  <1> QED
    BY <1>2, <1>3

\* The word shell_execute copies ends at the first space, or where there is no
\* more of the line or no more room.
LEMMA WordIs ==
  ASSUME NEW line \in Seq(Keys)
  PROVE  /\ WordLength(line) \in 0 .. Len(line) /\ IsWordEnd(line, WordLength(line))
         /\ \A i \in 0 .. WordLength(line) - 1 : ~IsWordEnd(line, i)
  <1> DEFINE Ends(k) == IsWordEnd(line, k) /\ \A i \in 0 .. k - 1 : ~IsWordEnd(line, i)
             S == {k \in 0 .. Len(line) : IsWordEnd(line, k)}
  <1>1. Len(line) \in Nat
    BY LenProperties
  <1>2. Len(line) \in S /\ S \in SUBSET Nat
    BY <1>1 DEF IsWordEnd
  <1>3. PICK m \in S : \A k \in S : m <= k
    BY <1>2, Least
  <1>4. m \in 0 .. Len(line) /\ Ends(m)
    <2>1. ASSUME NEW i \in 0 .. m - 1 PROVE ~IsWordEnd(line, i)
      <3>1. i \in 0 .. Len(line) /\ ~(m <= i)
        BY <1>1
      <3> QED
        BY <1>3, <3>1
    <2> QED
      BY <2>1
  <1>5. WordLength(line) = CHOOSE k \in 0 .. Len(line) : Ends(k)
    BY DEF WordLength
  <1> HIDE DEF Ends
  <1>6. WordLength(line) \in 0 .. Len(line) /\ Ends(WordLength(line))
    BY <1>4, <1>5
  <1> QED
    BY <1>6 DEF Ends

\* A part of a line, and a part of that from its beginning.
LEMMA PartIs ==
  ASSUME NEW line \in Seq(Keys), NEW i \in Nat \ {0}, NEW j \in 0 .. Len(line), NEW k \in 0 .. Len(line), j <= k
  PROVE  /\ SubSeq(line, i, k) \in Seq(Keys) /\ IsPrefix(SubSeq(line, i, j), SubSeq(line, i, k))
         /\ Len(SubSeq(line, i, k)) = IF i <= k THEN k - i + 1 ELSE 0
  <1>1. Len(line) \in Nat /\ \A n \in 1 .. Len(line) : line[n] \in Keys
    BY LenProperties, ElementOfSeq
  <1>2. ASSUME NEW n \in 0 .. Len(line)
        PROVE  /\ SubSeq(line, i, n) \in Seq(Keys)
               /\ Len(SubSeq(line, i, n)) = IF i <= n THEN n - i + 1 ELSE 0
               /\ \A l \in 1 .. n - i + 1 : SubSeq(line, i, n)[l] = line[i + l - 1]
    <2>1. n \in Int /\ i \in Int /\ \A l \in i .. n : line[l] \in Keys
      BY <1>1
    <2> QED
      BY <2>1, SubSeqProperties
  <1> DEFINE s == SubSeq(line, i, j)
             t == SubSeq(line, i, k)
             L == Len(s)
             a == SubSeq(s, 1, L)
             b == SubSeq(t, 1, L)
  <1>3. /\ s \in Seq(Keys) /\ L = IF i <= j THEN j - i + 1 ELSE 0
        /\ \A l \in 1 .. j - i + 1 : s[l] = line[i + l - 1]
    BY <1>2
  <1>4. /\ t \in Seq(Keys) /\ Len(t) = IF i <= k THEN k - i + 1 ELSE 0
        /\ \A l \in 1 .. k - i + 1 : t[l] = line[i + l - 1]
    BY <1>2
  <1> HIDE DEF s, t, L
  <1>5. L \in Nat /\ L <= Len(t) /\ Len(t) \in Nat
    BY <1>1, <1>3, <1>4
  <1>6. a = s
    BY <1>3, SubSeqFull DEF L
  <1>7. b \in Seq(Keys) /\ Len(b) = L /\ \A l \in 1 .. L : b[l] = t[l]
    <2>1. \A l \in 1 .. L : t[l] \in Keys
      BY <1>4, <1>5, ElementOfSeq
    <2>2. /\ b \in Seq(Keys) /\ Len(b) = IF 1 <= L THEN L - 1 + 1 ELSE 0
          /\ \A l \in 1 .. L - 1 + 1 : b[l] = t[1 + l - 1]
      BY <1>5, <2>1, SubSeqProperties
    <2>3. L - 1 + 1 = L /\ (~(1 <= L) => L = 0) /\ \A l \in 1 .. L : 1 + l - 1 = l
      BY <1>5
    <2> QED
      BY <2>2, <2>3
  <1> HIDE DEF a, b
  <1>8. ASSUME NEW l \in 1 .. L PROVE s[l] = t[l]
    <2>1. l \in 1 .. j - i + 1 /\ l \in 1 .. k - i + 1
      BY <1>1, <1>3, <1>8
    <2> QED
      BY <1>3, <1>4, <2>1
  <1>9. Len(s) = L
    BY DEF L
  <1>10. s = b
    <2>1. Len(s) = Len(b) /\ \A l \in 1 .. Len(s) : s[l] = b[l]
      BY <1>7, <1>8, <1>9
    <2> QED
      BY <1>3, <1>7, <2>1, SeqEqual
  <1>11. IsPrefix(s, t)
    BY <1>5, <1>6, <1>9, <1>10 DEF IsPrefix, a, b
  <1> QED
    BY <1>4, <1>11 DEF s, t

LEMMA CutIsRun ==
  ASSUME NEW line \in Seq(Keys), NEW r, r.cmd = CmdIn(line), r.args = ArgsIn(line)
  PROVE  Runs(r, line)
  <1> DEFINE L == Len(line)
             n == WordLength(line)
             space == SpaceIn(line)
             none == << >>
  <1>1. L \in Nat /\ CmdMax \in Nat /\ ArgMax \in Nat
    BY LenProperties, ShellAssumption
  <1>2. /\ n \in 0 .. L
        /\ n = L \/ line[n + 1] = Blank \/ n = CmdMax
        /\ \A i \in 0 .. n - 1 : i # L /\ line[i + 1] # Blank /\ i # CmdMax
    BY WordIs DEF IsWordEnd
  <1>3. \/ space = 0 /\ \A i \in 1 .. L : line[i] # Blank
        \/ /\ space \in 1 .. L /\ line[space] = Blank
           /\ \A i \in 1 .. space - 1 : line[i] # Blank
    BY SpaceIs
  <1>4. /\ r.cmd = SubSeq(line, 1, n)
        /\ r.args = IF n < L /\ line[n + 1] = Blank
                    THEN SubSeq(line, n + 2, IF n + 1 + ArgMax < L THEN n + 1 + ArgMax ELSE L) ELSE << >>
    BY DEF CmdIn, ArgsIn, ArgsAfter, Upto
  <1>5. SubSeq(line, 1, L) = line
    BY SubSeqFull
  <1>6. none \in Seq(Keys) /\ IsPrefix(none, none) /\ Len(none) = 0
    BY DEF IsPrefix
  <1>7. /\ WordOf(line) = IF space = 0 THEN line ELSE SubSeq(line, 1, space - 1)
        /\ RestOf(line) = IF space = 0 THEN none ELSE SubSeq(line, space + 1, L)
    BY DEF WordOf, RestOf
  <1> HIDE DEF L, n, space
  <1>8. n <= CmdMax
    <2>1. ~(CmdMax \in 0 .. n - 1)
      BY <1>2
    <2> QED
      BY <1>1, <1>2, <2>1
  <1>9. CASE space = 0 /\ \A i \in 1 .. L : line[i] # Blank
    <2>1. ~(n < L /\ line[n + 1] = Blank)
      <3>1. n < L => n + 1 \in 1 .. L
        BY <1>1, <1>2
      <3> QED
        BY <1>9, <3>1
    <2>2. r.args = none /\ RestOf(line) = none /\ WordOf(line) = line
      BY <1>4, <1>7, <1>9, <2>1
    <2>3. IsPrefix(r.cmd, WordOf(line))
      <3>1. 1 \in Nat \ {0} /\ n \in 0 .. Len(line) /\ L \in 0 .. Len(line) /\ n <= L
        BY <1>1, <1>2 DEF L
      <3>2. IsPrefix(SubSeq(line, 1, n), SubSeq(line, 1, L))
        BY <3>1, PartIs
      <3> QED
        BY <1>4, <1>5, <2>2, <3>2
    <2>4. ASSUME Len(line) <= CmdMax PROVE r.cmd = WordOf(line)
      <3>1. L <= CmdMax
        BY <2>4 DEF L
      <3>2. n = L
        <4>1. CASE n = CmdMax
          BY <1>1, <1>2, <3>1, <4>1
        <4>2. CASE n # CmdMax /\ n # L
          BY <1>1, <1>2, <2>1, <4>2
        <4> QED
          BY <4>1, <4>2
      <3> QED
        BY <1>4, <1>5, <2>2, <3>2
    <2> QED
      BY <1>6, <2>2, <2>3, <2>4 DEF Runs
  <1>10. CASE /\ space \in 1 .. L /\ line[space] = Blank
              /\ \A i \in 1 .. space - 1 : line[i] # Blank
    <2>1. /\ space - 1 \in 0 .. L /\ space \in Nat \ {0} /\ space + 1 \in Nat \ {0} /\ space # 0
          /\ (space - 1) + 1 = space /\ space - 1 < L
      BY <1>1, <1>10
    <2>2. WordOf(line) = SubSeq(line, 1, space - 1) /\ RestOf(line) = SubSeq(line, space + 1, L)
      BY <1>7, <2>1
    <2>3. n <= space - 1
      <3>1. space - 1 \notin 0 .. n - 1
        BY <1>2, <1>10, <2>1
      <3> QED
        BY <1>1, <1>2, <2>1, <3>1
    <2>4. Len(WordOf(line)) = space - 1 /\ IsPrefix(r.cmd, WordOf(line))
      <3>1. 1 \in Nat \ {0} /\ n \in 0 .. Len(line) /\ space - 1 \in 0 .. Len(line)
        BY <1>1, <1>2, <2>1 DEF L
      <3>2. /\ IsPrefix(SubSeq(line, 1, n), SubSeq(line, 1, space - 1))
            /\ Len(SubSeq(line, 1, space - 1)) = IF 1 <= space - 1 THEN (space - 1) - 1 + 1 ELSE 0
        BY <2>3, <3>1, PartIs
      <3>3. (IF 1 <= space - 1 THEN (space - 1) - 1 + 1 ELSE 0) = space - 1
        BY <2>1
      <3> QED
        BY <1>4, <2>2, <3>2, <3>3
    <2>5. CASE n = space - 1
      <3> DEFINE last == IF n + 1 + ArgMax < L THEN n + 1 + ArgMax ELSE L
      <3>1. n < L /\ line[n + 1] = Blank /\ n + 2 = space + 1
        BY <1>1, <1>2, <1>10, <2>1, <2>5
      <3>2. r.args = SubSeq(line, space + 1, last)
        BY <1>4, <3>1
      <3>3. last \in 0 .. L /\ last <= L /\ L \in 0 .. L
        BY <1>1, <1>2
      <3> HIDE DEF last
      <3>4. /\ IsPrefix(SubSeq(line, space + 1, last), SubSeq(line, space + 1, L))
            /\ Len(SubSeq(line, space + 1, L)) = IF space + 1 <= L THEN L - (space + 1) + 1 ELSE 0
        BY <2>1, <3>3, PartIs DEF L
      <3>5. ASSUME Len(RestOf(line)) <= ArgMax PROVE last = L
        <4>1. (IF space + 1 <= L THEN L - (space + 1) + 1 ELSE 0) <= ArgMax
          BY <2>2, <3>4, <3>5
        <4>2. L - space <= ArgMax
          BY <1>1, <1>10, <4>1
        <4>3. ~(n + 1 + ArgMax < L)
          BY <1>1, <1>10, <2>5, <4>2
        <4> QED
          BY <4>3 DEF last
      <3>6. r.cmd = WordOf(line)
        BY <1>4, <2>2, <2>5
      <3> QED
        BY <2>2, <2>4, <3>2, <3>4, <3>5, <3>6 DEF Runs
    <2>6. CASE n # space - 1
      <3>1. n + 1 \in 1 .. space - 1 /\ n # L
        BY <1>1, <1>2, <2>1, <2>3, <2>6
      <3>2. line[n + 1] # Blank
        BY <1>10, <3>1
      <3>3. n = CmdMax /\ r.args = none
        BY <1>2, <1>4, <3>1, <3>2
      <3>4. ~(space - 1 <= CmdMax)
        BY <1>1, <2>1, <2>3, <2>6, <3>3
      <3>5. IsPrefix(none, RestOf(line))
        <4> DEFINE rest == SubSeq(line, space + 1, L)
        <4>1. SubSeq(line, space + 1, 0) = none
          BY <2>1, SubSeqEmpty
        <4>2. 0 \in 0 .. Len(line) /\ L \in 0 .. Len(line) /\ 0 <= L
          BY <1>1 DEF L
        <4>3. IsPrefix(SubSeq(line, space + 1, 0), rest)
          BY <2>1, <4>2, PartIs
        <4> QED
          BY <2>2, <4>1, <4>3
      <3> QED
        BY <2>4, <3>3, <3>4, <3>5 DEF Runs
    <2> QED
      BY <2>5, <2>6
  <1> QED
    BY <1>3, <1>9, <1>10

\* What is run is what was typed: the word before the first space and what
\* follows it, up to the room there is for each, and no character of a line
\* before; for every number of keys, backspaces and full buffers among them.
THEOREM ShellRunsWhatWasTyped == Spec => RunsWhatWasTyped
  <1>1. ASSUME IInv, LineHeld, Enter PROVE Runs(ran', Edited(typed))
    <2>1. Edited(typed) = Held
      BY <1>1, EditedIs DEF LineHeld
    <2>2. TypeOK /\ Terminated
      BY <1>1 DEF IInv
    <2>3. Held \in Seq(Keys)
      BY <2>2, HeldIs DEF TypeOK, Terminated, Held
    <2>4. ran' = [cmd |-> CmdIn(Held), args |-> ArgsIn(Held)]
      BY <1>1, <2>2, LineIsHeld DEF Enter
    <2>5. ran'.cmd = CmdIn(Held) /\ ran'.args = ArgsIn(Held)
      BY <2>4
    <2>6. Runs(ran', Held)
      BY <2>3, <2>5, CutIsRun
    <2> QED
      BY <2>1, <2>6
  <1>2. IInv /\ LineHeld /\ [Next]_vars => [Enter => Runs(ran', Edited(typed))]_vars
    BY <1>1
  <1> QED
    BY <1>2, ShellInvariant, ShellLineHeld, PTL DEF Spec, RunsWhatWasTyped

=============================================================================
