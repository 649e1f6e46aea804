----------------------------- MODULE InputProofs ------------------------------
(***************************************************************************)
(* Proofs about the input devices: the keyboard ring, for every size, key  *)
(* table and bound, and the controller that keyboard and mouse share, for  *)
(* every set of scancodes and packets.                                     *)
(***************************************************************************)
EXTENDS Keyboard, Ps2, SequenceTheorems, TLAPS

-----------------------------------------------------------------------------
(* Arithmetic of the ring: the remainders of the code, by cases.            *)

\* (i + 1) % Size is the next index, or 0 after the last.
LEMMA SuccCases ==
  ASSUME NEW i \in Slots
  PROVE  /\ Succ(i) \in Slots
         /\ Succ(i) = IF i + 1 < Size THEN i + 1 ELSE 0
  <1>1. Size \in Nat \ {0} /\ i \in 0 .. (Size - 1)
    BY KeyboardAssumption DEF Slots
  <1>2. CASE i + 1 < Size
    BY <1>1, <1>2 DEF Succ, Slots
  <1>3. CASE i + 1 = Size
    BY <1>1, <1>3 DEF Succ, Slots
  <1> QED
    BY <1>1, <1>2, <1>3

\* The distance from tail to head around the ring.
LEMMA DiffCases ==
  ASSUME NEW i \in Slots, NEW j \in Slots
  PROVE  (i - j) % Size = IF i >= j THEN i - j ELSE i - j + Size
  <1>1. Size \in Nat \ {0} /\ i \in 0 .. (Size - 1) /\ j \in 0 .. (Size - 1)
    BY KeyboardAssumption DEF Slots
  <1>2. CASE i >= j
    BY <1>1, <1>2
  <1>3. CASE i < j
    BY <1>1, <1>3
  <1> QED
    BY <1>1, <1>2, <1>3

\* The slot of the k-th unread character.
LEMMA SlotCases ==
  ASSUME NEW i \in Slots, NEW k \in 1 .. Size
  PROVE  (i + k - 1) % Size = IF i + k - 1 < Size THEN i + k - 1 ELSE i + k - 1 - Size
  <1>1. Size \in Nat \ {0} /\ i \in 0 .. (Size - 1)
    BY KeyboardAssumption DEF Slots
  <1>2. CASE i + k - 1 < Size
    BY <1>1, <1>2
  <1>3. CASE i + k - 1 >= Size
    BY <1>1, <1>3
  <1> QED
    BY <1>1, <1>2, <1>3

-----------------------------------------------------------------------------
\* The inductive invariant: the reader's promise needs the types of the
\* indices, and nothing else.
IInv == TypeOK /\ ReaderSafe /\ NoStuckShift

\* The tables name characters, or none.
LEMMA AsciiType == ASSUME NEW k \in Keys PROVE Ascii(k) \in Chars \cup {NoChar}
  BY KeyboardAssumption DEF Ascii

\* keyboard_init leaves an empty ring and no shift.
LEMMA InitIInv == Init => IInv
  <1> SUFFICES ASSUME Init PROVE IInv
    OBVIOUS
  <1>1. 0 \in Slots
    BY KeyboardAssumption DEF Slots
  <1>2. TypeOK
    BY <1>1 DEF Init, TypeOK
  <1>3. ReaderSafe /\ NoStuckShift
    BY DEF Init, ReaderSafe, NoStuckShift
  <1> QED
    BY <1>2, <1>3 DEF IInv

\* Storing a character fills the slot at the head, which is never the slot
\* the reader is on, and never makes a nonempty ring look empty.
LEMMA KeyMakeIInv == ASSUME IInv, NEW k \in Keys, KeyMake(k) PROVE IInv'
  <1>1. CASE Succ(buffer_head) # buffer_tail
    <2>1. TypeOK'
      BY <1>1, AsciiType, SuccCases DEF IInv, TypeOK, KeyMake, HasRoom, reader
    <2>2. ReaderSafe'
      BY <1>1, AsciiType, SuccCases DEF IInv, TypeOK, ReaderSafe, KeyMake, HasRoom, reader
    <2> QED
      BY <2>1, <2>2 DEF IInv, KeyMake, HasRoom, NoStuckShift
  <1>2. CASE Succ(buffer_head) = buffer_tail
    BY <1>2 DEF IInv, TypeOK, ReaderSafe, NoStuckShift, KeyMake, HasRoom, reader
  <1> QED
    BY <1>1, <1>2

\* Every step of the handler and of the reader keeps the invariant.
LEMMA NextIInv == IInv /\ [Next]_vars => IInv'
  <1> SUFFICES ASSUME IInv, [Next]_vars PROVE IInv'
    OBVIOUS
  <1> USE DEF IInv, TypeOK, ReaderSafe, NoStuckShift, ring, reader
  <1>1. ASSUME NEW s \in ShiftKeys, ShiftMake(s) \/ ShiftBreak(s) PROVE IInv'
    BY <1>1 DEF ShiftMake, ShiftBreak
  <1>2. CASE CapsMake
    BY <1>2 DEF CapsMake
  <1>3. ASSUME NEW k \in Keys, KeyMake(k) PROVE IInv'
    BY <1>3, KeyMakeIInv
  <1>4. CASE UNCHANGED vars
    BY <1>4 DEF vars
  <1>5. CASE NotEmpty
    BY <1>5 DEF NotEmpty, Something
  <1>6. CASE ReadChar
    BY <1>6 DEF ReadChar, Oldest
  <1>7. CASE Advance
    BY <1>7, SuccCases DEF Advance
  <1> QED
    BY <1>1, <1>2, <1>3, <1>4, <1>5, <1>6, <1>7 DEF Next, Handler, Getchar, DeadKey, Empty

\* The inductive invariant holds of every reachable state of the driver.
THEOREM KeyboardInvariant == Spec => []IInv
  BY InitIInv, NextIInv, PTL DEF Spec

\* Types, keyboard.c: every variable keeps its type.
THEOREM KeyboardTypeOK == Spec => []TypeOK
  <1>1. IInv => TypeOK
    BY DEF IInv
  <1> QED
    BY <1>1, KeyboardInvariant, PTL

\* Lines 80-86: no interrupt between the test, the read and the advance makes
\* keyboard_getchar read an empty slot or return an overwritten character.
THEOREM KeyboardReaderSafe == Spec => []ReaderSafe
  <1>1. IInv => ReaderSafe
    BY DEF IInv
  <1> QED
    BY <1>1, KeyboardInvariant, PTL

\* Lines 37-44: the shift flag is set only while a shift key is down.
THEOREM KeyboardNoStuckShift == Spec => []NoStuckShift
  <1>1. IInv => NoStuckShift
    BY DEF IInv
  <1> QED
    BY <1>1, KeyboardInvariant, PTL

-----------------------------------------------------------------------------
(* Refinement: the ring between the indices is a FIFO.                      *)

\* The ring holds between 0 and Size - 1 characters, 0 when head = tail.
LEMMA FillRange ==
  ASSUME TypeOK
  PROVE  /\ Fill \in 0 .. (Size - 1)
         /\ Fill = IF buffer_head >= buffer_tail THEN buffer_head - buffer_tail
                   ELSE buffer_head - buffer_tail + Size
         /\ buffer_head # buffer_tail => Fill > 0
  <1>1. buffer_head \in Slots /\ buffer_tail \in Slots
    BY DEF TypeOK
  <1>2. Fill = IF buffer_head >= buffer_tail THEN buffer_head - buffer_tail
               ELSE buffer_head - buffer_tail + Size
    BY <1>1, DiffCases DEF Fill
  <1> QED
    BY <1>1, <1>2, KeyboardAssumption DEF Slots

\* Sequences of equal length and equal elements are equal.
LEMMA AppendIs ==
  ASSUME NEW S, NEW s \in Seq(S), NEW t \in Seq(S), NEW e \in S,
         Len(t) = Len(s) + 1, \A i \in 1 .. Len(s) : t[i] = s[i], t[Len(s) + 1] = e
  PROVE  t = Append(s, e)
  <1>1. Append(s, e) \in Seq(S) /\ Len(Append(s, e)) = Len(s) + 1
    OBVIOUS
  <1>2. ASSUME NEW i \in 1 .. Len(s) + 1 PROVE t[i] = Append(s, e)[i]
    OBVIOUS
  <1> QED
    BY <1>1, <1>2

\* The same, for the tail of a sequence.
LEMMA TailIs ==
  ASSUME NEW S, NEW s \in Seq(S), NEW t \in Seq(S),
         Len(s) = Len(t) + 1, \A i \in 1 .. Len(t) : t[i] = s[i + 1]
  PROVE  t = Tail(s)
  <1>1. Tail(s) \in Seq(S) /\ Len(Tail(s)) = Len(t)
    OBVIOUS
  <1>2. ASSUME NEW i \in 1 .. Len(t) PROVE t[i] = Tail(s)[i]
    OBVIOUS
  <1> QED
    BY <1>1, <1>2

\* Contents is a sequence of Fill characters.
LEMMA ContentsLen ==
  TypeOK =>
    /\ Contents \in Seq(Chars \cup {NoChar})
    /\ Len(Contents) = Fill
    /\ \A k \in 1 .. Fill : Contents[k] = Unread(k)
  <1> SUFFICES ASSUME TypeOK
               PROVE  /\ Contents \in Seq(Chars \cup {NoChar})
                      /\ Len(Contents) = Fill
                      /\ \A k \in 1 .. Fill : Contents[k] = Unread(k)
    OBVIOUS
  <1>1. Fill \in Nat /\ Fill <= Size /\ Size \in Nat
    BY FillRange, KeyboardAssumption
  <1>2. ASSUME NEW k \in 1 .. Fill PROVE Unread(k) \in Chars \cup {NoChar}
    <2>1. k \in 1 .. Size
      BY <1>1
    <2>2. (buffer_tail + k - 1) % Size \in Slots
      BY <1>1, <2>1, SlotCases DEF TypeOK, Slots
    <2> QED
      BY <2>2 DEF Unread, TypeOK
  <1>3. Contents \in [1 .. Fill -> Chars \cup {NoChar}]
    BY <1>2 DEF Contents
  <1> QED
    BY <1>1, <1>3 DEF Contents

\* A stored character is the new last one.
LEMMA StoreIsPut ==
  ASSUME IInv, NEW k \in Keys, KeyMake(k), Succ(buffer_head) # buffer_tail
  PROVE  \E ch \in Chars : Fifo!Put(ch)
  <1> DEFINE ch == Ascii(k)
  <1>1. /\ ch \in Chars
        /\ input_buffer' = [input_buffer EXCEPT ![buffer_head] = ch]
        /\ buffer_head' = Succ(buffer_head)
        /\ buffer_tail' = buffer_tail /\ last' = last
        /\ delivered' = delivered /\ lost' = lost
    BY AsciiType DEF KeyMake, HasRoom, reader
  <1>2. TypeOK /\ TypeOK'
    BY KeyMakeIInv DEF IInv
  <1> HIDE DEF ch
  <1>3. /\ buffer_head \in Slots /\ buffer_tail \in Slots /\ Size \in Nat /\ Size > 1
        /\ \A i \in Slots : i \in Nat /\ i < Size
    BY <1>2, KeyboardAssumption DEF TypeOK, Slots
  <1>4. Fill < Size - 1 /\ Fill' = Fill + 1
    <2>1. Fill' = IF buffer_head' >= buffer_tail' THEN buffer_head' - buffer_tail'
                  ELSE buffer_head' - buffer_tail' + Size
      BY <1>2, <1>3, <1>1, DiffCases, SuccCases DEF Fill
    <2> QED
      BY <2>1, <1>1, <1>2, <1>3, FillRange, SuccCases
  <1>5. ASSUME NEW i \in 1 .. Fill PROVE Unread(i)' = Unread(i)
    <2>1. i \in 1 .. Size /\ i \in Nat /\ Fill \in Nat
      BY <1>2, <1>3, FillRange
    <2>2. (buffer_tail + i - 1) % Size # buffer_head /\ (buffer_tail + i - 1) % Size \in Slots
      <3>1. (buffer_tail + i - 1) % Size = IF buffer_tail + i - 1 < Size THEN buffer_tail + i - 1
                                           ELSE buffer_tail + i - 1 - Size
        BY <2>1, <1>3, SlotCases
      <3> QED
        BY <3>1, <2>1, <1>2, <1>3, FillRange DEF Slots
    <2> QED
      BY <2>2, <1>1, <1>2 DEF Unread, TypeOK
  <1>6. PICK m \in Nat : m = Fill
    BY <1>2, FillRange
  <1>7. Unread(m + 1)' = ch
    <2>1. m + 1 \in 1 .. Size
      BY <1>2, <1>3, <1>6, FillRange
    <2>2. (buffer_tail + (m + 1) - 1) % Size = buffer_head
      <3>1. (buffer_tail + (m + 1) - 1) % Size
              = IF buffer_tail + (m + 1) - 1 < Size THEN buffer_tail + (m + 1) - 1
                ELSE buffer_tail + (m + 1) - 1 - Size
        BY <2>1, <1>3, SlotCases
      <3> QED
        BY <3>1, <2>1, <1>2, <1>3, <1>6, FillRange
    <2> QED
      BY <2>2, <1>1, <1>2 DEF Unread, TypeOK
  <1>8. Contents' = Append(Contents, ch)
    <2>1. /\ Contents \in Seq(Chars \cup {NoChar}) /\ Len(Contents) = m
          /\ Contents' \in Seq(Chars \cup {NoChar}) /\ Len(Contents') = m + 1
      <3>1. (Contents \in Seq(Chars \cup {NoChar}) /\ Len(Contents) = Fill)'
        BY <1>2, ContentsLen, PTL
      <3> QED
        BY <3>1, <1>2, <1>4, <1>6, ContentsLen
    <2>2. ASSUME NEW i \in 1 .. m PROVE Contents'[i] = Contents[i]
      BY <2>2, <1>4, <1>5, <1>6 DEF Contents
    <2>3. Contents'[m + 1] = ch
      BY <1>4, <1>6, <1>7 DEF Contents
    <2> QED
      BY <2>1, <2>2, <2>3, <1>1, AppendIs
  <1> QED
    <2>1. Len(Contents) < Size - 1
      BY <1>2, <1>4, ContentsLen
    <2> QED
      BY <2>1, <1>1, <1>8 DEF Fifo!Put

\* A character is dropped only when Size - 1 are unread.
LEMMA LossIsDrop ==
  ASSUME IInv, NEW k \in Keys, KeyMake(k), Succ(buffer_head) = buffer_tail
  PROVE  Fifo!Drop
  <1>1. /\ lost' = lost + 1 /\ input_buffer' = input_buffer
        /\ buffer_head' = buffer_head /\ buffer_tail' = buffer_tail
        /\ last' = last /\ delivered' = delivered
    BY DEF KeyMake, HasRoom, reader
  <1>2. buffer_head \in Slots /\ buffer_tail \in Slots /\ TypeOK
    BY DEF IInv, TypeOK
  <1>3. Fill = Size - 1
    BY <1>2, FillRange, SuccCases, KeyboardAssumption DEF Slots
  <1>4. Len(Contents) = Size - 1
    BY <1>2, <1>3, ContentsLen
  <1>5. Contents' = Contents
    BY <1>1 DEF Contents, Fill, Unread
  <1> QED
    BY <1>1, <1>4, <1>5 DEF Fifo!Drop

\* Advancing the tail delivers the oldest character, the one read before.
LEMMA AdvanceIsGet ==
  ASSUME IInv, Advance, TypeOK'
  PROVE  Fifo!Get
  <1>1. /\ buffer_tail' = Succ(buffer_tail) /\ buffer_head' = buffer_head
        /\ input_buffer' = input_buffer /\ lost' = lost
        /\ last' = c /\ delivered' = delivered + 1
        /\ buffer_head # buffer_tail /\ c = input_buffer[buffer_tail]
    BY DEF Advance, ring, IInv, ReaderSafe
  <1>2. /\ TypeOK /\ buffer_head \in Slots /\ buffer_tail \in Slots
        /\ Size \in Nat /\ Size > 1 /\ \A i \in Slots : i \in Nat /\ i < Size
    BY KeyboardAssumption DEF IInv, TypeOK, Slots
  <1>3. Fill \in Nat /\ Fill > 0 /\ Fill < Size /\ Fill' = Fill - 1
    <2>1. Fill' = IF buffer_head' >= buffer_tail' THEN buffer_head' - buffer_tail'
                  ELSE buffer_head' - buffer_tail' + Size
      BY <1>1, <1>2, DiffCases, SuccCases DEF Fill
    <2> QED
      BY <2>1, <1>1, <1>2, FillRange, SuccCases
  <1>4. PICK m \in Nat : m = Fill'
    BY <1>3
  <1>5. ASSUME NEW i \in 1 .. m PROVE Unread(i)' = Unread(i + 1)
    <2>1. i \in 1 .. Size /\ i + 1 \in 1 .. Size /\ i \in Nat
      BY <1>2, <1>3, <1>4
    <2>2. (Succ(buffer_tail) + i - 1) % Size = (buffer_tail + (i + 1) - 1) % Size
      <3>1. (buffer_tail + (i + 1) - 1) % Size
              = IF buffer_tail + (i + 1) - 1 < Size THEN buffer_tail + (i + 1) - 1
                ELSE buffer_tail + (i + 1) - 1 - Size
        BY <2>1, <1>2, SlotCases
      <3>2. Succ(buffer_tail) \in Slots
            /\ Succ(buffer_tail) = IF buffer_tail + 1 < Size THEN buffer_tail + 1 ELSE 0
        BY <1>2, SuccCases
      <3>3. (Succ(buffer_tail) + i - 1) % Size
              = IF Succ(buffer_tail) + i - 1 < Size THEN Succ(buffer_tail) + i - 1
                ELSE Succ(buffer_tail) + i - 1 - Size
        BY <3>2, <2>1, <1>2, SlotCases
      <3> QED
        BY <3>1, <3>2, <3>3, <2>1, <1>2, <1>3, <1>4
    <2> QED
      BY <2>2, <1>1 DEF Unread
  <1>6. /\ Contents \in Seq(Chars \cup {NoChar}) /\ Len(Contents) = m + 1
        /\ Contents' \in Seq(Chars \cup {NoChar}) /\ Len(Contents') = m
        /\ \A i \in 1 .. m + 1 : Contents[i] = Unread(i)
    <2>1. (Contents \in Seq(Chars \cup {NoChar}) /\ Len(Contents) = Fill)'
      BY ContentsLen, PTL
    <2> QED
      BY <2>1, <1>2, <1>3, <1>4, ContentsLen
  <1>7. ASSUME NEW i \in 1 .. m PROVE Contents'[i] = Contents[i + 1]
    <2>1. Contents'[i] = Unread(i)'
      BY <1>4 DEF Contents
    <2>2. i + 1 \in 1 .. m + 1
      OBVIOUS
    <2> QED
      BY <2>1, <2>2, <1>5, <1>6
  <1>8. Contents' = Tail(Contents)
    BY <1>6, <1>7, TailIs
  <1>9. Contents[1] = c
    <2>1. (buffer_tail + 1 - 1) % Size = buffer_tail
      BY <1>2, SlotCases
    <2> QED
      BY <2>1, <1>1, <1>6 DEF Unread
  <1>10. Contents # <<>> /\ Head(Contents) = c
    BY <1>6, <1>9
  <1> QED
    BY <1>1, <1>8, <1>10 DEF Fifo!Get

\* keyboard_handler and keyboard_getchar together implement a FIFO of
\* Size - 1 characters: whatever the interleaving, characters come out once,
\* in order, and are dropped only on arrival at a full ring.
THEOREM KeyboardRefinesFifo == Spec => RefinesFifo
  <1>1. Init => Fifo!FifoInit
    <2> SUFFICES ASSUME Init PROVE Contents = <<>> /\ last = NoChar /\ delivered = 0 /\ lost = 0
      BY DEF Fifo!FifoInit
    <2>1. TypeOK /\ buffer_head = buffer_tail
      BY InitIInv DEF IInv, Init
    <2>2. Fill = 0
      BY <2>1, FillRange DEF TypeOK, Slots
    <2> QED
      BY <2>1, <2>2, ContentsLen DEF Init
  <1>2. IInv /\ IInv' /\ [Next]_vars => [Fifo!FifoNext]_<<Contents, last, delivered, lost>>
    <2> SUFFICES ASSUME IInv, IInv', [Next]_vars
                 PROVE  Fifo!FifoNext \/ UNCHANGED <<Contents, last, delivered, lost>>
      OBVIOUS
    <2> DEFINE Stutter == UNCHANGED <<input_buffer, buffer_head, buffer_tail, last, delivered, lost>>
    <2>1. Stutter => UNCHANGED <<Contents, last, delivered, lost>>
      BY DEF Contents, Fill, Unread
    <2>2. ASSUME NEW s \in ShiftKeys, ShiftMake(s) \/ ShiftBreak(s) PROVE Stutter
      BY <2>2 DEF ShiftMake, ShiftBreak, reader
    <2>3. CASE CapsMake \/ NotEmpty \/ ReadChar \/ UNCHANGED vars
      <3>1. Stutter
        BY <2>3 DEF CapsMake, NotEmpty, Something, ReadChar, Oldest, vars, ring, reader
      <3> QED
        BY <2>1, <3>1
    <2>4. ASSUME NEW k \in Keys, KeyMake(k) PROVE Fifo!FifoNext
      BY <2>4, StoreIsPut, LossIsDrop DEF Fifo!FifoNext
    <2>5. CASE Advance
      BY <2>5, AdvanceIsGet DEF IInv, Fifo!FifoNext
    <2> QED
      BY <2>1, <2>2, <2>3, <2>4, <2>5 DEF Next, Handler, Getchar, DeadKey, Empty
  <1> QED
    BY <1>1, <1>2, KeyboardInvariant, PTL DEF Spec, RefinesFifo, Fifo!FifoSpec

-----------------------------------------------------------------------------
(* The shared controller.  Its inductive invariant follows the boot.         *)

\* Neither device has sent anything of its own.
Silent == typed = <<>> /\ kbdQueue = <<>> /\ moved = <<>> /\ bytesTaken = <<>> /\ mouse_cycle = 0

\* Nothing is on its way before mouse_init asks for the configuration.
Cold == step <= 3 => ~port.full /\ ctlQueue = <<>> /\ auxQueue = <<>> /\ keysTaken = <<>>

\* The answer has left the controller: it stands in the port, or the keyboard
\* handler has taken it, and the port still shows its value.
Answered ==
    /\ ctlQueue = <<>> /\ port.byte = config
    /\ \/ port.full /\ ~port.aux /\ keysTaken = <<>>
       \/ ~port.full /\ keysTaken = <<config>>

\* From the question to the read, steps 4 and 5.
Asking ==
    /\ step = 4 => \/ ctlQueue = <<config>> /\ ~port.full /\ keysTaken = <<>>
                   \/ Answered
    /\ step = 5 => Answered
    /\ step \in {4, 5} => auxQueue = <<>>

\* An acknowledgement of the mouse, before and after it enters the port.
AckDue == auxQueue = <<ACK>> /\ ~port.full
AckStands == auxQueue = <<>> /\ port.full /\ port.aux

\* From then on status is the configuration byte, which the keyboard handler
\* may have taken too, and every command is answered before the next.
Acknowledged ==
    step >= 6 =>
        /\ ctlQueue = <<>>
        /\ keysTaken = <<>> \/ keysTaken = <<status>>
        /\ step = 6 => status = config
        /\ step \in {6, 7, 10, 13, 16, 19} => auxQueue = <<>> /\ ~port.full
        /\ step \in {8, 11, 14, 17} => AckDue \/ AckStands
        /\ step \in {9, 12, 15, 18} => AckStands

\* The keyboard's interrupt is on throughout, the mouse's clock from step 3 and
\* its interrupt from step 7.
LinesOn ==
    /\ Bit(config, 1)
    /\ step >= 3 => ~Bit(config, 32)
    /\ step >= 7 => Bit(config, 2)

\* The state of a boot in which nobody touches a device.
Booting == Silent /\ Cold /\ Asking /\ Acknowledged

\* Concatenation, kept from the provers where its meaning is not needed.
Join(first, rest) == first \o rest

\* What a device has sent: taken by its handler, in the port, still waiting.
Flow(taken, standing, waiting) == Join(Join(taken, standing), waiting)

\* The byte of one device that stands in the port.
InPort(aux) == IF port.full /\ port.aux = aux THEN <<port.byte>> ELSE <<>>

\* Every third byte of the mouse carries the mark of a first byte.
Marked == \A i \in 1 .. Len(moved) : i % 3 = 1 => Bit(moved[i], 8)

\* After a quiet boot: both streams are whole and in order, the packet position
\* follows the bytes taken, and what stands in the port has its interrupt.
Running ==
    /\ ctlQueue = <<>>
    /\ port.full => port.request
    /\ moved = Flow(bytesTaken, InPort(TRUE), auxQueue)
    /\ Len(moved) % 3 = 0
    /\ Marked
    /\ mouse_cycle = Len(bytesTaken) % 3
    /\ \/ typed = Flow(keysTaken, InPort(FALSE), kbdQueue)
       \/ /\ keysTaken # <<>> /\ Head(keysTaken) = status
          /\ typed = Flow(Tail(keysTaken), InPort(FALSE), kbdQueue)

\* The inductive invariant.  A boot that was not quiet keeps its types only.
Ps2IInv ==
    /\ Ps2TypeOK
    /\ ~MouseReady => mouse_cycle = 0 /\ bytesTaken = <<>>
    /\ ~MouseReady /\ ~noisy => Booting
    /\ ~noisy => LinesOn
    /\ MouseReady /\ ~noisy => Running

-----------------------------------------------------------------------------
(* Bytes, and the steps of the script.                                      *)

Byte == 0 .. 255

\* status & ~0x20.
LEMMA ClearsAux ==
  ASSUME NEW b \in Byte
  PROVE  /\ ClearBit(b, 32) \in Byte /\ ~Bit(ClearBit(b, 32), 32)
         /\ Bit(b, 1) => Bit(ClearBit(b, 32), 1)
  BY DEF ClearBit, Bit, Byte

\* status | 2.
LEMMA SetsIrq12 ==
  ASSUME NEW b \in Byte
  PROVE  /\ ConfigWritten(b) \in Byte /\ Bit(ConfigWritten(b), 2)
         /\ Bit(b, 1) => Bit(ConfigWritten(b), 1)
         /\ ~Bit(b, 32) => ~Bit(ConfigWritten(b), 32)
  BY DEF ConfigWritten, SetBit, Bit, Byte

\* Which steps perform which operation.
LEMMA ScriptIs ==
  ASSUME step \in 1 .. 20
  PROVE  /\ Len(Script) = 20
         /\ Script[step] = "keyboard_init" <=> step = 1
         /\ Script[step] = "enable_aux" <=> step = 2
         /\ Script[step] = "ask_config" <=> step = 3
         /\ Script[step] = "wait" <=> step \in {4, 8, 11, 14, 17}
         /\ Script[step] = "read_config" <=> step = 5
         /\ Script[step] = "write_config" <=> step = 6
         /\ Script[step] = "defaults" <=> step = 7
         /\ Script[step] = "ack" <=> step \in {9, 12, 15, 18}
         /\ Script[step] = "enable" <=> step = 10
         /\ Script[step] = "rate" <=> step = 13
         /\ Script[step] = "100" <=> step = 16
         /\ Script[step] = "install" <=> step = 19
         /\ Script[step] = "done" <=> step = 20
  BY DEF Script

\* A packet is three bytes, the first one marked.
LEMMA PacketIs ==
  ASSUME NEW p \in Packets
  PROVE  /\ p \in Seq(Byte) /\ Len(p) = 3
         /\ Bit(p[1], 8)
  <1>1. PICK a \in Byte, b \in Byte, d \in Byte : p = <<a, b, d>>
    <2>1. p \in Byte \X Byte \X Byte
      BY Ps2Assumption DEF Byte
    <2> QED
      BY <2>1
  <1> QED
    BY <1>1, Ps2Assumption

-----------------------------------------------------------------------------
(* Streams: what was taken, what stands in the port, what waits.            *)

\* What the library says of concatenation.
LEMMA JoinIs ==
  ASSUME NEW S, NEW s \in Seq(S), NEW t \in Seq(S)
  PROVE  /\ Join(s, t) \in Seq(S) /\ Len(Join(s, t)) = Len(s) + Len(t)
         /\ \A i \in 1 .. Len(s) + Len(t) :
               Join(s, t)[i] = IF i <= Len(s) THEN s[i] ELSE t[i - Len(s)]
  BY ConcatProperties DEF Join

\* Likewise.
LEMMA JoinAssociative ==
  ASSUME NEW S, NEW s \in Seq(S), NEW t \in Seq(S), NEW u \in Seq(S)
  PROVE  Join(Join(s, t), u) = Join(s, Join(t, u))
  BY ConcatAssociative DEF Join

\* Likewise.
LEMMA JoinNothing ==
  ASSUME NEW S, NEW s \in Seq(S)
  PROVE  Join(s, <<>>) = s
  BY ConcatEmptySeq DEF Join

\* Likewise.
LEMMA JoinOne ==
  ASSUME NEW S, NEW s \in Seq(S), NEW e \in S
  PROVE  Append(s, e) = Join(s, <<e>>)
  BY AppendIsConcat DEF Join

\* A sequence is its head and its tail.
LEMMA JoinHeadTail ==
  ASSUME NEW S, NEW z \in Seq(S), z # <<>>
  PROVE  Join(<<Head(z)>>, Tail(z)) = z
  <1> DEFINE h == <<Head(z)>>
             t == Tail(z)
  <1>1. /\ h \in Seq(S) /\ t \in Seq(S) /\ Len(h) = 1 /\ Len(t) = Len(z) - 1
        /\ h[1] = z[1] /\ \A i \in 1 .. Len(t) : t[i] = z[i + 1]
    BY HeadTailProperties
  <1> HIDE DEF h, t
  <1>2. Len(h) + Len(t) = Len(z) /\ Len(t) \in Nat /\ Len(z) \in Nat
    BY <1>1, LenProperties
  <1>3. /\ Join(h, t) \in Seq(S) /\ Len(Join(h, t)) = Len(h) + Len(t)
        /\ \A i \in 1 .. Len(h) + Len(t) :
              Join(h, t)[i] = IF i <= Len(h) THEN h[i] ELSE t[i - Len(h)]
    <2>1. h \in Seq(S) /\ t \in Seq(S)
      BY <1>1
    <2> QED
      BY <2>1, JoinIs
  <1>4. ASSUME NEW i \in 1 .. Len(z) PROVE Join(h, t)[i] = z[i]
    <2>1. CASE i = 1
      BY <1>1, <1>2, <1>3, <2>1
    <2>2. CASE i # 1
      <3>1. i - 1 \in 1 .. Len(t)
        BY <1>1, <1>2, <2>2
      <3>2. Join(h, t)[i] = t[i - 1]
        BY <1>1, <1>2, <1>3, <2>2
      <3>3. t[i - 1] = z[i - 1 + 1] /\ i - 1 + 1 = i
        BY <1>1, <3>1
      <3> QED
        BY <3>2, <3>3
    <2> QED
      BY <2>1, <2>2
  <1>5. Join(h, t) = z
    BY <1>2, <1>3, <1>4, SeqEqual
  <1> QED
    BY <1>5 DEF h, t

\* What the devices send joins what waits.
LEMMA FlowGrows ==
  ASSUME NEW S, NEW x \in Seq(S), NEW y \in Seq(S), NEW z \in Seq(S), NEW p \in Seq(S)
  PROVE  Join(Flow(x, y, z), p) = Flow(x, y, Join(z, p))
  <1>1. Join(x, y) \in Seq(S)
    BY JoinIs
  <1> QED
    BY <1>1, JoinAssociative DEF Flow

\* The byte in front steps into the port.
LEMMA FlowLoads ==
  ASSUME NEW S, NEW x \in Seq(S), NEW z \in Seq(S), z # <<>>
  PROVE  Flow(x, <<>>, z) = Flow(x, <<Head(z)>>, Tail(z))
  <1> DEFINE h == <<Head(z)>>
             t == Tail(z)
  <1>1. h \in Seq(S) /\ t \in Seq(S)
    BY HeadTailProperties
  <1>2. Join(h, t) = z
    BY JoinHeadTail
  <1> HIDE DEF h, t
  <1>3. Join(Join(x, h), t) = Join(x, Join(h, t))
    BY <1>1, JoinAssociative
  <1>4. Join(x, <<>>) = x
    BY JoinNothing
  <1> QED
    BY <1>2, <1>3, <1>4 DEF h, t, Flow

\* The byte in the port is taken.
LEMMA FlowTakes ==
  ASSUME NEW S, NEW x \in Seq(S), NEW e \in S, NEW z \in Seq(S)
  PROVE  Flow(x, <<e>>, z) = Flow(Append(x, e), <<>>, z)
  <1>1. Append(x, e) = Join(x, <<e>>) /\ Append(x, e) \in Seq(S)
    BY JoinOne, AppendProperties
  <1>2. Join(Append(x, e), <<>>) = Append(x, e)
    BY <1>1, JoinNothing
  <1> QED
    BY <1>1, <1>2 DEF Flow

\* What was taken begins the stream, and what stands in the port is next.
LEMMA FlowStarts ==
  ASSUME NEW S, NEW x \in Seq(S), NEW y \in Seq(S), NEW z \in Seq(S)
  PROVE  /\ Flow(x, y, z) \in Seq(S) /\ IsPrefix(x, Flow(x, y, z))
         /\ Len(Flow(x, y, z)) = Len(x) + Len(y) + Len(z)
         /\ \A i \in 1 .. Len(y) : Flow(x, y, z)[Len(x) + i] = y[i]
  <1> DEFINE w == Join(x, y)
             m == Join(w, z)
  <1>1. /\ w \in Seq(S) /\ Len(w) = Len(x) + Len(y)
        /\ \A i \in 1 .. Len(x) + Len(y) : w[i] = IF i <= Len(x) THEN x[i] ELSE y[i - Len(x)]
    BY JoinIs
  <1> HIDE DEF w
  <1>2. /\ m \in Seq(S) /\ Len(m) = Len(w) + Len(z)
        /\ \A i \in 1 .. Len(w) + Len(z) : m[i] = IF i <= Len(w) THEN w[i] ELSE z[i - Len(w)]
    <2>1. w \in Seq(S)
      BY <1>1
    <2> QED
      BY <2>1, JoinIs DEF m
  <1> HIDE DEF m
  <1>3. /\ Len(x) \in Nat /\ Len(y) \in Nat /\ Len(z) \in Nat
    BY LenProperties
  <1>4. \A i \in 1 .. Len(x) : m[i] = x[i]
    <2> SUFFICES ASSUME NEW i \in 1 .. Len(x) PROVE m[i] = x[i]
      OBVIOUS
    <2>1. i \in 1 .. Len(w) + Len(z) /\ i <= Len(w) /\ i \in 1 .. Len(x) + Len(y) /\ i <= Len(x)
      BY <1>1, <1>3
    <2> QED
      BY <1>1, <1>2, <2>1
  <1>5. \A i \in 1 .. Len(y) : m[Len(x) + i] = y[i]
    <2> SUFFICES ASSUME NEW i \in 1 .. Len(y) PROVE m[Len(x) + i] = y[i]
      OBVIOUS
    <2> DEFINE j == Len(x) + i
    <2>1. j \in 1 .. Len(w) + Len(z) /\ j <= Len(w) /\ j \in 1 .. Len(x) + Len(y)
          /\ ~(j <= Len(x)) /\ j - Len(x) = i
      BY <1>1, <1>3
    <2> HIDE DEF j
    <2>2. m[j] = w[j]
      BY <1>2, <2>1
    <2>3. w[j] = y[j - Len(x)]
      BY <1>1, <2>1
    <2> QED
      BY <2>1, <2>2, <2>3 DEF j
  <1>6. IsPrefix(x, m)
    <2> DEFINE k == Len(x)
               sx == SubSeq(x, 1, k)
               sm == SubSeq(m, 1, k)
    <2>1. k \in Int /\ k <= Len(m) /\ \A i \in 1 .. k : x[i] \in S /\ m[i] \in S
      BY <1>1, <1>2, <1>3, ElementOfSeq, <1>4
    <2>2. /\ sx \in Seq(S) /\ Len(sx) = IF 1 <= k THEN k - 1 + 1 ELSE 0
          /\ \A i \in 1 .. k - 1 + 1 : sx[i] = x[1 + i - 1]
      BY <2>1, SubSeqProperties
    <2>3. /\ sm \in Seq(S) /\ Len(sm) = IF 1 <= k THEN k - 1 + 1 ELSE 0
          /\ \A i \in 1 .. k - 1 + 1 : sm[i] = m[1 + i - 1]
      BY <2>1, SubSeqProperties
    <2> HIDE DEF sx, sm, k
    <2>4. k \in Nat /\ \A i \in 1 .. k : m[i] = x[i]
      BY <1>3, <1>4 DEF k
    <2>5. Len(sx) = Len(sm) /\ Len(sx) = k /\ k - 1 + 1 = k
      BY <2>2, <2>3, <2>4
    <2>6. ASSUME NEW i \in 1 .. k PROVE sx[i] = sm[i]
      <3>1. 1 + i - 1 = i /\ i \in 1 .. k - 1 + 1
        BY <2>4
      <3> QED
        BY <3>1, <2>2, <2>3, <2>4
    <2>7. sx = sm
      BY <2>2, <2>3, <2>5, <2>6, SeqEqual
    <2> QED
      BY <2>1, <2>7 DEF IsPrefix, sx, sm, k
  <1> QED
    BY <1>1, <1>2, <1>5, <1>6 DEF m, w, Flow

-----------------------------------------------------------------------------
(* Types.                                                                   *)

\* The types hold at the start.
LEMMA Ps2InitTypeOK == Ps2Init => Ps2TypeOK
  <1> SUFFICES ASSUME Ps2Init PROVE Ps2TypeOK
    OBVIOUS
  <1>1. Len(Script) = 20
    BY DEF Script
  <1> QED
    <2>1. /\ mouse_byte \in [0 .. 2 -> 0 .. 255] /\ mouse_x \in 0 .. 639 /\ mouse_buttons \in 0 .. 7
          /\ mouse_cycle \in 0 .. 2 /\ step \in 1 .. 20 /\ status \in 0 .. 255
      BY DEF Ps2Init
    <2>2. port \in [full : BOOLEAN, aux : BOOLEAN, byte : 0 .. 255, request : BOOLEAN]
      BY DEF Ps2Init
    <2>3. config \in 0 .. 255 /\ reporting \in BOOLEAN /\ noisy \in BOOLEAN
      BY Ps2Assumption DEF Ps2Init
    <2>4. /\ ctlQueue \in Seq(0 .. 255) /\ kbdQueue \in Seq(0 .. 255) /\ auxQueue \in Seq(0 .. 255)
          /\ typed \in Seq(0 .. 255) /\ keysTaken \in Seq(0 .. 255)
          /\ moved \in Seq(0 .. 255) /\ bytesTaken \in Seq(0 .. 255)
      BY DEF Ps2Init
    <2> QED
      BY <1>1, <2>1, <2>2, <2>3, <2>4 DEF Ps2TypeOK

\* inb(0x60) frees the port and leaves its value.
LEMMA FreedPort ==
  ASSUME port \in [full : BOOLEAN, aux : BOOLEAN, byte : 0 .. 255, request : BOOLEAN], ReadPort
  PROVE  /\ port' \in [full : BOOLEAN, aux : BOOLEAN, byte : 0 .. 255, request : BOOLEAN]
         /\ ~port'.full /\ ~port'.request /\ port'.aux = port.aux /\ port'.byte = port.byte
  BY DEF ReadPort

\* What a Load does, in the three ways the output byte is filled.
FromController ==
    /\ ctlQueue # <<>> /\ ctlQueue' = Tail(ctlQueue) /\ UNCHANGED <<kbdQueue, auxQueue>>
    /\ ~port'.aux /\ port'.byte = Head(ctlQueue)
FromKeyboard ==
    /\ ctlQueue = <<>> /\ kbdQueue # <<>> /\ kbdQueue' = Tail(kbdQueue)
    /\ UNCHANGED <<ctlQueue, auxQueue>>
    /\ ~port'.aux /\ port'.byte = Head(kbdQueue) /\ port'.request = Bit(config, 1)
FromMouse ==
    /\ ctlQueue = <<>> /\ auxQueue # <<>> /\ ~Bit(config, 32) /\ auxQueue' = Tail(auxQueue)
    /\ UNCHANGED <<ctlQueue, kbdQueue>>
    /\ port'.aux /\ port'.byte = Head(auxQueue) /\ port'.request = Bit(config, 2)

\* Load fills the free port in one of the three ways.
LEMMA LoadIs ==
  ASSUME Ps2TypeOK, Load
  PROVE  /\ ~port.full /\ port'.full
         /\ port' \in [full : BOOLEAN, aux : BOOLEAN, byte : 0 .. 255, request : BOOLEAN]
         /\ UNCHANGED <<thread, config, reporting, mouse, history>>
         /\ FromController \/ FromKeyboard \/ FromMouse
  <1>1. /\ Bit(config, 1) \in BOOLEAN /\ Bit(config, 2) \in BOOLEAN
        /\ ctlQueue \in Seq(Byte) /\ kbdQueue \in Seq(Byte) /\ auxQueue \in Seq(Byte)
    BY DEF Bit, Ps2TypeOK, Byte
  <1>2. /\ ctlQueue # <<>> => Head(ctlQueue) \in Byte
        /\ kbdQueue # <<>> => Head(kbdQueue) \in Byte
        /\ auxQueue # <<>> => Head(auxQueue) \in Byte
    BY <1>1, HeadTailProperties
  <1>3. ~port.full /\ UNCHANGED <<thread, config, reporting, mouse, history>>
    BY DEF Load
  <1>4. CASE /\ ctlQueue # <<>>
             /\ FillPort(FALSE, Head(ctlQueue), FALSE) \/ FillPort(FALSE, Head(ctlQueue), Bit(config, 1))
             /\ ctlQueue' = Tail(ctlQueue) /\ UNCHANGED <<kbdQueue, auxQueue>>
    <2>1. /\ port' \in [full : BOOLEAN, aux : BOOLEAN, byte : 0 .. 255, request : BOOLEAN]
          /\ port'.full /\ ~port'.aux /\ port'.byte = Head(ctlQueue)
      <3>1. CASE FillPort(FALSE, Head(ctlQueue), FALSE)
        BY <1>2, <1>4, <3>1 DEF FillPort, Byte
      <3>2. CASE FillPort(FALSE, Head(ctlQueue), Bit(config, 1))
        BY <1>1, <1>2, <1>4, <3>2 DEF FillPort, Byte
      <3> QED
        BY <1>4, <3>1, <3>2
    <2> QED
      BY <1>3, <1>4, <2>1 DEF FromController
  <1>5. CASE /\ ctlQueue = <<>> /\ kbdQueue # <<>>
             /\ FillPort(FALSE, Head(kbdQueue), Bit(config, 1))
             /\ kbdQueue' = Tail(kbdQueue) /\ UNCHANGED <<ctlQueue, auxQueue>>
    <2>1. /\ port' \in [full : BOOLEAN, aux : BOOLEAN, byte : 0 .. 255, request : BOOLEAN]
          /\ port'.full /\ ~port'.aux /\ port'.byte = Head(kbdQueue) /\ port'.request = Bit(config, 1)
      BY <1>1, <1>2, <1>5 DEF FillPort, Byte
    <2> QED
      BY <1>3, <1>5, <2>1 DEF FromKeyboard
  <1>6. CASE /\ ctlQueue = <<>> /\ auxQueue # <<>> /\ ~Bit(config, 32)
             /\ FillPort(TRUE, Head(auxQueue), Bit(config, 2))
             /\ auxQueue' = Tail(auxQueue) /\ UNCHANGED <<ctlQueue, kbdQueue>>
    <2>1. /\ port' \in [full : BOOLEAN, aux : BOOLEAN, byte : 0 .. 255, request : BOOLEAN]
          /\ port'.full /\ port'.aux /\ port'.byte = Head(auxQueue) /\ port'.request = Bit(config, 2)
      BY <1>1, <1>2, <1>6 DEF FillPort, Byte
    <2> QED
      BY <1>3, <1>6, <2>1 DEF FromMouse
  <1> QED
    BY <1>4, <1>5, <1>6 DEF Load

\* A packet moves the pointer within the 640 columns.
LEMMA PointerStays ==
  ASSUME NEW x \in 0 .. 639, NEW flag \in BOOLEAN, NEW b \in Byte
  PROVE  Clamped(x + Accelerated(Delta(flag, b))) \in 0 .. 639
  <1>1. Delta(flag, b) \in Int
    BY DEF Delta, Signed, Byte
  <1> DEFINE d == Delta(flag, b)
  <1> HIDE DEF d
  <1>2. Accelerated(d) \in Int
    BY <1>1 DEF Accelerated, d
  <1> DEFINE a == x + Accelerated(d)
  <1>3. a \in Int
    BY <1>2
  <1> HIDE DEF a
  <1>4. Clamped(a) \in 0 .. 639
    BY <1>3 DEF Clamped
  <1> QED
    BY <1>4 DEF a, d

\* A byte stored keeps the types of the packet and the pointer.
LEMMA StoredTypes ==
  ASSUME Ps2TypeOK, MouseByteStored(port.byte)
  PROVE  /\ mouse_cycle' \in 0 .. 2 /\ mouse_byte' \in [0 .. 2 -> 0 .. 255]
         /\ mouse_x' \in 0 .. 639 /\ mouse_buttons' \in 0 .. 7
  <1>1. /\ mouse_cycle \in 0 .. 2 /\ mouse_x \in 0 .. 639 /\ mouse_buttons \in 0 .. 7
        /\ port.byte \in 0 .. 255 /\ mouse_byte \in [0 .. 2 -> 0 .. 255]
    BY DEF Ps2TypeOK
  <1> DEFINE packet == [mouse_byte EXCEPT ![mouse_cycle] = port.byte]
  <1>2. packet \in [0 .. 2 -> 0 .. 255] /\ mouse_byte' = packet
    BY <1>1 DEF MouseByteStored
  <1>3. packet[0] \in Byte /\ packet[1] \in Byte /\ Bit(packet[0], 16) \in BOOLEAN
    BY <1>2 DEF Byte, Bit
  <1>4. CASE mouse_cycle < 2
    BY <1>1, <1>2, <1>4 DEF MouseByteStored
  <1>5. CASE ~(mouse_cycle < 2)
    <2>1. /\ mouse_cycle' = CycleAfter(packet) /\ mouse_buttons' = packet[0] % 8
          /\ mouse_x' = IF Overflow(packet[0]) THEN mouse_x
                        ELSE Clamped(mouse_x + Accelerated(Delta(Bit(packet[0], 16), packet[1])))
      BY <1>5 DEF MouseByteStored
    <2> HIDE DEF packet
    <2>2. mouse_x' \in 0 .. 639
      BY <2>1, <1>1, <1>3, PointerStays
    <2>3. packet[0] % 8 \in 0 .. 7
      BY <1>3 DEF Byte
    <2> QED
      BY <2>1, <2>2, <2>3, <1>2 DEF CycleAfter
  <1> QED
    BY <1>4, <1>5

\* Every step keeps the types.
LEMMA Ps2NextTypeOK == Ps2TypeOK /\ [Ps2Next]_ps2 => Ps2TypeOK'
  <1> SUFFICES ASSUME Ps2TypeOK, [Ps2Next]_ps2 PROVE Ps2TypeOK'
    OBVIOUS
  <1> USE DEF thread, controller, mouse, history
  <1>0. /\ step \in 1 .. 20 /\ Len(Script) = 20
        /\ config \in Byte /\ status \in Byte /\ port.byte \in Byte
        /\ ctlQueue \in Seq(Byte) /\ kbdQueue \in Seq(Byte) /\ auxQueue \in Seq(Byte)
        /\ typed \in Seq(Byte) /\ keysTaken \in Seq(Byte)
        /\ moved \in Seq(Byte) /\ bytesTaken \in Seq(Byte)
    BY DEF Ps2TypeOK, Script, Byte
  <1>1. ASSUME NEW s \in Scancodes, Key(s) PROVE Ps2TypeOK'
    <2>1. s \in Byte
      BY Ps2Assumption DEF Byte
    <2>2. kbdQueue' \in Seq(Byte) /\ typed' \in Seq(Byte)
      BY <1>0, <1>1, <2>1, AppendProperties DEF Key
    <2> QED
      BY <1>1, <2>2 DEF Key, Ps2TypeOK, MouseReady, Byte
  <1>2. ASSUME NEW p \in Packets, Move(p) PROVE Ps2TypeOK'
    <2>1. auxQueue' \in Seq(Byte) /\ moved' \in Seq(Byte)
      BY <1>0, <1>2, PacketIs, ConcatProperties DEF Move
    <2> QED
      BY <1>2, <2>1 DEF Move, Ps2TypeOK, MouseReady, Byte
  <1>3. CASE Load
    <2>1. ctlQueue' \in Seq(Byte) /\ kbdQueue' \in Seq(Byte) /\ auxQueue' \in Seq(Byte)
      BY <1>0, <1>3, LoadIs, HeadTailProperties DEF FromController, FromKeyboard, FromMouse
    <2>2. /\ port' \in [full : BOOLEAN, aux : BOOLEAN, byte : 0 .. 255, request : BOOLEAN]
          /\ UNCHANGED <<thread, config, reporting, mouse, history>>
      BY <1>3, LoadIs
    <2> QED
      BY <2>1, <2>2 DEF Ps2TypeOK, Byte
  <1>4. ASSUME NEW ready, Unhandled(ready) PROVE Ps2TypeOK'
    BY <1>4 DEF Unhandled, Ps2TypeOK
  <1>5. CASE Irq1
    <2>1. CASE ReadPort /\ keysTaken' = Append(keysTaken, port.byte)
               /\ UNCHANGED <<thread, config, ctlQueue, kbdQueue, auxQueue, reporting, mouse,
                      noisy, typed, moved, bytesTaken>>
      <3>1. keysTaken' \in Seq(Byte)
        BY <1>0, <2>1, AppendProperties
      <3>2. port' \in [full : BOOLEAN, aux : BOOLEAN, byte : 0 .. 255, request : BOOLEAN]
        BY <2>1, FreedPort DEF Ps2TypeOK
      <3> QED
        BY <2>1, <3>1, <3>2 DEF Ps2TypeOK, Byte
    <2> QED
      BY <1>4, <1>5, <2>1 DEF Irq1
  <1>6. CASE Irq12
    <2>1. CASE /\ ReadPort /\ bytesTaken' = Append(bytesTaken, port.byte)
               /\ MouseByteDropped(port.byte) \/ MouseByteStored(port.byte)
               /\ UNCHANGED <<thread, config, ctlQueue, kbdQueue, auxQueue, reporting,
                      noisy, typed, keysTaken, moved>>
      <3>1. bytesTaken' \in Seq(Byte)
        BY <1>0, <2>1, AppendProperties
      <3>2. port' \in [full : BOOLEAN, aux : BOOLEAN, byte : 0 .. 255, request : BOOLEAN]
        BY <2>1, FreedPort DEF Ps2TypeOK
      <3>3. /\ mouse_cycle' \in 0 .. 2 /\ mouse_byte' \in [0 .. 2 -> 0 .. 255]
            /\ mouse_x' \in 0 .. 639 /\ mouse_buttons' \in 0 .. 7
        <4>1. CASE MouseByteDropped(port.byte)
          BY <4>1 DEF MouseByteDropped, Ps2TypeOK
        <4> QED
          BY <2>1, <4>1, StoredTypes
      <3> QED
        BY <2>1, <3>1, <3>2, <3>3 DEF Ps2TypeOK, Byte
    <2> QED
      BY <1>4, <1>6, <2>1 DEF Irq12
  <1>7. CASE Thread
    <2>1. ASSUME NEW op \in {"keyboard_init", "enable_aux", "ask_config", "wait", "read_config",
                            "write_config", "defaults", "ack", "enable", "rate", "100", "install"},
                 Step(op)
          PROVE  step' \in 1 .. Len(Script)
      BY <1>0, <2>1, ScriptIs DEF Step
    <2>2. CASE KeyboardInit \/ Install \/ MouseWait
      <3>1. /\ step' \in 1 .. Len(Script)
            /\ UNCHANGED <<status, controller, reporting, mouse, history>>
        BY <2>1, <2>2 DEF KeyboardInit, Install, MouseWait, Others
      <3> QED
        BY <3>1 DEF Ps2TypeOK
    <2>3. CASE EnableAux
      BY <1>0, <2>1, <2>3, ClearsAux DEF EnableAux, Others, Ps2TypeOK, Byte
    <2>4. CASE AskConfig
      <3>1. ctlQueue' \in Seq(Byte)
        BY <1>0, <2>4, AppendProperties DEF AskConfig
      <3> QED
        BY <2>1, <2>4, <3>1 DEF AskConfig, Others, Ps2TypeOK, Byte
    <2>5. CASE ReadConfig
      <3>1. port' \in [full : BOOLEAN, aux : BOOLEAN, byte : 0 .. 255, request : BOOLEAN]
        BY <2>5, FreedPort DEF ReadConfig, Ps2TypeOK
      <3> QED
        BY <1>0, <2>1, <2>5, <3>1 DEF ReadConfig, Others, Ps2TypeOK, Byte
    <2>6. CASE WriteConfig
      BY <1>0, <2>1, <2>6, SetsIrq12 DEF WriteConfig, Others, Ps2TypeOK, Byte
    <2>7. ASSUME NEW op \in {"defaults", "enable", "rate", "100"}, MouseWrite(op) PROVE Ps2TypeOK'
      <3>1. auxQueue' \in Seq(Byte)
        <4>1. ACK \in Byte
          BY DEF ACK, Byte
        <4> QED
          BY <1>0, <2>7, <4>1, AppendProperties DEF MouseWrite
      <3>2. step' \in 1 .. Len(Script) /\ reporting' \in BOOLEAN
        BY <2>1, <2>7 DEF MouseWrite, Ps2TypeOK
      <3> QED
        BY <2>7, <3>1, <3>2 DEF MouseWrite, Others, Ps2TypeOK, Byte
    <2>8. CASE MouseRead
      <3>1. port' \in [full : BOOLEAN, aux : BOOLEAN, byte : 0 .. 255, request : BOOLEAN]
        BY <2>8, FreedPort DEF MouseRead, Ps2TypeOK
      <3> QED
        BY <2>1, <2>8, <3>1 DEF MouseRead, Others, Ps2TypeOK, Byte
    <2> QED
      BY <1>7, <2>2, <2>3, <2>4, <2>5, <2>6, <2>7, <2>8 DEF Thread
  <1>8. CASE UNCHANGED ps2
    BY <1>8 DEF ps2, Ps2TypeOK
  <1> QED
    BY <1>1, <1>2, <1>3, <1>5, <1>6, <1>7, <1>8 DEF Ps2Next, Idle

-----------------------------------------------------------------------------
(* Before mouse_init is done.                                               *)

\* Nothing has happened yet.
LEMMA Ps2InitIInv == Ps2Init => Ps2IInv
  <1> SUFFICES ASSUME Ps2Init PROVE Ps2IInv
    OBVIOUS
  <1>1. Ps2TypeOK /\ step = 1 /\ ~MouseReady
    BY Ps2InitTypeOK DEF Ps2Init, MouseReady, Script
  <1>2. Booting
    BY <1>1 DEF Ps2Init, Booting, Silent, Cold, Asking, Acknowledged
  <1>3. LinesOn
    BY <1>1, Ps2Assumption DEF Ps2Init, LinesOn
  <1> QED
    BY <1>1, <1>2, <1>3 DEF Ps2IInv, Ps2Init

\* The configuration byte is changed by two steps only.
LEMMA LinesStayOn ==
  ASSUME Ps2TypeOK, LinesOn, ~MouseReady => Booting, ~noisy', [Ps2Next]_ps2
  PROVE  LinesOn'
  <1> USE DEF thread, controller, mouse, history
  <1>0. step \in 1 .. 20 /\ config \in Byte /\ status \in Byte
    BY DEF Ps2TypeOK, Script, Byte
  <1>1. CASE UNCHANGED <<step, config>>
    BY <1>1 DEF LinesOn
  <1>2. CASE UNCHANGED config /\ step' = step + 1 /\ step \notin {2, 6}
    BY <1>0, <1>2 DEF LinesOn
  <1>3. CASE EnableAux
    <2>1. step = 2 /\ step' = 3 /\ config' = ClearBit(config, 32)
      BY <1>0, <1>3, ScriptIs DEF EnableAux, Step
    <2>2. ~Bit(config', 32) /\ Bit(config', 1)
      BY <1>0, <2>1, ClearsAux DEF LinesOn
    <2> QED
      BY <2>1, <2>2 DEF LinesOn
  <1>4. CASE WriteConfig
    <2>1. step = 6 /\ step' = 7 /\ config' = ConfigWritten(status)
      BY <1>0, <1>4, ScriptIs DEF WriteConfig, Step
    <2>2. status = config
      BY <1>0, <2>1, ScriptIs DEF Booting, Acknowledged, MouseReady
    <2>3. ~Bit(config', 32) /\ Bit(config', 1) /\ Bit(config', 2)
      BY <1>0, <2>1, <2>2, SetsIrq12 DEF LinesOn
    <2> QED
      BY <2>1, <2>3 DEF LinesOn
  <1>5. ASSUME NEW op \in {"keyboard_init", "ask_config", "wait", "read_config",
                          "defaults", "ack", "enable", "rate", "100", "install"}, Step(op)
        PROVE  step' = step + 1 /\ step \notin {2, 6}
    BY <1>0, <1>5, ScriptIs DEF Step
  <1>6. CASE Thread
    BY <1>2, <1>3, <1>4, <1>5, <1>6 DEF Thread, KeyboardInit, AskConfig, MouseWait, ReadConfig,
       MouseWrite, MouseRead, Install
  <1>7. CASE UNCHANGED ps2
    BY <1>1, <1>7 DEF ps2
  <1>8. ASSUME NEW s \in Scancodes, Key(s) PROVE UNCHANGED <<step, config>>
    BY <1>8 DEF Key
  <1>9. ASSUME NEW p \in Packets, Move(p) PROVE UNCHANGED <<step, config>>
    BY <1>9 DEF Move
  <1>10. CASE Load \/ Irq1 \/ Irq12
    BY <1>1, <1>10 DEF Load, Irq1, Irq12, Unhandled
  <1> QED
    BY <1>1, <1>6, <1>7, <1>8, <1>9, <1>10 DEF Ps2Next, Idle

\* A free output byte is filled.
LEMMA LoadBooting ==
  ASSUME Ps2TypeOK, ~MouseReady, Booting, Load
  PROVE  Booting'
  <1> USE DEF thread, controller, mouse, history
  <1>1. /\ ~port.full /\ port'.full
        /\ UNCHANGED <<step, status, config, reporting, mouse, history>>
        /\ FromController \/ FromKeyboard \/ FromMouse
    BY LoadIs
  <1>2. step \in 1 .. 20
    BY DEF Ps2TypeOK, Script
  <1>3. CASE FromController
    <2>1. step = 4 /\ ctlQueue = <<config>> /\ keysTaken = <<>>
      BY <1>2, <1>3 DEF FromController, Booting, Cold, Asking, Answered, Acknowledged
    <2>2. Head(ctlQueue) = config /\ Tail(ctlQueue) = <<>>
      BY <2>1
    <2>3. Answered'
      BY <1>1, <1>3, <2>1, <2>2 DEF FromController, Answered
    <2>4. Silent' /\ auxQueue' = <<>> /\ step' = 4
      BY <1>1, <1>3, <2>1 DEF FromController, Booting, Silent, Asking
    <2> QED
      BY <2>3, <2>4 DEF Booting, Cold, Asking, Acknowledged
  <1>4. CASE FromKeyboard
    BY <1>4 DEF FromKeyboard, Booting, Silent
  <1>5. CASE FromMouse
    <2>1. step \in {8, 11, 14, 17} /\ auxQueue = <<ACK>> /\ ctlQueue = <<>>
      <3>1. ctlQueue = <<>> /\ auxQueue # <<>> /\ ~port.full
        BY <1>1, <1>5 DEF FromMouse
      <3>2. step >= 6
        BY <1>2, <3>1 DEF Booting, Cold, Asking
      <3>3. step \in {8, 11, 14, 17} /\ (AckDue \/ AckStands)
        <4>1. step # 20
          BY <1>2, ScriptIs DEF MouseReady
        <4> QED
          BY <1>2, <3>1, <3>2, <4>1 DEF Booting, Acknowledged, AckStands
      <3> QED
        BY <3>1, <3>3 DEF AckDue, AckStands
    <2>2. Tail(auxQueue) = <<>>
      BY <2>1
    <2>3. AckStands'
      BY <1>1, <1>5, <2>2 DEF FromMouse, AckStands
    <2>4. Silent' /\ ctlQueue' = <<>> /\ step' \in {8, 11, 14, 17}
          /\ (keysTaken = <<>> \/ keysTaken = <<status>>)'
      BY <1>1, <1>5, <2>1 DEF FromMouse, Booting, Silent, Acknowledged
    <2> QED
      BY <2>3, <2>4 DEF Booting, Cold, Asking, Acknowledged
  <1> QED
    BY <1>1, <1>3, <1>4, <1>5

\* Either interrupt finds a byte only where mouse_init waits for one.
LEMMA IrqBooting ==
  ASSUME Ps2TypeOK, ~MouseReady, Booting, Irq1 \/ Irq12
  PROVE  Booting'
  <1> USE DEF thread, controller, mouse, history
  <1>1. step \in 1 .. 19
    BY ScriptIs DEF Ps2TypeOK, Script, MouseReady
  <1>2. CASE port.full /\ UNCHANGED <<thread, config, ctlQueue, kbdQueue, auxQueue, mouse, history>>
             /\ port'.full = port.full /\ port'.aux = port.aux /\ port'.byte = port.byte
    BY <1>2 DEF Booting, Silent, Cold, Asking, Answered, Acknowledged, AckDue, AckStands
  <1>3. ASSUME NEW ready, Unhandled(ready)
        PROVE  port.full /\ UNCHANGED <<thread, config, ctlQueue, kbdQueue, auxQueue, mouse, history>>
               /\ port'.full = port.full /\ port'.aux = port.aux /\ port'.byte = port.byte
    BY <1>3 DEF Unhandled, Ps2TypeOK
  <1>4. CASE /\ port.full /\ port.request /\ ~port.aux /\ ReadPort
             /\ keysTaken' = Append(keysTaken, port.byte)
             /\ UNCHANGED <<thread, config, ctlQueue, kbdQueue, auxQueue, reporting, mouse,
                      noisy, typed, moved, bytesTaken>>
    <2>1. step \in {4, 5} /\ Answered /\ keysTaken = <<>> /\ auxQueue = <<>>
      BY <1>1, <1>4 DEF Booting, Cold, Asking, Answered, Acknowledged, AckDue, AckStands
    <2>2. ~port'.full /\ port'.byte = port.byte
      BY <1>4, FreedPort DEF Ps2TypeOK
    <2>3. keysTaken' = <<config>>
      BY <1>4, <2>1 DEF Answered
    <2>4. Answered'
      BY <1>4, <2>1, <2>2, <2>3 DEF Answered
    <2>5. Silent' /\ auxQueue' = <<>> /\ step' \in {4, 5}
      BY <1>4, <2>1 DEF Booting, Silent
    <2> QED
      BY <2>4, <2>5 DEF Booting, Cold, Asking, Acknowledged
  <1> QED
    BY <1>2, <1>3, <1>4 DEF Irq1, Irq12

\* mouse_init, access by access.
LEMMA ThreadBooting ==
  ASSUME Ps2TypeOK, ~MouseReady, Booting, LinesOn, Thread
  PROVE  Booting'
  <1> USE DEF thread, controller, mouse, history
  <1>1. step \in 1 .. 19
    <2>1. step \in 1 .. 20
      BY DEF Ps2TypeOK, Script
    <2>2. step # 20
      BY <2>1, ScriptIs DEF MouseReady
    <2> QED
      BY <2>1, <2>2
  <1>2. Thread => step' = step + 1 /\ UNCHANGED <<mouse, history>>
    BY DEF Thread, KeyboardInit, EnableAux, AskConfig, MouseWait, ReadConfig, WriteConfig,
       MouseWrite, MouseRead, Install, Step, Others
  <1>3. CASE KeyboardInit
    BY <1>1, <1>3, ScriptIs DEF KeyboardInit, Others, Step, Booting, Silent, Cold, Asking, Acknowledged
  <1>4. CASE EnableAux
    BY <1>1, <1>4, ScriptIs DEF EnableAux, Others, Step, Booting, Silent, Cold, Asking, Acknowledged
  <1>5. CASE AskConfig
    <2>1. step = 3 /\ step' = 4 /\ UNCHANGED <<status, config, port, kbdQueue, auxQueue, mouse, history>>
      BY <1>1, <1>5, ScriptIs DEF AskConfig, Others, Step
    <2>2. ctlQueue' = <<config>>
      BY <1>5, <2>1 DEF AskConfig, Booting, Cold
    <2> QED
      BY <2>1, <2>2 DEF Booting, Silent, Cold, Asking, Acknowledged
  <1>6. CASE MouseWait
    <2>1. step \in {4, 8, 11, 14, 17} /\ step' = step + 1 /\ (port.full \/ TimesOut)
          /\ UNCHANGED <<status, controller, mouse, history>>
      BY <1>1, <1>6, ScriptIs DEF MouseWait, Others, Step
    <2>2. CASE step = 4
      <3>1. Answered
        BY <2>1, <2>2 DEF Booting, Asking, TimesOut
      <3>2. Answered' /\ Silent' /\ auxQueue' = <<>> /\ step' = 5
        BY <2>1, <2>2, <3>1 DEF Booting, Silent, Asking, Answered
      <3> QED
        BY <3>2 DEF Booting, Cold, Asking, Acknowledged
    <2>3. CASE step # 4
      <3>1. AckStands
        BY <2>1, <2>3 DEF Booting, Acknowledged, AckDue, TimesOut, LinesOn
      <3>2. AckStands' /\ Silent' /\ ctlQueue' = <<>> /\ step' \in {9, 12, 15, 18}
            /\ (keysTaken = <<>> \/ keysTaken = <<status>>)'
        BY <2>1, <2>3, <3>1 DEF Booting, Silent, Acknowledged, AckStands
      <3> QED
        BY <3>2 DEF Booting, Cold, Asking, Acknowledged
    <2> QED
      BY <2>2, <2>3
  <1>7. CASE ReadConfig
    <2>1. step = 5 /\ step' = 6 /\ status' = port.byte /\ ~port'.full
          /\ UNCHANGED <<config, ctlQueue, kbdQueue, auxQueue, mouse, history>>
      BY <1>1, <1>7, ScriptIs, FreedPort DEF ReadConfig, Others, Step, Ps2TypeOK
    <2>2. Silent' /\ ctlQueue' = <<>> /\ auxQueue' = <<>> /\ status' = config'
          /\ (keysTaken = <<>> \/ keysTaken = <<status>>)'
      BY <2>1 DEF Booting, Silent, Asking, Answered
    <2> QED
      BY <2>1, <2>2 DEF Booting, Cold, Asking, Acknowledged
  <1>8. CASE WriteConfig
    <2>1. step = 6 /\ step' = 7
          /\ UNCHANGED <<status, port, ctlQueue, kbdQueue, auxQueue, mouse, history>>
      BY <1>1, <1>8, ScriptIs DEF WriteConfig, Others, Step
    <2> QED
      BY <2>1 DEF Booting, Silent, Cold, Asking, Acknowledged
  <1>9. ASSUME NEW op \in {"defaults", "enable", "rate", "100"}, MouseWrite(op) PROVE Booting'
    <2>1. step \in {7, 10, 13, 16} /\ step' = step + 1 /\ auxQueue' = Append(auxQueue, ACK)
          /\ UNCHANGED <<status, config, port, ctlQueue, kbdQueue, mouse, history>>
      BY <1>1, <1>9, ScriptIs DEF MouseWrite, Others, Step
    <2>2. auxQueue = <<>> /\ ~port.full
      BY <2>1 DEF Booting, Acknowledged
    <2>3. AckDue'
      BY <2>1, <2>2 DEF AckDue
    <2>4. Silent' /\ ctlQueue' = <<>> /\ step' \in {8, 11, 14, 17}
          /\ (keysTaken = <<>> \/ keysTaken = <<status>>)'
      BY <2>1 DEF Booting, Silent, Acknowledged
    <2> QED
      BY <2>3, <2>4 DEF Booting, Cold, Asking, Acknowledged
  <1>10. CASE MouseRead
    <2>1. step \in {9, 12, 15, 18} /\ step' = step + 1 /\ ~port'.full
          /\ UNCHANGED <<status, config, ctlQueue, kbdQueue, auxQueue, mouse, history>>
      BY <1>1, <1>10, ScriptIs, FreedPort DEF MouseRead, Others, Step, Ps2TypeOK
    <2>2. Silent' /\ ctlQueue' = <<>> /\ auxQueue' = <<>> /\ step' \in {10, 13, 16, 19}
          /\ (keysTaken = <<>> \/ keysTaken = <<status>>)'
      BY <2>1 DEF Booting, Silent, Acknowledged, AckStands
    <2> QED
      BY <2>1, <2>2 DEF Booting, Cold, Asking, Acknowledged
  <1>11. CASE Install
    <2>1. step = 19 /\ step' = 20 /\ UNCHANGED <<status, controller, mouse, history>>
      BY <1>1, <1>11, ScriptIs DEF Install, Others, Step
    <2> QED
      BY <2>1 DEF Booting, Silent, Cold, Asking, Acknowledged
  <1> QED
    BY <1>3, <1>4, <1>5, <1>6, <1>7, <1>8, <1>9, <1>10, <1>11 DEF Thread

-----------------------------------------------------------------------------
(* After mouse_init is done.                                                *)

\* What the keyboard handler took of the keyboard's bytes: all it read, or all
\* but the configuration byte.
Keystrokes(k) ==
    \/ k = keysTaken
    \/ keysTaken # <<>> /\ Head(keysTaken) = status /\ k = Tail(keysTaken)

\* In either case the keyboard's stream is whole.
LEMMA KeyboardStream ==
  ASSUME Ps2TypeOK, Running
  PROVE  \E k \in Seq(Byte) : Keystrokes(k) /\ typed = Flow(k, InPort(FALSE), kbdQueue)
  <1>1. keysTaken \in Seq(Byte)
    BY DEF Ps2TypeOK, Byte
  <1>2. keysTaken # <<>> => Tail(keysTaken) \in Seq(Byte)
    BY <1>1, HeadTailProperties
  <1>3. CASE typed = Flow(keysTaken, InPort(FALSE), kbdQueue)
    BY <1>1, <1>3 DEF Keystrokes
  <1>4. CASE /\ keysTaken # <<>> /\ Head(keysTaken) = status
             /\ typed = Flow(Tail(keysTaken), InPort(FALSE), kbdQueue)
    BY <1>2, <1>4 DEF Keystrokes
  <1> QED
    BY <1>3, <1>4 DEF Running

\* The port holds a byte of one device, or none.
LEMMA PortBytes ==
  ASSUME Ps2TypeOK
  PROVE  /\ InPort(TRUE) \in Seq(Byte) /\ InPort(FALSE) \in Seq(Byte)
         /\ port.byte \in Byte /\ port.full \in BOOLEAN /\ port.aux \in BOOLEAN
         /\ ~port.full => InPort(TRUE) = <<>> /\ InPort(FALSE) = <<>>
         /\ port.full /\ port.aux => InPort(TRUE) = <<port.byte>> /\ InPort(FALSE) = <<>>
         /\ port.full /\ ~port.aux => InPort(TRUE) = <<>> /\ InPort(FALSE) = <<port.byte>>
  <1>1. port.byte \in Byte /\ port.full \in BOOLEAN /\ port.aux \in BOOLEAN
    BY DEF Ps2TypeOK, Byte
  <1>2. CASE ~port.full
    BY <1>1, <1>2, EmptySeq DEF InPort
  <1>3. CASE port.full /\ port.aux
    BY <1>1, <1>3, EmptySeq DEF InPort
  <1>4. CASE port.full /\ ~port.aux
    BY <1>1, <1>4, EmptySeq DEF InPort
  <1> QED
    BY <1>1, <1>2, <1>3, <1>4

\* mouse_init ends with nothing on its way.
LEMMA RunningStarts ==
  ASSUME Ps2TypeOK, Booting, step = 19, Install
  PROVE  Running'
  <1>1. UNCHANGED <<status, config, port, ctlQueue, kbdQueue, auxQueue, mouse_cycle, typed, keysTaken,
                    moved, bytesTaken>>
    BY DEF Install, Others, controller, mouse, history
  <1>2. /\ ~port.full /\ ctlQueue = <<>> /\ auxQueue = <<>> /\ kbdQueue = <<>>
        /\ typed = <<>> /\ moved = <<>> /\ bytesTaken = <<>> /\ mouse_cycle = 0
        /\ keysTaken = <<>> \/ keysTaken = <<status>>
    BY DEF Booting, Silent, Acknowledged
  <1>3. InPort(TRUE)' = <<>> /\ InPort(FALSE)' = <<>>
    BY <1>1, <1>2 DEF InPort
  <1> DEFINE none == <<>>
  <1>4. Flow(none, none, none) = none
    BY JoinNothing, EmptySeq DEF Flow
  <1>5. Len(none) = 0
    OBVIOUS
  <1>6. \/ keysTaken' = none
        \/ keysTaken' # none /\ Head(keysTaken') = status' /\ Tail(keysTaken') = none
    <2>1. CASE keysTaken = <<>>
      BY <1>1, <2>1
    <2>2. CASE keysTaken = <<status>>
      BY <1>1, <2>2
    <2> QED
      BY <1>2, <2>1, <2>2
  <1>7. /\ ctlQueue' = none /\ ~port'.full /\ moved' = none /\ bytesTaken' = none /\ auxQueue' = none
        /\ typed' = none /\ kbdQueue' = none /\ mouse_cycle' = 0
    BY <1>1, <1>2
  <1> HIDE DEF none
  <1>8. moved' = Flow(bytesTaken', InPort(TRUE)', auxQueue')
    BY <1>3, <1>4, <1>7 DEF none
  <1>9. \/ typed' = Flow(keysTaken', InPort(FALSE)', kbdQueue')
        \/ /\ keysTaken' # <<>> /\ Head(keysTaken') = status'
           /\ typed' = Flow(Tail(keysTaken'), InPort(FALSE)', kbdQueue')
    BY <1>3, <1>4, <1>6, <1>7 DEF none
  <1>10. Len(moved') % 3 = 0 /\ mouse_cycle' = Len(bytesTaken') % 3
    BY <1>5, <1>7
  <1>11. Marked'
    BY <1>5, <1>7 DEF Marked
  <1> QED
    BY <1>7, <1>8, <1>9, <1>10, <1>11 DEF Running, none

\* A key is the last byte of its stream.
LEMMA KeyRunning ==
  ASSUME Ps2TypeOK, Running, NEW s \in Scancodes, Key(s)
  PROVE  Running'
  <1>1. /\ typed' = Append(typed, s) /\ kbdQueue' = Append(kbdQueue, s)
        /\ UNCHANGED <<status, port, ctlQueue, auxQueue, mouse_cycle, keysTaken, moved, bytesTaken>>
    BY DEF Key, thread, mouse
  <1>2. PICK k \in Seq(Byte) : Keystrokes(k) /\ typed = Flow(k, InPort(FALSE), kbdQueue)
    BY KeyboardStream
  <1> DEFINE one == <<s>>
             p == InPort(FALSE)
  <1>3. s \in Byte /\ one \in Seq(Byte) /\ kbdQueue \in Seq(Byte) /\ p \in Seq(Byte) /\ typed \in Seq(Byte)
    <2>1. s \in Byte
      BY Ps2Assumption DEF Byte
    <2>2. kbdQueue \in Seq(Byte) /\ typed \in Seq(Byte)
      BY DEF Ps2TypeOK, Byte
    <2>3. p \in Seq(Byte)
      BY PortBytes
    <2>4. one \in Seq(Byte)
      BY <2>1
    <2> QED
      BY <2>1, <2>2, <2>3, <2>4
  <1>4. typed' = Join(typed, one) /\ kbdQueue' = Join(kbdQueue, one)
    BY <1>1, <1>3, JoinOne
  <1>5. InPort(FALSE)' = p /\ InPort(TRUE)' = InPort(TRUE)
    BY <1>1 DEF InPort
  <1> HIDE DEF one, p
  <1>6. typed' = Flow(k, p, kbdQueue')
    <2>1. Join(Flow(k, p, kbdQueue), one) = Flow(k, p, Join(kbdQueue, one))
      <3>1. k \in Seq(Byte) /\ p \in Seq(Byte) /\ kbdQueue \in Seq(Byte) /\ one \in Seq(Byte)
        BY <1>3
      <3> QED
        BY <3>1, FlowGrows
    <2> QED
      BY <1>2, <1>4, <2>1 DEF p
  <1>7. Marked'
    BY <1>1 DEF Running, Marked
  <1> QED
    BY <1>1, <1>2, <1>5, <1>6, <1>7 DEF Running, Keystrokes

\* A packet is the last of its stream, and keeps the marks three bytes apart.
LEMMA MoveRunning ==
  ASSUME Ps2TypeOK, Running, NEW p \in Packets, Move(p)
  PROVE  Running'
  <1>1. /\ moved' = Join(moved, p) /\ auxQueue' = Join(auxQueue, p)
        /\ UNCHANGED <<status, port, ctlQueue, kbdQueue, mouse_cycle, typed, keysTaken, bytesTaken>>
    BY DEF Move, thread, mouse, Join
  <1> DEFINE q == InPort(TRUE)
  <1>2. /\ p \in Seq(Byte) /\ Len(p) = 3 /\ Bit(p[1], 8) /\ q \in Seq(Byte)
        /\ moved \in Seq(Byte) /\ auxQueue \in Seq(Byte) /\ bytesTaken \in Seq(Byte)
    BY PacketIs, PortBytes DEF Ps2TypeOK, Byte
  <1>3. InPort(TRUE)' = q /\ InPort(FALSE)' = InPort(FALSE) /\ moved = Flow(bytesTaken, q, auxQueue)
    BY <1>1 DEF InPort, Running
  <1> HIDE DEF q
  <1>4. moved' = Flow(bytesTaken, q, auxQueue')
    <2>1. Join(Flow(bytesTaken, q, auxQueue), p) = Flow(bytesTaken, q, Join(auxQueue, p))
      <3>1. bytesTaken \in Seq(Byte) /\ q \in Seq(Byte) /\ auxQueue \in Seq(Byte) /\ p \in Seq(Byte)
        BY <1>2
      <3> QED
        BY <3>1, FlowGrows
    <2> QED
      BY <1>1, <1>3, <2>1
  <1>5. /\ Len(moved') = Len(moved) + 3
        /\ \A i \in 1 .. Len(moved) + 3 : moved'[i] = IF i <= Len(moved) THEN moved[i] ELSE p[i - Len(moved)]
    <2>1. moved \in Seq(Byte) /\ p \in Seq(Byte)
      BY <1>2
    <2>2. /\ Len(Join(moved, p)) = Len(moved) + Len(p)
          /\ \A i \in 1 .. Len(moved) + Len(p) :
                Join(moved, p)[i] = IF i <= Len(moved) THEN moved[i] ELSE p[i - Len(moved)]
      BY <2>1, JoinIs
    <2> QED
      BY <1>1, <1>2, <2>2
  <1>6. Len(moved) \in Nat /\ Len(moved) % 3 = 0
    BY <1>2, LenProperties DEF Running
  <1>7. Marked'
    <2> SUFFICES ASSUME NEW i \in 1 .. Len(moved) + 3, i % 3 = 1 PROVE Bit(moved'[i], 8)
      BY <1>5 DEF Marked
    <2>1. CASE i <= Len(moved)
      <3>1. i \in 1 .. Len(moved) /\ moved'[i] = moved[i]
        BY <1>5, <1>6, <2>1
      <3> QED
        BY <3>1 DEF Running, Marked
    <2>2. CASE ~(i <= Len(moved))
      <3>1. i - Len(moved) = 1
        BY <1>6, <2>2
      <3> QED
        BY <1>2, <1>5, <2>2, <3>1
    <2> QED
      BY <2>1, <2>2
  <1>8. Len(moved') % 3 = 0
    BY <1>5, <1>6
  <1> QED
    BY <1>1, <1>3, <1>4, <1>7, <1>8 DEF Running

\* The next byte of either stream enters the port, with its interrupt.
LEMMA LoadRunning ==
  ASSUME Ps2TypeOK, Ps2TypeOK', Running, LinesOn, step = 20, Load
  PROVE  Running'
  <1>1. /\ ~port.full /\ port'.full
        /\ UNCHANGED <<step, status, config, mouse_cycle, typed, keysTaken, moved, bytesTaken>>
        /\ FromController \/ FromKeyboard \/ FromMouse
    BY LoadIs DEF thread, mouse, history
  <1>2. /\ ctlQueue = <<>> /\ Bit(config, 1) /\ Bit(config, 2)
        /\ InPort(TRUE) = <<>> /\ InPort(FALSE) = <<>>
        /\ kbdQueue \in Seq(Byte) /\ auxQueue \in Seq(Byte) /\ bytesTaken \in Seq(Byte)
    <2>1. ctlQueue = <<>> /\ Bit(config, 1) /\ Bit(config, 2)
      BY DEF Running, LinesOn
    <2>2. kbdQueue \in Seq(Byte) /\ auxQueue \in Seq(Byte) /\ bytesTaken \in Seq(Byte)
      BY DEF Ps2TypeOK, Byte
    <2> QED
      BY <1>1, <2>1, <2>2, PortBytes
  <1>3. PICK k \in Seq(Byte) : Keystrokes(k) /\ typed = Flow(k, <<>>, kbdQueue)
    BY <1>2, KeyboardStream
  <1>4. moved = Flow(bytesTaken, <<>>, auxQueue)
    BY <1>2 DEF Running
  <1>5. Marked'
    BY <1>1 DEF Running, Marked
  <1>6. CASE FromKeyboard
    <2>1. /\ kbdQueue # <<>> /\ kbdQueue' = Tail(kbdQueue) /\ UNCHANGED <<ctlQueue, auxQueue>>
          /\ InPort(TRUE)' = <<>> /\ InPort(FALSE)' = <<Head(kbdQueue)>> /\ port'.request
      BY <1>1, <1>2, <1>6 DEF FromKeyboard, InPort
    <2>2. typed' = Flow(k, InPort(FALSE)', kbdQueue')
      BY <1>1, <1>2, <1>3, <2>1, FlowLoads
    <2>3. moved' = Flow(bytesTaken', InPort(TRUE)', auxQueue')
      BY <1>1, <1>4, <2>1
    <2> QED
      BY <1>1, <1>2, <1>3, <1>5, <2>1, <2>2, <2>3 DEF Running, Keystrokes
  <1>7. CASE FromMouse
    <2>1. /\ auxQueue # <<>> /\ auxQueue' = Tail(auxQueue) /\ UNCHANGED <<ctlQueue, kbdQueue>>
          /\ InPort(FALSE)' = <<>> /\ InPort(TRUE)' = <<Head(auxQueue)>> /\ port'.request
      BY <1>1, <1>2, <1>7, PortBytes DEF FromMouse, InPort, Ps2TypeOK
    <2>2. typed' = Flow(k, InPort(FALSE)', kbdQueue')
      BY <1>1, <1>3, <2>1
    <2>3. moved' = Flow(bytesTaken', InPort(TRUE)', auxQueue')
      BY <1>1, <1>2, <1>4, <2>1, FlowLoads
    <2> QED
      BY <1>1, <1>2, <1>3, <1>5, <2>1, <2>2, <2>3 DEF Running, Keystrokes
  <1> QED
    BY <1>1, <1>2, <1>6, <1>7 DEF FromController

\* One more byte, counted in packets.
LEMMA CountOfThree ==
  ASSUME NEW n \in Nat
  PROVE  /\ n % 3 = 0 => (n + 1) % 3 = 1
         /\ n % 3 = 1 => (n + 1) % 3 = 2
         /\ n % 3 = 2 => (n + 1) % 3 = 0
  OBVIOUS

\* The keyboard handler takes the next byte of its stream.
LEMMA Irq1Running ==
  ASSUME Ps2TypeOK, Running, step = 20, Irq1
  PROVE  Running'
  <1>1. /\ port.full /\ port.request /\ ~port.aux /\ ReadPort
        /\ keysTaken' = Append(keysTaken, port.byte)
        /\ UNCHANGED <<status, ctlQueue, kbdQueue, auxQueue, mouse_cycle, typed, moved, bytesTaken>>
    BY DEF Irq1, Unhandled, KeyboardReady, thread, mouse
  <1>2. ~port'.full
    BY <1>1, FreedPort DEF Ps2TypeOK
  <1>3. InPort(TRUE)' = <<>> /\ InPort(FALSE)' = <<>>
    BY <1>2 DEF InPort
  <1>4. InPort(TRUE) = <<>> /\ InPort(FALSE) = <<port.byte>>
    BY <1>1, PortBytes
  <1>5. moved' = Flow(bytesTaken', InPort(TRUE)', auxQueue')
    BY <1>1, <1>3, <1>4 DEF Running
  <1>6. PICK e \in Byte : e = port.byte
    BY DEF Ps2TypeOK, Byte
  <1>7. PICK k \in Seq(Byte) : Keystrokes(k) /\ typed = Flow(k, <<e>>, kbdQueue)
    BY <1>4, <1>6, KeyboardStream
  <1>8. typed' = Flow(Append(k, e), InPort(FALSE)', kbdQueue')
    <2>1. kbdQueue \in Seq(Byte)
      BY DEF Ps2TypeOK, Byte
    <2>2. Flow(k, <<e>>, kbdQueue) = Flow(Append(k, e), <<>>, kbdQueue)
      BY <2>1, FlowTakes
    <2> QED
      BY <1>1, <1>3, <1>7, <2>2
  <1>9. Keystrokes(Append(k, e))'
    <2>1. keysTaken' = Append(keysTaken, e) /\ status' = status /\ keysTaken \in Seq(Byte)
      BY <1>1, <1>6 DEF Ps2TypeOK, Byte
    <2>2. CASE k = keysTaken
      BY <2>1, <2>2 DEF Keystrokes
    <2>3. CASE keysTaken # <<>> /\ Head(keysTaken) = status /\ k = Tail(keysTaken)
      <3>1. /\ Head(keysTaken') = Head(keysTaken) /\ Tail(keysTaken') = Append(Tail(keysTaken), e)
            /\ keysTaken' # <<>>
        BY <2>1, <2>3, HeadTailAppend, AppendProperties
      <3> QED
        BY <2>1, <2>3, <3>1 DEF Keystrokes
    <2> QED
      BY <1>7, <2>2, <2>3 DEF Keystrokes
  <1>10. Marked'
    BY <1>1 DEF Running, Marked
  <1> QED
    BY <1>1, <1>2, <1>5, <1>7, <1>8, <1>9, <1>10 DEF Running, Keystrokes

\* The mouse handler takes the next byte of its stream, and drops none: where
\* it expects a first byte, a first byte comes.
LEMMA Irq12Running ==
  ASSUME Ps2TypeOK, Running, step = 20, Irq12
  PROVE  Running'
  <1>1. MouseReady
    BY ScriptIs DEF MouseReady
  <1>2. /\ port.full /\ port.request /\ port.aux /\ ReadPort
        /\ MouseByteDropped(port.byte) \/ MouseByteStored(port.byte)
        /\ bytesTaken' = Append(bytesTaken, port.byte)
        /\ UNCHANGED <<status, ctlQueue, kbdQueue, auxQueue, typed, keysTaken, moved>>
    BY <1>1 DEF Irq12, Unhandled, thread
  <1>3. ~port'.full
    BY <1>2, FreedPort DEF Ps2TypeOK
  <1>4. InPort(TRUE)' = <<>> /\ InPort(FALSE)' = <<>>
    BY <1>3 DEF InPort
  <1>5. InPort(FALSE) = <<>> /\ InPort(TRUE) = <<port.byte>>
    BY <1>2, PortBytes
  <1>6. /\ bytesTaken \in Seq(Byte) /\ auxQueue \in Seq(Byte) /\ port.byte \in Byte
        /\ mouse_cycle \in 0 .. 2
    BY DEF Ps2TypeOK, Byte
  <1> DEFINE n == Len(bytesTaken)
             one == <<port.byte>>
  <1>7. moved = Flow(bytesTaken, one, auxQueue) /\ moved' = moved /\ mouse_cycle = n % 3 /\ n \in Nat
    BY <1>2, <1>5, <1>6, LenProperties DEF Running
  <1>8. moved' = Flow(bytesTaken', InPort(TRUE)', auxQueue')
    <2>1. PICK e \in Byte : e = port.byte
      BY <1>6
    <2>2. bytesTaken \in Seq(Byte) /\ auxQueue \in Seq(Byte)
      BY <1>6
    <2>3. Flow(bytesTaken, <<e>>, auxQueue) = Flow(Append(bytesTaken, e), <<>>, auxQueue)
      BY <2>2, FlowTakes
    <2> QED
      BY <1>2, <1>4, <1>7, <2>1, <2>3
  <1>9. one \in Seq(Byte) /\ Len(one) = 1 /\ one[1] = port.byte
    BY <1>6
  <1>10. n + 1 \in 1 .. Len(moved) /\ moved[n + 1] = port.byte
    <2>1. one \in Seq(Byte) /\ bytesTaken \in Seq(Byte) /\ auxQueue \in Seq(Byte)
      BY <1>6, <1>9
    <2> HIDE DEF one
    <2>2. /\ Len(Flow(bytesTaken, one, auxQueue)) = Len(bytesTaken) + Len(one) + Len(auxQueue)
          /\ \A i \in 1 .. Len(one) : Flow(bytesTaken, one, auxQueue)[Len(bytesTaken) + i] = one[i]
      BY <2>1, FlowStarts
    <2>3. Len(auxQueue) \in Nat
      BY <1>6, LenProperties
    <2> QED
      BY <2>2, <2>3, <1>7, <1>9
  <1> HIDE DEF n, one
  <1>11. ~MouseByteDropped(port.byte)
    <2> SUFFICES ASSUME mouse_cycle = 0, ~Bit(port.byte, 8) PROVE FALSE
      BY DEF MouseByteDropped
    <2>1. (n + 1) % 3 = 1
      BY <1>7, CountOfThree
    <2>2. Bit(moved[n + 1], 8)
      BY <1>10, <2>1 DEF Running, Marked
    <2> QED
      BY <1>10, <2>2
  <1>12. mouse_cycle' = IF mouse_cycle < 2 THEN mouse_cycle + 1 ELSE 0
    BY <1>2, <1>11 DEF MouseByteStored, CycleAfter
  <1>13. Len(bytesTaken') = n + 1
    BY <1>2, <1>6, AppendProperties DEF n
  <1>14. mouse_cycle' = Len(bytesTaken') % 3
    <2>1. mouse_cycle = 0 \/ mouse_cycle = 1 \/ mouse_cycle = 2
      BY <1>6
    <2>2. /\ mouse_cycle = 0 => (n + 1) % 3 = 1
          /\ mouse_cycle = 1 => (n + 1) % 3 = 2
          /\ mouse_cycle = 2 => (n + 1) % 3 = 0
      BY <1>7, CountOfThree
    <2> QED
      BY <1>12, <1>13, <2>1, <2>2
  <1>15. Marked'
    BY <1>2 DEF Running, Marked
  <1>16. PICK k \in Seq(Byte) : Keystrokes(k) /\ typed = Flow(k, <<>>, kbdQueue)
    BY <1>5, KeyboardStream
  <1>17. typed' = Flow(k, InPort(FALSE)', kbdQueue')
    BY <1>2, <1>4, <1>16
  <1> QED
    BY <1>2, <1>3, <1>7, <1>8, <1>14, <1>15, <1>16, <1>17 DEF Running, Keystrokes

-----------------------------------------------------------------------------
(* Every step.                                                              *)

\* Every step keeps the invariant: a boot that was quiet so far is Booting, and
\* once mouse_init is done it is Running.
LEMMA Ps2NextIInv == Ps2IInv /\ [Ps2Next]_ps2 => Ps2IInv'
  <1> SUFFICES ASSUME Ps2IInv, [Ps2Next]_ps2 PROVE Ps2IInv'
    OBVIOUS
  <1>1. Ps2TypeOK /\ Ps2TypeOK' /\ step \in 1 .. 20 /\ step' \in 1 .. 20
    BY Ps2NextTypeOK DEF Ps2IInv, Ps2TypeOK, Script
  <1>2. (MouseReady <=> step = 20) /\ (MouseReady' <=> step' = 20)
    BY <1>1 DEF MouseReady, Script
  <1>3. \/ UNCHANGED ps2
        \/ \E s \in Scancodes : Key(s)
        \/ \E p \in Packets : Move(p)
        \/ Load \/ Irq1 \/ Irq12 \/ Thread
    BY DEF Ps2Next, Idle
  <1>4. Thread => step # 20 /\ step' = step + 1 /\ (step = 19 => Install)
    BY <1>1, ScriptIs DEF Thread, KeyboardInit, EnableAux, AskConfig, MouseWait, ReadConfig, WriteConfig,
       MouseWrite, MouseRead, Install, Step
  <1>5. ~Thread => step' = step
    BY <1>3 DEF Key, Move, Load, Irq1, Irq12, Unhandled, thread, ps2
  <1>6. ~noisy' => ~noisy /\ (~MouseReady => ~(\E s \in Scancodes : Key(s)) /\ ~(\E p \in Packets : Move(p)))
    BY <1>1, <1>3 DEF Key, Move, Load, Irq1, Irq12, Unhandled, Thread, KeyboardInit, EnableAux, AskConfig,
       MouseWait, ReadConfig, WriteConfig, MouseWrite, MouseRead, Install, Others, history, ps2, Ps2TypeOK
  <1>7. ASSUME ~noisy' PROVE LinesOn'
    BY <1>1, <1>6, <1>7, LinesStayOn DEF Ps2IInv
  <1>8. ASSUME ~MouseReady', ~noisy' PROVE Booting'
    <2>1. ~MouseReady /\ Booting /\ LinesOn
      BY <1>1, <1>2, <1>4, <1>5, <1>6, <1>8 DEF Ps2IInv
    <2>2. CASE UNCHANGED ps2
      BY <2>1, <2>2 DEF ps2, thread, controller, mouse, history, Booting, Silent, Cold, Asking, Answered,
         Acknowledged, AckDue, AckStands
    <2> QED
      BY <1>1, <1>3, <1>6, <1>8, <2>1, <2>2, LoadBooting, IrqBooting, ThreadBooting
  <1>9. ASSUME MouseReady', ~noisy' PROVE Running'
    <2>1. CASE ~MouseReady
      <3>1. Thread /\ step = 19 /\ Install /\ Booting
        BY <1>1, <1>2, <1>4, <1>5, <1>6, <1>9, <2>1 DEF Ps2IInv
      <3> QED
        BY <1>1, <3>1, RunningStarts
    <2>2. CASE MouseReady
      <3>1. Running /\ LinesOn /\ step = 20 /\ ~Thread
        BY <1>2, <1>4, <1>6, <1>9, <2>2 DEF Ps2IInv
      <3>2. CASE UNCHANGED ps2
        BY <3>1, <3>2 DEF ps2, thread, controller, mouse, history, Running, InPort, Marked
      <3> QED
        BY <1>1, <1>3, <3>1, <3>2, KeyRunning, MoveRunning, LoadRunning, Irq1Running, Irq12Running
    <2> QED
      BY <2>1, <2>2
  <1>10. ASSUME ~MouseReady' PROVE mouse_cycle' = 0 /\ bytesTaken' = <<>>
    <2>1. ~MouseReady /\ mouse_cycle = 0 /\ bytesTaken = <<>>
      BY <1>1, <1>2, <1>4, <1>5, <1>10 DEF Ps2IInv
    <2> QED
      BY <1>3, <2>1 DEF Key, Move, Load, Irq1, Irq12, Unhandled, Thread, KeyboardInit, EnableAux, AskConfig,
         MouseWait, ReadConfig, WriteConfig, MouseWrite, MouseRead, Install, Others, mouse, history, ps2
  <1> QED
    BY <1>1, <1>7, <1>8, <1>9, <1>10 DEF Ps2IInv

\* The inductive invariant holds of every reachable state of the controller.
THEOREM Ps2Invariant == Ps2Spec => []Ps2IInv
  BY Ps2InitIInv, Ps2NextIInv, PTL DEF Ps2Spec

\* mouse.c: every variable keeps its type, and the pointer its 640 columns.
THEOREM Ps2TypeOKHolds == Ps2Spec => []Ps2TypeOK
  <1>1. Ps2IInv => Ps2TypeOK
    BY DEF Ps2IInv
  <1> QED
    BY <1>1, Ps2Invariant, PTL

\* mouse.c and keyboard.c: after a quiet boot each handler gets the bytes of its
\* own device, in order, and the mouse handler never loses its place in a packet.
THEOREM Ps2InSync == Ps2Spec => []InSync
  <1>1. Ps2IInv => InSync
    <2> SUFFICES ASSUME Ps2IInv, MouseReady, ~noisy
                 PROVE  /\ IsPrefix(bytesTaken, moved)
                        /\ mouse_cycle = Len(bytesTaken) % 3
                        /\ \/ IsPrefix(keysTaken, typed)
                           \/ /\ keysTaken # <<>> /\ Head(keysTaken) = status
                              /\ IsPrefix(Tail(keysTaken), typed)
      BY DEF InSync
    <2>1. Ps2TypeOK /\ Running
      BY DEF Ps2IInv
    <2>2. IsPrefix(bytesTaken, moved)
      <3> DEFINE p == InPort(TRUE)
      <3>1. bytesTaken \in Seq(Byte) /\ auxQueue \in Seq(Byte)
        BY <2>1 DEF Ps2TypeOK, Byte
      <3>2. p \in Seq(Byte) /\ moved = Flow(bytesTaken, p, auxQueue)
        BY <2>1, PortBytes DEF Running
      <3> HIDE DEF p
      <3> QED
        BY <3>1, <3>2, FlowStarts
    <2>3. PICK k \in Seq(Byte) : Keystrokes(k) /\ typed = Flow(k, InPort(FALSE), kbdQueue)
      BY <2>1, KeyboardStream
    <2>4. IsPrefix(k, typed)
      <3> DEFINE p == InPort(FALSE)
      <3>1. kbdQueue \in Seq(Byte)
        BY <2>1 DEF Ps2TypeOK, Byte
      <3>2. p \in Seq(Byte) /\ typed = Flow(k, p, kbdQueue)
        BY <2>1, <2>3, PortBytes
      <3> HIDE DEF p
      <3> QED
        BY <3>1, <3>2, FlowStarts
    <2> QED
      BY <2>1, <2>2, <2>3, <2>4 DEF Running, Keystrokes
  <1> QED
    BY <1>1, Ps2Invariant, PTL

\* After a quiet boot no byte is left in the port without its interrupt.
THEOREM Ps2NeverJammed == Ps2Spec => []NeverJammed
  <1>1. Ps2IInv => NeverJammed
    BY DEF Ps2IInv, Running, NeverJammed
  <1> QED
    BY <1>1, Ps2Invariant, PTL
===============================================================================
