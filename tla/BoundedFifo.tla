----------------------------- MODULE BoundedFifo -----------------------------
(***************************************************************************)
(* What an input buffer promises: characters come out once each, in the    *)
(* order they went in; one is dropped only on arrival at a full buffer.    *)
(***************************************************************************)
EXTENDS Naturals, Sequences

CONSTANTS
    Chars,      \* what can be typed
    NoChar,     \* what was delivered last when nothing was
    Capacity    \* unread characters the buffer can hold

VARIABLES
    fifo,       \* the unread characters, oldest first
    last,       \* the character delivered last
    delivered,  \* how many were delivered
    lost        \* how many were dropped

FifoInit == fifo = <<>> /\ last = NoChar /\ delivered = 0 /\ lost = 0

Put(c) ==
    /\ Len(fifo) < Capacity
    /\ fifo' = Append(fifo, c)
    /\ UNCHANGED <<last, delivered, lost>>

Drop ==
    /\ Len(fifo) = Capacity
    /\ lost' = lost + 1
    /\ UNCHANGED <<fifo, last, delivered>>

Get ==
    /\ fifo # <<>>
    /\ last' = Head(fifo)
    /\ fifo' = Tail(fifo)
    /\ delivered' = delivered + 1
    /\ UNCHANGED lost

FifoNext == (\E c \in Chars : Put(c)) \/ Drop \/ Get

FifoSpec == FifoInit /\ [][FifoNext]_<<fifo, last, delivered, lost>>
==============================================================================
