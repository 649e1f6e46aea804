--------------------------------- MODULE Ps2 ----------------------------------
(***************************************************************************)
(* The keyboard and the mouse share one controller (external), whose one   *)
(* byte of output, port 0x60, is read by two interrupt handlers and, with  *)
(* interrupts on, by the polling loops of mouse_init:                      *)
(* src/kernel/drivers/mouse/mouse.c and the port side of keyboard.c.       *)
(* Bytes are numbers.  Of the two coordinates only x is kept: y is alike.  *)
(***************************************************************************)
EXTENDS Integers, Sequences, SequencesExt

CONSTANTS
    Scancodes,  \* bytes the keyboard sends
    Packets,    \* what the mouse sends for one event: triples of bytes
    BootConfig, \* the controller's configuration byte at boot
    MaxKeys,    \* bounds of the model on the events
    MaxMoves

\* The bit of a byte that a mask names.
Bit(b, mask) == (b \div mask) % 2 = 1
SetBit(b, mask) == IF Bit(b, mask) THEN b ELSE b + mask
ClearBit(b, mask) == IF Bit(b, mask) THEN b - mask ELSE b

ASSUME Ps2Assumption ==
    /\ Scancodes \subseteq 0 .. 255
    /\ Packets \subseteq (0 .. 255) \X (0 .. 255) \X (0 .. 255)
    /\ \A p \in Packets : Bit(p[1], 8)      \* the mark of a first byte
    /\ BootConfig \in 0 .. 255
    /\ Bit(BootConfig, 1)                   \* the firmware left IRQ 1 on
    /\ MaxKeys \in Nat /\ MaxMoves \in Nat

ACK == 250      \* 0xFA

\* The kernel thread: keyboard_init, then mouse_init access by access.
Script == <<"keyboard_init", "enable_aux", "ask_config", "wait", "read_config", "write_config",
            "defaults", "wait", "ack", "enable", "wait", "ack",
            "rate", "wait", "ack", "100", "wait", "ack", "install", "done">>

VARIABLES
    step,             \* the next step of Script
    status,         \* local of mouse_init
    config,         \* the controller's configuration byte
    port,           \* the output byte: full, aux (it is the mouse's), byte, and
                    \*   request (its interrupt is raised, not yet taken)
    ctlQueue, kbdQueue, auxQueue,   \* what waits for the output byte to be free
    reporting,      \* the mouse sends packets
    mouse_cycle, mouse_byte, mouse_x, mouse_buttons,
    noisy,          \* history: some key or move came before mouse_init was done
    typed, keysTaken,   \* history: bytes the keyboard sent; its handler read
    moved, bytesTaken   \* history: bytes of packets; bytes the mouse handler read

thread == <<step, status>>
controller == <<config, port, ctlQueue, kbdQueue, auxQueue>>
mouse == <<mouse_cycle, mouse_byte, mouse_x, mouse_buttons>>
history == <<noisy, typed, keysTaken, moved, bytesTaken>>
ps2 == <<thread, controller, reporting, mouse, history>>

Ps2Init ==
    /\ step = 1 /\ status = 0
    /\ config = BootConfig
    /\ port = [full |-> FALSE, aux |-> FALSE, byte |-> 0, request |-> FALSE]
    /\ ctlQueue = <<>> /\ kbdQueue = <<>> /\ auxQueue = <<>>
    /\ reporting = FALSE
    /\ mouse_cycle = 0 /\ mouse_byte = [i \in 0 .. 2 |-> 0]
    /\ mouse_x = 160 /\ mouse_buttons = 0
    /\ noisy = FALSE
    /\ typed = <<>> /\ keysTaken = <<>> /\ moved = <<>> /\ bytesTaken = <<>>

KeyboardReady == step > 1
MouseReady == Script[step] = "done"

-----------------------------------------------------------------------------
(* The devices and the controller.                                          *)

Key(s) ==
    /\ Len(typed) < MaxKeys
    /\ kbdQueue' = Append(kbdQueue, s)
    /\ typed' = Append(typed, s)
    /\ noisy' = (noisy \/ ~MouseReady)
    /\ UNCHANGED <<thread, config, port, ctlQueue, auxQueue, reporting, mouse,
                   keysTaken, moved, bytesTaken>>

Move(p) ==
    /\ reporting
    /\ Len(moved) < 3 * MaxMoves
    /\ auxQueue' = auxQueue \o p
    /\ moved' = moved \o p
    /\ noisy' = (noisy \/ ~MouseReady)
    /\ UNCHANGED <<thread, config, port, ctlQueue, kbdQueue, reporting, mouse,
                   typed, keysTaken, bytesTaken>>

FillPort(aux, byte, request) ==
    port' = [full |-> TRUE, aux |-> aux, byte |-> byte, request |-> request]

\* A free output byte is filled: answers of the controller first, for which
\* some chips raise IRQ 1 and some do not; then either device, unless off.
Load ==
    /\ ~port.full
    /\ \/ /\ ctlQueue # <<>>
          /\ FillPort(FALSE, Head(ctlQueue), FALSE) \/ FillPort(FALSE, Head(ctlQueue), Bit(config, 1))
          /\ ctlQueue' = Tail(ctlQueue)
          /\ UNCHANGED <<kbdQueue, auxQueue>>
       \/ /\ ctlQueue = <<>> /\ kbdQueue # <<>> /\ ~Bit(config, 16)
          /\ FillPort(FALSE, Head(kbdQueue), Bit(config, 1))
          /\ kbdQueue' = Tail(kbdQueue)
          /\ UNCHANGED <<ctlQueue, auxQueue>>
       \/ /\ ctlQueue = <<>> /\ auxQueue # <<>> /\ ~Bit(config, 32)
          /\ FillPort(TRUE, Head(auxQueue), Bit(config, 2))
          /\ auxQueue' = Tail(auxQueue)
          /\ UNCHANGED <<ctlQueue, kbdQueue>>
    /\ UNCHANGED <<thread, config, reporting, mouse, history>>

\* inb(0x60) frees the output byte, whose value stays, and its interrupt, if
\* not taken yet, goes away.
ReadPort == port' = [port EXCEPT !.full = FALSE, !.request = FALSE]

-----------------------------------------------------------------------------
(* The interrupt handlers, each atomic behind its gate.                     *)

\* No handler is registered: the EOI is sent and the byte stays.
Unhandled(ready) ==
    /\ port.full /\ port.request /\ ~ready
    /\ port' = [port EXCEPT !.request = FALSE]
    /\ UNCHANGED <<thread, config, ctlQueue, kbdQueue, auxQueue, reporting, mouse, history>>

\* keyboard_handler reads without looking at the status.
Irq1 ==
    \/ ~port.aux /\ Unhandled(KeyboardReady)
    \/ /\ port.full /\ port.request /\ ~port.aux
       /\ KeyboardReady
       /\ ReadPort
       /\ keysTaken' = Append(keysTaken, port.byte)
       /\ UNCHANGED <<thread, config, ctlQueue, kbdQueue, auxQueue, reporting, mouse,
                      noisy, typed, moved, bytesTaken>>

\* The movement a packet names: mouse_byte is signed, and the sign flag of the
\* first byte is or-ed in on top.
Signed(b) == IF b >= 128 THEN b - 256 ELSE b
Delta(flag, b) == IF flag /\ b < 128 THEN b - 256 ELSE Signed(b)
Accelerated(d) == IF d > 5 \/ d < -5 THEN 2 * d ELSE d

Clamped(x) == IF x < 0 THEN 0 ELSE IF x >= 640 THEN 639 ELSE x

Overflow(first) == Bit(first, 64) \/ Bit(first, 128)

\* mutant: the cycle is reset after the overflow tests instead of before
CycleAfterLate(packet) == IF Overflow(packet[0]) THEN 3 ELSE 0
CycleAfter(packet) == 0

\* A first byte without bit 3 is no first byte; it is dropped.
MouseByteDropped(data) == mouse_cycle = 0 /\ ~Bit(data, 8) /\ UNCHANGED mouse

MouseByteStored(data) ==
    LET packet == [mouse_byte EXCEPT ![mouse_cycle] = data] IN
    /\ mouse_cycle > 0 \/ Bit(data, 8)
    /\ mouse_cycle < 3
    /\ mouse_byte' = packet
    /\ IF mouse_cycle < 2
       THEN mouse_cycle' = mouse_cycle + 1 /\ UNCHANGED <<mouse_x, mouse_buttons>>
       ELSE /\ mouse_cycle' = CycleAfter(packet)
            /\ mouse_buttons' = packet[0] % 8
            /\ mouse_x' = IF Overflow(packet[0]) THEN mouse_x
                          ELSE Clamped(mouse_x + Accelerated(Delta(Bit(packet[0], 16), packet[1])))

Irq12 ==
    \/ port.aux /\ Unhandled(MouseReady)
    \/ /\ port.full /\ port.request /\ port.aux
       /\ MouseReady
       /\ ReadPort
       /\ MouseByteDropped(port.byte) \/ MouseByteStored(port.byte)
       /\ bytesTaken' = Append(bytesTaken, port.byte)
       /\ UNCHANGED <<thread, config, ctlQueue, kbdQueue, auxQueue, reporting,
                      noisy, typed, keysTaken, moved>>

-----------------------------------------------------------------------------
(* The kernel thread.  The controller takes commands at once, so the waits  *)
(* of mouse_wait(1) are left out.                                           *)

Step(op) == Script[step] = op /\ step' = step + 1

Others == UNCHANGED <<mouse, history>>

KeyboardInit ==
    /\ Step("keyboard_init")
    /\ UNCHANGED <<status, controller, reporting>> /\ Others

EnableAux ==
    /\ Step("enable_aux")
    /\ config' = ClearBit(config, 32)
    /\ UNCHANGED <<status, port, ctlQueue, kbdQueue, auxQueue, reporting>> /\ Others

AskConfig ==
    /\ Step("ask_config")
    /\ ctlQueue' = Append(ctlQueue, config)
    /\ UNCHANGED <<status, config, port, kbdQueue, auxQueue, reporting>> /\ Others

\* mouse_wait(0): until a byte is there, or the 100000 polls are used up, which
\* takes far longer than a device or the controller takes to answer: so only
\* when no byte is on its way.
TimesOutNever == FALSE                           \* mutant
TimesOut ==
    /\ ctlQueue = <<>>
    /\ kbdQueue = <<>> \/ Bit(config, 16)
    /\ auxQueue = <<>> \/ Bit(config, 32)

MouseWait ==
    /\ Step("wait")
    /\ port.full \/ TimesOut
    /\ UNCHANGED <<status, controller, reporting>> /\ Others

\* What stands in the port is taken for the configuration byte.
ReadConfig ==
    /\ Step("read_config")
    /\ ReadPort
    /\ status' = port.byte
    /\ UNCHANGED <<config, ctlQueue, kbdQueue, auxQueue, reporting>> /\ Others

ConfigBare(b) == b                               \* mutant: forgets IRQ 12
ConfigWritten(b) == SetBit(b, 2)

WriteConfig ==
    /\ Step("write_config")
    /\ config' = ConfigWritten(status)
    /\ UNCHANGED <<status, port, ctlQueue, kbdQueue, auxQueue, reporting>> /\ Others

\* mouse_write: the mouse acknowledges; after 0xF4 it reports.
MouseWrite(op) ==
    /\ Step(op)
    /\ auxQueue' = Append(auxQueue, ACK)
    /\ reporting' = (reporting \/ op = "enable")
    /\ UNCHANGED <<status, config, port, ctlQueue, kbdQueue>> /\ Others

\* mouse_read, whose value is not looked at.
MouseRead ==
    /\ Step("ack")
    /\ ReadPort
    /\ UNCHANGED <<status, config, ctlQueue, kbdQueue, auxQueue, reporting>> /\ Others

Install ==
    /\ Step("install")
    /\ UNCHANGED <<status, controller, reporting>> /\ Others

Thread ==
    \/ KeyboardInit \/ EnableAux \/ AskConfig \/ MouseWait \/ ReadConfig \/ WriteConfig
    \/ \E op \in {"defaults", "enable", "rate", "100"} : MouseWrite(op)
    \/ MouseRead \/ Install

\* The idle loop.
Idle == MouseReady /\ UNCHANGED ps2

Ps2Next ==
    \/ \E s \in Scancodes : Key(s)
    \/ \E p \in Packets : Move(p)
    \/ Load \/ Irq1 \/ Irq12 \/ Thread \/ Idle

\* The kernel thread is delayed by interrupts, never stopped; the controller
\* shows what it has.
Ps2Spec == Ps2Init /\ [][Ps2Next]_ps2 /\ WF_ps2(Thread) /\ WF_ps2(Load)

-----------------------------------------------------------------------------
\* Types of the variables; the pointer stays on the 640 columns.
Ps2TypeOK ==
    /\ step \in 1 .. Len(Script)
    /\ status \in 0 .. 255 /\ config \in 0 .. 255
    /\ port \in [full : BOOLEAN, aux : BOOLEAN, byte : 0 .. 255, request : BOOLEAN]
    /\ mouse_cycle \in 0 .. 2
    /\ mouse_byte \in [0 .. 2 -> 0 .. 255]
    /\ mouse_x \in 0 .. 639 /\ mouse_buttons \in 0 .. 7
    /\ reporting \in BOOLEAN /\ noisy \in BOOLEAN
    /\ ctlQueue \in Seq(0 .. 255) /\ kbdQueue \in Seq(0 .. 255) /\ auxQueue \in Seq(0 .. 255)
    /\ typed \in Seq(0 .. 255) /\ keysTaken \in Seq(0 .. 255)
    /\ moved \in Seq(0 .. 255) /\ bytesTaken \in Seq(0 .. 255)

\* If nobody touched keyboard or mouse before mouse_init was done, then from
\* there on each handler gets exactly the bytes of its device, in order (the
\* keyboard handler may have got the configuration byte before them), and the
\* mouse handler knows where in a packet it is, across overflow packets.
InSync ==
    MouseReady /\ ~noisy =>
        /\ IsPrefix(bytesTaken, moved)
        /\ mouse_cycle = Len(bytesTaken) % 3
        /\ \/ IsPrefix(keysTaken, typed)
           \/ keysTaken # <<>> /\ Head(keysTaken) = status /\ IsPrefix(Tail(keysTaken), typed)

\* After such a quiet boot no byte stands in the port without its interrupt:
\* neither device is ever cut off.
NeverJammed == MouseReady /\ ~noisy => (port.full => port.request)

\* mouse_init ends, even when a handler takes the byte it waits for.
InitEnds == <>MouseReady
===============================================================================
