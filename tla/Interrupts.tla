------------------------------ MODULE Interrupts ------------------------------
(***************************************************************************)
(* Hardware interrupts: src/kernel/hal/irq.c and pic.c on two cascaded     *)
(* 8259 controllers (external).  A gate of irq_install turns interrupts    *)
(* off, so handlers do not nest, but devices raise lines at any time and a *)
(* request may vanish before the CPU acknowledges it: the chip then        *)
(* answers with its line 7, which nobody raised, a spurious interrupt.     *)
(***************************************************************************)
EXTENDS Integers

CONSTANTS
    Lines,      \* the IRQ lines with a device
    MaxRaised   \* bound of the model on the requests of each line

ASSUME InterruptsAssumption ==
    /\ Lines \subseteq (0 .. 15) \ {2}      \* line 2 is the slave chip
    /\ MaxRaised \in Nat

VARIABLES
    irr,        \* requests latched by the chips
    isr,        \* lines in service, of both chips
    vanished,   \* chips whose INT output outlived its request
    IF_flag,
    pc,         \* "boot", "run" (no handler), or where irq_handler is
    irq_num,    \* the line irq_handler was entered for
    raised,     \* history: requests of a line
    done        \* history: those that were handled, withdrawn or forgotten

pic == <<irr, isr, vanished>>
history == <<raised, done>>
vars == <<pic, IF_flag, pc, irq_num, history>>

Master == 0 .. 7
Slave == 8 .. 15
Chip(l) == IF l \in Master THEN "master" ELSE "slave"

Init ==
    /\ irr = {} /\ isr = {} /\ vanished = {}
    /\ IF_flag = FALSE
    /\ pc = "boot" /\ irq_num = 0
    /\ raised = [l \in Lines |-> 0] /\ done = [l \in Lines |-> 0]

-----------------------------------------------------------------------------
(* The chips and the devices.                                               *)

Raise(l) ==
    /\ raised[l] < MaxRaised
    /\ l \notin irr
    /\ irr' = irr \cup {l}
    /\ raised' = [raised EXCEPT ![l] = @ + 1]
    /\ UNCHANGED <<isr, vanished, IF_flag, pc, irq_num, done>>

\* A request withdrawn before it was acknowledged.
Vanish(l) ==
    /\ l \in irr
    /\ irr' = irr \ {l}
    /\ vanished' = vanished \cup {Chip(l)}
    /\ done' = [done EXCEPT ![l] = @ + 1]
    /\ UNCHANGED <<isr, IF_flag, pc, irq_num, raised>>

\* A chip holds back what has no higher priority than a line in service.
MasterBlocks(l) == \E s \in isr \cap Master : s <= l
SlaveBlocks(l) == \E s \in isr \cap Slave : s <= l
Rank(l) == IF l \in Master THEN 16 * l ELSE 32 + l
Deliverable ==
    {l \in irr : IF l \in Master THEN ~MasterBlocks(l) ELSE ~SlaveBlocks(l) /\ ~MasterBlocks(2)}

\* The bits that go up when the CPU acknowledges line l.
InService(l) == IF l \in Master THEN {l} ELSE {l, 2}

Enter(l) == irq_num' = l /\ pc' = "entered" /\ IF_flag' = FALSE

Acknowledge ==
    /\ IF_flag
    /\ \E l \in Deliverable :
        /\ \A k \in Deliverable : Rank(l) <= Rank(k)
        /\ irr' = irr \ {l}
        /\ isr' = isr \cup InService(l)
        /\ vanished' = vanished \ {Chip(l)}
        /\ Enter(l)
    /\ UNCHANGED history

\* The INT output is still up, but no request is left to answer with.
AcknowledgeSpurious ==
    /\ IF_flag
    /\ Deliverable = {}
    /\ \/ /\ "master" \in vanished
          /\ vanished' = vanished \ {"master"}
          /\ Enter(7)
          /\ UNCHANGED isr
       \/ /\ "slave" \in vanished /\ ~MasterBlocks(2)
          /\ vanished' = vanished \ {"slave"}
          /\ Enter(15)
          /\ isr' = isr \cup {2}
    /\ UNCHANGED <<irr, history>>

\* The command 0x20: the highest bit in service of a chip goes down.
Highest(bits) == {s \in bits : \A t \in bits : s <= t}

-----------------------------------------------------------------------------
(* The code.                                                                *)

\* irq_install: the initialisation of the chips forgets latched requests;
\* then the gates, all lines unmasked, sti.
IrqInstall ==
    /\ pc = "boot"
    /\ pc' = "run"
    /\ IF_flag' = TRUE
    /\ irr' = {} /\ isr' = {} /\ vanished' = {}
    /\ done' = raised
    /\ UNCHANGED <<irq_num, raised>>

\* pic_send_eoi
AfterEoiMasterOnly(irq) == isr \ Highest(isr \cap Master)       \* mutant
AfterEoi(irq) ==
    isr \ ((IF irq >= 8 THEN Highest(isr \cap Slave) ELSE {}) \cup Highest(isr \cap Master))

\* pic_get_isr
PicGetIsrAlways(irq) == TRUE                     \* mutant: no spurious test
PicGetIsr(irq) == irq \in isr
Spurious == irq_num \in {7, 15} /\ ~PicGetIsr(irq_num)

\* The stub's iret.
Return == pc' = "run" /\ IF_flag' = TRUE

SpuriousIrq7 ==
    /\ pc = "entered" /\ Spurious /\ irq_num = 7
    /\ Return
    /\ UNCHANGED <<pic, irq_num, history>>

\* The master put line 2 in service for the slave's spurious interrupt.
SpuriousIrq15 ==
    /\ pc = "entered" /\ Spurious /\ irq_num = 15
    /\ isr' = AfterEoi(2)
    /\ Return
    /\ UNCHANGED <<irr, vanished, irq_num, history>>

\* The driver's handler is called; a request for which none is registered yet
\* ends here too.
CallHandler ==
    /\ pc = "entered" /\ ~Spurious
    /\ pc' = "eoi"
    /\ done' = [l \in Lines |-> IF l = irq_num THEN done[l] + 1 ELSE done[l]]
    /\ UNCHANGED <<pic, IF_flag, irq_num, raised>>

SendEoi ==
    /\ pc = "eoi"
    /\ isr' = AfterEoi(irq_num)
    /\ Return
    /\ UNCHANGED <<irr, vanished, irq_num, history>>

-----------------------------------------------------------------------------
Devices == \E l \in Lines : Raise(l) \/ Vanish(l)

Cpu ==
    \/ IrqInstall \/ Acknowledge \/ AcknowledgeSpurious
    \/ SpuriousIrq7 \/ SpuriousIrq15 \/ CallHandler \/ SendEoi

\* The kernel's idle loop: hlt.
Idle == pc = "run" /\ UNCHANGED vars

Next == Devices \/ Cpu \/ Idle

\* The CPU takes an interrupt it is offered and runs the handler to its end.
Spec == Init /\ [][Next]_vars /\ WF_vars(Cpu)

-----------------------------------------------------------------------------
\* Types of the variables.
TypeOK ==
    /\ irr \subseteq Lines
    /\ isr \subseteq Lines \cup {2}
    /\ vanished \subseteq {"master", "slave"}
    /\ IF_flag \in BOOLEAN
    /\ pc \in {"boot", "run", "entered", "eoi"}
    /\ irq_num \in 0 .. 15
    /\ raised \in [Lines -> 0 .. MaxRaised] /\ done \in [Lines -> 0 .. MaxRaised]

\* While no handler runs no line is in service, on either chip: each
\* interrupt, real or spurious, of master or slave, sent exactly the EOIs it
\* owed; one too few would block its line and all below it for good.
Balanced == pc \in {"boot", "run"} => isr = {}

\* Each request gets to its driver once, unless it was withdrawn: none is lost
\* because another interrupt was in service, and none is invented by a
\* spurious interrupt.
InCall(l) == pc = "entered" /\ irq_num = l /\ l \in isr
OncePerRequest ==
    \A l \in Lines :
        raised[l] = done[l] + (IF l \in irr THEN 1 ELSE 0) + (IF InCall(l) THEN 1 ELSE 0)

\* No request stays pending for ever.
Acknowledged == \A l \in Lines : l \in irr ~> l \notin irr
==============================================================================
