---------------------------- MODULE InterruptsProofs --------------------------
(***************************************************************************)
(* Proofs about Interrupts, for every set of lines: the EOIs sent are the  *)
(* EOIs owed, and each request is served once.                             *)
(***************************************************************************)
EXTENDS Interrupts, TLAPS

(***************************************************************************)
(* What is in service depends on where irq_handler is and on what it was   *)
(* entered for.  Since handlers do not nest, each chip has one bit at      *)
(* most, so that the highest one is the right one.  A spurious interrupt   *)
(* is told by the missing bit, as pic_get_isr does.                        *)
(***************************************************************************)
Entered ==
    /\ pc = "entered" => \/ irq_num \in Lines /\ isr = InService(irq_num)
                         \/ irq_num = 7 /\ isr = {}
                         \/ irq_num = 15 /\ isr = {2}
    /\ pc = "eoi" => irq_num \in Lines /\ isr = InService(irq_num)
    /\ pc # "run" => ~IF_flag

IInv == TypeOK /\ Balanced /\ Entered /\ OncePerRequest

-----------------------------------------------------------------------------
(* One bit per chip is its own highest.                                     *)

LEMMA HighestOne ==
    ASSUME NEW s \in Nat
    PROVE  Highest({s}) = {s}
  BY DEF Highest

LEMMA HighestNone == Highest({}) = {}
  BY DEF Highest

\* The EOIs of a line clear what its acknowledgement put in service.
LEMMA EoiClears ==
    ASSUME NEW l \in Lines, isr = InService(l)
    PROVE  AfterEoi(l) = {}
  <1>1. l \in 0 .. 15 /\ l # 2
    BY InterruptsAssumption
  <1>2. CASE l < 8
    <2>1. isr \cap Master = {l}
      BY <1>1, <1>2 DEF InService, Master
    <2>2. Highest(isr \cap Master) = {l}
      BY <1>1, <2>1, HighestOne
    <2>3. isr = {l}
      BY <1>1, <1>2 DEF InService, Master
    <2> QED BY <1>2, <2>2, <2>3, <1>1 DEF AfterEoi
  <1>3. CASE l >= 8
    <2>1. isr = {l, 2}
      BY <1>1, <1>3 DEF InService, Master
    <2>2. isr \cap Master = {2} /\ isr \cap Slave = {l}
      <3>1. 2 \in Master /\ 2 \notin Slave /\ l \notin Master /\ l \in Slave
        BY <1>1, <1>3 DEF Master, Slave
      <3> QED BY <2>1, <3>1
    <2>3. Highest(isr \cap Master) = {2} /\ Highest(isr \cap Slave) = {l}
      BY <1>1, <2>2, HighestOne
    <2> QED BY <1>3, <2>1, <2>3 DEF AfterEoi
  <1> QED BY <1>1, <1>2, <1>3

\* The EOI of line 2 clears what a spurious interrupt of the slave put there.
LEMMA CascadeEoiClears ==
    ASSUME isr = {2}
    PROVE  AfterEoi(2) = {}
  <1>1. isr \cap Master = {2}
    BY DEF Master
  <1> QED BY <1>1, HighestOne DEF AfterEoi

-----------------------------------------------------------------------------
(* The invariant.                                                           *)

LEMMA InitInv == Init => IInv
  <1> SUFFICES ASSUME Init PROVE IInv
    OBVIOUS
  <1>1. TypeOK
    <2>1. 0 \in 0 .. MaxRaised
      BY InterruptsAssumption
    <2>2. raised = [l \in Lines |-> 0] /\ done = [l \in Lines |-> 0]
      BY DEF Init
    <2>3. raised \in [Lines -> 0 .. MaxRaised] /\ done \in [Lines -> 0 .. MaxRaised]
      BY <2>1, <2>2
    <2>4. irr \subseteq Lines /\ isr \subseteq Lines \cup {2} /\ vanished \subseteq {"master", "slave"}
      BY DEF Init
    <2>5. IF_flag \in BOOLEAN
      BY ZenonT(10) DEF Init
    <2>6. pc \in {"boot", "run", "entered", "eoi"} /\ irq_num \in 0 .. 15
      BY DEF Init
    <2> QED BY <2>3, <2>4, <2>5, <2>6 DEF TypeOK
  <1>2. Balanced /\ Entered
    BY DEF Init, Balanced, Entered
  <1>3. \A l \in Lines : raised[l] = 0 /\ done[l] = 0
    BY DEF Init
  <1>4. irr = {} /\ pc # "entered"
    BY DEF Init
  <1>5. ASSUME NEW l \in Lines
        PROVE  raised[l] = done[l] + (IF l \in irr THEN 1 ELSE 0) + (IF InCall(l) THEN 1 ELSE 0)
    <2>1. (IF l \in irr THEN 1 ELSE 0) = 0
      BY <1>4
    <2>2. (IF InCall(l) THEN 1 ELSE 0) = 0
      BY <1>4 DEF InCall
    <2> QED BY <1>3, <2>1, <2>2
  <1>6. OncePerRequest
    BY <1>5 DEF OncePerRequest, InCall
  <1> QED BY <1>1, <1>2, <1>6 DEF IInv

LEMMA DevicesInv ==
    ASSUME IInv, Devices
    PROVE  IInv'
  <1>1. PICK l \in Lines : Raise(l) \/ Vanish(l)
    BY DEF Devices
  <1>2. CASE Raise(l)
    <2>1. TypeOK'
      BY <1>2, InterruptsAssumption DEF IInv, TypeOK, Raise
    <2>2. Balanced' /\ Entered'
      BY <1>2 DEF IInv, Balanced, Entered, Raise, InService
    <2>3. OncePerRequest'
      BY <1>2 DEF IInv, TypeOK, OncePerRequest, InCall, Raise
    <2> QED BY <2>1, <2>2, <2>3 DEF IInv
  <1>3. CASE Vanish(l)
    <2>1. raised[l] = done[l] + 1 + (IF InCall(l) THEN 1 ELSE 0)
      BY <1>3 DEF IInv, TypeOK, OncePerRequest, Vanish
    <2>2. TypeOK'
      BY <1>3, <2>1, InterruptsAssumption DEF IInv, TypeOK, Vanish, Chip
    <2>3. Balanced' /\ Entered'
      BY <1>3 DEF IInv, Balanced, Entered, Vanish, InService
    <2>4. OncePerRequest'
      BY <1>3 DEF IInv, TypeOK, OncePerRequest, InCall, Vanish
    <2> QED BY <2>2, <2>3, <2>4 DEF IInv
  <1> QED BY <1>1, <1>2, <1>3

LEMMA IrqInstallInv ==
    ASSUME IInv, IrqInstall
    PROVE  IInv'
  <1>1. TypeOK' /\ Balanced' /\ Entered'
    BY DEF IInv, TypeOK, Balanced, Entered, IrqInstall
  <1>2. OncePerRequest'
    BY DEF IInv, TypeOK, OncePerRequest, InCall, IrqInstall
  <1> QED BY <1>1, <1>2 DEF IInv

\* Interrupts are on only while no handler runs.
LEMMA RunsWhenOn ==
    ASSUME IInv, IF_flag
    PROVE  pc = "run" /\ isr = {}
  BY DEF IInv, TypeOK, Balanced, Entered

LEMMA AcknowledgeInv ==
    ASSUME IInv, Acknowledge
    PROVE  IInv'
  <1>1. PICK l \in Deliverable :
            /\ irr' = irr \ {l} /\ isr' = isr \cup InService(l)
            /\ vanished' = vanished \ {Chip(l)} /\ Enter(l)
    BY DEF Acknowledge
  <1>2. l \in irr /\ l \in Lines
    BY DEF IInv, TypeOK, Deliverable
  <1>3. pc = "run" /\ isr = {} /\ UNCHANGED history
    BY RunsWhenOn DEF Acknowledge
  <1>4. isr' = InService(l) /\ l \in isr' /\ isr' \subseteq Lines \cup {2}
    BY <1>1, <1>2, <1>3 DEF InService
  <1>5. TypeOK'
    BY <1>1, <1>2, <1>3, <1>4, InterruptsAssumption DEF IInv, TypeOK, Enter, history
  <1>6. Balanced' /\ Entered'
    BY <1>1, <1>2, <1>4 DEF IInv, Balanced, Entered, Enter, InService
  <1>7. ASSUME NEW k \in Lines
        PROVE  raised'[k] = done'[k] + (IF k \in irr' THEN 1 ELSE 0)
                                     + (IF InCall(k)' THEN 1 ELSE 0)
    <2>1. InCall(k)' <=> k = l
      BY <1>1, <1>4 DEF InCall, Enter
    <2>2. raised[k] = done[k] + (IF k \in irr THEN 1 ELSE 0)
      BY <1>3 DEF IInv, TypeOK, OncePerRequest, InCall
    <2> QED BY <1>1, <1>2, <1>3, <2>1, <2>2 DEF IInv, TypeOK, history
  <1>8. OncePerRequest'
    BY <1>7 DEF OncePerRequest, InCall
  <1> QED BY <1>5, <1>6, <1>8 DEF IInv

LEMMA AcknowledgeSpuriousInv ==
    ASSUME IInv, AcknowledgeSpurious
    PROVE  IInv'
  <1>1. pc = "run" /\ isr = {} /\ UNCHANGED <<irr, history>>
    BY RunsWhenOn DEF AcknowledgeSpurious
  <1>2. \/ vanished' = vanished \ {"master"} /\ Enter(7) /\ isr' = {}
        \/ vanished' = vanished \ {"slave"} /\ Enter(15) /\ isr' = {2}
    BY <1>1 DEF AcknowledgeSpurious
  <1>3. TypeOK'
    <2>1. isr' \subseteq Lines \cup {2} /\ vanished' \subseteq {"master", "slave"}
      BY <1>2 DEF IInv, TypeOK
    <2>2. irq_num' \in 0 .. 15 /\ pc' = "entered" /\ IF_flag' = FALSE
      BY <1>2 DEF Enter
    <2> QED BY <1>1, <2>1, <2>2 DEF IInv, TypeOK, history
  <1>4. Balanced' /\ Entered'
    BY <1>2 DEF Balanced, Entered, Enter, InService
  <1>5. \A k \in Lines : ~InCall(k) /\ ~InCall(k)'
    BY <1>1, <1>2, InterruptsAssumption DEF InCall, Enter
  <1>6. OncePerRequest'
    BY <1>1, <1>5 DEF IInv, OncePerRequest, history
  <1> QED BY <1>3, <1>4, <1>6 DEF IInv

\* pic_get_isr tells the spurious interrupts of both chips.
LEMMA SpuriousMeans ==
    ASSUME IInv, pc = "entered"
    PROVE  /\ Spurious => (irq_num = 7 /\ isr = {}) \/ (irq_num = 15 /\ isr = {2})
           /\ ~Spurious => irq_num \in Lines /\ isr = InService(irq_num) /\ irq_num \in isr
  <1>1. \A l \in Lines : l \in InService(l)
    BY DEF InService
  <1>2. CASE irq_num \in Lines /\ isr = InService(irq_num)
    BY <1>1, <1>2 DEF Spurious, PicGetIsr
  <1>3. CASE irq_num = 7 /\ isr = {}
    BY <1>3 DEF Spurious, PicGetIsr
  <1>4. CASE irq_num = 15 /\ isr = {2}
    BY <1>4 DEF Spurious, PicGetIsr
  <1> QED BY <1>2, <1>3, <1>4 DEF IInv, Entered

LEMMA SpuriousInv ==
    ASSUME IInv, SpuriousIrq7 \/ SpuriousIrq15
    PROVE  IInv'
  <1>1. pc = "entered" /\ Spurious /\ UNCHANGED <<irr, vanished, irq_num, history>> /\ Return
    BY DEF SpuriousIrq7, SpuriousIrq15, pic
  <1>2. isr' = {}
    BY <1>1, SpuriousMeans, CascadeEoiClears DEF SpuriousIrq7, SpuriousIrq15, pic
  <1>3. TypeOK' /\ Balanced' /\ Entered'
    BY <1>1, <1>2 DEF IInv, TypeOK, Balanced, Entered, Return, history
  <1>4. \A k \in Lines : ~InCall(k) /\ ~InCall(k)'
    BY <1>1, SpuriousMeans, InterruptsAssumption DEF InCall, Return
  <1>5. OncePerRequest'
    BY <1>1, <1>4 DEF IInv, OncePerRequest, history
  <1> QED BY <1>3, <1>5 DEF IInv

LEMMA CallHandlerInv ==
    ASSUME IInv, CallHandler
    PROVE  IInv'
  <1>1. irq_num \in Lines /\ isr = InService(irq_num) /\ irq_num \in isr
    BY SpuriousMeans DEF CallHandler
  <1>2. pc = "entered" /\ pc' = "eoi" /\ UNCHANGED <<pic, IF_flag, irq_num, raised>>
    BY DEF CallHandler
  <1>3. done' = [l \in Lines |-> IF l = irq_num THEN done[l] + 1 ELSE done[l]]
    BY DEF CallHandler
  <1>4. raised[irq_num] = done[irq_num] + (IF irq_num \in irr THEN 1 ELSE 0) + 1
    BY <1>1, <1>2 DEF IInv, OncePerRequest, InCall
  <1>5. TypeOK'
    BY <1>1, <1>2, <1>3, <1>4, InterruptsAssumption DEF IInv, TypeOK, pic
  <1>6. Balanced' /\ Entered'
    BY <1>1, <1>2 DEF IInv, Balanced, Entered, pic, InService
  <1>7. OncePerRequest'
    BY <1>1, <1>2, <1>3 DEF IInv, TypeOK, OncePerRequest, InCall, pic
  <1> QED BY <1>5, <1>6, <1>7 DEF IInv

LEMMA SendEoiInv ==
    ASSUME IInv, SendEoi
    PROVE  IInv'
  <1>1. pc = "eoi" /\ isr' = {} /\ UNCHANGED <<irr, vanished, irq_num, history>> /\ Return
    BY EoiClears DEF IInv, Entered, SendEoi
  <1>2. TypeOK' /\ Balanced' /\ Entered'
    BY <1>1 DEF IInv, TypeOK, Balanced, Entered, Return, history
  <1>3. OncePerRequest'
    BY <1>1 DEF IInv, OncePerRequest, InCall, Return, history
  <1> QED BY <1>2, <1>3 DEF IInv

LEMMA StepInv == IInv /\ [Next]_vars => IInv'
  <1> SUFFICES ASSUME IInv, [Next]_vars PROVE IInv'
    OBVIOUS
  <1>1. CASE Devices
    BY <1>1, DevicesInv
  <1>2. CASE Cpu
    BY <1>2, IrqInstallInv, AcknowledgeInv, AcknowledgeSpuriousInv, SpuriousInv, CallHandlerInv,
       SendEoiInv DEF Cpu
  <1>3. CASE UNCHANGED vars
    BY <1>3 DEF IInv, TypeOK, Balanced, Entered, OncePerRequest, InCall, InService, vars, pic, history
  <1> QED BY <1>1, <1>2, <1>3 DEF Next, Idle

\* The strengthened invariant holds in every reachable state.
THEOREM InterruptsInvariant == Spec => []IInv
  BY InitInv, StepInv, PTL DEF Spec

\* Type correctness.
THEOREM InterruptsTypeOK == Spec => []TypeOK
  <1>1. IInv => TypeOK
    BY DEF IInv
  <1> QED BY <1>1, InterruptsInvariant, PTL

\* For every set of lines: no handler returns with a line still in service, be
\* the interrupt real or spurious, of the master or of the slave.
THEOREM InterruptsBalanced == Spec => []Balanced
  <1>1. IInv => Balanced
    BY DEF IInv
  <1> QED BY <1>1, InterruptsInvariant, PTL

\* For every set of lines: a request is handed to its driver once, or was
\* withdrawn, whatever spurious interrupts come in between.
THEOREM InterruptsOncePerRequest == Spec => []OncePerRequest
  <1>1. IInv => OncePerRequest
    BY DEF IInv
  <1> QED BY <1>1, InterruptsInvariant, PTL
==============================================================================
