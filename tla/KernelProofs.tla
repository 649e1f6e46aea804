----------------------------- MODULE KernelProofs ----------------------------
(***************************************************************************)
(* Proofs about the process table, the scheduler, the system calls and the *)
(* application manager together, for every number of processes and of      *)
(* applications and every rate of the timer: IInv below is inductive, and  *)
(* the invariants that the kernel run checks follow from it.               *)
(***************************************************************************)
EXTENDS Kernel, FiniteSetTheorems, WellFoundedInduction, TLAPS

-----------------------------------------------------------------------------
(* The inductive invariant.                                                 *)

\* The struct of the boot thread, the first that kmalloc gives.
First == 1

Creating == {"create_stack", "create_insert"}

\* Where the thread may be, and where a call in progress returns to.
Control ==
    /\ pc \in {"boot_process", "boot_scheduler", "boot_timer", "run", "create", "create_stack",
               "create_insert", "terminate", "terminate_stack", "terminate_struct",
               "exit_done", "sleep", "launched", "closed"}
    /\ ret \in {"run", "launched", "exit_done", "closed"}
    /\ pc \in {"create"} \cup Creating => ret \in {"run", "launched"}
    /\ pc \in {"terminate", "terminate_stack", "terminate_struct"} => ret \in {"exit_done", "closed"}

\* Nothing exists and no timer interrupt is handled before process_init.
Unbooted ==
    pc = "boot_process" =>
        /\ process_table = [i \in Slots |-> NULL] /\ next_pid = 0
        /\ structs = {} /\ stacks = {} /\ ready_queue = <<>> /\ irq0 = "none"
        /\ ran = {} /\ maker = [n \in Slots |-> NoApp]

\* current_process is the boot thread's struct for good.  In the table it is
\* idle, with pid 0, no stack and the only state RUNNING; out of it, it is not
\* RUNNING, and the stack it names is nobody's: kmalloc gives it out again
\* before any other struct, cleared, and so before any stack.
Resident ==
    pc # "boot_process" =>
        /\ current_process = First /\ next_pid >= 1
        /\ ready_queue = <<>> /\ ran \subseteq {0}
        /\ \A p \in Live :
            /\ mem[p].pid = 0 => p = First /\ mem[p].state = "RUNNING" /\ mem[p].stack = NULL
            /\ mem[p].state = "RUNNING" => mem[p].pid = 0
        /\ First \notin Live => mem[First].state # "RUNNING"
        /\ First \notin Live \cup InFlight => mem[First].stack \notin stacks

\* The struct of the call in progress.
Flight ==
    /\ InFlight # {} => proc \in Ptrs \ Live
    /\ pc = "terminate" => proc \in Ptrs /\ (proc = First \/ proc \in Live)
    /\ pc \in Creating => First \in structs /\ proc \in structs /\ mem[proc].state = "READY"
    /\ pc = "create_stack" => mem[proc].stack = NULL /\ next_pid < MAX_PROCESSES
    /\ pc = "create_insert" =>
        /\ mem[proc].pid = next_pid - 1 /\ next_pid >= 2
        /\ mem[proc].stack \in stacks
        /\ \A q \in Live : mem[q].pid # mem[proc].pid
    /\ InFlight # {} => \A q \in Live : mem[q].stack = NULL \/ mem[q].stack # mem[proc].stack
    /\ pc = "terminate_struct" => mem[proc].stack \notin stacks

\* The entries of the application manager: a pid is the mark of its launch.
Entries ==
    /\ \A n \in Slots : n >= next_pid => maker[n] = NoApp
    /\ pc \in {"create"} \cup Creating \cup {"launched"} /\ ret = "launched" =>
          app = app_count - 1
    /\ pc = "launched" => ret = "launched"
    /\ pc = "create_insert" => maker[mem[proc].pid] = NoApp
    /\ pc = "launched" /\ proc # NULL => proc \in Live /\ maker[mem[proc].pid] = NoApp
    /\ \A i \in Running : ~Launching(i) => maker[apps[i].pid] = i

IInv == TypeOK /\ Ownership /\ Control /\ Unbooted /\ Resident /\ Flight /\ Entries

-----------------------------------------------------------------------------
(* Lemmas about the table.                                                  *)

\* The order of the natural numbers is well founded, with its pairs in sight.
LEMMA LessIsWellFounded == IsWellFoundedOn({ss \in Nat \X Nat : ss[1] < ss[2]}, Nat)
  BY NatLessThanWellFounded, Zenon DEF OpToRel

\* A set of numbers that is not empty has a least one.
LEMMA Least ==
  ASSUME NEW S \in SUBSET Nat, S # {}
  PROVE  \E m \in S : \A k \in S : m <= k
  <1>1. PICK m \in S : \A k \in S : <<k, m>> \notin {ss \in Nat \X Nat : ss[1] < ss[2]}
    BY LessIsWellFounded, WFMin, Zenon
  <1>2. \A k \in S : ~(k < m)
    BY <1>1
  <1> QED
    BY <1>2

LEMMA Sizes ==
  /\ MAX_PROCESSES \in Nat /\ MAX_PROCESSES >= 2 /\ Slice \in Nat \ {0} /\ TickMod \in Nat \ {0}
  /\ First \in Ptrs /\ NULL \notin Ptrs /\ Ptrs \subseteq Nat
  /\ Slots \subseteq Nat /\ 0 \in Slots /\ MAX_APPS \in Nat \ {0}
  BY ProcessAssumption, SchedulerAssumption, KernelAssumption DEF First, Ptrs, NULL, Slots

\* A struct of the table is a struct, in one slot only.
LEMMA LivePtrs == ASSUME TypeOK PROVE Live \subseteq Ptrs /\ NULL \notin Live
  BY DEF TypeOK, Live

LEMMA OneSlot ==
  ASSUME Ownership, NEW i \in Slots, NEW j \in Slots, process_table[i] # NULL,
         process_table[i] = process_table[j]
  PROVE  i = j
  BY DEF Ownership

\* The idle process is the one of the table with pid 0, which is First.
LEMMA IdleIs ==
  ASSUME TypeOK, Ownership, Resident, pc # "boot_process"
  PROVE  /\ Idle # NULL => Idle \in Live /\ mem[Idle].pid = 0 /\ Idle = First
         /\ \A p \in Live : mem[p].pid = 0 => Idle = p
  <1> DEFINE zero == {i \in Slots : process_table[i] # NULL /\ mem[process_table[i]].pid = 0}
             least == CHOOSE i \in zero : \A j \in zero : i <= j
  <1>1. Idle = IF zero = {} THEN NULL ELSE process_table[least]
    BY DEF Idle
  <1>2. \A i \in zero : process_table[i] \in Live /\ process_table[i] = First
    BY DEF Live, Resident
  <1>3. ASSUME zero # {} PROVE least \in zero
    <2>1. PICK i \in zero : TRUE
      BY <1>3
    <2>2. \A j \in zero : j = i
      BY <1>2, OneSlot
    <2>3. i <= i
      BY Sizes
    <2>4. \E k \in zero : \A j \in zero : k <= j
      BY <2>2, <2>3
    <2> HIDE DEF zero
    <2> QED
      BY <2>4
  <1>4. ASSUME Idle # NULL PROVE Idle \in Live /\ mem[Idle].pid = 0 /\ Idle = First
    <2>1. zero # {}
      BY <1>1, <1>4
    <2>2. Idle = process_table[least] /\ least \in zero
      BY <1>1, <1>3, <2>1
    <2> HIDE DEF least
    <2> QED
      BY <1>2, <2>2
  <1>5. ASSUME NEW p \in Live, mem[p].pid = 0 PROVE Idle = p
    <2>1. PICK i \in Slots : process_table[i] = p /\ p # NULL
      BY DEF Live
    <2>2. i \in zero
      BY <1>5, <2>1
    <2>3. Idle = process_table[least] /\ least \in zero
      BY <1>1, <1>3, <2>2
    <2> HIDE DEF least, zero
    <2>4. Idle = First
      BY <1>2, <2>3
    <2> QED
      BY <1>5, <2>4 DEF Resident
  <1> QED
    BY <1>4, <1>5

\* The pids of the table are different numbers below the limit, so a new
\* process that has a pid and no slot yet finds an empty one.
LEMMA InsertFindsSlot ==
  ASSUME TypeOK, Ownership, Flight, pc = "create_insert"
  PROVE  EmptySlots # {}
  <1> SUFFICES ASSUME EmptySlots = {} PROVE FALSE
    OBVIOUS
  <1> DEFINE T == 0 .. (next_pid - 2)
             f == [i \in Slots |-> mem[process_table[i]].pid]
  <1>1. /\ next_pid \in Nat /\ 2 <= next_pid /\ next_pid <= MAX_PROCESSES
        /\ mem[proc].pid = next_pid - 1
    BY Sizes DEF Flight, TypeOK
  <1>2. \A i \in Slots : process_table[i] # NULL /\ process_table[i] \in Live
    BY DEF EmptySlots, Live
  <1>3. \A p \in Live : mem[p].pid \in T
    <2> SUFFICES ASSUME NEW p \in Live PROVE mem[p].pid \in T
      OBVIOUS
    <2>1. mem[p].pid < next_pid /\ mem[p].pid # next_pid - 1
      BY <1>1 DEF Ownership, Flight
    <2>2. mem[p].pid \in Nat
      BY LivePtrs DEF TypeOK, Struct
    <2> QED
      BY <1>1, <2>1, <2>2
  <1>4. f \in [Slots -> T]
    BY <1>2, <1>3
  <1>5. IsFiniteSet(Slots) /\ Cardinality(Slots) = MAX_PROCESSES
    BY FS_Interval, Sizes DEF Slots
  <1>6. IsFiniteSet(T) /\ Cardinality(T) = next_pid - 1
    <2>1. 0 \in Int /\ next_pid - 2 \in Int /\ ~(0 > next_pid - 2) /\ (next_pid - 2) - 0 + 1 = next_pid - 1
      BY <1>1
    <2> QED
      BY FS_Interval, <2>1
  <1>7. Cardinality(T) < Cardinality(Slots)
    BY <1>1, <1>5, <1>6, Sizes
  <1> HIDE DEF T, f
  <1>8. PICK i \in Slots, j \in Slots : i # j /\ f[i] = f[j]
    BY <1>4, <1>5, <1>6, <1>7, FS_PigeonHole
  <1>9. mem[process_table[i]].pid = mem[process_table[j]].pid
    BY <1>8 DEF f
  <1> QED
    BY <1>2, <1>8, <1>9 DEF Ownership

-----------------------------------------------------------------------------
(* Steps that leave the table and the structs alone.                        *)

LEMMA StillMemory ==
  ASSUME IInv, UNCHANGED <<process_table, next_pid, current_process, mem, structs, stacks, ready_queue>>,
         ran' \subseteq {0}, pc # "boot_process", pc' # "boot_process", InFlight' = InFlight
  PROVE  Live' = Live /\ Ownership' /\ Resident' /\ Unbooted'
  <1>1. Live' = Live
    BY DEF Live
  <1>2. Ownership'
    BY <1>1 DEF IInv, Ownership
  <1>3. Resident'
    BY <1>1 DEF IInv, Resident
  <1> QED
    BY <1>1, <1>2, <1>3 DEF Unbooted

\* process_init makes the boot thread's struct the first that is allocated.
LEMMA ProcessInitIInv == ASSUME IInv, Boot, ProcessInit PROVE IInv'
  <1>1. /\ process_table = [i \in Slots |-> NULL] /\ next_pid = 0
        /\ structs = {} /\ stacks = {} /\ ready_queue = <<>>
        /\ ran = {} /\ maker = [n \in Slots |-> NoApp]
    BY DEF IInv, Unbooted, ProcessInit
  <1>2. PICK p \in Lowest(structs) :
           /\ structs' = structs \cup {p}
           /\ current_process' = p
           /\ process_table' = [i \in Slots |-> IF i = 0 THEN p ELSE NULL]
           /\ mem' = [mem EXCEPT ![p] = [Zeroed EXCEPT !.pid = next_pid, !.state = "RUNNING"]]
    BY DEF ProcessInit
  <1>3. p = First
    <2>1. First \in Ptrs \ structs /\ \A q \in Ptrs : First <= q /\ q \in Nat
      BY <1>1, Sizes DEF First, Ptrs
    <2>2. p \in Ptrs /\ p <= First
      BY <1>2, <2>1 DEF Lowest
    <2> QED
      BY <2>1, <2>2 DEF First
  <1>4. /\ next_pid' = 1 /\ pc' = "boot_scheduler" /\ UNCHANGED <<stacks, ret, proc>>
        /\ UNCHANGED <<schedVars, appVars, sleepVars>>
    BY <1>1 DEF ProcessInit, Boot, SchedulerInit, TimerInit
  <1> DEFINE boot == [Zeroed EXCEPT !.pid = 0, !.state = "RUNNING"]
  <1>5. boot \in Struct /\ boot.pid = 0 /\ boot.state = "RUNNING" /\ boot.stack = NULL
    BY DEF Zeroed, Struct, NULL
  <1>p. mem' = [mem EXCEPT ![First] = boot]
    BY <1>1, <1>2, <1>3
  <1> HIDE DEF boot
  <1>6. mem' \in [Ptrs -> Struct] /\ mem'[First] = boot
    BY <1>5, <1>p, Sizes DEF IInv, TypeOK
  <1>7. Live' = {First}
    BY <1>2, <1>3, Sizes DEF Live
  <1>8. TypeOK'
    <2>2. process_table' \in [Slots -> Ptrs \cup {NULL}]
      BY <1>2, <1>3, Sizes
    <2>3. next_pid' \in 0 .. MAX_PROCESSES /\ structs' \subseteq Ptrs /\ current_process' \in Ptrs
      BY <1>1, <1>2, <1>3, <1>4, Sizes
    <2> QED
      BY <1>4, <1>6, <2>2, <2>3 DEF IInv, TypeOK, schedVars, appVars
  <1>9. InFlight' = {}
    BY <1>4 DEF InFlight
  <1>10. Ownership'
    <2>1. \A i, j \in Slots : i # j /\ process_table'[i] # NULL => process_table'[i] # process_table'[j]
      BY <1>2, Sizes
    <2>2. structs' = {First} /\ stacks' = {}
      BY <1>1, <1>2, <1>3, <1>4
    <2> QED
      BY <1>4, <1>5, <1>6, <1>7, <2>1, <2>2 DEF Ownership
  <1>11. Control' /\ Unbooted'
    BY <1>4 DEF IInv, Control, Unbooted, Creating
  <1>12. Resident'
    <2>1. current_process' = First /\ next_pid' >= 1
      BY <1>2, <1>3, <1>4
    <2>2. ready_queue' = <<>> /\ ran' = {}
      BY <1>1, <1>4 DEF schedVars
    <2>3. First \in Live'
      BY <1>7
    <2> QED
      BY <1>5, <1>6, <1>7, <2>1, <2>2, <2>3 DEF Resident
  <1>13. Flight'
    BY <1>4, <1>9 DEF Flight, Creating
  <1>14. Entries'
    <2>1. \A n \in Slots : maker'[n] = NoApp
      BY <1>1, <1>4 DEF appVars
    <2>2. \A i \in Running' : ~Launching(i)' => maker'[apps'[i].pid] = i
      BY <1>4 DEF IInv, Entries, Running, Launching, appVars, ProcessInit
    <2> QED
      BY <1>4, <2>1, <2>2 DEF Entries, Creating
  <1> QED
    BY <1>8, <1>10, <1>11, <1>12, <1>13, <1>14 DEF IInv

-----------------------------------------------------------------------------
(* process_create.                                                          *)

\* The struct: the lowest that is free, so First before any other.
LEMMA CreateStructIInv == ASSUME IInv, Work, CreateStruct PROVE IInv'
  <1>1. /\ pc = "create" /\ pc' = "create_stack" /\ next_pid < MAX_PROCESSES
        /\ UNCHANGED <<process_table, next_pid, current_process, stacks, ret>>
        /\ UNCHANGED <<schedVars, appVars, sleepVars>>
    BY Sizes DEF CreateStruct, Work, OutOfPids, IInv, TypeOK
  <1>2. PICK p \in Lowest(structs) : /\ structs' = structs \cup {p}
                                     /\ mem' = [mem EXCEPT ![p] = Zeroed]
                                     /\ proc' = p
    BY DEF CreateStruct
  <1>3. p \in Ptrs \ structs /\ (First \notin structs => p = First)
    BY Sizes DEF Lowest, First, Ptrs
  <1>4. InFlight = {} /\ InFlight' = {p} /\ Live' = Live /\ p \notin Live
    BY <1>1, <1>2, <1>3 DEF InFlight, Live, IInv, Ownership
  <1>5. /\ mem' \in [Ptrs -> Struct] /\ \A q \in Ptrs \ {p} : mem'[q] = mem[q]
        /\ mem'[p].state = "READY" /\ mem'[p].stack = NULL
    <2>1. Zeroed \in Struct /\ Zeroed.state = "READY" /\ Zeroed.stack = NULL
      BY DEF Zeroed, Struct
    <2> QED
      BY <1>2, <1>3, <2>1 DEF IInv, TypeOK
  <1>6. \A q \in Live : mem'[q] = mem[q] /\ q \in Ptrs
    BY <1>4, <1>5, LivePtrs DEF IInv
  <1>7. TypeOK'
    BY <1>1, <1>2, <1>3, <1>5 DEF IInv, TypeOK, schedVars, appVars
  <1>8. Ownership'
    <2>1. structs' \subseteq Live \cup {p}
      BY <1>2, <1>4 DEF IInv, Ownership
    <2>2. stacks \subseteq {mem[q].stack : q \in Live}
      BY <1>4 DEF IInv, Ownership
    <2>3. stacks' \subseteq {mem'[q].stack : q \in Live \cup {p}}
      BY <1>1, <1>6, <2>2
    <2>4. /\ \A i, j \in Slots : i # j /\ process_table'[i] # NULL => process_table'[i] # process_table'[j]
          /\ \A q \in Live :
              /\ q \in structs'
              /\ mem'[q].pid < next_pid'
              /\ mem'[q].pid # 0 => mem'[q].stack \in stacks'
      BY <1>1, <1>2, <1>6 DEF IInv, Ownership
    <2>5. \A q, r \in Live :
             q # r => mem'[q].pid # mem'[r].pid /\ (mem'[q].stack = NULL \/ mem'[q].stack # mem'[r].stack)
      BY <1>6 DEF IInv, Ownership
    <2> QED
      BY <1>4, <2>1, <2>3, <2>4, <2>5 DEF Ownership
  <1>9. Control' /\ Unbooted'
    BY <1>1 DEF IInv, Control, Unbooted, Creating
  <1>10. Resident'
    <2>1. First \in structs' /\ (First \notin Live => First = p)
      BY <1>2, <1>3, <1>4 DEF IInv, Ownership
    <2> QED
      BY <1>1, <1>4, <1>5, <1>6, <2>1 DEF IInv, Resident, schedVars
  <1>11. Flight'
    <2>1. First \in structs' /\ p \in structs'
      BY <1>2, <1>3
    <2>2. NULL \notin stacks
      BY Sizes DEF IInv, TypeOK
    <2>3. \A q \in Live : mem'[q].stack = NULL \/ mem'[q].stack # mem'[p].stack
      BY <1>5
    <2> QED
      BY <1>1, <1>2, <1>3, <1>4, <1>5, <2>1, <2>3 DEF Flight, Creating
  <1>12. Entries'
    BY <1>1 DEF IInv, Entries, appVars, Running, Launching, Creating
  <1> QED
    BY <1>7, <1>8, <1>9, <1>10, <1>11, <1>12 DEF IInv

\* The stack, and the pid.
LEMMA CreateStackIInv == ASSUME IInv, Work, CreateStack PROVE IInv'
  <1>1. /\ pc = "create_stack" /\ pc' = "create_insert" /\ next_pid' = next_pid + 1
        /\ UNCHANGED <<process_table, current_process, structs, ret, proc>>
        /\ UNCHANGED <<schedVars, appVars, sleepVars>>
    BY DEF CreateStack, Work
  <1>2. PICK s \in Lowest(stacks) :
          /\ stacks' = stacks \cup {s}
          /\ mem' = [mem EXCEPT ![proc] = [pid |-> next_pid, state |-> "READY", stack |-> s]]
    BY DEF CreateStack
  <1>3. s \in Ptrs \ stacks
    BY DEF Lowest
  <1>4. /\ InFlight = {proc} /\ InFlight' = {proc} /\ Live' = Live /\ proc \in Ptrs \ Live
        /\ next_pid \in Nat /\ next_pid < MAX_PROCESSES /\ next_pid >= 1 /\ proc \in structs
        /\ First \in structs /\ mem[proc].stack = NULL
    BY <1>1 DEF InFlight, Live, IInv, Flight, Creating, Resident, TypeOK
  <1>5. /\ mem' \in [Ptrs -> Struct] /\ \A q \in Ptrs \ {proc} : mem'[q] = mem[q]
        /\ mem'[proc].state = "READY" /\ mem'[proc].stack = s /\ mem'[proc].pid = next_pid
    BY <1>2, <1>3, <1>4 DEF IInv, TypeOK, Struct
  <1>6. \A q \in Live : mem'[q] = mem[q] /\ q \in Ptrs
    BY <1>4, <1>5, LivePtrs DEF IInv
  <1>7. TypeOK'
    <2>1. next_pid' \in 0 .. MAX_PROCESSES
      BY <1>1, <1>4, Sizes
    <2>2. stacks' \subseteq Ptrs
      BY <1>2, <1>3 DEF IInv, TypeOK
    <2> QED
      BY <1>1, <1>5, <2>1, <2>2 DEF IInv, TypeOK, schedVars, appVars
  <1>8. \A q \in Live : /\ mem[q].stack # s /\ mem[q].pid < next_pid /\ mem[q].pid \in Nat
                        /\ mem[q].pid = 0 => mem[q].stack = NULL
    <2> SUFFICES ASSUME NEW q \in Live
                 PROVE /\ mem[q].stack # s /\ mem[q].pid < next_pid /\ mem[q].pid \in Nat
                       /\ mem[q].pid = 0 => mem[q].stack = NULL
      OBVIOUS
    <2>1. mem[q].pid = 0 => mem[q].stack = NULL
      BY <1>1 DEF IInv, Resident
    <2>2. mem[q].pid # 0 => mem[q].stack \in stacks
      BY DEF IInv, Ownership
    <2>3. mem[q].pid < next_pid /\ mem[q].pid \in Nat
      BY <1>6 DEF IInv, Ownership, TypeOK, Struct
    <2> QED
      BY <1>3, <2>1, <2>2, <2>3, Sizes
  <1>9. Ownership'
    <2>2. stacks \subseteq {mem[q].stack : q \in Live \cup {proc}}
      BY <1>4 DEF IInv, Ownership
    <2>3. stacks' \subseteq {mem'[q].stack : q \in Live \cup {proc}}
      <3> SUFFICES ASSUME NEW t \in stacks' PROVE \E q \in Live \cup {proc} : t = mem'[q].stack
        OBVIOUS
      <3>1. CASE t = s
        BY <1>5, <3>1
      <3>2. CASE t # s
        <4>1. t \in stacks /\ t # NULL
          BY <1>2, <3>2, Sizes DEF IInv, TypeOK
        <4>2. PICK q \in Live \cup {proc} : t = mem[q].stack
          BY <2>2, <4>1
        <4> QED
          BY <1>4, <1>6, <4>1, <4>2
      <3> QED
        BY <3>1, <3>2
    <2>4. /\ \A i, j \in Slots : i # j /\ process_table'[i] # NULL => process_table'[i] # process_table'[j]
          /\ structs' \subseteq Live \cup {proc}
      BY <1>1, <1>4 DEF IInv, Ownership
    <2>5. \A q \in Live :
              /\ q \in structs'
              /\ mem'[q].pid < next_pid'
              /\ mem'[q].pid # 0 => mem'[q].stack \in stacks'
      BY <1>1, <1>2, <1>4, <1>6, <1>8 DEF IInv, Ownership
    <2>6. \A q, r \in Live :
             q # r => mem'[q].pid # mem'[r].pid /\ (mem'[q].stack = NULL \/ mem'[q].stack # mem'[r].stack)
      BY <1>6 DEF IInv, Ownership
    <2> QED
      BY <1>4, <2>3, <2>4, <2>5, <2>6 DEF Ownership
  <1>10. Control' /\ Unbooted'
    BY <1>1 DEF IInv, Control, Unbooted, Creating
  <1>11. Resident'
    <2>1. First \in Live \cup {proc}
      BY <1>4 DEF IInv, Ownership
    <2>2. First \notin Live => mem'[First].state # "RUNNING"
      BY <1>5, <2>1
    <2> QED
      BY <1>1, <1>4, <1>6, <2>1, <2>2 DEF IInv, Resident, schedVars
  <1>12. Flight'
    <2>1. \A q \in Live : mem'[q].pid # mem'[proc].pid /\ mem'[q].stack # mem'[proc].stack
      BY <1>4, <1>5, <1>6, <1>8
    <2>2. mem'[proc].stack \in stacks' /\ mem'[proc].pid = next_pid' - 1 /\ next_pid' >= 2
      BY <1>1, <1>2, <1>4, <1>5
    <2> QED
      BY <1>1, <1>4, <1>5, <2>1, <2>2 DEF Flight, Creating
  <1>13. Entries'
    <2>1. maker[next_pid] = NoApp /\ \A n \in Slots : n >= next_pid' => maker[n] = NoApp
      BY <1>1, <1>4, Sizes DEF IInv, Entries, Slots
    <2> QED
      BY <1>1, <1>5, <2>1 DEF IInv, Entries, appVars, Running, Launching, Creating
  <1> QED
    BY <1>7, <1>9, <1>10, <1>11, <1>12, <1>13 DEF IInv

\* The second allocation failed: the struct goes back, and nobody has it.
LEMMA CreateNoStackIInv == ASSUME IInv, Work, CreateNoStack PROVE IInv'
  <1>1. /\ pc = "create_stack" /\ pc' = ret /\ proc' = NULL /\ structs' = structs \ {proc}
        /\ UNCHANGED <<process_table, next_pid, current_process, mem, stacks, ret>>
        /\ UNCHANGED <<schedVars, appVars, sleepVars>>
    BY DEF CreateNoStack, Work, Return
  <1>2. ret \in {"run", "launched"}
    BY <1>1 DEF IInv, Control, Creating
  <1>3. /\ InFlight = {proc} /\ InFlight' = {} /\ Live' = Live /\ proc \in Ptrs \ Live
        /\ mem[proc].stack = NULL
    BY <1>1, <1>2 DEF InFlight, Live, IInv, Flight
  <1>4. NULL \notin stacks
    BY Sizes DEF IInv, TypeOK
  <1>5. TypeOK'
    BY <1>1 DEF IInv, TypeOK, schedVars, appVars
  <1>6. Ownership'
    <2>1. stacks' \subseteq {mem'[q].stack : q \in Live}
      BY <1>1, <1>3, <1>4 DEF IInv, Ownership
    <2>2. structs' \subseteq Live
      BY <1>1, <1>3 DEF IInv, Ownership
    <2> QED
      BY <1>1, <1>3, <2>1, <2>2 DEF IInv, Ownership
  <1>7. Control' /\ Unbooted'
    BY <1>1, <1>2 DEF IInv, Control, Unbooted, Creating
  <1>8. Resident'
    <2>1. First \notin Live => mem[First].stack \notin stacks
      BY <1>1, <1>3, <1>4 DEF IInv, Resident
    <2> QED
      BY <1>1, <1>3, <2>1 DEF IInv, Resident, schedVars
  <1>9. Flight'
    BY <1>1, <1>2, <1>3 DEF Flight, Creating
  <1>10. Entries'
    BY <1>1, <1>2 DEF IInv, Entries, appVars, Running, Launching, Creating
  <1> QED
    BY <1>5, <1>6, <1>7, <1>8, <1>9, <1>10 DEF IInv

\* The new process gets the first empty slot.
LEMMA CreateInsertIInv == ASSUME IInv, Work, CreateInsert PROVE IInv'
  <1>1. /\ pc = "create_insert" /\ pc' = ret /\ proc' = proc
        /\ process_table' = [i \in Slots |-> IF i \in EmptySlots /\ \A j \in EmptySlots : i <= j
                                             THEN proc ELSE process_table[i]]
        /\ UNCHANGED <<next_pid, current_process, mem, structs, stacks, ret>>
        /\ UNCHANGED <<schedVars, appVars, sleepVars>>
    BY DEF CreateInsert, Work, Return
  <1>2. ret \in {"run", "launched"}
    BY <1>1 DEF IInv, Control, Creating
  <1>3. PICK e \in EmptySlots : \A j \in EmptySlots : e <= j
    <2>1. EmptySlots # {} /\ EmptySlots \in SUBSET Nat
      BY <1>1, InsertFindsSlot, Sizes DEF IInv, EmptySlots
    <2> QED
      BY <2>1, Least
  <1>4. e \in Slots /\ process_table[e] = NULL
    BY DEF EmptySlots
  <1>5. \A i \in Slots : process_table'[i] = IF i = e THEN proc ELSE process_table[i]
    <2> SUFFICES ASSUME NEW i \in Slots
                 PROVE  process_table'[i] = IF i = e THEN proc ELSE process_table[i]
      OBVIOUS
    <2>1. i \in EmptySlots /\ (\A j \in EmptySlots : i <= j) => i = e
      BY <1>3, <1>4, Sizes
    <2> QED
      BY <1>1, <1>3, <2>1
  <1>6. /\ InFlight = {proc} /\ InFlight' = {} /\ proc \in Ptrs \ Live /\ proc \in structs
        /\ mem[proc].pid = next_pid - 1 /\ next_pid >= 2 /\ next_pid \in Nat /\ mem[proc].stack \in stacks
        /\ mem[proc].state = "READY"
    BY <1>1, <1>2 DEF InFlight, IInv, Flight, Creating, TypeOK
  <1>7. Live' = Live \cup {proc}
    BY <1>4, <1>5, <1>6, Sizes DEF Live
  <1>8. TypeOK'
    <2>1. process_table' \in [Slots -> Ptrs \cup {NULL}]
      BY <1>1, <1>5, <1>6 DEF IInv, TypeOK
    <2> QED
      BY <1>1, <2>1 DEF IInv, TypeOK, schedVars, appVars
  <1>9. Ownership'
    <2>1. \A i, j \in Slots : i # j /\ process_table'[i] # NULL => process_table'[i] # process_table'[j]
      <3>1. \A i \in Slots : process_table[i] # proc
        BY <1>6, Sizes DEF Live
      <3> QED
        BY <1>4, <1>5, <1>6, <3>1, Sizes DEF IInv, Ownership
    <2>2. \A q \in Live \cup {proc} :
              /\ q \in structs
              /\ mem[q].pid < next_pid
              /\ mem[q].pid # 0 => mem[q].stack \in stacks
      BY <1>6 DEF IInv, Ownership
    <2>3. \A q, r \in Live \cup {proc} :
             q # r => mem[q].pid # mem[r].pid /\ (mem[q].stack = NULL \/ mem[q].stack # mem[r].stack)
      BY <1>1, <1>6 DEF IInv, Ownership, Flight
    <2>4. structs \subseteq Live \cup {proc} /\ stacks \subseteq {mem[p].stack : p \in Live \cup {proc}}
      BY <1>6 DEF IInv, Ownership
    <2> QED
      BY <1>1, <1>6, <1>7, <2>1, <2>2, <2>3, <2>4 DEF Ownership
  <1>10. Control' /\ Unbooted'
    BY <1>1, <1>2 DEF IInv, Control, Unbooted, Creating
  <1>11. Resident'
    <2>1. mem[proc].pid # 0
      BY <1>6
    <2>2. First \in Live'
      BY <1>1, <1>6, <1>7 DEF IInv, Flight, Ownership, Creating
    <2> QED
      BY <1>1, <1>6, <1>7, <2>1, <2>2 DEF IInv, Resident, schedVars
  <1>12. Flight'
    BY <1>1, <1>2, <1>6 DEF Flight, Creating
  <1>13. Entries'
    BY <1>1, <1>2, <1>7 DEF IInv, Entries, appVars, Running, Launching, Creating
  <1> QED
    BY <1>8, <1>9, <1>10, <1>11, <1>12, <1>13 DEF IInv

-----------------------------------------------------------------------------
(* process_terminate.                                                       *)

\* The struct leaves the table; a struct that is not in it leaves nothing.
LEMMA TerminateUnlinkIInv == ASSUME IInv, Work, TerminateUnlink PROVE IInv'
  <1>1. /\ pc = "terminate" /\ pc' = "terminate_stack"
        /\ mem' = [mem EXCEPT ![proc].state = "TERMINATED"]
        /\ process_table' = [i \in Slots |-> IF i \in Mine /\ \A j \in Mine : i <= j
                                             THEN NULL ELSE process_table[i]]
        /\ UNCHANGED <<next_pid, current_process, structs, stacks, ret, proc>>
        /\ UNCHANGED <<schedVars, appVars, sleepVars>>
    BY DEF TerminateUnlink, Work, Terminated
  <1>2. proc \in Ptrs /\ (proc = First \/ proc \in Live) /\ InFlight = {} /\ InFlight' = {proc}
    BY <1>1 DEF InFlight, IInv, Flight
  <1>3. \A i \in Slots : process_table'[i] = IF process_table[i] = proc THEN NULL ELSE process_table[i]
    <2> SUFFICES ASSUME NEW i \in Slots
                 PROVE process_table'[i] = IF process_table[i] = proc THEN NULL ELSE process_table[i]
      OBVIOUS
    <2>1. CASE process_table[i] = proc
      <3>1. i \in Mine /\ i <= i
        BY <2>1, Sizes DEF Mine
      <3>2. \A j \in Mine : j = i
        BY <1>2, <2>1, OneSlot, Sizes DEF Mine, IInv
      <3> QED
        BY <1>1, <2>1, <3>1, <3>2
    <2>2. CASE process_table[i] # proc
      BY <1>1, <2>2 DEF Mine
    <2> QED
      BY <2>1, <2>2
  <1>4. Live' = Live \ {proc}
    BY <1>2, <1>3, Sizes DEF Live
  <1>5. /\ mem' \in [Ptrs -> Struct] /\ \A q \in Ptrs \ {proc} : mem'[q] = mem[q]
        /\ mem'[proc].state = "TERMINATED" /\ mem'[proc].stack = mem[proc].stack
        /\ mem'[proc].pid = mem[proc].pid
    BY <1>1, <1>2 DEF IInv, TypeOK, Struct
  <1>6. Live \subseteq Ptrs /\ \A q \in Live' : q \in Live /\ mem'[q] = mem[q]
    BY <1>4, <1>5, LivePtrs DEF IInv
  <1>7. TypeOK'
    <2>1. process_table' \in [Slots -> Ptrs \cup {NULL}]
      BY <1>1, <1>3 DEF IInv, TypeOK
    <2> QED
      BY <1>1, <1>5, <2>1 DEF IInv, TypeOK, schedVars, appVars
  <1>8. Ownership'
    <2>1. \A i, j \in Slots : i # j /\ process_table'[i] # NULL => process_table'[i] # process_table'[j]
      BY <1>3 DEF IInv, Ownership
    <2>2. structs' \subseteq Live' \cup {proc}
      BY <1>1, <1>2, <1>4 DEF IInv, Ownership
    <2>3. stacks' \subseteq {mem'[q].stack : q \in Live' \cup {proc}}
      <3>1. stacks \subseteq {mem[q].stack : q \in Live}
        BY <1>2 DEF IInv, Ownership
      <3>2. \A q \in Live : q \in Live' \cup {proc} /\ mem'[q].stack = mem[q].stack
        BY <1>4, <1>5, <1>6
      <3> QED
        BY <1>1, <3>1, <3>2
    <2>4. \A q \in Live' :
              /\ q \in structs'
              /\ mem'[q].pid < next_pid'
              /\ mem'[q].pid # 0 => mem'[q].stack \in stacks'
      BY <1>1, <1>6 DEF IInv, Ownership
    <2>5. \A q, r \in Live' :
             q # r => mem'[q].pid # mem'[r].pid /\ (mem'[q].stack = NULL \/ mem'[q].stack # mem'[r].stack)
      BY <1>6 DEF IInv, Ownership
    <2> QED
      BY <1>2, <2>1, <2>2, <2>3, <2>4, <2>5 DEF Ownership
  <1>9. Control' /\ Unbooted'
    BY <1>1 DEF IInv, Control, Unbooted, Creating
  <1>10. Resident'
    <2>1. First \notin Live' => mem'[First].state # "RUNNING"
      BY <1>1, <1>4, <1>5, Sizes DEF IInv, Resident
    <2>2. First \notin Live' \cup InFlight' => mem'[First].stack \notin stacks'
      BY <1>1, <1>2, <1>4, <1>5, Sizes DEF IInv, Resident
    <2> QED
      BY <1>1, <1>6, <2>1, <2>2 DEF IInv, Resident, schedVars
  <1>11. Flight'
    <2>1. \A q \in Live' : mem'[q].stack = NULL \/ mem'[q].stack # mem'[proc].stack
      <3> SUFFICES ASSUME NEW q \in Live' PROVE mem[q].stack = NULL \/ mem[q].stack # mem[proc].stack
        BY <1>5, <1>6
      <3>1. q \in Live /\ q # proc
        BY <1>4
      <3>2. CASE proc \in Live
        BY <3>1, <3>2 DEF IInv, Ownership
      <3>3. CASE proc \notin Live
        <4>1. proc = First /\ mem[First].stack \notin stacks
          BY <1>1, <1>2, <3>3 DEF IInv, Resident
        <4>2. mem[q].pid # 0 /\ mem[q].stack \in stacks
          BY <1>1, <3>1, <4>1 DEF IInv, Resident, Ownership
        <4> QED
          BY <4>1, <4>2
      <3> QED
        BY <3>2, <3>3
    <2> QED
      BY <1>1, <1>2, <1>4, <2>1 DEF Flight, Creating
  <1>12. Entries'
    BY <1>1 DEF IInv, Entries, appVars, Running, Launching, Creating
  <1> QED
    BY <1>7, <1>8, <1>9, <1>10, <1>11, <1>12 DEF IInv

\* The stack is freed; a stack that was freed before is nobody else's.
LEMMA TerminateStackIInv == ASSUME IInv, Work, TerminateStack PROVE IInv'
  <1>1. /\ pc = "terminate_stack" /\ pc' = "terminate_struct"
        /\ stacks' = stacks \ {mem[proc].stack}
        /\ UNCHANGED <<process_table, next_pid, current_process, mem, structs, ret, proc>>
        /\ UNCHANGED <<schedVars, appVars, sleepVars>>
    BY DEF TerminateStack, Work
  <1>2. /\ InFlight = {proc} /\ InFlight' = {proc} /\ Live' = Live /\ proc \in Ptrs \ Live
        /\ \A q \in Live : mem[q].stack = NULL \/ mem[q].stack # mem[proc].stack
    BY <1>1 DEF InFlight, Live, IInv, Flight
  <1>3. NULL \notin stacks
    BY Sizes DEF IInv, TypeOK
  <1>4. TypeOK'
    BY <1>1 DEF IInv, TypeOK, schedVars, appVars
  <1>5. Ownership'
    <2>1. \A q \in Live : mem[q].pid # 0 => mem[q].stack \in stacks'
      BY <1>1, <1>2, <1>3 DEF IInv, Ownership
    <2>2. stacks' \subseteq {mem[p].stack : p \in Live \cup {proc}}
      BY <1>1, <1>2 DEF IInv, Ownership
    <2> QED
      BY <1>1, <1>2, <2>1, <2>2 DEF IInv, Ownership
  <1>6. Control' /\ Unbooted'
    BY <1>1 DEF IInv, Control, Unbooted, Creating
  <1>7. Resident'
    BY <1>1, <1>2 DEF IInv, Resident, schedVars
  <1>8. Flight'
    BY <1>1, <1>2 DEF Flight, Creating
  <1>9. Entries'
    BY <1>1 DEF IInv, Entries, appVars, Running, Launching, Creating
  <1> QED
    BY <1>4, <1>5, <1>6, <1>7, <1>8, <1>9 DEF IInv

\* The struct is freed, after which nothing of the process is left.
LEMMA TerminateStructIInv == ASSUME IInv, Work, TerminateStruct PROVE IInv'
  <1>1. /\ pc = "terminate_struct" /\ pc' = ret /\ proc' = NULL
        /\ structs' = structs \ {proc}
        /\ UNCHANGED <<process_table, next_pid, current_process, mem, stacks, ret>>
        /\ UNCHANGED <<schedVars, appVars, sleepVars>>
    BY DEF TerminateStruct, Work, Return
  <1>2. ret \in {"exit_done", "closed"}
    BY <1>1 DEF IInv, Control
  <1>3. /\ InFlight = {proc} /\ InFlight' = {} /\ Live' = Live /\ proc \in Ptrs \ Live
        /\ mem[proc].stack \notin stacks
    BY <1>1, <1>2 DEF InFlight, Live, IInv, Flight
  <1>4. TypeOK'
    BY <1>1 DEF IInv, TypeOK, schedVars, appVars
  <1>5. Ownership'
    <2>1. structs' \subseteq Live /\ stacks \subseteq {mem[p].stack : p \in Live}
      BY <1>1, <1>3 DEF IInv, Ownership
    <2> QED
      BY <1>1, <1>3, <2>1 DEF IInv, Ownership
  <1>6. Control' /\ Unbooted'
    BY <1>1, <1>2 DEF IInv, Control, Unbooted, Creating
  <1>7. Resident'
    <2>1. First \notin Live => mem[First].stack \notin stacks
      BY <1>1, <1>3 DEF IInv, Resident
    <2> QED
      BY <1>1, <1>3, <2>1 DEF IInv, Resident, schedVars
  <1>8. Flight'
    BY <1>1, <1>2, <1>3 DEF Flight, Creating
  <1>9. Entries'
    BY <1>1, <1>2 DEF IInv, Entries, appVars, Running, Launching, Creating
  <1> QED
    BY <1>4, <1>5, <1>6, <1>7, <1>8, <1>9 DEF IInv

-----------------------------------------------------------------------------
(* The timer interrupt.                                                     *)

\* Preempted and at once resumed, a running struct is as it was.
LEMMA Resumed ==
  ASSUME NEW r \in Struct, r.state = "RUNNING"
  PROVE  [[r EXCEPT !.state = "READY"] EXCEPT !.state = "RUNNING"] = r
  <1> DEFINE q == [[r EXCEPT !.state = "READY"] EXCEPT !.state = "RUNNING"]
  <1>1. DOMAIN r = {"pid", "state", "stack"} /\ DOMAIN q = DOMAIN r
    BY DEF Struct
  <1>2. q["pid"] = r["pid"] /\ q["state"] = r["state"] /\ q["stack"] = r["stack"]
    BY DEF Struct
  <1>3. q = [x \in DOMAIN q |-> q[x]] /\ r = [x \in DOMAIN r |-> r[x]]
    BY DEF Struct
  <1> HIDE DEF q
  <1>4. \A x \in DOMAIN r : q[x] = r[x]
    BY <1>1, <1>2
  <1>5. q = r
    BY <1>1, <1>3, <1>4
  <1> QED
    BY <1>5 DEF q

\* schedule finds nobody but idle to run, and idle already runs; without idle
\* it finds nobody, since the struct it would preempt is not RUNNING.
LEMMA ScheduleStays ==
  ASSUME IInv, pc # "boot_process", Schedule
  PROVE  UNCHANGED <<current_process, mem, ready_queue>> /\ ran' \subseteq {0}
  <1> DEFINE wasRunning == mem[current_process].state = "RUNNING"
             queue == IF wasRunning THEN Append(ready_queue, current_process) ELSE ready_queue
             saved == IF wasRunning THEN [mem EXCEPT ![current_process].state = "READY"] ELSE mem
             next == IF queue # <<>> THEN Head(queue) ELSE Idle
  <1>1. /\ current_process = First /\ ready_queue = <<>> /\ ran \subseteq {0}
        /\ \A p \in Live : /\ mem[p].pid = 0 => p = First /\ mem[p].state = "RUNNING"
                           /\ mem[p].state = "RUNNING" => mem[p].pid = 0
        /\ First \notin Live => mem[First].state # "RUNNING"
    BY DEF IInv, Resident
  <1>2. /\ ready_queue' = IF queue # <<>> THEN Tail(queue) ELSE queue
        /\ IF next = NULL
             THEN mem' = saved /\ UNCHANGED <<current_process, ran>>
             ELSE /\ mem' = [saved EXCEPT ![next].state = "RUNNING"]
                  /\ current_process' = next
                  /\ ran' = ran \cup {mem[next].pid}
    BY <1>1, Sizes DEF Schedule
  <1>3. CASE wasRunning
    <2>1. First \in Live /\ mem[First].pid = 0
      BY <1>1, <1>3
    <2>2. queue = <<First>>
      BY <1>1, <1>3
    <2>3. queue # <<>> /\ Head(queue) = First /\ Tail(queue) = <<>>
      <3>1. <<First>> # <<>> /\ Head(<<First>>) = First
        OBVIOUS
      <3>2. Tail(<<First>>) = <<>>
        OBVIOUS
      <3> HIDE DEF queue
      <3> QED
        BY <2>2, <3>1, <3>2
    <2>4. saved = [mem EXCEPT ![First].state = "READY"]
      BY <1>1, <1>3
    <2>5. next = First /\ next # NULL
      BY <2>3, Sizes
    <2> HIDE DEF queue, saved, next
    <2>6. /\ mem' = [saved EXCEPT ![First].state = "RUNNING"] /\ current_process' = First
          /\ ran' = ran \cup {mem[First].pid} /\ ready_queue' = <<>>
      BY <1>2, <2>3, <2>5
    <2>7. mem' = mem
      <3>1. mem \in [Ptrs -> Struct] /\ First \in Ptrs
        BY Sizes DEF IInv, TypeOK
      <3>2. mem' = [mem EXCEPT ![First] = [[mem[First] EXCEPT !.state = "READY"] EXCEPT !.state = "RUNNING"]]
        BY <2>4, <2>6, <3>1
      <3>3. [[mem[First] EXCEPT !.state = "READY"] EXCEPT !.state = "RUNNING"] = mem[First]
        BY <1>1, <1>3, <3>1, Resumed
      <3> QED
        BY <3>1, <3>2, <3>3
    <2> QED
      BY <1>1, <2>1, <2>6, <2>7
  <1>4. CASE ~wasRunning
    <2>1. queue = <<>> /\ saved = mem /\ next = Idle
      BY <1>1, <1>4
    <2>2. Idle = NULL
      BY <1>1, <1>4, IdleIs DEF IInv
    <2> HIDE DEF queue, saved, next
    <2> QED
      BY <1>1, <1>2, <2>1, <2>2
  <1> QED
    BY <1>3, <1>4

LEMMA TimerIInv == ASSUME IInv, Timer PROVE IInv'
  <1>1. /\ UNCHANGED <<process_table, next_pid, structs, stacks, pc, ret, proc, irq0, IF_flag>>
        /\ UNCHANGED <<appVars, sleepVars>>
        /\ TimerTick \/ SchedulerTick
    BY DEF Timer, TimerInterrupt
  <1>2. pc # "boot_process"
    BY <1>1 DEF IInv, Unbooted, TimerTick, SchedulerTick
  <1>3. Schedule \/ NoSchedule
    BY <1>1 DEF TimerTick, SchedulerTick
  <1>4. UNCHANGED <<current_process, mem, ready_queue>> /\ ran' \subseteq {0}
    <2>1. ran \subseteq {0}
      BY <1>2 DEF IInv, Resident
    <2> QED
      BY <1>2, <1>3, <2>1, ScheduleStays DEF NoSchedule
  <1>5. system_ticks' \in 0 .. (TickMod - 1) /\ slice_ticks' \in 0 .. (Slice - 1)
    <2>1. CASE TimerTick
      BY <2>1, Sizes DEF IInv, TypeOK, TimerTick
    <2>2. CASE SchedulerTick
      BY <2>2, Sizes DEF IInv, TypeOK, SchedulerTick
    <2> QED
      BY <1>1, <2>1, <2>2
  <1>6. TypeOK'
    BY <1>1, <1>4, <1>5 DEF IInv, TypeOK, appVars
  <1>7. InFlight' = InFlight
    BY <1>1 DEF InFlight
  <1>8. Live' = Live /\ Ownership' /\ Resident' /\ Unbooted'
    BY <1>1, <1>2, <1>4, <1>7, StillMemory
  <1>9. Control'
    BY <1>1 DEF IInv, Control
  <1>10. Flight'
    BY <1>1, <1>4, <1>7, <1>8 DEF IInv, Flight
  <1>11. Entries'
    BY <1>1, <1>4, <1>8 DEF IInv, Entries, appVars, Running, Launching
  <1> QED
    BY <1>6, <1>8, <1>9, <1>10, <1>11 DEF IInv

-----------------------------------------------------------------------------
(* Steps that begin or end a call.                                          *)

\* Steps that move the thread between places where no struct is in flight.
LEMMA QuietIInv ==
  ASSUME IInv, UNCHANGED <<process_table, next_pid, current_process, mem, structs, stacks, ready_queue, ran>>,
         pc # "boot_process", pc' # "boot_process", InFlight = {}, InFlight' = {},
         TypeOK', Control', Entries', pc' # "create_insert", pc' \notin Creating,
         pc' = "terminate" => proc' = First \/ proc' \in Live
  PROVE  IInv'
  <1>1. ran' \subseteq {0}
    BY DEF IInv, Resident
  <1>2. Live' = Live /\ Ownership' /\ Resident' /\ Unbooted'
    BY <1>1, StillMemory
  <1>3. Live \subseteq Ptrs
    BY LivePtrs DEF IInv
  <1>4. Flight'
    BY <1>2, <1>3, Sizes DEF Flight, Creating, InFlight
  <1> QED
    BY <1>2, <1>4 DEF IInv

\* scheduler_init and timer_init.
LEMMA BootIInv == ASSUME IInv, Boot PROVE IInv'
  <1>1. CASE ProcessInit
    BY <1>1, ProcessInitIInv
  <1>2. CASE SchedulerInit \/ TimerInit
    <2>1. /\ pc \in {"boot_scheduler", "boot_timer"} /\ pc' \in {"boot_timer", "run"}
          /\ irq0' \in {"scheduler_tick", "timer_callback"}
          /\ UNCHANGED <<process_table, next_pid, current_process, mem, structs, stacks, ret, proc,
                         system_ticks, slice_ticks, IF_flag, ran>>
          /\ UNCHANGED <<appVars, sleepVars>>
      BY <1>2 DEF Boot, SchedulerInit, TimerInit, ProcessInit
    <2>2. ready_queue' = ready_queue
      BY <1>2, <2>1 DEF SchedulerInit, TimerInit, IInv, Resident
    <2>3. InFlight = {} /\ InFlight' = {}
      BY <2>1 DEF InFlight
    <2>4. TypeOK' /\ Control'
      BY <2>1, <2>2 DEF IInv, TypeOK, appVars, Control, Creating
    <2>5. Entries'
      BY <2>1 DEF IInv, Entries, appVars, Running, Launching, Creating
    <2> QED
      BY <2>1, <2>2, <2>3, <2>4, <2>5, QuietIInv DEF Creating
  <1> QED
    BY <1>1, <1>2 DEF Boot

LEMMA RefusedIInv == ASSUME IInv, Work, CreateRefused \/ CreateNoStruct PROVE IInv'
  <1>1. /\ pc = "create" /\ pc' = ret /\ proc' = NULL
        /\ UNCHANGED <<process_table, next_pid, current_process, mem, structs, stacks, ret>>
        /\ UNCHANGED <<schedVars, appVars, sleepVars>>
    BY DEF CreateRefused, CreateNoStruct, Work, Return
  <1>2. ret \in {"run", "launched"}
    BY <1>1 DEF IInv, Control
  <1>3. InFlight = {} /\ InFlight' = {}
    BY <1>1, <1>2 DEF InFlight
  <1>4. TypeOK' /\ Control'
    BY <1>1, <1>2 DEF IInv, TypeOK, appVars, schedVars, Control, Creating
  <1>5. Entries'
    BY <1>1, <1>2 DEF IInv, Entries, appVars, Running, Launching, Creating
  <1> QED
    BY <1>1, <1>2, <1>3, <1>4, <1>5, QuietIInv DEF Creating, schedVars

LEMMA WorkIInv == ASSUME IInv, Work PROVE IInv'
  BY RefusedIInv, CreateStructIInv, CreateStackIInv, CreateNoStackIInv, CreateInsertIInv,
     TerminateUnlinkIInv, TerminateStackIInv, TerminateStructIInv DEF Work, ProcStep

LEMMA SpawnIInv == ASSUME IInv, Spawn PROVE IInv'
  <1>1. /\ pc = "run" /\ pc' = "create" /\ ret' = "run" /\ proc' = NULL
        /\ UNCHANGED <<process_table, next_pid, current_process, mem, structs, stacks>>
        /\ UNCHANGED <<schedVars, appVars, sleepVars>>
    BY DEF Spawn, CallCreate
  <1>2. InFlight = {} /\ InFlight' = {}
    BY <1>1 DEF InFlight
  <1>3. TypeOK' /\ Control'
    BY <1>1 DEF IInv, TypeOK, appVars, schedVars, Control, Creating
  <1>4. Entries'
    BY <1>1 DEF IInv, Entries, appVars, Running, Launching, Creating
  <1> QED
    BY <1>1, <1>2, <1>3, <1>4, QuietIInv DEF Creating, schedVars

\* sys_exit of whatever current_process points at.
LEMMA SysExitIInv == ASSUME IInv, SysExit PROVE IInv'
  <1>1. /\ pc = "run" /\ pc' = "terminate" /\ ret' = "exit_done" /\ proc' = current_process
        /\ IF_flag' = FALSE
        /\ UNCHANGED <<process_table, next_pid, current_process, mem, structs, stacks>>
        /\ UNCHANGED <<ready_queue, system_ticks, slice_ticks, irq0, ran>>
        /\ UNCHANGED <<appVars, sleepVars>>
    BY DEF SysExit, CallTerminate
  <1>2. InFlight = {} /\ InFlight' = {} /\ proc' = First
    BY <1>1 DEF InFlight, IInv, Resident
  <1>3. TypeOK' /\ Control'
    BY <1>1 DEF IInv, TypeOK, appVars, Control, Creating
  <1>4. Entries'
    BY <1>1 DEF IInv, Entries, appVars, Running, Launching, Creating
  <1> QED
    BY <1>1, <1>2, <1>3, <1>4, QuietIInv DEF Creating

\* The returns of the two system calls, and the call of sleep.
LEMMA SysReturnIInv ==
  ASSUME IInv, SysExitReturn \/ SysSleepReturn \/ \E n \in SleepTicks : SysSleep(n)
  PROVE  IInv'
  <1>1. /\ pc \in {"run", "exit_done", "sleep"} /\ pc' \in {"run", "sleep"} /\ IF_flag' \in BOOLEAN
        /\ UNCHANGED <<process_table, next_pid, current_process, mem, structs, stacks, ret, proc>>
        /\ UNCHANGED <<ready_queue, system_ticks, slice_ticks, irq0, ran>>
        /\ UNCHANGED appVars
    BY DEF SysExitReturn, SysSleepReturn, SysSleep
  <1>2. InFlight = {} /\ InFlight' = {}
    BY <1>1 DEF InFlight
  <1>3. TypeOK' /\ Control'
    BY <1>1 DEF IInv, TypeOK, appVars, Control, Creating
  <1>4. Entries'
    BY <1>1 DEF IInv, Entries, appVars, Running, Launching, Creating
  <1> QED
    BY <1>1, <1>2, <1>3, <1>4, QuietIInv DEF Creating

\* app_launch reserves the next entry.
LEMMA AppLaunchIInv == ASSUME IInv, AppLaunch PROVE IInv'
  <1>1. /\ pc = "run" /\ pc' = "create" /\ ret' = "launched" /\ proc' = NULL
        /\ app_count < MAX_APPS /\ Running = {}
        /\ app' = app_count /\ app_count' = app_count + 1
        /\ apps' = [apps EXCEPT ![app_count].active = TRUE]
        /\ UNCHANGED <<process_table, next_pid, current_process, mem, structs, stacks>>
        /\ UNCHANGED <<schedVars, sleepVars, maker>>
    BY DEF AppLaunch, CallCreate, RoomForApp
  <1>2. InFlight = {} /\ InFlight' = {}
    BY <1>1 DEF InFlight
  <1>3. app_count \in AppIds /\ app_count \in Nat
    <2>1. app_count \in 0 .. MAX_APPS
      BY DEF IInv, TypeOK
    <2> QED
      BY <1>1, <2>1, Sizes DEF AppIds
  <1>4. TypeOK' /\ Control'
    <2>1. apps' \in [AppIds -> [active : BOOLEAN, pid : Slots]]
      BY <1>1, <1>3 DEF IInv, TypeOK
    <2>2. app_count' \in 0 .. MAX_APPS /\ app' \in AppIds /\ proc' \in Ptrs \cup {NULL}
      BY <1>1, <1>3, Sizes
    <2> QED
      BY <1>1, <2>1, <2>2 DEF IInv, TypeOK, schedVars, Control, Creating
  <1>5. \A i \in Running' : i = app'
    <2> SUFFICES ASSUME NEW i \in Running', i # app_count PROVE FALSE
      BY <1>1
    <2>1. i \in AppIds /\ i < app_count + 1 /\ apps'[i].active
      BY <1>1 DEF Running
    <2>2. apps[i].active
      BY <1>1, <2>1 DEF IInv, TypeOK
    <2>3. i < app_count
      BY <1>3, <2>1 DEF AppIds
    <2> QED
      BY <1>1, <2>1, <2>2, <2>3 DEF Running
  <1>6. Entries'
    <2>1. \A i \in Running' : Launching(i)'
      BY <1>1, <1>5 DEF Launching
    <2> QED
      BY <1>1, <1>3, <2>1 DEF IInv, Entries, Creating
  <1> QED
    BY <1>1, <1>2, <1>4, <1>6, QuietIInv DEF Creating, schedVars

\* app_launch notes the pid, or gives the entry back.
LEMMA AppLaunchedIInv == ASSUME IInv, AppLaunched PROVE IInv'
  <1>1. /\ pc = "launched" /\ pc' = "run"
        /\ UNCHANGED <<process_table, next_pid, current_process, mem, structs, stacks, ret, proc>>
        /\ UNCHANGED <<schedVars, app, sleepVars>>
    BY DEF AppLaunched
  <1>2. InFlight = {} /\ InFlight' = {}
    BY <1>1 DEF InFlight
  <1>3. app \in AppIds /\ app_count \in Nat /\ app = app_count - 1 /\ ret = "launched"
    BY <1>1, Sizes DEF IInv, TypeOK, Entries
  <1>4. \A i \in Running : i # app => maker[apps[i].pid] = i /\ apps[i].pid \in Slots
    BY <1>1 DEF IInv, Entries, Launching, TypeOK, Running
  <1>5. CASE proc # NULL
    <2> DEFINE pid == mem[proc].pid
    <2>1. apps' = [apps EXCEPT ![app].pid = pid] /\ maker' = [maker EXCEPT ![pid] = app]
          /\ app_count' = app_count
      BY <1>5 DEF AppLaunched
    <2>2. proc \in Live /\ maker[pid] = NoApp
      BY <1>1, <1>5 DEF IInv, Entries
    <2>3. pid \in Nat /\ pid < next_pid /\ next_pid \in 0 .. MAX_PROCESSES
      BY <2>2, LivePtrs DEF IInv, TypeOK, Struct, Ownership
    <2>4. pid \in Slots
      BY <2>3, Sizes DEF Slots
    <2> HIDE DEF pid
    <2>5. TypeOK' /\ Control'
      <3>1. apps' \in [AppIds -> [active : BOOLEAN, pid : Slots]]
        <4>1. apps \in [AppIds -> [active : BOOLEAN, pid : Slots]]
          BY DEF IInv, TypeOK
        <4> QED
          BY <1>3, <2>1, <2>4, <4>1
      <3>2. maker' \in [Slots -> AppIds \cup {NoApp}]
        <4>1. maker \in [Slots -> AppIds \cup {NoApp}]
          BY DEF IInv, TypeOK
        <4> QED
          BY <1>3, <2>1, <2>4, <4>1
      <3> QED
        BY <1>1, <1>3, <2>1, <3>1, <3>2 DEF IInv, TypeOK, schedVars, Control, Creating
    <2>6. Running' = Running
      BY <1>3, <2>1 DEF IInv, TypeOK, Running
    <2>7. \A i \in Running' : maker'[apps'[i].pid] = i
      <3> SUFFICES ASSUME NEW i \in Running PROVE maker'[apps'[i].pid] = i
        BY <2>6
      <3>1. i \in AppIds
        BY DEF Running
      <3>2. CASE i = app
        <4>1. apps'[i].pid = pid
          BY <1>3, <2>1, <3>2 DEF IInv, TypeOK
        <4> QED
          BY <2>1, <2>4, <3>2, <4>1 DEF IInv, TypeOK
      <3>3. CASE i # app
        <4>1. apps'[i].pid = apps[i].pid /\ maker[apps[i].pid] = i /\ apps[i].pid \in Slots
          BY <1>4, <2>1, <3>1, <3>3 DEF IInv, TypeOK
        <4>2. apps[i].pid # pid
          BY <2>2, <3>1, <4>1 DEF NoApp, AppIds
        <4> QED
          BY <2>1, <4>1, <4>2 DEF IInv, TypeOK
      <3> QED
        BY <3>2, <3>3
    <2>8. Entries'
      <3>1. ASSUME NEW n \in Slots, n >= next_pid PROVE maker'[n] = NoApp
        <4>1. maker[n] = NoApp
          BY <3>1 DEF IInv, Entries
        <4>2. n # pid
          BY <3>1, <2>3, Sizes
        <4> QED
          BY <2>1, <4>1, <4>2 DEF IInv, TypeOK
      <3> QED
        BY <1>1, <2>7, <3>1 DEF Entries, Creating
    <2> QED
      BY <1>1, <1>2, <2>5, <2>8, QuietIInv DEF Creating, schedVars
  <1>6. CASE proc = NULL
    <2>1. apps' = [apps EXCEPT ![app].active = FALSE] /\ app_count' = app_count - 1 /\ maker' = maker
      BY <1>6 DEF AppLaunched, UndoLaunch
    <2>2. app_count - 1 \in 0 .. MAX_APPS
      BY <1>3, Sizes DEF IInv, TypeOK, AppIds
    <2>3. TypeOK' /\ Control'
      <3>1. apps' \in [AppIds -> [active : BOOLEAN, pid : Slots]]
        BY <1>3, <2>1 DEF IInv, TypeOK
      <3> QED
        BY <1>1, <1>3, <2>1, <2>2, <3>1 DEF IInv, TypeOK, schedVars, Control, Creating
    <2>4. \A i \in Running' : i \in Running /\ i # app /\ apps'[i].pid = apps[i].pid
      <3> SUFFICES ASSUME NEW i \in Running'
                   PROVE i \in Running /\ i # app /\ apps'[i].pid = apps[i].pid
        OBVIOUS
      <3>1. i \in AppIds /\ i < app_count - 1 /\ apps'[i].active /\ i \in Nat
        BY <2>1 DEF Running, AppIds
      <3>2. i # app /\ i < app_count
        BY <1>3, <3>1
      <3>3. apps'[i] = apps[i]
        BY <2>1, <3>1, <3>2 DEF IInv, TypeOK
      <3> QED
        BY <3>1, <3>2, <3>3 DEF Running
    <2>5. Entries'
      BY <1>1, <1>4, <2>1, <2>4 DEF IInv, Entries, Creating
    <2> QED
      BY <1>1, <1>2, <2>3, <2>5, QuietIInv DEF Creating, schedVars
  <1> QED
    BY <1>5, <1>6

LEMMA AppCloseIInv == ASSUME IInv, NEW i \in AppIds, AppClose(i) PROVE IInv'
  <1>1. /\ pc = "run" /\ app' = i
        /\ UNCHANGED <<process_table, next_pid, current_process, mem, structs, stacks>>
        /\ UNCHANGED <<schedVars, apps, app_count, maker, sleepVars>>
    BY DEF AppClose, CallTerminate
  <1>2. \/ pc' = "terminate" /\ ret' = "closed" /\ proc' \in Live
        \/ pc' = "closed" /\ ret' = ret /\ proc' = proc
    BY DEF AppClose, CallTerminate, WithPid
  <1>3. InFlight = {} /\ InFlight' = {}
    BY <1>1, <1>2 DEF InFlight
  <1>4. TypeOK' /\ Control'
    <2>1. proc' \in Ptrs \cup {NULL}
      BY <1>2, LivePtrs DEF IInv, TypeOK
    <2> QED
      BY <1>1, <1>2, <2>1 DEF IInv, TypeOK, schedVars, Control, Creating
  <1>5. Entries'
    BY <1>1, <1>2 DEF IInv, Entries, Running, Launching, Creating
  <1> QED
    BY <1>1, <1>2, <1>3, <1>4, <1>5, QuietIInv DEF Creating, schedVars

\* app_close and app_manager_update only take marks away.
LEMMA AppDeactivateIInv == ASSUME IInv, AppClosed \/ AppUpdate PROVE IInv'
  <1>1. /\ pc \in {"run", "closed"} /\ pc' = "run"
        /\ UNCHANGED <<process_table, next_pid, current_process, mem, structs, stacks, ret, proc>>
        /\ UNCHANGED <<schedVars, app, app_count, maker, sleepVars>>
    BY DEF AppClosed, AppUpdate, procVars
  <1>2. /\ apps' \in [AppIds -> [active : BOOLEAN, pid : Slots]]
        /\ \A i \in AppIds : apps'[i].pid = apps[i].pid /\ (apps'[i].active => apps[i].active)
    <2>1. \A i \in AppIds : [apps[i] EXCEPT !.active = FALSE] \in [active : BOOLEAN, pid : Slots]
      BY DEF IInv, TypeOK
    <2>2. CASE AppClosed
      BY <2>2 DEF AppClosed, IInv, TypeOK
    <2>3. CASE AppUpdate
      BY <2>1, <2>3 DEF AppUpdate, IInv, TypeOK
    <2> QED
      BY <2>2, <2>3
  <1>3. InFlight = {} /\ InFlight' = {}
    BY <1>1 DEF InFlight
  <1>4. TypeOK' /\ Control'
    BY <1>1, <1>2 DEF IInv, TypeOK, schedVars, Control, Creating
  <1>5. Entries'
    BY <1>1, <1>2 DEF IInv, Entries, Running, Launching, Creating
  <1> QED
    BY <1>1, <1>3, <1>4, <1>5, QuietIInv DEF Creating, schedVars

\* Every step preserves the invariant.
LEMMA NextIInv == IInv /\ [Next]_vars => IInv'
  <1> SUFFICES ASSUME IInv, [Next]_vars PROVE IInv'
    OBVIOUS
  <1>1. CASE Continue
    BY <1>1, BootIInv, WorkIInv, SysReturnIInv, AppLaunchedIInv, AppDeactivateIInv DEF Continue
  <1>2. CASE Begin
    BY <1>2, SpawnIInv, SysExitIInv, SysReturnIInv, AppLaunchIInv, AppDeactivateIInv, AppCloseIInv
       DEF Begin
  <1>3. CASE Timer
    BY <1>3, TimerIInv
  <1>4. CASE UNCHANGED vars
    <2>1. UNCHANGED <<process_table, next_pid, current_process, mem, structs, stacks, pc, ret, proc>>
      BY <1>4 DEF vars, procVars
    <2>2. UNCHANGED <<ready_queue, system_ticks, slice_ticks, irq0, IF_flag, ran>>
      BY <1>4 DEF vars, schedVars
    <2>3. UNCHANGED <<apps, app_count, app, maker>>
      BY <1>4 DEF vars, appVars
    <2>4. Live' = Live /\ InFlight' = InFlight
      BY <2>1 DEF Live, InFlight
    <2>5. TypeOK' /\ Ownership' /\ Control' /\ Unbooted'
      BY <2>1, <2>2, <2>3, <2>4 DEF IInv, TypeOK, Ownership, Control, Unbooted
    <2>6. Resident' /\ Flight'
      BY <2>1, <2>2, <2>4 DEF IInv, Resident, Flight
    <2>7. Entries'
      BY <2>1, <2>3, <2>4 DEF IInv, Entries, Running, Launching
    <2> QED
      BY <2>5, <2>6, <2>7 DEF IInv
  <1> QED
    BY <1>1, <1>2, <1>3, <1>4 DEF Next

LEMMA InitIInv == Init => IInv
  <1> SUFFICES ASSUME Init PROVE IInv
    OBVIOUS
  <1>1. Live = {} /\ InFlight = {} /\ Running = {}
    BY DEF Init, ProcInit, Live, InFlight, Running
  <1>2. TypeOK
    <2>1. Zeroed \in Struct
      BY DEF Zeroed, Struct
    <2>2. mem \in [Ptrs -> Struct]
      BY <2>1 DEF Init, ProcInit
    <2>3. 0 \in AppIds /\ apps \in [AppIds -> [active : BOOLEAN, pid : Slots]]
      BY Sizes DEF Init, AppIds
    <2> QED
      BY <2>2, <2>3, Sizes DEF Init, ProcInit, SchedInit, TypeOK
  <1>3. Ownership
    BY <1>1 DEF Init, ProcInit, Ownership
  <1>4. Control /\ Unbooted
    BY DEF Init, ProcInit, SchedInit, Control, Unbooted, Creating
  <1>5. Resident /\ Flight /\ Entries
    BY <1>1 DEF Init, ProcInit, Resident, Flight, Entries, Creating
  <1> QED
    BY <1>2, <1>3, <1>4, <1>5 DEF IInv

-----------------------------------------------------------------------------
(* The theorems.                                                            *)

\* The invariant of every behaviour.
THEOREM KernelInvariant == Spec => []IInv
  BY InitIInv, NextIInv, PTL DEF Spec

\* The types of the table, the scheduler and the application manager; the
\* entry that app_launch takes is always in its array.
THEOREM KernelTypeOK == Spec => []TypeOK
  <1>1. IInv => TypeOK
    BY DEF IInv
  <1> QED
    BY <1>1, KernelInvariant, PTL

\* Every process owns its struct, its stack and its pid, and none is lost.
THEOREM KernelOwnership == Spec => []Ownership
  <1>1. IInv => Ownership
    BY DEF IInv
  <1> QED
    BY <1>1, KernelInvariant, PTL

\* process_create finds a slot whenever it looks for one.
THEOREM KernelSlotForNew == Spec => []SlotForNew
  <1>1. IInv => SlotForNew
    BY InsertFindsSlot DEF IInv, SlotForNew
  <1> QED
    BY <1>1, KernelInvariant, PTL

\* An application's pid is of no process but its own.
THEOREM KernelAppOwnsProcess == Spec => []AppOwnsProcess
  <1>1. IInv => AppOwnsProcess
    BY DEF IInv, Entries, AppOwnsProcess, WithPid
  <1> QED
    BY <1>1, KernelInvariant, PTL

\* The scheduler never leaves the idle process.
THEOREM KernelStaysIdle == Spec => []SchedulerStaysIdle
  <1>1. IInv => SchedulerStaysIdle
    <2> SUFFICES ASSUME IInv, Booted PROVE SchedulerStaysIdle
      BY DEF SchedulerStaysIdle
    <2>1. pc # "boot_process"
      BY DEF Booted
    <2>2. /\ Idle # NULL => Idle \in Live /\ mem[Idle].pid = 0 /\ Idle = First
          /\ \A p \in Live : mem[p].pid = 0 => Idle = p
      BY <2>1, IdleIs DEF IInv
    <2> QED
      BY <2>1, <2>2 DEF IInv, Resident, SchedulerStaysIdle
  <1> QED
    BY <1>1, KernelInvariant, PTL

\* The stale current_process is never RUNNING, so schedule never queues it.
THEOREM KernelDanglingNeverQueued == Spec => []DanglingNeverQueued
  <1>1. IInv => DanglingNeverQueued
    BY Sizes DEF IInv, Resident, Booted, DanglingNeverQueued
  <1> QED
    BY <1>1, KernelInvariant, PTL
==============================================================================
