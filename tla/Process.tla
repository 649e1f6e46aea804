------------------------------- MODULE Process -------------------------------
(***************************************************************************)
(* The process table, src/kernel/proc/process.c.  process_create and       *)
(* process_terminate are called by one kernel thread, with interrupts on   *)
(* unless a system call turned them off, so each is cut where it has       *)
(* changed state the timer interrupt reads.  A call is started by          *)
(* CallCreate or CallTerminate and goes on at label ret when it returns.   *)
(***************************************************************************)
EXTENDS Integers, FiniteSets, Sequences

CONSTANT MAX_PROCESSES

ASSUME ProcessAssumption == MAX_PROCESSES \in Nat \ {0, 1}

Slots == 0 .. (MAX_PROCESSES - 1)

\* Pointers kmalloc returns for structs and for stacks, lowest address first:
\* one more of each than the table has slots.
NULL == 0
Ptrs == 1 .. (MAX_PROCESSES + 1)

VARIABLES
    process_table,  \* slot -> struct or NULL
    next_pid,
    current_process,
    mem,            \* what the memory at each struct pointer holds; kfree
                    \*   leaves it, so a stale pointer still reads it
    structs,        \* struct pointers allocated now
    stacks,         \* kernel stacks allocated now
    pc,             \* the kernel thread: "run" between calls
    ret,            \* label to go on at when the call in progress returns
    proc            \* the struct that call works on; its result on return

procVars == <<process_table, next_pid, current_process, mem, structs, stacks, pc, ret, proc>>

Struct == [pid : Nat, state : {"READY", "RUNNING", "TERMINATED"}, stack : Ptrs \cup {NULL}]
Zeroed == [pid |-> 0, state |-> "READY", stack |-> NULL]     \* memset; READY is 0

Live == {process_table[i] : i \in Slots} \ {NULL}

\* First fit: the lowest address that is free.
Lowest(taken) == {p \in Ptrs \ taken : \A q \in Ptrs \ taken : p <= q}

ProcInit ==
    /\ process_table = [i \in Slots |-> NULL]
    /\ next_pid = 0
    /\ current_process = NULL
    /\ mem = [p \in Ptrs |-> Zeroed]
    /\ structs = {} /\ stacks = {}
    /\ pc = "boot_process" /\ ret = "run" /\ proc = NULL

\* process_init makes the idle process out of the boot thread.
ProcessInit ==
    /\ pc = "boot_process"
    /\ \E p \in Lowest(structs) :
        /\ structs' = structs \cup {p}
        /\ current_process' = p
        /\ process_table' = [i \in Slots |-> IF i = 0 THEN p ELSE NULL]
        /\ mem' = [mem EXCEPT ![p] = [Zeroed EXCEPT !.pid = next_pid, !.state = "RUNNING"]]
    /\ next_pid' = next_pid + 1
    /\ pc' = "boot_scheduler"
    /\ UNCHANGED <<stacks, ret, proc>>

-----------------------------------------------------------------------------
(* process_create.                                                          *)

CallCreate(label) ==
    /\ pc' = "create" /\ ret' = label /\ proc' = NULL
    /\ UNCHANGED <<process_table, next_pid, current_process, mem, structs, stacks>>

Return(result) == pc' = ret /\ proc' = result

\* "Process table full": the test is on next_pid, not on the table.
OutOfPidsLate == next_pid > MAX_PROCESSES       \* mutant
OutOfPids == next_pid >= MAX_PROCESSES

CreateRefused ==
    /\ pc = "create"
    /\ OutOfPids
    /\ Return(NULL)
    /\ UNCHANGED <<process_table, next_pid, current_process, mem, structs, stacks, ret>>

\* kmalloc of the struct and the memset that clears it.
CreateStruct ==
    /\ pc = "create"
    /\ ~OutOfPids
    /\ \E p \in Lowest(structs) :
        /\ structs' = structs \cup {p}
        /\ mem' = [mem EXCEPT ![p] = Zeroed]
        /\ proc' = p
    /\ pc' = "create_stack"
    /\ UNCHANGED <<process_table, next_pid, current_process, stacks, ret>>

\* The heap is shared with the rest of the kernel and may be exhausted.
CreateNoStruct ==
    /\ pc = "create"
    /\ ~OutOfPids
    /\ Return(NULL)
    /\ UNCHANGED <<process_table, next_pid, current_process, mem, structs, stacks, ret>>

\* kmalloc of the stack, and the fields of the new process.
CreateStack ==
    /\ pc = "create_stack"
    /\ \E s \in Lowest(stacks) :
        /\ stacks' = stacks \cup {s}
        /\ mem' = [mem EXCEPT ![proc] = [pid |-> next_pid, state |-> "READY", stack |-> s]]
    /\ next_pid' = next_pid + 1
    /\ pc' = "create_insert"
    /\ UNCHANGED <<process_table, current_process, structs, ret, proc>>

CreateNoStackLeak ==        \* mutant: the struct is not freed
    /\ pc = "create_stack"
    /\ Return(NULL)
    /\ UNCHANGED <<process_table, next_pid, current_process, mem, structs, stacks, ret>>

CreateNoStack ==
    /\ pc = "create_stack"
    /\ structs' = structs \ {proc}
    /\ Return(NULL)
    /\ UNCHANGED <<process_table, next_pid, current_process, mem, stacks, ret>>

\* The loop over the table: the first empty slot, if there is one.
EmptySlots == {i \in Slots : process_table[i] = NULL}

CreateInsert ==
    /\ pc = "create_insert"
    /\ process_table' =
         [i \in Slots |-> IF i \in EmptySlots /\ \A j \in EmptySlots : i <= j
                          THEN proc ELSE process_table[i]]
    /\ Return(proc)
    /\ UNCHANGED <<next_pid, current_process, mem, structs, stacks, ret>>

-----------------------------------------------------------------------------
(* process_terminate of the struct at p.                                    *)

CallTerminate(p, label) ==
    /\ pc' = "terminate" /\ ret' = label /\ proc' = p
    /\ UNCHANGED <<process_table, next_pid, current_process, mem, structs, stacks>>

Mine == {i \in Slots : process_table[i] = proc}

TerminatedUnmarked == mem                        \* mutant
Terminated == [mem EXCEPT ![proc].state = "TERMINATED"]

TerminateUnlink ==
    /\ pc = "terminate"
    /\ mem' = Terminated
    /\ process_table' =
         [i \in Slots |-> IF i \in Mine /\ \A j \in Mine : i <= j
                          THEN NULL ELSE process_table[i]]
    /\ pc' = "terminate_stack"
    /\ UNCHANGED <<next_pid, current_process, structs, stacks, ret, proc>>

\* kfree of what is free already does nothing (module Heap, FreedInert).
TerminateStack ==
    /\ pc = "terminate_stack"
    /\ stacks' = stacks \ {mem[proc].stack}
    /\ pc' = "terminate_struct"
    /\ UNCHANGED <<process_table, next_pid, current_process, mem, structs, ret, proc>>

TerminateStruct ==
    /\ pc = "terminate_struct"
    /\ structs' = structs \ {proc}
    /\ Return(NULL)
    /\ UNCHANGED <<process_table, next_pid, current_process, mem, stacks, ret>>

ProcStep ==
    \/ CreateRefused \/ CreateStruct \/ CreateNoStruct
    \/ CreateStack \/ CreateNoStack \/ CreateInsert
    \/ TerminateUnlink \/ TerminateStack \/ TerminateStruct
==============================================================================
