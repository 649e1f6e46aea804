------------------------------ MODULE Scheduler ------------------------------
(***************************************************************************)
(* The scheduler and its clock: src/kernel/proc/scheduler.c and            *)
(* src/kernel/drivers/timer/pit.c.  The timer interrupt is atomic: its     *)
(* gate turns interrupts off.                                              *)
(***************************************************************************)
EXTENDS Process

CONSTANTS
    Slice,      \* ticks between two calls of schedule: 10
    TickMod     \* system_ticks wraps here: 2^32

ASSUME SchedulerAssumption == Slice \in Nat \ {0} /\ TickMod \in Nat \ {0}

VARIABLES
    ready_queue,    \* the structs linked from ready_queue_head to its tail
    system_ticks,
    slice_ticks,    \* the static ticks of scheduler_tick
    irq0,           \* the handler registered for IRQ 0
    IF_flag,        \* the CPU's interrupt flag
    ran             \* history: pids current_process has had

schedVars == <<ready_queue, system_ticks, slice_ticks, irq0, IF_flag, ran>>

SchedInit ==
    /\ ready_queue = <<>>
    /\ system_ticks = 0 /\ slice_ticks = 0
    /\ irq0 = "none"
    /\ IF_flag = TRUE           \* irq_install has run
    /\ ran = {}

\* scheduler_init takes IRQ 0; timer_init, the next step of the boot, takes
\* it over, and scheduler_tick is never called again.
SchedulerInit ==
    /\ pc = "boot_scheduler"
    /\ ready_queue' = <<>>
    /\ irq0' = "scheduler_tick"
    /\ pc' = "boot_timer"
    /\ UNCHANGED <<process_table, next_pid, current_process, mem, structs, stacks, ret, proc,
                   system_ticks, slice_ticks, IF_flag, ran>>

TimerInit ==
    /\ pc = "boot_timer"
    /\ irq0' = "timer_callback"
    /\ pc' = "run"
    /\ UNCHANGED <<process_table, next_pid, current_process, mem, structs, stacks, ret, proc,
                   ready_queue, system_ticks, slice_ticks, IF_flag, ran>>

\* The first process of the table with pid 0, or NULL.
Idle ==
    LET zero == {i \in Slots : process_table[i] # NULL /\ mem[process_table[i]].pid = 0} IN
    IF zero = {} THEN NULL
    ELSE process_table[CHOOSE i \in zero : \A j \in zero : i <= j]

Schedule ==
    IF current_process = NULL
    THEN UNCHANGED <<current_process, mem, ready_queue, ran>>
    ELSE LET wasRunning == mem[current_process].state = "RUNNING"
             queue == IF wasRunning THEN Append(ready_queue, current_process) ELSE ready_queue
             saved == IF wasRunning THEN [mem EXCEPT ![current_process].state = "READY"] ELSE mem
             next  == IF queue # <<>> THEN Head(queue) ELSE Idle
         IN  /\ ready_queue' = IF queue # <<>> THEN Tail(queue) ELSE queue
             /\ IF next = NULL
                THEN mem' = saved /\ UNCHANGED <<current_process, ran>>
                ELSE /\ mem' = [saved EXCEPT ![next].state = "RUNNING"]
                     /\ current_process' = next
                     /\ ran' = ran \cup {mem[next].pid}

\* switch_context, which runs when next is not the current process, is not
\* modelled: SchedulerStaysIdle of Kernel says that it never does, so that no
\* process but idle ever runs.

NoSchedule == UNCHANGED <<current_process, mem, ready_queue, ran>>

\* timer_callback
TimerTick ==
    /\ irq0 = "timer_callback"
    /\ system_ticks' = (system_ticks + 1) % TickMod
    /\ IF system_ticks' % Slice = 0 THEN Schedule ELSE NoSchedule
    /\ UNCHANGED slice_ticks

\* scheduler_tick, between scheduler_init and timer_init
SchedulerTick ==
    /\ irq0 = "scheduler_tick"
    /\ current_process # NULL
    /\ IF slice_ticks + 1 >= Slice
       THEN slice_ticks' = 0 /\ Schedule
       ELSE slice_ticks' = slice_ticks + 1 /\ NoSchedule
    /\ UNCHANGED system_ticks

TimerInterrupt ==
    /\ IF_flag
    /\ TimerTick \/ SchedulerTick
    /\ UNCHANGED <<process_table, next_pid, structs, stacks, pc, ret, proc, irq0, IF_flag>>
==============================================================================
