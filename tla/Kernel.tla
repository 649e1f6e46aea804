-------------------------------- MODULE Kernel -------------------------------
(***************************************************************************)
(* The kernel thread and what it calls, over the process table and the     *)
(* scheduler: the boot steps that set them up, the shell's spawn, the      *)
(* system calls exit and sleep (src/kernel/syscall/handlers.c, entered by  *)
(* int 0x80 with interrupts off) and the application manager               *)
(* (src/kernel/apps/app_manager.c).  The timer interrupt comes between any *)
(* two steps while interrupts are on.                                      *)
(***************************************************************************)
EXTENDS Scheduler

CONSTANTS
    MAX_APPS,
    SleepTicks      \* the sleeps asked of sys_sleep, in ticks (ms / 10)

ASSUME KernelAssumption == MAX_APPS \in Nat \ {0} /\ SleepTicks \subseteq Nat

AppIds == 0 .. (MAX_APPS - 1)
NoApp == -1

VARIABLES
    apps,       \* apps[i]: active and pid (type is always APP_CALCULATOR)
    app_count,
    app,        \* local of app_launch and app_close: the entry at work
    start, wait,\* locals of sys_sleep
    maker       \* history: the app_launch that created a pid, or NoApp

appVars == <<apps, app_count, app, maker>>
sleepVars == <<start, wait>>
vars == <<procVars, schedVars, appVars, sleepVars>>

Init ==
    /\ ProcInit /\ SchedInit
    /\ apps = [i \in AppIds |-> [active |-> FALSE, pid |-> 0]]
    /\ app_count = 0 /\ app = 0
    /\ start = 0 /\ wait = 0
    /\ maker = [n \in Slots |-> NoApp]

-----------------------------------------------------------------------------
Boot ==
    /\ \/ ProcessInit /\ UNCHANGED schedVars
       \/ SchedulerInit
       \/ TimerInit
    /\ UNCHANGED <<appVars, sleepVars>>

\* One of the two calls of shell_spawn.
Spawn ==
    /\ pc = "run"
    /\ CallCreate("run")
    /\ UNCHANGED <<schedVars, appVars, sleepVars>>

\* The call in progress goes on.
Work ==
    /\ ProcStep
    /\ UNCHANGED <<schedVars, appVars, sleepVars>>

-----------------------------------------------------------------------------
(* System calls.                                                            *)

\* sys_exit ends whatever current_process points at, then returns to the
\* caller, which runs on.
SysExit ==
    /\ pc = "run"
    /\ current_process # NULL
    /\ CallTerminate(current_process, "exit_done")
    /\ IF_flag' = FALSE
    /\ UNCHANGED <<ready_queue, system_ticks, slice_ticks, irq0, ran, appVars, sleepVars>>

SysExitReturn ==
    /\ pc = "exit_done"
    /\ pc' = "run"
    /\ IF_flag' = TRUE
    /\ UNCHANGED <<process_table, next_pid, current_process, mem, structs, stacks, ret, proc,
                   ready_queue, system_ticks, slice_ticks, irq0, ran, appVars, sleepVars>>

SysSleep(n) ==
    /\ pc = "run"
    /\ pc' = "sleep"
    /\ start' = system_ticks /\ wait' = n
    /\ IF_flag' = FALSE
    /\ UNCHANGED <<process_table, next_pid, current_process, mem, structs, stacks, ret, proc,
                   ready_queue, system_ticks, slice_ticks, irq0, ran, appVars>>

\* While the time has not come, the CPU is halted with interrupts off.
SleptLate == (system_ticks - start) % TickMod > wait    \* mutant
Slept == (system_ticks - start) % TickMod >= wait

SysSleepReturn ==
    /\ pc = "sleep"
    /\ Slept
    /\ pc' = "run"
    /\ IF_flag' = TRUE
    /\ UNCHANGED <<process_table, next_pid, current_process, mem, structs, stacks, ret, proc,
                   ready_queue, system_ticks, slice_ticks, irq0, ran, appVars, sleepVars>>

-----------------------------------------------------------------------------
(* The application manager.                                                 *)

Running == {i \in AppIds : i < app_count /\ apps[i].active}

RoomForApp == app_count < MAX_APPS

\* app_launch: an entry is reserved and marked active before the process
\* exists.  (Refused when app_count is MAX_APPS; if a calculator is active
\* its entry is returned; the other types undo the reservation.)
AppLaunch ==
    /\ pc = "run"
    /\ RoomForApp
    /\ Running = {}
    /\ app' = app_count
    /\ app_count' = app_count + 1
    /\ apps' = [apps EXCEPT ![app_count].active = TRUE]
    /\ CallCreate("launched")
    /\ UNCHANGED <<schedVars, sleepVars, maker>>

UndoLaunchNot == UNCHANGED <<apps, app_count>>   \* mutant
UndoLaunch ==
    /\ apps' = [apps EXCEPT ![app].active = FALSE]
    /\ app_count' = app_count - 1

\* app_launch, once process_create has returned.
AppLaunched ==
    /\ pc = "launched"
    /\ IF proc # NULL
       THEN /\ apps' = [apps EXCEPT ![app].pid = mem[proc].pid]
            /\ maker' = [maker EXCEPT ![mem[proc].pid] = app]
            /\ UNCHANGED app_count
       ELSE UndoLaunch /\ UNCHANGED maker
    /\ pc' = "run"
    /\ UNCHANGED <<process_table, next_pid, current_process, mem, structs, stacks, ret, proc,
                   schedVars, app, sleepVars>>

\* The structs of the table with a given pid.
WithPid(n) == {p \in Live : mem[p].pid = n}

AppClose(i) ==
    /\ pc = "run"
    /\ i \in Running
    /\ app' = i
    /\ \/ \E p \in WithPid(apps[i].pid) : CallTerminate(p, "closed")
       \/ WithPid(apps[i].pid) = {} /\ pc' = "closed"
          /\ UNCHANGED <<process_table, next_pid, current_process, mem, structs, stacks, ret, proc>>
    /\ UNCHANGED <<schedVars, apps, app_count, maker, sleepVars>>

AppClosed ==
    /\ pc = "closed"
    /\ apps' = [apps EXCEPT ![app].active = FALSE]
    /\ pc' = "run"
    /\ UNCHANGED <<process_table, next_pid, current_process, mem, structs, stacks, ret, proc,
                   schedVars, app, app_count, maker, sleepVars>>

\* app_manager_update: entries whose process is gone become inactive.
AppUpdate ==
    /\ pc = "run"
    /\ apps' = [i \in AppIds |->
                  IF i \in Running /\ \A p \in WithPid(apps[i].pid) : mem[p].state = "TERMINATED"
                  THEN [apps[i] EXCEPT !.active = FALSE] ELSE apps[i]]
    /\ UNCHANGED <<procVars, schedVars, app, app_count, maker, sleepVars>>

-----------------------------------------------------------------------------
\* What the kernel thread must do next; the rest it may do.
Continue == Boot \/ Work \/ SysExitReturn \/ SysSleepReturn \/ AppLaunched \/ AppClosed

Begin ==
    \/ Spawn \/ SysExit \/ AppLaunch \/ AppUpdate
    \/ \E n \in SleepTicks : SysSleep(n)
    \/ \E i \in AppIds : AppClose(i)

Timer == TimerInterrupt /\ UNCHANGED <<appVars, sleepVars>>

Next == Continue \/ Begin \/ Timer

\* The thread executes its instructions and the clock ticks: its request stays
\* with the interrupt controller until interrupts are on, however briefly.
Fairness == WF_vars(Continue) /\ SF_vars(Timer)

Spec == Init /\ [][Next]_vars /\ Fairness

-----------------------------------------------------------------------------
Booted == pc \notin {"boot_process", "boot_scheduler", "boot_timer"}

\* Types of the variables.
TypeOK ==
    /\ process_table \in [Slots -> Ptrs \cup {NULL}]
    /\ next_pid \in 0 .. MAX_PROCESSES
    /\ current_process \in Ptrs \cup {NULL}
    /\ mem \in [Ptrs -> Struct]
    /\ structs \subseteq Ptrs /\ stacks \subseteq Ptrs
    /\ proc \in Ptrs \cup {NULL}
    /\ ready_queue \in Seq(Ptrs)
    /\ system_ticks \in 0 .. (TickMod - 1) /\ slice_ticks \in 0 .. (Slice - 1)
    /\ irq0 \in {"none", "scheduler_tick", "timer_callback"}
    /\ IF_flag \in BOOLEAN
    /\ apps \in [AppIds -> [active : BOOLEAN, pid : Slots]]
    /\ app_count \in 0 .. MAX_APPS /\ app \in AppIds
    /\ maker \in [Slots -> AppIds \cup {NoApp}]

\* The struct a call in progress owns although no table slot names it.
InFlight ==
    IF pc \in {"create_stack", "create_insert", "terminate_stack", "terminate_struct"}
    THEN {proc} ELSE {}

\* Each process of the table owns a live struct, a live stack (but for idle)
\* and a pid of its own; and nothing allocated is lost, not even when a later
\* allocation fails or a stale current_process is terminated again.
Ownership ==
    /\ \A i, j \in Slots : i # j /\ process_table[i] # NULL => process_table[i] # process_table[j]
    /\ \A p \in Live :
        /\ p \in structs
        /\ mem[p].pid < next_pid
        /\ mem[p].pid # 0 => mem[p].stack \in stacks
    /\ \A p, q \in Live :
        p # q => mem[p].pid # mem[q].pid /\ (mem[p].stack = NULL \/ mem[p].stack # mem[q].stack)
    /\ structs \subseteq Live \cup InFlight
    /\ stacks \subseteq {mem[p].stack : p \in Live \cup InFlight}

\* The loop of process_create always finds a slot: the pid test bounds the
\* processes ever made, hence those in the table.
SlotForNew == pc = "create_insert" => EmptySlots # {}

\* An active application's pid names no process but the one its launch made,
\* so app_close and app_manager_update never mistake another for it.
Launching(i) == app = i /\ ret = "launched" /\ pc \in {"create", "create_stack", "create_insert", "launched"}

AppOwnsProcess ==
    \A i \in Running : ~Launching(i) =>
        \A p \in WithPid(apps[i].pid) : maker[mem[p].pid] = i

\* Why switch_context is not modelled, and why LaunchRuns fails: nothing puts a
\* process on the ready queue but schedule itself, so the idle process, while
\* there is one, is current and running, and no other process ever is.
SchedulerStaysIdle ==
    Booted => /\ ready_queue = <<>>
              /\ Idle # NULL => current_process = Idle /\ mem[Idle].state = "RUNNING"
              /\ \A p \in Live : mem[p].state = "RUNNING" => p = Idle
              /\ ran \subseteq {0}

\* sys_exit leaves current_process pointing at freed memory, soon reused by
\* the next process: schedule never finds RUNNING there, so it never queues
\* a struct that is free or half made.
DanglingNeverQueued ==
    Booted => /\ current_process # NULL
              /\ current_process \notin Live => mem[current_process].state # "RUNNING"

\* The boot ends, and every call but a sleep of one tick or more (SleepEnds)
\* returns to the thread, with interrupts on.
Sleeping == pc = "sleep" /\ wait > 0
CallsReturn == ((pc # "run" \/ ~IF_flag) /\ ~Sleeping) ~> (pc = "run" /\ IF_flag)

-----------------------------------------------------------------------------
(* Said by the repository, and not so.                                      *)

\* shell.c:224 prints "Done!" after sys_sleep: a sleep ends.
SleepEnds == pc = "sleep" ~> pc # "sleep"

\* app_launch "creates process + initializes app" (app_manager.h:29), and "Apps
\* update themselves in their processes" (app_manager.c:136): the scheduler
\* comes to the process of an application, unless that process is terminated
\* or the application closed before.
LaunchRuns ==
    \A i \in AppIds :
        (pc = "run" /\ i \in Running /\ Idle # NULL)
            ~> (apps[i].pid \in ran \/ WithPid(apps[i].pid) = {} \/ i \notin Running)
==============================================================================
