# Zenix in TLA+

Zenix (`src/`) is a small 32-bit x86 kernel in C and assembly: one kernel
thread, interrupt handlers that interleave with it, a heap, paging, a process
table with a round-robin scheduler, a handful of drivers, a text shell and a
first window system. This directory holds TLA+ models of its core, the TLC
configurations that check them on small instances, and TLAPS proofs of the
properties that matter most, for every value of the constants.

    tlc -workers 2 -config MCHeap.cfg MCHeap.tla      # one run
    tlapm HeapProofs.tla                              # one set of proofs

`PROJECT.json` lists, in machine-readable form, the components, the runs, a
mutant of the code for every property, the source lines of every definition,
the findings, the hazards and the theorems.

## 1. The system

`kernel_main` (kernel/core/kernel.c) runs the steps below in order, turns
interrupts on and halts in a loop. Nothing in it calls `shell_run`,
`gui_init`, `gui_update` or `app_launch`: the shell, the window system and the
application manager are compiled parts whose entry points are reached from each
other only. They are modelled by what they do when called.

| Component | State | Operations | Meets | Hard part |
|---|---|---|---|---|
| interrupt dispatch, `hal/irq.c`, `pic.c` | handler table, two 8259 chips | `irq_install`, `irq_handler`, `pic_send_eoi` | every driver | spurious interrupts of either chip, EOIs owed |
| kernel heap, `mm/heap.c` | block list in the heap, `heap_used` | `kmalloc`, `kfree` | process table, user mode, graphics | splits, merges, double frees |
| physical memory, `mm/pmm.c` | bitmap, two counters | `pmm_init`, alloc, free | paging (the directory's page), the shell's report | frees of free or absent pages, no page left |
| paging, `mm/paging.c` | directory, pool of tables, the TLB | map, unmap, lookup, switch | CPU, graphics | stale TLB, pool exhausted |
| process table, `proc/process.c` | table, `next_pid`, `current_process` | init, create, terminate | heap, scheduler, system calls, application manager | the timer between two steps, failed allocations, dangling pointers |
| scheduler and timer, `proc/scheduler.c`, `drivers/timer/pit.c` | ready queue, ticks, the handler of IRQ 0 | `schedule`, the two tick handlers | process table | runs in the interrupt, two handlers for one line |
| system calls, `syscall/` | the caller's frame | exit, sleep, write, read, getpid | process table, timer | run with interrupts off |
| application manager, `apps/app_manager.c` | `apps`, `app_count` | launch, close, update | process table | pids kept across calls |
| keyboard, `drivers/keyboard/` | ring of 256, shift and caps flags | handler, `keyboard_getchar` | PS/2 port, shell | handler against reader |
| mouse, `drivers/mouse/` | packet cycle, pointer, buttons | `mouse_init`, handler | PS/2 port, window system | polling and two handlers on one port |
| text screen, `core/monitor.c` | video memory, cursor, scrollback | `print_char`, `clear_screen` | everything that prints | wrap and scroll at the edges |
| shell, `shell/shell.c` | line buffer and index | the key loop, the parser, the commands | keyboard, screen, process table | editing across wraps and tabs, full buffers |
| window system, calculator, `gui/gui.c`, `apps/calculator/` | windows, drag, button state; the display and accumulator | update on each frame, buttons | mouse, application manager | two memories of the last button state |
| virtual file system, `fs/vfs_complete.c` | root, descriptor table | open, read, write, seek, close, create, mkdir, unlink | the functions of the nodes of a mounted file system | bare pointers to nodes, full table, wrapping offsets, names cut by buffers |
| RAM disk, `fs/initrd.c`, `fs/vfs.c`, `tools/mkinitrd.c` | headers of the image | parse, read, readdir | shell (`ls`, `cat`) | layout; never mounted |
| boot and display, `boot/boot.asm`, `core/kernel.c`, `drivers/video/gop_fb.c`, `drivers/gpu` | the magic number, registered handlers, the page directory, which display is ready | the steps of `kernel_main`, detection, power, plane | exceptions, paging, physical memory | devices missing, silent or unmapped; no page for the directory |
| VGA modes, colours | registers, pixels | mode set, drawing | window system | hardware only |
| GDT, IDT, user mode, C library | tables written once | - | - | none that moves |

Disk, PCI, ext2, FAT, IPC, threads, user space and the text editor are empty
files at this commit.

There is one kernel thread and one CPU. Concurrency is the interleaving of the
thread with the handlers of IRQ 0, 1 and 12. A gate turns interrupts off, so a
handler is atomic to the thread and to other handlers, and a system call,
behind the same kind of gate, sees no interrupt. Nothing is persistent: there
is no recovery to model, and failure means an allocation that fails, a pool, a
table or a buffer that is full, a request that vanishes.

## 2. The modules

Each component has a module with its state, one action per operation or per
step another actor can see, and its properties; an `MC` module and a `.cfg` for
TLC; and, where proved, a `...Proofs` module. Definitions have the names of the
source where TLA+ allows it. Definitions marked `mutant` are the broken
variants of their neighbour that the mutants of `PROJECT.json` use. No run and
no proof uses them otherwise.

    Allocator <- Heap              PageMap <- Paging       BoundedFifo <- Keyboard
    Process < Scheduler < Kernel   OpenFiles <- Vfs        Paper <- Shell > Monitor
    Pmm < Boot                     Calculator < Desktop    Interrupts, Ps2

(`A <- B`: B implements A; `A < B`: B extends A.)

**Allocator, Heap.** `Heap` is `heap.c` word by word: headers of three words in
the heap itself, the address-ordered list, first fit, split, and merge on both
sides. Requests are bytes, rounded as the code does. Atomic, since no handler
allocates. Callers may free what they hold, and what they have freed before
while its header stands, which `sys_exit` does. `Allocator` is the contract:
disjoint regions, each at least as long as asked for.

**PageMap, Paging.** `Paging` is the directory, the pool of tables it points
into, and the CPU, which walks them and caches what it finds. `PageMap` is one
flat map; `Physical` is the refinement mapping. A map that finds the pool empty
changes nothing, in both.

**Pmm.** The bitmap and the counters from every memory size and every end of
the kernel, the end beyond the memory included. `Boot` extends it: the boot
takes its page directory from it, and callers follow, which free twice and free
what does not exist.

**BoundedFifo, Keyboard.** The handler, one action per kind of scancode, and
`keyboard_getchar` cut at each access to the shared ring (test, read, advance).
`BoundedFifo` is a FIFO of one character less than the ring; the refinement
mapping reads the ring from tail to head.

**Process, Scheduler, Kernel.** `Process` cuts `process_create` and
`process_terminate` at each change that the timer interrupt can see; memory
freed keeps its contents, so a stale pointer reads what the code would read.
`Scheduler` adds the ready queue, `schedule` and both timer handlers, with the
boot order that makes the second replace the first. `Kernel` composes them with
the kernel thread: boot, the shell's spawn, `sys_exit` and `sys_sleep` with
interrupts off, and the application manager. An allocation may fail at any
time, since the heap is shared with the rest of the kernel.

**Interrupts.** `irq_handler` and `pic_send_eoi` over an external model of two
cascaded 8259 chips: priorities, in-service bits, and requests withdrawn before
they are acknowledged, which end as spurious interrupts of line 7 or 15.

**Ps2.** The one output byte of the 8042 (external), `mouse_init` access by
access, and the two handlers that read the same port. Bytes are numbers, as the
code tests their bits; only x of the two coordinates is kept. The controller
takes commands at once, and `mouse_wait` times out only when no byte is on its
way: its 100000 polls far outlast any answer. The firmware is taken to have left
the keyboard's interrupt on, which `mouse_init` writes back as it finds it, and a
mouse to mark the first byte of its packets, as the handler expects.

**Paper, Monitor, Shell.** `Monitor` is the text screen; `Shell` the key loop
and the parser over it, printing one character per step. `Paper` is endless
paper: what has scrolled off, what the scrollback kept and what is on the screen
are its lines. Texts and command names are constants.

**Calculator, Desktop.** `Desktop` is one frame of the window system after the
other: `gui_update` reads the mouse and handles clicks, drags and releases of
windows, then `calculator_update` reads it again and does the same for its own
window, with its own memory of the button. Each read is cut between the
position and the button, and a packet may come at any point. A click on a key
runs the keypad of `Calculator`: display, accumulator, pending operation, every
key. A double is a whole number of steps of 1/`Unit`, rounded where a double is;
the display is a text, of which the sign, the digits before and behind the point
and the length are kept. `Shown` is `simple_ftoa`, with the cut to two decimals,
the sign it drops between -1 and 0 and the minus sign with nothing or garbage
behind it that it prints of an overflowed int; `ReadBack` is `simple_atof`, with
its divisor that wraps.

**OpenFiles, Vfs.** `Vfs` is the descriptor table and the walk from a path to a
node: the split at slashes and at full buffers, the cut of the directory part,
the unsigned sum of a seek. A path is a sequence of letters and slashes; of a
read or write the position and the length are kept. What stands behind a node's
function pointers is external: a tree of entries with files that grow, where a
node that was told of more opens than closes is not removed, and a name that is
taken or empty is refused. `OpenFiles` is the contract: descriptors with a file
and a position each, the position a plain number inside the file, and no file
emptied while it is open.

**Boot.** The loader's stub, the magic check, the registration of exception
handlers, paging with the page directory that the page allocator has or has not,
and the search for a display: framebuffer, PCI scan, the
Intel driver's addresses, power and plane. The machine (external) is chosen at
the start: what the loader passes, and up to two display controllers. An access
to device memory beyond the 16 MB that paging maps is a page fault, and every
exception halts. Besides the usual controllers,
whose addresses lie beyond it, kinds with lower addresses let the driver's later
steps be reached.

## 3. What the runs check

Every passing run is finite, checks deadlock unless said otherwise, and breaks
when its mutants put a plausible bug into the code.

| Run | Instance | Shows |
|---|---|---|
| `heap` | 24 words, requests of 1, 8, 11, 21 bytes | `Tiled`: the list tiles the heap. `FreedInert`: a second free finds an unused header. `Accounting`: the counter is the number of words that used blocks fill. `RefusesOnlyWhenFull`: no merge is ever missed. `RefinesAllocator`: no call disturbs a region in use. |
| `paging` | 3 directory entries, 2 tables of 2 entries | `UnmappedIsUnreachable` through the TLB, `RefinesPageMap` when the pool runs out too. |
| `keyboard` | ring of 3, 5 characters | `ReaderSafe`: what `getchar` tested stays true. `NoStuckShift`. `RefinesFifo`. `Delivered`: every stored character is returned some day. |
| `kernel` | 4 pids, 2 applications, sleeps of 0 and 1 tick | `Ownership`: structs and stacks are neither leaked nor shared. `SlotForNew`: the insertion loop finds a slot. `AppOwnsProcess`. `DanglingNeverQueued`: the interrupt between any two steps never queues a dead struct. `CallsReturn`. No deadlock check: a sleep of one tick does halt the CPU for good. |
| `interrupts` | timer, mouse, lines 7 and 15, 2 requests each | `Balanced`: every interrupt, real or spurious, sends just the EOIs it owes. `OncePerRequest`, `Acknowledged`. |
| `ps2` | 2 scancodes, 2 keys, 3 packets, 2 moves | `InitEnds` whatever a handler steals. If no device is touched before the end of `mouse_init`, and of such boots only: `InSync`, each handler gets its device's bytes, in step with the packets; `NeverJammed`, no byte stays in the port unannounced. |
| `shell` | 3 by 4 screen, scrollback of 2, lines of 4, 7 keys | `PromptKept`: backspace never eats the prompt, across wraps and tabs. `RunsWhatWasTyped`, whatever a longer line left in the buffer. `RefinesPaper`. |
| `files` | 2 descriptors, 2 directories and 2 files, 2-letter components, directory parts of 4 characters, 9 paths | `OpensMatch`: a failed open leaves nothing behind. `NothingDangles`: no descriptor outlives its node. `ResolvesAsNamed`: a path that fits the buffers leads where its names say, with a slash before, behind or neither. `ChangesAsNamed`: creations and removals change that one entry. `RefinesOpenFiles`. |
| `desktop` | 3 sets of 4 to 6 pointer positions, 1 window, 4 presses, ints to 127, steps of 1/64 | `ClicksArePresses`: a press is one click at most, for each of the two readers. `DragHeld`: no drag outlives the button. `TitleOnScreen`: no drag takes the title bar of a window from `gui_create_window` off the screen; the calculator's own window is not such a window, and does lose its (`DragLosesTitle`, below). `ResultShown`: between numbers the display is less than a hundredth away from the accumulator, but for the texts the code prints or reads wrongly, which it names. |
| `boot` | every loader, up to 2 controllers of 7 kinds, bitmap of 7 pages, 4 memory sizes, 3 kernel ends | `DriversSound`: no driver writes through a null address, no mode reported whose memory was not reached. `TranslationSound`: the directory in use stays its own page, and the page-fault handler stands before translation is on. `ReservedKept`: no reserved page and no held page is handed out, whatever is freed. `Counting`: the memory reported free can be allocated. `BootsWithoutFramebuffer`: missing or silent devices and missing memory stop no boot; it excepts the machines whose boot does stop, those with framebuffer information or with an Intel controller whose addresses are not mapped. |

The runs that find a violation each check one statement of the repository:

| Run | Statement | What the code does |
|---|---|---|
| `kernel_sleep` | the sleep test prints "Done!" (shell.c:224) | `sys_sleep` waits for a tick with interrupts off, for ever |
| `kernel_launch` | a launch "creates process + initializes app" (app_manager.h:29), "Apps update themselves in their processes" (app_manager.c:136), "Spawn test processes" (shell.c:35), "Multitasking" (shell.c:178) | `process_create` never puts a process on the ready queue (process.c:70), and only `schedule` itself does: the process of a launch never runs |

Two more statements do not hold, and theorems say so for every instance, so that
they need no run. kernel.c:115 tries the framebuffer first since it "works
in UEFI, QEMU, VirtualBox", but the stub copies its parameters through `eax`,
where the magic number was (boot.asm:53-66, 80), and `kernel_main` halts on a
wrong magic number (`FramebufferHalts`, proved as `BootHaltsOnFramebuffer`). And
calculator_app.c:372 says "Keep on screen" of a drag of the calculator's window,
but the window is taller than the screen, so that every drag takes its title bar
to y = -64 for good (`DragLosesTitle`, proved as `DesktopDragLosesTitle`).

Not stated as violations, since the repository says nothing or little to the
contrary, but visible in the models: `app_close` never lowers `app_count`;
releasing one of two shift keys clears the flag; a scancode that arrives while
`mouse_init` reads the configuration byte is written back as the configuration
(9C turns the keyboard off); a full scrollback keeps its oldest lines;
`process_create` refuses when all pids have been used, however empty the table
is, and says that it is full (process.c:32); a page mapped again keeps its old
translation in the TLB (paging.c:150 does not flush); a result beyond 2^31 - 1,
or -2^31, is shown as a minus sign and read back as 0, one below -2^31 as a
minus sign and garbage; a result between -1 and 0 is shown as 0
(calculator_app.c:168, 189); ten typed decimals or more are misread, since the
divisor is an int (calculator_app.c:148); a result is cut to two decimals, and
a second "=" takes the cut text for the result; the bottom of a dragged window
is tested against the screen's width (gui.c:202), so a window can go down until
its title bar alone, or the first line of it, is left; the display drivers run
with paging on and without a mapping of their devices, so a machine with an
Intel controller stops in a page fault; what `setup_pipe` returns is ignored,
so a dark pipe is reported as ready, and any Intel controller is taken for a HD
4600; on a machine without a page for the directory paging stays off, and
`paging_test` goes through a null pointer (paging.c:80, 225); a seek to before
the start of a file goes to its end (vfs_complete.c:196), a component of 128
characters or more is taken for two (vfs_complete.c:75), a directory part of
256 or more is cut (vfs_complete.c:226); the comment at irq.c:28 says "EOI to
slave only" of a spurious line 15, but `pic_send_eoi(2)` reaches the master
only, as it must, and as the model has it.

Every invariant and every step property in this table is also proved (section 4);
the liveness properties are checked here only. The type invariants of `Heap`,
`Paging`, `Pmm`, `Keyboard`, `Ps2`, `Kernel`, `Vfs`, `Interrupts`, `Desktop` and
`Shell` are proved and not listed in their runs, and neither are `HeldAreUsed` and
`AllFreedIsInitial` of `Heap` and `TablesDisjoint` of `Paging`, proved too.

### Bounds

- Heap: 24 words are six smallest blocks, enough for a free block between two
  used ones on both sides, and the four sizes give every leftover of the split
  test. No counter is bounded: the state space is finite by itself.
- Keyboard: a ring of 3 fills, drops and wraps within `MaxTyped` = 5.
- Paging: three directory entries compete for two tables, one taken by the
  identity map.
- Kernel: four pids are three processes besides idle, so that two can be live
  while a third is being made or ended; pids are never reused, which bounds the
  runs. `Slice` = 2 and `TickMod` = 4 stand for 10 and 2^32: every step meets
  a tick that schedules and one that does not, and the counter wraps.
- Interrupts: the lowest line of each chip meets its spurious twin, and a higher
  line of each; `MaxRaised` = 2 lets a request come while one is in service.
- Ps2: `MaxKeys` and `MaxMoves` = 2: an overflow packet and the one after it, a
  key at any two points of `mouse_init`.
- Shell: lines overrun the screen width, the buffer, `cmd` and `args`;
  `MaxKeys` = 7 ends two lines of three characters, and the output scrolls more
  lines than the scrollback takes.
- Desktop: the pointer keeps to one of three sets of points, each with the title
  bar or the keys its question needs: windows, where it hits the title bars and
  close buttons of the calculator and of a window on its way, a digit, an operator,
  and after the first drag C and =; divisions; points. Torn positions stay in the
  set. `MaxPresses` = 4 types a number, an operator, a number and a result.
  `IntMax` = 127 (at least 100, as two decimals need) and `Unit` = 64 let a quotient
  have decimals that are cut. What `simple_ftoa` does of a number, overflows of
  either sign included, is checked by itself over every number to beyond the range
  (`ConversionsAgree`), and proved for every number (`ShownAgrees`).
- Boot: two controllers are a first that is passed over and a second that is
  taken, and the other way round. The memory ends before, at and behind the
  kernel, so that no page, one or up to five are free.
- Files: two descriptors share a node, differ, and run out; lengths of 0 to 2 with
  moves of -1 and 1 and `Width` = 8 wrap below the start and clamp above the end;
  one path has a component of three letters, one more than the buffer takes, and
  one a directory part of five characters.

### Fairness

- `Keyboard`: weak fairness of `keyboard_getchar`; shell_run calls it in a loop
  (shell.c:295) and interrupts delay it only. None for the user.
- `Kernel`: weak fairness of the step a call in progress must take next, and
  strong fairness of the timer interrupt: its request stays with the interrupt
  controller until interrupts are on, so calls that turn them off again and again
  do not keep it away. None for starting calls. In `sys_sleep` interrupts are off
  for good, so the timer's fairness asks nothing: that is its defect.
- `Interrupts`: weak fairness of the CPU, which executes the handler and takes
  an interrupt that it is offered.
- `Ps2`: weak fairness of the kernel thread and of the controller showing the
  bytes it has.
- `Boot`: weak fairness of the steps of the boot, which the CPU executes one
  after the other. Interrupts are on from `irq_install` (irq.c:70); their handlers
  return, so they delay a step and prevent none. The wait for the power well is a
  counted loop, so it ends whatever the device does.

## 4. What is proved

With TLAPS, for every value of the constants that the named assumptions allow.
Each proof is one inductive invariant, `IInv` unless named otherwise, the three
facts about it, and the properties as consequences.

- **HeapProofs.** `IInv` is `TypeOK`, `Tiled`, `Coalesced`, `HeldAreUsed` and
  `FreedInert`. `Tiled` alone is inductive but says nothing of callers;
  `HeldAreUsed` needs it to know that a split ends inside the block that was
  cut, and `FreedInert` needs `Coalesced`: a merged header stays unread because
  its block can only be absorbed by a free one. Tiling is shown through a
  lemma about replacing neighbours (`MergeTiling`) used for all four cases of a
  free. From the invariant follow `RefusesOnlyWhenFull` (two used blocks next to
  a window bound a single free one), `AllFreedIsInitial`, and
  `HeapRefinesAllocator`, step by step. `Accounting` counts words: blocks that
  tile have no word in common, so a used block more or less is as many words
  more or less as its size (`OneBlockMore`), which is what `heap_used` is moved
  by; a split or a merge moves no word of a used block.
- **InputProofs**, the keyboard. `IInv` is `TypeOK`, `ReaderSafe` and
  `NoStuckShift`. `ReaderSafe` is needed by the refinement: the slot being read
  is not given to the handler. The ring arithmetic modulo the size is in three
  lemmas (`SuccCases`, `DiffCases`, `SlotCases`); `KeyboardRefinesFifo` then maps
  a store to Put, a full ring to Drop and the advance to Get.
- **InputProofs**, the shared port. `Ps2IInv` follows a boot in which nobody
  touches a device access by access: nothing on its way before the question
  (`Cold`); the answer waiting, in the port, or taken by the keyboard's handler
  while the port still shows it (`Asking`), so that the byte written back is the
  configuration read; one acknowledgement after each command, gone before the
  next (`Acknowledged`). Afterwards (`Running`) each device's bytes are those its
  handler took, the one in the port and those waiting, in this order; the packet
  position is the number of bytes taken modulo three; and each third byte sent
  has the mark, so that the handler discards none. `InSync` and `NeverJammed` are
  read off it. A boot that was disturbed keeps its types only: nothing more is
  true of it.
- **MemoryProofs**, paging. `VmInv` is `VmTypeOK`, `TablesDisjoint` and
  `UnmappedIsUnreachable`. Disjoint tables make a change of one entry a change
  of one page (`SetEntryWalk`, `NewTableWalk`), which is both the step of
  `UnmappedIsUnreachable` and `PagingRefinesPageMap`.
- **MemoryProofs**, frames and boot. `PmmInv` is `TypeOK`, `ReservedKept` and
  `Counting`; the counter stays in range because it counts, and counts because a
  page freed was taken. The boot adds `Translation` (the directory is among the
  pages held, so that the allocator's own invariant keeps it), `Ready` and
  `Reports`, which say how far each driver has come at each step.
  `BootHaltsOnFramebuffer` has an invariant of its own, that the stub leaves `eax`
  without the magic number. The proofs
  about the allocator by itself (`PmmSpec`) and about the boot that extends it
  share their lemmas.
- **InterruptsProofs.** `Balanced` and `OncePerRequest` with `Entered`: what is in
  service while `irq_handler` runs is what its line put there, or, if the
  interrupt was spurious, nothing or the cascade line. So each chip has one bit
  at most, and the unspecific EOI hits the right one.
- **KernelProofs.** `TypeOK` and `Ownership` with `Control` (where the thread is
  and where a call returns to), `Unbooted` (nothing exists before
  `process_init`), `Resident` (the current process is the boot thread's struct
  for good, and the only one with pid 0), `Flight` (the struct in the making, or
  on its way out, is no entry of the table) and `Entries` (an application's pid is
  the one its launch made). `SlotForNew` is a pigeonhole argument: the pids in
  the table are distinct and below `next_pid`, so a slot is left.
  `SchedulerStaysIdle`, the reason why `LaunchRuns` fails, as `KernelStaysIdle` has it
  for every instance, is hard because a second exit frees the boot thread's
  struct while `current_process` points at it: first fit gives that struct out
  again before any other, cleared, so what `schedule` reads in between is a
  process that is not RUNNING, or one with no stack of its own.
- **VfsProofs.** `TypeOK`, `OpensMatch`, `NothingDangles` and `OffsetsInside` (a
  position is inside the greatest file). That a path leads to a live node
  (`ResolveLive`) goes by induction over the path. `NothingDangles` needs
  `OpensMatch`: a node with a descriptor has a count above zero, so its removal
  is refused. `VfsRefinesOpenFiles` maps each action to its counterpart; for a
  seek, a lemma on the unsigned sum modulo `Width`. `ResolvesAsNamed` needs that a
  directory has one entry of a name (`EntriesUnique`, an invariant of its own) and
  compares two recursions: the walk, one character after the other, and the
  chain of entries, one name after the other. `WalkNamed` takes the walk through
  a whole name at once, by induction over the names. For `ChangesAsNamed` the
  path's last slash is found to be the one before the last name
  (`LastOfJoined`), so that the directory part is again a path of names
  (`ParentNamed`).
- **ShellProofs.** `IInv` is `TypeOK`; `Terminated` and `BlankBelow`, of the buffer
  and the screen; `FullBefore`, no line dropped before the scrollback is full;
  and where the prompt is: still ahead in the output (`PromptAhead`), half
  printed (`PromptBegun`), or on the screen with the line behind it (`Editing`).
  `PromptKept` rests on the last: as long as the cursor is on the prompt's row,
  it stands at least a column right of the prompt for each character typed. A
  tab takes more than one and gives back one; a wrap leaves the row. That needs
  a prompt that fits a row, and texts that end their line before it
  (`ShellAssumption`; the output of each modelled command in shell.c does).
  `LandsAs` and `PrintMoves` say what one character does to the screen, `Page` reads the screen as the end
  of a page, and `ShellRefinesPaper` shows that a character writes on that page
  what it writes on paper, a scroll included, which only moves a line from the
  top of the screen behind what was saved (`SavesAfter`, `TopShifted`).
  `RunsWhatWasTyped` needs `LineHeld`: the buffer is what the keys since the
  prompt make of an empty line. Its recursion's function is carried through the
  steps, one key longer each time (`EditMore`), and there is only one such
  function (`EditedIs`). `CutIsRun` then compares the parser's two loops with
  the cut at the first space.
- **DesktopProofs.** `IInv` is `TypeOK`, `DragHeld`, `TitleOnScreen`, `ResultShown`
  with `Remembered` (a click is remembered, by the history that counts it and by
  the reader's last buttons, while the button is down), `Attended` (the
  calculator is read for only while it is there) and `Placed` (a drag's offset
  was taken on the title bar, and every window fits above the taskbar).
  `ClicksArePresses` follows from `Remembered`, `TitleOnScreen` from `Placed` and
  the clamp of `gui_update`; that every window fits is assumed of the callers of
  `gui_create_window` (`DesktopAssumption`), since the calculator's own window,
  which does not, is no window of `gui_update`. `ResultShown` rests on lemmas about
  the conversions: what `simple_ftoa` shows of any number agrees with it
  (`ShownAgrees`, from `CutAgrees`), what `simple_atof` reads of any text agrees
  with the text (`ReadBackAgrees`); an int is taken to hold 100, the divisor of two
  decimals, and `Unit` to be more than 50, steps finer than the last decimal needs.

The library's induction theorems take an operator as a parameter, which the
installed provers cannot instantiate. Where an argument goes by induction along
a sequence (of characters, names or keys), it goes over a set instead: `<` is
well founded on the naturals (`WFMin` of the library, which takes sets only), so a
set of numbers has a least one (`Least`), and a set with 0 and the next of each of
its numbers has them all (`Induct`).

Assumptions are the `ASSUME`s of the modules, all of them about constants:
sizes are positive, the keymap is a function into characters, the identity map
fits the pool, and so on; those that say something of the code's callers or of
devices are named above.

Only model-checked, and why: the liveness properties `Delivered`, `CallsReturn`,
`Acknowledged`, `InitEnds` and `BootsWithoutFramebuffer`, since fairness and
ENABLED are out of the prover's reach. `SleepEnds` and `LaunchRuns`, which do not
hold, have their counterexamples from TLC.

## 5. What is not modelled

- The RAM disk, its tool and the shell's `ls` and `cat`: nothing calls
  `initrd_init`, so `fs_root` is null at every step that the kernel can take, and
  both commands say so. Read as they stand, the two sides disagree: `mkinitrd`
  writes unpacked headers of 76 bytes with offsets from the start of the image,
  `initrd.c` reads packed ones of 73 bytes and takes an offset for an address;
  and its nodes have the layout of vfs.h, not that of vfs_complete.h, so they
  could not be the root of the virtual file system either. A model would show no
  more than these two sentences.
- `vfs_readdir`, `vfs_finddir` and `vfs_stat`, which change no state;
  `vfs_mount` and `vfs_unmount`, which are declared only. All drawing. The binary
  exponent of a double: numbers are multiples of one small step, so the loss of
  digits of very large ones is not seen, nor is infinity.
- User mode: one jump to ring 3, whose first fetch faults, since all pages are
  the kernel's.
- Heap and page map together: `paging_test` leaves the heap's page at 0x500000
  mapped to 0x800000 (paging.c:235), and `pmm_init` believes the heap's frames
  free. Nothing the boot allocates reaches 0x500000, and nobody but `paging_init`
  allocates frames.
- Page rights, the y coordinate of the mouse, colours, `scroll_up` and
  `scroll_down` (no caller), number printing, `timer_wait` (no caller), the
  system calls that change no kernel state.
- The context switch: `KernelStaysIdle` proves that it is never reached, since no
  process is ever queued (the finding of `kernel_launch`). What applications and test
  processes would do in their entry points is not modelled for the same reason.
- The number that `paging_test` writes at 0x200000 (paging.c:214): the address is
  mapped and lies in the kernel's own image, in page tables of the pool that no
  step uses.
- Pixels and register values of the display drivers, VGA modes, the second
  Intel driver (no caller), the tables of GDT and IDT, the texts of exceptions,
  C library: straight-line code or hardware access without a state that
  interleaves with anything.

## 6. Plan

In order of importance. All steps but the last are done.

1. `Heap` over `Allocator`, and `HeapProofs`: everything allocates.
2. `Keyboard` over `BoundedFifo`; its half of `InputProofs`.
3. `Process`, `Scheduler`, `Kernel`: the composition around the timer
   interrupt; `KernelProofs`.
4. `Paging` over `PageMap`; its half of `MemoryProofs`.
5. `Pmm`, composed with the boot in `Boot`; the other half of `MemoryProofs`.
6. `Interrupts` and its proofs.
7. `Ps2`; the other half of `InputProofs`.
8. `Monitor` over `Paper`, and `Shell`; `ShellProofs`.
9. `Calculator` and `Desktop`; `DesktopProofs`.
10. `Vfs` over `OpenFiles`, and its proofs.
11. Left: heap, page map and frame allocator composed, once something allocates
    frames or reaches the heap's second megabyte; the RAM disk, once something
    mounts it.
