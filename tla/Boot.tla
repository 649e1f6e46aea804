---------------------------------- MODULE Boot --------------------------------
(***************************************************************************)
(* From the loader to the idle loop: src/boot/boot.asm, kernel_main of     *)
(* src/kernel/core/kernel.c, and the search for a display it makes with    *)
(* paging on: drivers/video/gop_fb.c, drivers/gpu/gpu_detect.c and         *)
(* drivers/gpu/intel/i915_hd4600.c.  The machine, external, is chosen at   *)
(* the start, its memory included (PmmInit).  A physical address is null,  *)
(* one of the 16 MB that paging_init maps, or unmapped.                    *)
(***************************************************************************)
EXTENDS Pmm, Sequences, FiniteSetsExt

CONSTANTS
    Displays    \* the display controllers a machine may have on its PCI bus

Addresses == {"null", "mapped", "unmapped"}

\* A controller: its vendor, whether its class is VGA-compatible, where its
\* registers (bar0) and its memory (bar2) are, whether its power well answers.
ASSUME BootAssumption ==
    Displays \subseteq [intel : BOOLEAN, vga : BOOLEAN, bar0 : Addresses, bar2 : Addresses,
                        powers : BOOLEAN]

\* The loader leaves its magic number in eax, and the multiboot information
\* with a flag and, if set, the type, place and size of a framebuffer.
Machines ==
    [magic : BOOLEAN, flag : BOOLEAN, rgb : BOOLEAN, fb : Addresses, sized : BOOLEAN,
     bus : {<<>>} \union {<<d>> : d \in Displays} \union (Displays \X Displays)]

VARIABLES
    machine,        \* never changes
    pc,             \* the next step, or "idle", or "halted"
    eax,            \* whether it holds the magic number
    handlers,       \* the exceptions with a registered handler
    kernel_directory,   \* its page, 0 for none
    paging,         \* translation is on
    detected_gpu,   \* its place on the bus, 0 for none
    fb_ready,       \* fb.initialized
    dev_ready,      \* dev.initialized
    use_gop, gpu_initialized,
    report,         \* the last message: why the boot stopped, or the mode
    touched         \* history: where device memory was accessed

drivers == <<detected_gpu, fb_ready, dev_ready, use_gop, gpu_initialized>>
memory == <<kernel_directory, pmm>>
core == <<machine, pc, eax, handlers, kernel_directory, paging, drivers, report, touched>>
vars == <<core, pmm>>

Init ==
    /\ machine \in Machines
    /\ pc = "_start"
    /\ eax = machine.magic
    /\ handlers = {}
    /\ paging = FALSE
    /\ detected_gpu = 0
    /\ fb_ready = FALSE /\ dev_ready = FALSE
    /\ use_gop = FALSE /\ gpu_initialized = FALSE
    /\ report = "none"
    /\ touched = {}
    /\ kernel_directory = 0
    /\ PmmInit

\* isr_handler prints and halts when no handler is registered; the registered
\* ones print more and halt.
PageFault == report' = IF 14 \in handlers THEN "page fault" ELSE "unhandled exception"

Faults(address) == paging /\ address = "unmapped"

\* An access to device memory, and the step after it.
Access(address, next) ==
    /\ touched' = touched \union {address}
    /\ IF Faults(address)
         THEN PageFault /\ pc' = "halted"
         ELSE UNCHANGED report /\ pc' = next

-----------------------------------------------------------------------------
(* boot.asm and the first steps of kernel_main.                             *)

\* With framebuffer information present the stub copies it through eax.
EaxAfterStub == eax /\ ~machine.flag

Start ==
    /\ pc = "_start"
    /\ eax' = EaxAfterStub
    /\ pc' = "magic"
    /\ UNCHANGED <<memory, machine, handlers, paging, drivers, report, touched>>

CheckMagic ==
    /\ pc = "magic"
    /\ pc' = IF eax THEN "isrs" ELSE "halted"
    /\ report' = IF eax THEN report ELSE "bad magic"
    /\ UNCHANGED <<memory, machine, eax, handlers, paging, drivers, touched>>

IsrInstall ==
    /\ pc = "isrs"
    /\ handlers' = handlers \union {0, 8, 13}
    /\ pc' = "paging_init"
    /\ UNCHANGED <<memory, machine, eax, paging, drivers, report, touched>>

\* Mutant: the page-fault handler is never registered.
RegisterPageFaultNot == UNCHANGED handlers

\* The page-fault handler is registered before translation goes on.
RegisterPageFault == handlers' = handlers \union {14}

\* Mutant: the directory's page is only looked up, not taken.
TakeDirectoryNot == kernel_directory' \in FindFree /\ UNCHANGED pmm

\* The page directory is the first page that pmm_alloc_page hands out.
TakeDirectory == AllocPage /\ kernel_directory' \in FindFree

PagingInit ==
    /\ pc = "paging_init"
    /\ TakeDirectory
    /\ RegisterPageFault
    /\ pc' = "paging_enable"
    /\ UNCHANGED <<machine, eax, paging, drivers, report, touched>>

\* Without a page for the directory paging_init returns, and the boot goes on
\* with translation off and no handler for page faults.
PagingInitFails ==
    /\ pc = "paging_init"
    /\ AllocPageFails
    /\ pc' = "gop_fb_init"
    /\ UNCHANGED <<kernel_directory, machine, eax, handlers, paging, drivers, report, touched>>

PagingEnable ==
    /\ pc = "paging_enable"
    /\ paging' = TRUE
    /\ pc' = "gop_fb_init"
    /\ UNCHANGED <<memory, machine, eax, handlers, drivers, report, touched>>

-----------------------------------------------------------------------------
(* The display.                                                             *)

GopUsable == machine.flag /\ machine.rgb /\ machine.fb # "null" /\ machine.sized

\* gop_fb_init and, if it succeeds, the clearing and the colour bars.
GopFbInit ==
    /\ pc = "gop_fb_init"
    /\ fb_ready' = GopUsable
    /\ use_gop' = GopUsable
    /\ gpu_initialized' = GopUsable
    /\ IF GopUsable
         THEN Access(machine.fb, "paging_test")
         ELSE pc' = "gpu_detect_init" /\ UNCHANGED <<report, touched>>
    /\ UNCHANGED <<memory, machine, eax, handlers, paging, detected_gpu, dev_ready>>

Vga == {i \in DOMAIN machine.bus : machine.bus[i].vga}

\* The first controller of the VGA class is taken.
FirstVga == IF Vga = {} THEN 0 ELSE Min(Vga)

Gpu == machine.bus[detected_gpu]

GpuDetectInit ==
    /\ pc = "gpu_detect_init"
    /\ detected_gpu' = FirstVga
    /\ pc' = IF FirstVga # 0 /\ machine.bus[FirstVga].intel THEN "i915_init" ELSE "paging_test"
    /\ UNCHANGED <<memory, machine, eax, handlers, paging, fb_ready, dev_ready, use_gop,
                   gpu_initialized, report, touched>>

\* Mutant: only the register address is looked at.
NullBarFirst == Gpu.bar0 = "null"

NullBar == Gpu.bar0 = "null" \/ Gpu.bar2 = "null"

CheckBars ==
    /\ pc = "i915_init"
    /\ pc' = IF NullBar THEN "paging_test" ELSE "init_power"
    /\ UNCHANGED <<memory, machine, eax, handlers, paging, drivers, report, touched>>

\* Mutant: the wait for the power well has no limit.
AfterPowerWaitForever == IF Gpu.powers THEN "setup_plane" ELSE "init_power"

\* init_power: the registers are accessed, and the wait gives up in the end.
AfterPowerWait == IF Gpu.powers THEN "setup_plane" ELSE "paging_test"

InitPower ==
    /\ pc = "init_power"
    /\ Access(Gpu.bar0, AfterPowerWait)
    /\ UNCHANGED <<memory, machine, eax, handlers, paging, drivers>>

\* Mode, plane and pipe; what setup_pipe returns is not looked at.
SetupPlane ==
    /\ pc = "setup_plane"
    /\ dev_ready' = TRUE
    /\ gpu_initialized' = TRUE
    /\ Access(Gpu.bar0, "i915_clear_screen")
    /\ UNCHANGED <<memory, machine, eax, handlers, paging, detected_gpu, fb_ready, use_gop>>

ClearScreen ==
    /\ pc = "i915_clear_screen"
    /\ Access(Gpu.bar2, "paging_test")
    /\ UNCHANGED <<memory, machine, eax, handlers, paging, drivers>>

-----------------------------------------------------------------------------

Mode == IF ~gpu_initialized THEN "text" ELSE IF use_gop THEN "gop" ELSE "native"

\* paging_test reads the directory and maps a page in it, and interrupts go
\* on for good.  It does not ask whether there is a directory.  The number it
\* writes at 0x200000 changes nothing kept here: the address is mapped, and
\* lies in the kernel's image, in the tables of the pool that it has no use for.
PagingTest ==
    /\ pc = "paging_test"
    /\ touched' = IF kernel_directory = 0 THEN touched \union {"null"} ELSE touched
    /\ report' = Mode
    /\ pc' = "idle"
    /\ UNCHANGED <<memory, machine, eax, handlers, paging, drivers>>

\* Callers of the page allocator to come; at this commit there are none.
\* Nobody frees the directory.
Callers ==
    /\ pc = "idle"
    /\ PmmNext
    /\ kernel_directory = 0 \/ kernel_directory \in held'
    /\ UNCHANGED core

Hlt ==
    /\ pc \in {"idle", "halted"}
    /\ UNCHANGED vars

Step ==
    \/ Start \/ CheckMagic \/ IsrInstall \/ PagingInit \/ PagingInitFails \/ PagingEnable
    \/ GopFbInit \/ GpuDetectInit \/ CheckBars \/ InitPower \/ SetupPlane \/ ClearScreen
    \/ PagingTest

Next == Step \/ Callers \/ Hlt

Spec == Init /\ [][Next]_vars /\ WF_vars(Step)

-----------------------------------------------------------------------------
(* Properties.                                                              *)

\* An Intel controller that comes first and has both addresses, one of them
\* beyond what paging_init maps.
UnmappedIntel ==
    /\ FirstVga # 0
    /\ LET d == machine.bus[FirstVga]
       IN  d.intel /\ "null" \notin {d.bar0, d.bar2} /\ "unmapped" \in {d.bar0, d.bar2}

\* A machine that was loaded by a multiboot loader, without framebuffer
\* information and without such a controller, gets to the idle loop: missing
\* devices, null addresses, a power well that never answers and too little
\* memory for a page directory stop no boot.  Without a directory there is no
\* translation, and such a controller stops none either.
BootsWithoutFramebuffer ==
    (machine.magic /\ ~machine.flag /\ (UnmappedIntel => total_blocks <= free_start))
        ~> (pc = "idle")

\* No driver writes through the null page, which is mapped, so that no fault
\* would tell; only paging_test does, when there is no directory.  And the
\* mode in the last message is one whose driver is ready and whose memory was
\* reached.
DriversSound ==
    /\ "null" \in touched => pc = "idle" /\ kernel_directory = 0
    /\ report = "native" => dev_ready /\ Gpu.powers /\ {Gpu.bar0, Gpu.bar2} \subseteq touched
    /\ report = "text" => ~dev_ready /\ ~fb_ready

\* While translation is on its directory is a page of the free region that
\* nobody else is handed, whatever pages are allocated and freed later; and a
\* fault is reported as a page fault with its address, not as an exception
\* nobody handles.
TranslationSound ==
    /\ paging => kernel_directory >= free_start /\ kernel_directory \in taken
    /\ report # "unhandled exception"

\* kernel_main tries the framebuffer first since it "works in UEFI, QEMU,
\* VirtualBox" (kernel.c:115).  What the code does is the contrary: no boot
\* that is passed framebuffer information gets past the check of the magic
\* number, which the stub has overwritten.
FramebufferHalts == machine.flag => pc \in {"_start", "magic", "halted"}
===============================================================================
