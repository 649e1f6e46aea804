------------------------------ MODULE MemoryProofs ---------------------------
(***************************************************************************)
(* Proofs about the physical memory manager and the boot that takes its    *)
(* page directory from it, for every size of the memory and of the kernel, *)
(* every loader and every set of display controllers; and about paging,    *)
(* for every size of the directory, the tables and the pool.               *)
(***************************************************************************)
EXTENDS Boot, Paging, FiniteSetTheorems, TLAPS

-----------------------------------------------------------------------------
(* The page allocator by itself, pmm.c.                                     *)

\* The inductive invariant: what is counted as free is what FreePages holds.
PmmInv == TypeOK /\ ReservedKept /\ Counting

\* The free pages are finitely many.
LEMMA FreePagesFinite ==
  ASSUME TypeOK
  PROVE  IsFiniteSet(FreePages) /\ Cardinality(FreePages) \in 0 .. total_blocks
  <1>1. IsFiniteSet(0 .. (total_blocks - 1)) /\ Cardinality(0 .. (total_blocks - 1)) = total_blocks
    BY FS_Interval, PmmAssumption DEF TypeOK
  <1>2. FreePages \subseteq 0 .. (total_blocks - 1)
    BY DEF FreePages
  <1>3. IsFiniteSet(FreePages) /\ Cardinality(FreePages) <= total_blocks
    BY <1>1, <1>2, FS_Subset
  <1> QED
    BY <1>3, FS_CardinalityType

\* pmm_init frees the pages between the bitmap and the end of the memory.
LEMMA PmmInitInv == PmmInit => PmmInv
  <1> SUFFICES ASSUME PmmInit PROVE PmmInv
    OBVIOUS
  <1> DEFINE region == FreeRegion(free_start, total_blocks)
  <1>1. /\ total_blocks \in 0 .. Capacity /\ free_start \in Nat \ {0}
        /\ taken = Blocks \ region
        /\ used_blocks = total_blocks - Cardinality(region)
        /\ held = {}
    BY PmmAssumption DEF PmmInit
  <1>2. region \subseteq 0 .. (total_blocks - 1) /\ region \subseteq Blocks
    BY <1>1, PmmAssumption DEF FreeRegion, Blocks
  <1>3. FreePages = region
    BY <1>1, <1>2, PmmAssumption DEF FreePages, Blocks
  <1>4. IsFiniteSet(0 .. (total_blocks - 1)) /\ Cardinality(0 .. (total_blocks - 1)) = total_blocks
    BY <1>1, FS_Interval, PmmAssumption
  <1>5. Cardinality(region) \in 0 .. total_blocks
    <2>1. IsFiniteSet(region) /\ Cardinality(region) <= total_blocks
      BY <1>2, <1>4, FS_Subset
    <2> QED
      BY <2>1, FS_CardinalityType
  <1>6. TypeOK
    BY <1>1, <1>5, PmmAssumption DEF TypeOK
  <1>7. ReservedKept
    BY <1>1, PmmAssumption DEF ReservedKept, FreeRegion
  <1>8. Counting
    BY <1>1, <1>3, <1>5, PmmAssumption DEF Counting
  <1> QED
    BY <1>6, <1>7, <1>8 DEF PmmInv

\* pmm_alloc_page takes one free page.
LEMMA AllocInv == ASSUME PmmInv, AllocPage PROVE PmmInv'
  <1>1. PICK p \in FindFree :
          /\ taken' = taken \cup {p}
          /\ used_blocks' = used_blocks + 1
          /\ held' = held \cup {p}
          /\ UNCHANGED <<total_blocks, free_start>>
    BY DEF AllocPage
  <1>2. p \in FreePages /\ p \in 0 .. (total_blocks - 1) /\ p \notin taken
    BY <1>1 DEF FindFree, FreePages
  <1>3. p \in Blocks /\ free_start <= p
    BY <1>2, PmmAssumption DEF PmmInv, TypeOK, ReservedKept, Blocks
  <1>4. FreePages' = FreePages \ {p}
    BY <1>1 DEF FreePages
  <1>5. Cardinality(FreePages') = Cardinality(FreePages) - 1
    BY <1>2, <1>4, FreePagesFinite, FS_RemoveElement DEF PmmInv
  <1>6. Cardinality(FreePages) \in Nat /\ Cardinality(FreePages) # 0
    BY <1>2, FreePagesFinite, FS_EmptySet, FS_CardinalityType DEF PmmInv
  <1>7. used_blocks + 1 \in 0 .. total_blocks
    BY <1>6, PmmAssumption DEF PmmInv, TypeOK, Counting
  <1>8. TypeOK'
    BY <1>1, <1>3, <1>7 DEF PmmInv, TypeOK
  <1>9. ReservedKept'
    BY <1>1, <1>2, <1>3, PmmAssumption DEF PmmInv, TypeOK, ReservedKept
  <1>10. Counting'
    BY <1>1, <1>5, <1>6, PmmAssumption DEF PmmInv, TypeOK, Counting
  <1> QED
    BY <1>8, <1>9, <1>10 DEF PmmInv

\* pmm_free_page gives back one page that is taken.
LEMMA FreeInv == ASSUME PmmInv, NEW p \in Freeable, FreePage(p) PROVE PmmInv'
  <1>1. /\ p < total_blocks /\ p \in taken
        /\ taken' = taken \ {p}
        /\ used_blocks' = used_blocks - 1
        /\ held' = held \ {p}
        /\ UNCHANGED <<total_blocks, free_start>>
    BY DEF FreePage, FreeIgnored, Freeable, PmmInv, TypeOK, Blocks
  <1>2. p \in held /\ free_start <= p /\ p \in Blocks /\ p \in 0 .. (total_blocks - 1)
    BY <1>1 DEF Freeable, PmmInv, TypeOK, Blocks
  <1>3. p \notin FreePages /\ FreePages' = FreePages \cup {p}
    BY <1>1, <1>2 DEF FreePages
  <1>4. Cardinality(FreePages') = Cardinality(FreePages) + 1
    BY <1>3, FreePagesFinite, FS_AddElement DEF PmmInv
  <1>5. FreePages' \subseteq 0 .. (total_blocks - 1)
    BY <1>1 DEF FreePages
  <1>6. Cardinality(FreePages') <= total_blocks
    <2>1. /\ IsFiniteSet(0 .. (total_blocks - 1))
          /\ Cardinality(0 .. (total_blocks - 1)) = total_blocks
      BY FS_Interval, PmmAssumption DEF PmmInv, TypeOK
    <2> QED
      BY <2>1, <1>5, FS_Subset
  <1>7. Cardinality(FreePages) \in Nat
    BY FreePagesFinite, FS_CardinalityType DEF PmmInv
  <1>8. used_blocks - 1 \in 0 .. total_blocks
    BY <1>4, <1>6, <1>7, PmmAssumption DEF PmmInv, TypeOK, Counting
  <1>9. TypeOK'
    BY <1>1, <1>8 DEF PmmInv, TypeOK
  <1>10. ReservedKept'
    BY <1>1, <1>2, PmmAssumption DEF PmmInv, TypeOK, ReservedKept, Blocks
  <1>11. Counting'
    BY <1>1, <1>4, <1>7, PmmAssumption DEF PmmInv, TypeOK, Counting
  <1> QED
    BY <1>9, <1>10, <1>11 DEF PmmInv

\* Every step keeps the invariant.
LEMMA PmmNextInv == PmmInv /\ [PmmNext]_pmm => PmmInv'
  <1> SUFFICES ASSUME PmmInv, [PmmNext]_pmm PROVE PmmInv'
    OBVIOUS
  <1>1. CASE AllocPage
    BY <1>1, AllocInv
  <1>2. ASSUME NEW p \in Freeable, FreePage(p) PROVE PmmInv'
    BY <1>2, FreeInv
  <1>3. CASE UNCHANGED pmm
    BY <1>3 DEF pmm, PmmInv, TypeOK, ReservedKept, Counting, FreePages
  <1> QED
    BY <1>1, <1>2, <1>3 DEF PmmNext, AllocPageFails, FreePageIgnored

\* The invariant holds of every reachable state.
THEOREM PmmInvariant == PmmSpec => []PmmInv
  BY PmmInitInv, PmmNextInv, PTL DEF PmmSpec

\* Types, pmm.c: used_blocks stays between 0 and total_blocks.
THEOREM PmmTypeOK == PmmSpec => []TypeOK
  <1>1. PmmInv => TypeOK
    BY DEF PmmInv
  <1> QED
    BY <1>1, PmmInvariant, PTL

\* Reserved pages are never handed out and no page has two holders.
THEOREM PmmReservedKept == PmmSpec => []ReservedKept
  <1>1. PmmInv => ReservedKept
    BY DEF PmmInv
  <1> QED
    BY <1>1, PmmInvariant, PTL

\* used_blocks always agrees with the bitmap.
THEOREM PmmCounting == PmmSpec => []Counting
  <1>1. PmmInv => Counting
    BY DEF PmmInv
  <1> QED
    BY <1>1, PmmInvariant, PTL

-----------------------------------------------------------------------------
(* The boot.                                                                *)

\* The steps before a display driver has been chosen, and those of the Intel
\* driver.
Early == {"_start", "magic", "isrs", "paging_init", "paging_enable", "gop_fb_init",
          "gpu_detect_init"}
Intel == {"i915_init", "init_power", "setup_plane", "i915_clear_screen"}

\* The directory is held by paging.c from the moment it is taken, so that no
\* allocation hands it out; and whenever translation is on, or about to go
\* on, there is one, and a handler for page faults.
Translation ==
    /\ kernel_directory # 0 => kernel_directory \in held
    /\ pc = "paging_enable" \/ paging => kernel_directory # 0 /\ 14 \in handlers
    /\ report # "unhandled exception"

\* A driver is ready when its device had power and addresses, and both its
\* addresses were accessed unless the boot is still about to do it, or fault.
Ready ==
    /\ dev_ready => /\ Gpu.powers /\ Gpu.bar0 \in touched
                    /\ pc \in {"i915_clear_screen", "halted"} \/ Gpu.bar2 \in touched
    /\ pc \in Early \/ pc \in Intel \ {"i915_clear_screen"} => ~dev_ready
    /\ pc \in Intel \ {"i915_init"} => Gpu.bar0 # "null" /\ Gpu.bar2 # "null"
    /\ pc = "setup_plane" => Gpu.powers
    /\ ~gpu_initialized => ~dev_ready /\ ~fb_ready
    /\ gpu_initialized /\ ~use_gop => dev_ready

\* What was touched and what was reported, as far as the boot has come.
Reports ==
    /\ "null" \in touched => pc = "idle" /\ kernel_directory = 0
    /\ report \in {"native", "text"} => pc = "idle" /\ report = Mode

IInv == PmmInv /\ Translation /\ Ready /\ Reports

\* The lowest free page is one page, and not page 0.
LEMMA FindFreeOne ==
  ASSUME PmmInv, NEW p \in FindFree, NEW q \in FindFree
  PROVE  p = q /\ p # 0
  <1>1. p \in Int /\ q \in Int /\ p <= q /\ q <= p
    BY DEF PmmInv, TypeOK, FindFree, FreePages
  <1>2. p \in 0 .. (total_blocks - 1) /\ p \notin taken
    BY DEF FindFree, FreePages
  <1>3. p \in Blocks /\ free_start <= p
    BY <1>2, PmmAssumption DEF PmmInv, TypeOK, ReservedKept, Blocks
  <1> QED
    BY <1>1, <1>3 DEF PmmInv, TypeOK

LEMMA InitInv == Init => IInv
  <1> SUFFICES ASSUME Init PROVE IInv
    OBVIOUS
  <1>1. PmmInv
    BY PmmInitInv DEF Init
  <1>2. Translation
    BY DEF Init, Translation
  <1>3. Ready
    BY DEF Init, Ready, Early, Intel
  <1>4. Reports
    BY DEF Init, Reports
  <1> QED
    BY <1>1, <1>2, <1>3, <1>4 DEF IInv

\* The steps that touch neither the memory manager nor the directory.
LEMMA MemoryKept ==
  ASSUME IInv, UNCHANGED memory
  PROVE  PmmInv' /\ (kernel_directory # 0 => kernel_directory \in held)'
  BY DEF IInv, Translation, memory, pmm, PmmInv, TypeOK, ReservedKept, Counting, FreePages

\* Boot stub, magic number, exception handlers, page directory, translation.
LEMMA StartInv ==
  ASSUME IInv, Start \/ CheckMagic \/ IsrInstall \/ PagingEnable \/ PagingInitFails
  PROVE  IInv'
  <1>1. UNCHANGED <<memory, machine, drivers, touched>>
    BY DEF Start, CheckMagic, IsrInstall, PagingEnable, PagingInitFails, AllocPageFails, memory
  <1>2. /\ pc \in Early /\ pc' \in Early \cup {"halted"}
        /\ report' = report \/ report' = "bad magic"
    BY DEF Start, CheckMagic, IsrInstall, PagingEnable, PagingInitFails, Early
  <1>3. Translation'
    <2>1. (kernel_directory # 0 => kernel_directory \in held)'
      BY <1>1, MemoryKept
    <2>2. CASE PagingEnable
      BY <2>1, <2>2, <1>1, <1>2 DEF PagingEnable, IInv, Translation, memory
    <2>3. CASE ~PagingEnable
      <3>1. pc' # "paging_enable" /\ paging' = paging /\ handlers \subseteq handlers'
        BY <2>3 DEF Start, CheckMagic, IsrInstall, PagingEnable, PagingInitFails
      <3> QED
        BY <2>1, <3>1, <1>1, <1>2 DEF IInv, Translation, memory
    <2> QED
      BY <2>2, <2>3
  <1>4. Ready'
    BY <1>1, <1>2 DEF IInv, Ready, Early, Intel, Gpu, drivers
  <1>5. Reports'
    BY <1>1, <1>2 DEF IInv, Reports, Early, Mode
  <1> QED
    BY <1>1, MemoryKept, <1>3, <1>4, <1>5 DEF IInv

LEMMA PagingInitInv ==
  ASSUME IInv, PagingInit
  PROVE  IInv'
  <1>1. /\ AllocPage /\ kernel_directory' \in FindFree
        /\ handlers' = handlers \cup {14}
        /\ pc = "paging_init" /\ pc' = "paging_enable"
        /\ UNCHANGED <<machine, eax, paging, drivers, report, touched>>
    BY DEF PagingInit, TakeDirectory, RegisterPageFault
  <1>2. PmmInv'
    BY <1>1, AllocInv DEF IInv
  <1>3. kernel_directory' # 0 /\ kernel_directory' \in held'
    <2>1. PICK p \in FindFree : held' = held \cup {p}
      BY <1>1 DEF AllocPage
    <2>2. kernel_directory' = p /\ p # 0
      BY <1>1, FindFreeOne DEF IInv
    <2> QED
      BY <2>1, <2>2
  <1>4. Translation'
    BY <1>1, <1>3 DEF IInv, Translation
  <1>5. Ready'
    BY <1>1 DEF IInv, Ready, Early, Intel, Gpu, drivers
  <1>6. Reports'
    BY <1>1 DEF IInv, Reports
  <1> QED
    BY <1>2, <1>4, <1>5, <1>6 DEF IInv

\* The directory and the memory stay as they are, and so does what is reported
\* unless an access faults, which finds its handler.
LEMMA AccessKeeps ==
  ASSUME IInv, NEW address, NEW next, Access(address, next), address # "null",
         pc # "idle", next \notin {"idle", "paging_enable", "halted"},
         UNCHANGED <<memory, handlers, paging>>
  PROVE  /\ Translation' /\ Reports'
         /\ pc' \in {next, "halted"}
         /\ touched' = touched \cup {address}
  <1>1. touched' = touched \cup {address}
    BY DEF Access
  <1>2. /\ pc' \in {next, "halted"}
        /\ report' = report \/ report' = "page fault"
    BY DEF Access, PageFault, Faults, IInv, Translation
  <1>3. Translation'
    BY <1>2, MemoryKept DEF IInv, Translation, memory
  <1>4. Reports'
    BY <1>1, <1>2 DEF IInv, Reports
  <1> QED
    BY <1>1, <1>2, <1>3, <1>4

LEMMA GopFbInitInv ==
  ASSUME IInv, GopFbInit
  PROVE  IInv'
  <1>1. /\ UNCHANGED <<memory, machine, eax, handlers, paging, detected_gpu, dev_ready>>
        /\ pc = "gop_fb_init" /\ ~dev_ready
    BY DEF GopFbInit, IInv, Ready, Early
  <1>2. CASE GopUsable
    <2>1. Access(machine.fb, "paging_test") /\ machine.fb # "null"
      BY <1>2 DEF GopFbInit, GopUsable
    <2>2. Translation' /\ Reports' /\ pc' \in {"paging_test", "halted"}
      BY <1>1, <2>1, AccessKeeps
    <2>3. fb_ready' /\ use_gop' /\ gpu_initialized'
      BY <1>2 DEF GopFbInit
    <2>4. Ready'
      BY <1>1, <2>2, <2>3 DEF Ready, Early, Intel
    <2> QED
      BY <1>1, <2>2, <2>4, MemoryKept DEF IInv
  <1>3. CASE ~GopUsable
    <2>1. pc' = "gpu_detect_init" /\ UNCHANGED <<report, touched>>
      BY <1>3 DEF GopFbInit
    <2>2. ~fb_ready' /\ ~use_gop' /\ ~gpu_initialized'
      BY <1>3 DEF GopFbInit
    <2>3. Translation'
      BY <1>1, <2>1, MemoryKept DEF IInv, Translation, memory
    <2>4. Ready'
      BY <1>1, <2>1, <2>2 DEF Ready, Early, Intel
    <2>5. Reports'
      BY <1>1, <2>1 DEF IInv, Reports
    <2> QED
      BY <1>1, <2>3, <2>4, <2>5, MemoryKept DEF IInv
  <1> QED
    BY <1>2, <1>3

LEMMA DetectInv ==
  ASSUME IInv, GpuDetectInit \/ CheckBars
  PROVE  IInv'
  <1>1. /\ UNCHANGED <<memory, machine, handlers, paging, fb_ready, dev_ready, use_gop,
                       gpu_initialized, report, touched>>
        /\ pc \in {"gpu_detect_init", "i915_init"} /\ ~dev_ready
    BY DEF GpuDetectInit, CheckBars, IInv, Ready, Early, Intel, drivers
  <1>2. pc' \in {"i915_init", "init_power", "paging_test"}
    BY DEF GpuDetectInit, CheckBars
  <1>3. pc' = "init_power" => /\ UNCHANGED detected_gpu
                             /\ Gpu.bar0 # "null" /\ Gpu.bar2 # "null"
    BY DEF GpuDetectInit, CheckBars, NullBar, drivers
  <1>4. Translation'
    BY <1>1, <1>2, MemoryKept DEF IInv, Translation, memory
  <1>5. Ready'
    BY <1>1, <1>2, <1>3 DEF IInv, Ready, Early, Intel, Gpu
  <1>6. Reports'
    BY <1>1, <1>2 DEF IInv, Reports
  <1> QED
    BY <1>1, <1>4, <1>5, <1>6, MemoryKept DEF IInv

LEMMA IntelInv ==
  ASSUME IInv, InitPower \/ SetupPlane \/ ClearScreen
  PROVE  IInv'
  <1>1. /\ UNCHANGED <<memory, machine, eax, handlers, paging, detected_gpu, fb_ready, use_gop>>
        /\ pc \in Intel \ {"i915_init"} /\ Gpu.bar0 # "null" /\ Gpu.bar2 # "null"
        /\ Gpu' = Gpu
    BY DEF InitPower, SetupPlane, ClearScreen, drivers, IInv, Ready, Intel, Gpu
  <1>2. CASE InitPower
    <2>1. /\ pc = "init_power" /\ Access(Gpu.bar0, AfterPowerWait)
          /\ UNCHANGED <<dev_ready, gpu_initialized>> /\ ~dev_ready
      BY <1>2 DEF InitPower, drivers, IInv, Ready, Intel
    <2>2. AfterPowerWait \in {"setup_plane", "paging_test"}
      BY DEF AfterPowerWait
    <2>3. Translation' /\ Reports' /\ pc' \in {AfterPowerWait, "halted"}
      BY <1>1, <2>1, <2>2, AccessKeeps
    <2>4. pc' = "setup_plane" => Gpu.powers
      BY <2>3 DEF AfterPowerWait
    <2>5. Ready'
      BY <1>1, <2>1, <2>2, <2>3, <2>4 DEF IInv, Ready, Early, Intel
    <2> QED
      BY <1>1, <2>3, <2>5, MemoryKept DEF IInv
  <1>3. CASE SetupPlane
    <2>1. /\ pc = "setup_plane" /\ Access(Gpu.bar0, "i915_clear_screen")
          /\ dev_ready' /\ gpu_initialized' /\ Gpu.powers
      BY <1>3 DEF SetupPlane, IInv, Ready
    <2>2. /\ Translation' /\ Reports' /\ pc' \in {"i915_clear_screen", "halted"}
          /\ touched' = touched \cup {Gpu.bar0}
      BY <1>1, <2>1, AccessKeeps
    <2>3. Ready'
      BY <1>1, <2>1, <2>2 DEF Ready, Early, Intel
    <2> QED
      BY <1>1, <2>2, <2>3, MemoryKept DEF IInv
  <1>4. CASE ClearScreen
    <2>1. /\ pc = "i915_clear_screen" /\ Access(Gpu.bar2, "paging_test")
          /\ UNCHANGED <<dev_ready, gpu_initialized>>
      BY <1>4 DEF ClearScreen, drivers
    <2>2. /\ Translation' /\ Reports' /\ pc' \in {"paging_test", "halted"}
          /\ touched' = touched \cup {Gpu.bar2}
      BY <1>1, <2>1, AccessKeeps
    <2>3. Ready'
      BY <1>1, <2>1, <2>2 DEF IInv, Ready, Early, Intel
    <2> QED
      BY <1>1, <2>2, <2>3, MemoryKept DEF IInv
  <1> QED
    BY <1>2, <1>3, <1>4

LEMMA PagingTestInv ==
  ASSUME IInv, PagingTest
  PROVE  IInv'
  <1>1. /\ pc = "paging_test" /\ pc' = "idle" /\ report' = Mode
        /\ UNCHANGED <<memory, machine, handlers, paging, drivers>>
        /\ touched \subseteq touched'
        /\ "null" \in touched' => "null" \in touched \/ kernel_directory = 0
    BY DEF PagingTest
  <1>2. Mode' = Mode /\ Gpu' = Gpu
    BY <1>1 DEF Mode, Gpu, drivers
  <1>3. Translation'
    BY <1>1, MemoryKept DEF IInv, Translation, memory, Mode
  <1>4. Ready'
    BY <1>1, <1>2 DEF IInv, Ready, Early, Intel, drivers
  <1>5. Reports'
    BY <1>1, <1>2 DEF IInv, Reports, memory
  <1> QED
    BY <1>1, <1>3, <1>4, <1>5, MemoryKept DEF IInv

\* Callers may free and allocate, but not the directory.
LEMMA CallersInv ==
  ASSUME IInv, Callers
  PROVE  IInv'
  <1>1. /\ UNCHANGED <<machine, pc, handlers, kernel_directory, paging, drivers, report, touched>>
        /\ PmmNext
        /\ kernel_directory = 0 \/ kernel_directory \in held'
    BY DEF Callers, core
  <1>2. PmmInv'
    BY <1>1, PmmNextInv DEF IInv
  <1>3. Translation'
    BY <1>1 DEF IInv, Translation
  <1>4. Ready'
    BY <1>1 DEF IInv, Ready, Gpu, drivers
  <1>5. Reports'
    BY <1>1 DEF IInv, Reports, Mode, drivers
  <1> QED
    BY <1>2, <1>3, <1>4, <1>5 DEF IInv

LEMMA NextInv == IInv /\ [Next]_vars => IInv'
  <1> SUFFICES ASSUME IInv, [Next]_vars PROVE IInv'
    OBVIOUS
  <1>1. CASE Step
    BY <1>1, StartInv, PagingInitInv, GopFbInitInv, DetectInv, IntelInv, PagingTestInv DEF Step
  <1>2. CASE Callers
    BY <1>2, CallersInv
  <1>3. CASE UNCHANGED vars
    <2>1. UNCHANGED <<memory, machine, pc, handlers, paging, drivers, report, touched>>
      BY <1>3 DEF vars, core, memory
    <2>2. Translation' /\ Reports'
      BY <2>1, MemoryKept DEF IInv, Translation, Reports, Mode, memory, drivers
    <2>3. Ready'
      BY <2>1 DEF IInv, Ready, Gpu, drivers
    <2> QED
      BY <2>1, <2>2, <2>3, MemoryKept DEF IInv
  <1> QED
    BY <1>1, <1>2, <1>3 DEF Next, Hlt

\* The invariant of boot and memory manager holds in every reachable state.
THEOREM BootInvariant == Spec => []IInv
  BY InitInv, NextInv, PTL DEF Spec

\* Page table, kernel image and bitmap are kept through the boot and after it:
\* the property of the memory manager, in the system that uses it.
THEOREM BootReservedKept == Spec => []ReservedKept
  <1>1. IInv => ReservedKept
    BY DEF IInv, PmmInv
  <1> QED
    BY <1>1, BootInvariant, PTL

\* What is reported as free memory can be allocated, through the boot and
\* after it.
THEOREM BootCounting == Spec => []Counting
  <1>1. IInv => Counting
    BY DEF IInv, PmmInv
  <1> QED
    BY <1>1, BootInvariant, PTL

\* For every machine: the directory that translation uses stays its own, and a
\* fault never finds its handler missing.
THEOREM BootTranslationSound == Spec => []TranslationSound
  <1>1. IInv => TranslationSound
    BY DEF IInv, Translation, TranslationSound, PmmInv, ReservedKept
  <1> QED
    BY <1>1, BootInvariant, PTL

\* For every machine, with any set of display controllers: no driver goes
\* through a null address and the mode reported was reached.
THEOREM BootDriversSound == Spec => []DriversSound
  <1>1. ASSUME IInv PROVE DriversSound
    <2>1. report = "native" => gpu_initialized /\ ~use_gop /\ pc = "idle"
      BY <1>1 DEF IInv, Reports, Mode
    <2>2. report = "text" => ~gpu_initialized
      BY <1>1 DEF IInv, Reports, Mode
    <2> QED
      BY <1>1, <2>1, <2>2 DEF IInv, Reports, Ready, DriversSound
  <1> QED
    BY <1>1, BootInvariant, PTL

\* Framebuffer information is lost with the magic number: the stub leaves eax
\* without it, and the check stops the boot.
StoppedByFramebuffer ==
    machine.flag => pc = "_start" \/ (pc = "magic" /\ ~eax) \/ pc = "halted"

LEMMA StoppedInit == Init => StoppedByFramebuffer
  BY DEF Init, StoppedByFramebuffer

LEMMA StoppedNext == StoppedByFramebuffer /\ [Next]_vars => StoppedByFramebuffer'
  <1> SUFFICES ASSUME StoppedByFramebuffer, [Next]_vars PROVE StoppedByFramebuffer'
    OBVIOUS
  <1>1. CASE Start
    BY <1>1 DEF Start, EaxAfterStub, StoppedByFramebuffer
  <1>2. CASE CheckMagic
    BY <1>2 DEF CheckMagic, StoppedByFramebuffer
  <1>3. CASE Step /\ ~Start /\ ~CheckMagic
    <2>1. UNCHANGED machine /\ pc \notin {"_start", "magic", "halted"}
      BY <1>3 DEF Step, IsrInstall, PagingInit, PagingInitFails, PagingEnable, GopFbInit,
                  GpuDetectInit, CheckBars, InitPower, SetupPlane, ClearScreen, PagingTest
    <2> QED
      BY <2>1 DEF StoppedByFramebuffer
  <1>4. CASE Callers \/ UNCHANGED vars
    BY <1>4 DEF Callers, core, vars, StoppedByFramebuffer
  <1> QED
    BY <1>1, <1>2, <1>3, <1>4 DEF Next, Hlt

\* For every machine: with framebuffer information, boot.asm:53-66, the boot
\* ends at kernel_main's check of the magic number at the latest.
THEOREM BootHaltsOnFramebuffer == Spec => []FramebufferHalts
  <1>1. StoppedByFramebuffer => FramebufferHalts
    BY DEF StoppedByFramebuffer, FramebufferHalts
  <1> QED
    BY <1>1, StoppedInit, StoppedNext, PTL DEF Spec

-----------------------------------------------------------------------------
(* Paging.                                                                  *)

\* The inductive invariant.  TablesDisjoint carries the argument: an entry of
\* a table belongs to one page, so a call on one page leaves every other walk
\* alone, and with it what the CPU may have cached for the other pages.
VmInv == VmTypeOK /\ TablesDisjoint /\ UnmappedIsUnreachable

\* A page is its two indices.
LEMMA PageIndices ==
  ASSUME NEW v \in Pages
  PROVE  DirIndex(v) \in DirIndices /\ TableIndex(v) \in TableIndices
  BY DEF Pages, DirIndex, TableIndex

\* Two pages with the same indices are the same page.
LEMMA PageIsPair ==
  ASSUME NEW v \in Pages, NEW w \in Pages, v # w
  PROVE  DirIndex(v) # DirIndex(w) \/ TableIndex(v) # TableIndex(w)
  BY DEF Pages, DirIndex, TableIndex

\* A walk ends in a frame, or nowhere.
LEMMA WalkType ==
  ASSUME VmTypeOK, NEW v \in Pages
  PROVE  Physical(v) \in Frames \cup {Unmapped}
  BY PageIndices DEF VmTypeOK, Physical, HasTable, NoTable

\* paging_init sets up the invariant.
LEMMA VmInitInv == VmInit => VmInv
  <1> SUFFICES ASSUME VmInit PROVE VmInv
    OBVIOUS
  <1>1. VmTypeOK
    <2>1. ASSUME NEW i \in 0 .. (Pool - 1), NEW t \in TableIndices
          PROVE  (IF i < IdDirs THEN <<i, t>> ELSE Unmapped) \in Frames \cup {Unmapped}
      BY PagingAssumption DEF TableIndices
    <2>2. page_tables \in [0 .. (Pool - 1) -> [TableIndices -> Frames \cup {Unmapped}]]
      BY <2>1 DEF VmInit
    <2>3. directory \in [DirIndices -> (0 .. (Pool - 1)) \cup {NoTable}]
      BY PagingAssumption DEF VmInit, DirIndices
    <2> QED
      BY <2>2, <2>3, PagingAssumption DEF VmInit, VmTypeOK
  <1>2. TablesDisjoint
    BY PagingAssumption DEF VmInit, TablesDisjoint, NoTable, DirIndices
  <1>3. UnmappedIsUnreachable
    BY DEF VmInit, UnmappedIsUnreachable
  <1> QED
    BY <1>1, <1>2, <1>3 DEF VmInv

\* Changing the entry of one page, in a table it already has, changes the
\* walk of that page and of no other.
LEMMA SetEntryWalk ==
  ASSUME VmInv, NEW v \in Pages, NEW f \in Frames \cup {Unmapped}, HasTable(v),
         SetEntry(directory[DirIndex(v)], v, f, FALSE), UNCHANGED directory
  PROVE  /\ page_tables' \in [0 .. (Pool - 1) -> [TableIndices -> Frames \cup {Unmapped}]]
         /\ Physical(v)' = f
         /\ \A w \in Pages \ {v} : Physical(w)' = Physical(w)
  <1> DEFINE i == directory[DirIndex(v)]
  <1>1. i \in 0 .. (Pool - 1)
    BY PageIndices DEF VmInv, VmTypeOK, HasTable, NoTable
  <1>2. /\ page_tables'[i] = [t \in TableIndices |->
                                IF t = TableIndex(v) THEN f ELSE page_tables[i][t]]
        /\ \A j \in 0 .. (Pool - 1) : j # i => page_tables'[j] = page_tables[j]
    BY <1>1 DEF SetEntry, VmInv, VmTypeOK
  <1>3. page_tables' \in [0 .. (Pool - 1) -> [TableIndices -> Frames \cup {Unmapped}]]
    <2>1. [t \in TableIndices |-> IF t = TableIndex(v) THEN f ELSE page_tables[i][t]]
            \in [TableIndices -> Frames \cup {Unmapped}]
      BY <1>1 DEF VmInv, VmTypeOK
    <2> QED
      BY <1>1, <2>1 DEF SetEntry, VmInv, VmTypeOK
  <1>4. Physical(v)' = f
    BY <1>2, PageIndices DEF Physical, HasTable
  <1>5. ASSUME NEW w \in Pages \ {v} PROVE Physical(w)' = Physical(w)
    <2>1. CASE ~HasTable(w)
      BY <2>1 DEF Physical, HasTable
    <2>2. CASE HasTable(w) /\ directory[DirIndex(w)] = i
      <3>1. DirIndex(w) = DirIndex(v)
        BY <2>2, PageIndices DEF VmInv, TablesDisjoint, HasTable
      <3>2. TableIndex(w) # TableIndex(v)
        BY <3>1, PageIsPair
      <3> QED
        BY <2>2, <3>2, <1>2, PageIndices DEF Physical, HasTable
    <2>3. CASE HasTable(w) /\ directory[DirIndex(w)] # i
      <3>1. directory[DirIndex(w)] \in 0 .. (Pool - 1)
        BY <2>3, PageIndices DEF VmInv, VmTypeOK, HasTable, NoTable
      <3> QED
        BY <2>3, <3>1, <1>2 DEF Physical, HasTable
    <2> QED
      BY <2>1, <2>2, <2>3
  <1> QED
    BY <1>3, <1>4, <1>5

\* A table fresh from the pool gives its one page a frame, and maps nothing
\* else: no other directory entry points to it.
LEMMA NewTableWalk ==
  ASSUME VmInv, NEW v \in Pages, NEW f \in Frames, MapPageNewTable(v, f)
  PROVE  /\ VmTypeOK' /\ TablesDisjoint'
         /\ Physical(v)' = f
         /\ \A w \in Pages \ {v} : Physical(w)' = Physical(w)
  <1> DEFINE i == next_table_index
             d == DirIndex(v)
             table == [t \in TableIndices |-> IF t = TableIndex(v) THEN f ELSE Unmapped]
  <1>1. /\ i \in 0 .. (Pool - 1)
        /\ d \in DirIndices
        /\ TableIndex(v) \in TableIndices
        /\ directory[d] = NoTable
    BY PageIndices, PagingAssumption DEF VmInv, VmTypeOK, MapPageNewTable, PoolIsEmpty, HasTable
  <1>2. /\ page_tables' = [page_tables EXCEPT ![i] = table]
        /\ directory' = [directory EXCEPT ![d] = i]
        /\ next_table_index' = i + 1
        /\ tlb' = tlb
    BY DEF MapPageNewTable, SetEntry, NextTableIndex
  <1>3. VmTypeOK'
    <2>1. table \in [TableIndices -> Frames \cup {Unmapped}]
      OBVIOUS
    <2>2. page_tables' \in [0 .. (Pool - 1) -> [TableIndices -> Frames \cup {Unmapped}]]
      BY <1>1, <1>2, <2>1 DEF VmInv, VmTypeOK
    <2>3. directory' \in [DirIndices -> (0 .. (Pool - 1)) \cup {NoTable}]
      BY <1>1, <1>2 DEF VmInv, VmTypeOK
    <2>4. next_table_index' \in 0 .. Pool
      BY <1>1, <1>2, PagingAssumption
    <2> QED
      BY <1>2, <2>2, <2>3, <2>4 DEF VmInv, VmTypeOK
  <1>4. \A e \in DirIndices : directory'[e] = IF e = d THEN i ELSE directory[e]
    BY <1>1, <1>2 DEF VmInv, VmTypeOK
  <1>5. \A e \in DirIndices : directory[e] # NoTable => directory[e] \in 0 .. (i - 1)
    BY <1>1 DEF VmInv, VmTypeOK, TablesDisjoint, NoTable
  <1>6. TablesDisjoint'
    BY <1>1, <1>2, <1>4, <1>5 DEF VmInv, TablesDisjoint, NoTable
  <1>7. Physical(v)' = f
    BY <1>1, <1>2, <1>4 DEF Physical, HasTable, NoTable, VmInv, VmTypeOK
  <1>8. ASSUME NEW w \in Pages \ {v} PROVE Physical(w)' = Physical(w)
    <2>1. DirIndex(w) \in DirIndices /\ TableIndex(w) \in TableIndices
      BY PageIndices
    <2>2. CASE DirIndex(w) = d
      <3>1. TableIndex(w) # TableIndex(v)
        BY <2>2, PageIsPair
      <3>2. page_tables'[i] = table
        BY <1>1, <1>2 DEF VmInv, VmTypeOK
      <3>3. Physical(w)' = Unmapped
        BY <2>1, <2>2, <3>1, <3>2, <1>1, <1>4 DEF Physical, HasTable, NoTable
      <3> QED
        BY <3>3, <2>2, <1>1 DEF Physical, HasTable
    <2>3. CASE DirIndex(w) # d
      <3>1. directory'[DirIndex(w)] = directory[DirIndex(w)]
        BY <2>1, <2>3, <1>4
      <3>2. CASE directory[DirIndex(w)] = NoTable
        BY <3>1, <3>2 DEF Physical, HasTable
      <3>3. CASE directory[DirIndex(w)] # NoTable
        <4>1. directory[DirIndex(w)] \in 0 .. (i - 1)
          BY <2>1, <3>3, <1>5
        <4>2. page_tables'[directory[DirIndex(w)]] = page_tables[directory[DirIndex(w)]]
          BY <4>1, <1>1, <1>2 DEF VmInv, VmTypeOK
        <4> QED
          BY <3>1, <3>3, <4>2 DEF Physical, HasTable
      <3> QED
        BY <3>2, <3>3
    <2> QED
      BY <2>2, <2>3
  <1> QED
    BY <1>3, <1>6, <1>7, <1>8

\* Every step keeps the invariant.
LEMMA VmNextInv == VmInv /\ [VmNext]_vm => VmInv'
  <1> SUFFICES ASSUME VmInv, [VmNext]_vm PROVE VmInv'
    OBVIOUS
  <1> USE DEF VmInv
  <1>1. ASSUME NEW v \in Pages, NEW f \in Frames, MapPage(v, f) PROVE VmInv'
    <2>1. /\ HasTable(v) /\ SetEntry(directory[DirIndex(v)], v, f, FALSE)
          /\ UNCHANGED <<directory, next_table_index, tlb>>
      BY <1>1 DEF MapPage
    <2>2. /\ page_tables' \in [0 .. (Pool - 1) -> [TableIndices -> Frames \cup {Unmapped}]]
          /\ Physical(v)' = f
          /\ \A w \in Pages \ {v} : Physical(w)' = Physical(w)
      BY <2>1, SetEntryWalk
    <2>3. VmTypeOK' /\ TablesDisjoint'
      BY <2>1, <2>2 DEF VmTypeOK, TablesDisjoint
    <2>4. UnmappedIsUnreachable'
      BY <2>1, <2>2, PagingAssumption DEF UnmappedIsUnreachable
    <2> QED
      BY <2>3, <2>4
  <1>2. ASSUME NEW v \in Pages, NEW f \in Frames, MapPageNewTable(v, f) PROVE VmInv'
    <2>1. tlb' = tlb
      BY <1>2 DEF MapPageNewTable
    <2> QED
      BY <1>2, <2>1, NewTableWalk, PagingAssumption DEF UnmappedIsUnreachable
  <1>3. ASSUME NEW v \in Pages, UnmapPage(v) PROVE VmInv'
    <2>1. /\ HasTable(v) /\ SetEntry(directory[DirIndex(v)], v, Unmapped, FALSE)
          /\ UNCHANGED <<directory, next_table_index>>
          /\ tlb' = [tlb EXCEPT ![v] = Unmapped]
      BY <1>3 DEF UnmapPage, Flushed
    <2>2. /\ page_tables' \in [0 .. (Pool - 1) -> [TableIndices -> Frames \cup {Unmapped}]]
          /\ \A w \in Pages \ {v} : Physical(w)' = Physical(w)
      BY <2>1, SetEntryWalk
    <2>3. VmTypeOK' /\ TablesDisjoint'
      BY <2>1, <2>2 DEF VmTypeOK, TablesDisjoint
    <2>4. UnmappedIsUnreachable'
      BY <2>1, <2>2 DEF UnmappedIsUnreachable, VmTypeOK
    <2> QED
      BY <2>3, <2>4
  <1>4. ASSUME UNCHANGED <<directory, page_tables, next_table_index>>,
               tlb' \in [Pages -> Frames \cup {Unmapped}],
               \A v \in Pages : tlb'[v] \in {tlb[v], Unmapped, Physical(v)}
        PROVE  VmInv'
    <2>1. \A v \in Pages : Physical(v)' = Physical(v)
      BY <1>4 DEF Physical, HasTable
    <2>2. UnmappedIsUnreachable'
      BY <1>4, <2>1 DEF UnmappedIsUnreachable
    <2> QED
      BY <1>4, <2>2 DEF VmTypeOK, TablesDisjoint
  <1>5. ASSUME NEW v \in Pages, CpuAccess(v) \/ Evict(v) PROVE VmInv'
    <2>1. tlb' \in [Pages -> Frames \cup {Unmapped}]
      BY <1>5, WalkType DEF CpuAccess, Evict, VmTypeOK
    <2> QED
      BY <1>5, <2>1, <1>4 DEF CpuAccess, Evict, VmTypeOK
  <1>6. CASE SwitchDirectory
    BY <1>6, <1>4 DEF SwitchDirectory
  <1>7. CASE UNCHANGED vm
    BY <1>7, <1>4 DEF vm, VmTypeOK
  <1> QED
    BY <1>1, <1>2, <1>3, <1>5, <1>6, <1>7 DEF VmNext, MapPageDropped, UnmapPageAbsent

\* The invariant holds of every reachable state.
THEOREM PagingInvariant == VmSpec => []VmInv
  BY VmInitInv, VmNextInv, PTL DEF VmSpec

\* Types, paging.c: indices stay inside the directory, the pool and a table.
THEOREM PagingTypeOK == VmSpec => []VmTypeOK
  <1>1. VmInv => VmTypeOK
    BY DEF VmInv
  <1> QED
    BY <1>1, PagingInvariant, PTL

\* paging_map_page never gives two directory entries one table.
THEOREM PagingTablesDisjoint == VmSpec => []TablesDisjoint
  <1>1. VmInv => TablesDisjoint
    BY DEF VmInv
  <1> QED
    BY <1>1, PagingInvariant, PTL

\* paging_unmap_page leaves the CPU no cached way to the page.
THEOREM PagingUnmappedIsUnreachable == VmSpec => []UnmappedIsUnreachable
  <1>1. VmInv => UnmappedIsUnreachable
    BY DEF VmInv
  <1> QED
    BY <1>1, PagingInvariant, PTL

-----------------------------------------------------------------------------
\* A change of one walk is a step of the flat map.
LEMMA OneWalk ==
  ASSUME NEW v \in Pages, \A w \in Pages \ {v} : Physical(w)' = Physical(w)
  PROVE  [w \in Pages |-> Physical(w)]' = [[w \in Pages |-> Physical(w)] EXCEPT ![v] = Physical(v)']
  OBVIOUS

\* paging_map_page and paging_unmap_page implement a flat map of pages to
\* frames, for every size of the directory, the tables and the pool.
THEOREM PagingRefinesPageMap == VmSpec => RefinesPageMap
  <1> DEFINE m == [v \in Pages |-> Physical(v)]
  <1>1. VmInit => Flat!MapInit
    <2> SUFFICES ASSUME VmInit, NEW v \in Pages
                 PROVE  Physical(v) = IF DirIndex(v) < IdDirs THEN v ELSE Unmapped
      BY DEF Flat!MapInit
    <2>1. v = <<DirIndex(v), TableIndex(v)>>
      BY DEF Pages, DirIndex, TableIndex
    <2>2. DirIndex(v) \in DirIndices /\ TableIndex(v) \in TableIndices
      BY PageIndices
    <2>3. directory[DirIndex(v)] = IF DirIndex(v) < IdDirs THEN DirIndex(v) ELSE NoTable
      BY <2>2 DEF VmInit
    <2>4. CASE DirIndex(v) < IdDirs
      <3>1. HasTable(v) /\ DirIndex(v) \in 0 .. (Pool - 1)
        BY <2>2, <2>3, <2>4, PagingAssumption DEF HasTable, NoTable, DirIndices
      <3>2. page_tables[DirIndex(v)][TableIndex(v)] = <<DirIndex(v), TableIndex(v)>>
        BY <2>2, <2>4, <3>1 DEF VmInit
      <3> QED
        BY <2>1, <2>3, <2>4, <3>1, <3>2 DEF Physical
    <2>5. CASE ~(DirIndex(v) < IdDirs)
      BY <2>3, <2>5 DEF Physical, HasTable
    <2> QED
      BY <2>4, <2>5
  <1>2. VmInv /\ [VmNext]_vm => [Flat!MapNext]_m
    <2> SUFFICES ASSUME VmInv, [VmNext]_vm PROVE Flat!MapNext \/ UNCHANGED m
      OBVIOUS
    <2>1. ASSUME NEW v \in Pages, NEW f \in Frames, MapPage(v, f) \/ MapPageNewTable(v, f)
          PROVE  Flat!MapNext
      <3>1. Physical(v)' = f /\ \A w \in Pages \ {v} : Physical(w)' = Physical(w)
        BY <2>1, SetEntryWalk, NewTableWalk DEF MapPage
      <3>2. m' = [m EXCEPT ![v] = f]
        BY <3>1, OneWalk
      <3> QED
        BY <3>2 DEF Flat!MapNext, Flat!Map
    <2>2. ASSUME NEW v \in Pages, UnmapPage(v) PROVE Flat!MapNext
      <3>1. Physical(v)' = Unmapped /\ \A w \in Pages \ {v} : Physical(w)' = Physical(w)
        BY <2>2, SetEntryWalk DEF UnmapPage
      <3>2. m' = [m EXCEPT ![v] = Unmapped]
        BY <3>1, OneWalk
      <3> QED
        BY <3>2 DEF Flat!MapNext, Flat!Unmap
    <2>3. ASSUME UNCHANGED <<directory, page_tables>> PROVE UNCHANGED m
      BY <2>3 DEF Physical, HasTable
    <2> QED
      BY <2>1, <2>2, <2>3
         DEF VmNext, MapPageDropped, UnmapPageAbsent, CpuAccess, Evict, SwitchDirectory, vm
  <1> QED
    BY <1>1, <1>2, PagingInvariant, PTL DEF VmSpec, RefinesPageMap, Flat!MapSpec
==============================================================================
