--------------------------------- MODULE Pmm ---------------------------------
(***************************************************************************)
(* The physical memory manager, src/kernel/mm/pmm.c: one bit per page, set *)
(* when the page is taken.  Pages are numbered; page 0 is also the NULL    *)
(* that pmm_alloc_page returns when it finds none.                         *)
(***************************************************************************)
EXTENDS Integers, FiniteSets

CONSTANTS
    Capacity,   \* bits in the bitmap: 2^20
    Starts,     \* where the free region may start: the end of the bitmap
    Totals      \* the memory sizes a boot loader may report, in pages

ASSUME PmmAssumption ==
    /\ Capacity \in Nat
    /\ Starts \subseteq Nat \ {0}       \* the kernel is loaded at 1 MB
    /\ Totals \subseteq 0 .. Capacity   \* sizes are 32-bit byte counts

Blocks == 0 .. (Capacity - 1)

VARIABLES
    taken,          \* the bits set in memory_bitmap
    total_blocks,
    used_blocks,
    free_start,     \* local of pmm_init, kept to state what is reserved
    held            \* callers' side: pages handed out and not freed

pmm == <<taken, total_blocks, used_blocks, free_start, held>>

\* pmm_init marks every page taken, then gives back those of the free region,
\* of which there are none when the kernel reaches beyond the memory.
FreeRegionFromZero(start, total) == 0 .. (total - 1)    \* mutant
FreeRegion(start, total) == start .. (total - 1)

PmmInit ==
    /\ free_start \in Starts
    /\ total_blocks \in Totals
    /\ taken = Blocks \ FreeRegion(free_start, total_blocks)
    /\ used_blocks = total_blocks - Cardinality(FreeRegion(free_start, total_blocks))
    /\ held = {}

-----------------------------------------------------------------------------
FreePages == {i \in 0 .. (total_blocks - 1) : i \notin taken}

\* bitmap_find_free: the lowest clear bit below total_blocks.
FindFree == {i \in FreePages : \A j \in FreePages : i <= j}

AllocPage ==
    \E p \in FindFree :
        /\ taken' = taken \cup {p}
        /\ used_blocks' = used_blocks + 1
        /\ held' = held \cup {p}
        /\ UNCHANGED <<total_blocks, free_start>>

AllocPageFails ==
    /\ FindFree = {}
    /\ UNCHANGED pmm

\* pmm_free_page of a page the caller holds.
FreeIgnoredNot(p) == FALSE                       \* mutant: no early return
FreeIgnored(p) == p >= total_blocks \/ p \notin taken

FreePage(p) ==
    /\ ~FreeIgnored(p)
    /\ taken' = taken \ {p}
    /\ used_blocks' = used_blocks - 1
    /\ held' = held \ {p}
    /\ UNCHANGED <<total_blocks, free_start>>

\* pmm_free_page of a page that is free already, or of no page at all.
FreePageIgnored(p) ==
    /\ FreeIgnored(p)
    /\ UNCHANGED pmm

\* Callers free what they hold, what they have freed already or what is no
\* page of the memory; nobody frees the kernel's pages.
Freeable ==
    {p \in free_start .. (Capacity - 1) : p \in held \/ p \notin taken \/ p >= total_blocks}

PmmNext ==
    \/ AllocPage \/ AllocPageFails
    \/ \E p \in Freeable : FreePage(p) \/ FreePageIgnored(p)

PmmSpec == PmmInit /\ [][PmmNext]_pmm

-----------------------------------------------------------------------------
\* Types of the variables; used_blocks never wraps below zero.
TypeOK ==
    /\ taken \in SUBSET Blocks
    /\ total_blocks \in 0 .. Capacity
    /\ used_blocks \in 0 .. total_blocks
    /\ free_start \in Nat \ {0}
    /\ held \in SUBSET Blocks

\* The kernel image, the bitmap and what lies beyond the memory are never
\* handed out, not even after frees of pages that do not exist; and no page
\* is free while somebody holds it, so none has two holders.
ReservedKept ==
    /\ \A p \in Blocks : p < free_start \/ p >= total_blocks => p \in taken
    /\ \A p \in held : free_start <= p /\ p < total_blocks /\ p \in taken

\* What pmm_get_free_memory reports is what can still be allocated, also after
\* a page was freed twice.
Counting == total_blocks - used_blocks = Cardinality(FreePages)
==============================================================================
