-------------------------------- MODULE Paging -------------------------------
(***************************************************************************)
(* Paging, src/kernel/mm/paging.c: one page directory whose entries point  *)
(* into a static pool of page tables, and the CPU that walks them and      *)
(* caches what it finds (external).  The number of a virtual page is the   *)
(* pair of its directory index and its table index, and frames are         *)
(* numbered alike.  A page fault halts the kernel for good, so an access   *)
(* to an unmapped page has no successor.  The rights bits are left out.    *)
(***************************************************************************)
EXTENDS Integers

CONSTANTS
    Dirs,       \* directory entries: 1024
    Entries,    \* entries of a table: 1024
    Pool,       \* page_tables: 256
    IdDirs,     \* directory entries of the identity map: 4 (16 MB)
    Frames,     \* physical frames pages are mapped to
    Unmapped    \* what an entry without PAGE_PRESENT maps to

ASSUME PagingAssumption ==
    /\ Dirs \in Nat \ {0} /\ Entries \in Nat \ {0} /\ Pool \in Nat
    /\ IdDirs \in Nat /\ IdDirs <= Pool /\ IdDirs <= Dirs
    /\ (0 .. (IdDirs - 1)) \X (0 .. (Entries - 1)) \subseteq Frames
    /\ Unmapped \notin Frames

DirIndices == 0 .. (Dirs - 1)
TableIndices == 0 .. (Entries - 1)
Pages == DirIndices \X TableIndices
DirIndex(v) == v[1]         \* PAGE_DIR_INDEX
TableIndex(v) == v[2]       \* PAGE_TABLE_INDEX
NoTable == -1

VARIABLES
    directory,          \* kernel_directory: the table of an entry, or NoTable
    page_tables,        \* the pool: the frame of an entry, or Unmapped
    next_table_index,
    tlb                 \* the frame the CPU has cached for a page, or Unmapped

vm == <<directory, page_tables, next_table_index, tlb>>

\* paging_init: the first pages are mapped to themselves, and loading the
\* directory empties the TLB.
VmInit ==
    /\ directory = [d \in DirIndices |-> IF d < IdDirs THEN d ELSE NoTable]
    /\ page_tables = [i \in 0 .. (Pool - 1) |-> [t \in TableIndices |->
                        IF i < IdDirs THEN <<i, t>> ELSE Unmapped]]
    /\ next_table_index = IdDirs
    /\ tlb = [v \in Pages |-> Unmapped]

-----------------------------------------------------------------------------
HasTable(v) == directory[DirIndex(v)] # NoTable

\* paging_get_physical, and the walk of the CPU.
Physical(v) == IF HasTable(v) THEN page_tables[directory[DirIndex(v)]][TableIndex(v)] ELSE Unmapped

\* The entry for v in table i, of a table in use or (fresh) of one that
\* alloc_page_table has just cleared.
SetEntryUncleared(i, v, f, fresh) ==             \* mutant: one entry for all
    page_tables' = [page_tables EXCEPT ![i] = [t \in TableIndices |-> f]]
SetEntry(i, v, f, fresh) ==
    page_tables' = [page_tables EXCEPT ![i] = [t \in TableIndices |->
        IF t = TableIndex(v) THEN f ELSE IF fresh THEN Unmapped ELSE page_tables[i][t]]]

\* paging_map_page with PAGE_PRESENT, as every caller does.  What the CPU has
\* cached for the page stays cached.
MapPage(v, f) ==
    /\ HasTable(v)
    /\ SetEntry(directory[DirIndex(v)], v, f, FALSE)
    /\ UNCHANGED <<directory, next_table_index, tlb>>

PoolIsEmpty == next_table_index >= Pool

NextTableIndex == next_table_index + 1

MapPageNewTable(v, f) ==
    /\ ~HasTable(v)
    /\ ~PoolIsEmpty
    /\ SetEntry(next_table_index, v, f, TRUE)
    /\ directory' = [directory EXCEPT ![DirIndex(v)] = next_table_index]
    /\ next_table_index' = NextTableIndex
    /\ UNCHANGED tlb

\* "Failed to allocate page table": nothing changes, and nobody is told.
MapPageDropped(v) ==
    /\ ~HasTable(v)
    /\ PoolIsEmpty
    /\ UNCHANGED vm

FlushedNot(v) == tlb                             \* mutant
Flushed(v) == [tlb EXCEPT ![v] = Unmapped]       \* invlpg

UnmapPage(v) ==
    /\ HasTable(v)
    /\ SetEntry(directory[DirIndex(v)], v, Unmapped, FALSE)
    /\ tlb' = Flushed(v)
    /\ UNCHANGED <<directory, next_table_index>>

UnmapPageAbsent(v) == ~HasTable(v) /\ UNCHANGED vm

\* paging_switch_directory, to the one directory there is: cr3 is loaded.
SwitchDirectory ==
    /\ tlb' = [v \in Pages |-> Unmapped]
    /\ UNCHANGED <<directory, page_tables, next_table_index>>

\* The CPU uses a page, and caches the walk; it may forget it at any time.
CpuAccess(v) ==
    /\ tlb[v] = Unmapped
    /\ Physical(v) # Unmapped
    /\ tlb' = [tlb EXCEPT ![v] = Physical(v)]
    /\ UNCHANGED <<directory, page_tables, next_table_index>>

Evict(v) ==
    /\ tlb[v] # Unmapped
    /\ tlb' = [tlb EXCEPT ![v] = Unmapped]
    /\ UNCHANGED <<directory, page_tables, next_table_index>>

VmNext ==
    \/ \E v \in Pages :
        \/ \E f \in Frames : MapPage(v, f) \/ MapPageNewTable(v, f)
        \/ MapPageDropped(v) \/ UnmapPage(v) \/ UnmapPageAbsent(v)
        \/ CpuAccess(v) \/ Evict(v)
    \/ SwitchDirectory

VmSpec == VmInit /\ [][VmNext]_vm

-----------------------------------------------------------------------------
\* Types of the variables.
VmTypeOK ==
    /\ directory \in [DirIndices -> (0 .. (Pool - 1)) \cup {NoTable}]
    /\ page_tables \in [0 .. (Pool - 1) -> [TableIndices -> Frames \cup {Unmapped}]]
    /\ next_table_index \in 0 .. Pool
    /\ tlb \in [Pages -> Frames \cup {Unmapped}]

\* No two directory entries share a table of the pool, and the tables not yet
\* taken are in no entry: mapping a page never moves another one.
TablesDisjoint ==
    \A d, e \in DirIndices :
        directory[d] # NoTable =>
            /\ directory[d] < next_table_index
            /\ d # e => directory[d] # directory[e]

\* Once a page is unmapped the CPU has no way to it, whatever it had cached.
UnmappedIsUnreachable == \A v \in Pages : Physical(v) = Unmapped => tlb[v] = Unmapped

\* The two levels behave as one flat map.
Flat == INSTANCE PageMap WITH
    map <- [v \in Pages |-> Physical(v)],
    Identity <- [v \in Pages |-> IF DirIndex(v) < IdDirs THEN v ELSE Unmapped]
RefinesPageMap == Flat!MapSpec
==============================================================================
