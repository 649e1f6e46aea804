-------------------------------- MODULE Heap ---------------------------------
(***************************************************************************)
(* The kernel heap, src/kernel/mm/heap.c: a first-fit allocator over one   *)
(* address-ordered singly linked list of block headers laid in the heap    *)
(* itself.  Addresses and block sizes count 4-byte words (every size the   *)
(* code stores is a multiple of 4), requests count bytes.  kmalloc and     *)
(* kfree run to completion: no interrupt handler of the kernel calls them. *)
(***************************************************************************)
EXTENDS Integers, FiniteSets

CONSTANTS
    HeapStart,  \* HEAP_START: word address of the first header
    HeapWords,  \* HEAP_SIZE / 4
    Sizes       \* the request sizes callers pass, in bytes

Header == 3     \* sizeof(heap_block_t) / 4

ASSUME HeapAssumption ==
    /\ HeapStart \in Nat \ {0}
    /\ HeapWords \in Nat
    /\ HeapWords > Header
    \* kmalloc(0) returns 0; sizes within 3 of 2^32 (the rounding would wrap)
    \* are passed by no caller
    /\ Sizes \subseteq Nat \ {0}

NULL == 0
HeapEnd == HeapStart + HeapWords
Addr == HeapStart .. (HeapEnd - 1)

VARIABLES
    size,       \* size[b], next[b]: two words of the header at b, forgotten
    next,       \*   (0) once b is off the list, where nobody reads them
    used,       \* used[b]: the third word; it stays when b leaves the list
    chain,      \* the headers on the list that starts at heap_start
    heap_used,  \* the counter behind heap_get_used
    held,       \* callers' side: bytes requested for live pointer p, else 0
    freed       \* callers' side: {} or {p}, a freed pointer some caller still
                \*   has and whose header nobody has overwritten

vars == <<size, next, used, chain, heap_used, held, freed>>

Words(n) == (n + 3) \div 4          \* size = (size + 3) & ~3, in words

End(b) == b + Header + size[b]      \* the first word after block b

-----------------------------------------------------------------------------
Init ==
    /\ size = [a \in Addr |-> IF a = HeapStart THEN HeapWords - Header ELSE 0]
    /\ used = [a \in Addr |-> FALSE]
    /\ next = [a \in Addr |-> NULL]
    /\ chain = {HeapStart}
    /\ heap_used = 0
    /\ held = [a \in Addr |-> 0]
    /\ freed = {}

FittingUsed(w) == {b \in chain : size[b] >= w}   \* mutant: the used test is dropped
Fitting(w) == {b \in chain : ~used[b] /\ size[b] >= w}

\* The search loop stops at the first block of the list that fits.
FirstFit(w) == {b \in Fitting(w) : \A c \in Fitting(w) : b <= c}

\* The header of a pointer is the three words below it; writing the words
\* lo..hi leaves it alone only if they are all on one side of it.
Spared(lo, hi) == {p \in freed : p <= lo \/ p - Header > hi}

Remains(b, w) == size[b] > w + Header + 1

\* The block is cut: a new free block takes what the request leaves over.
Split(b, w) ==
    LET new == b + Header + w IN
    /\ Remains(b, w)
    /\ size' = [size EXCEPT ![b] = w, ![new] = size[b] - w - Header]
    /\ used' = [used EXCEPT ![b] = TRUE, ![new] = FALSE]
    /\ next' = [next EXCEPT ![b] = new, ![new] = next[b]]
    /\ chain' = chain \cup {new}
    /\ heap_used' = heap_used + w
    /\ freed' = Spared(b, new + Header - 1)

CountedAsAsked(b, w) == w                        \* mutant
Counted(b, w) == size[b]

\* What would be left over is too small for a header: the block goes whole.
TakeWhole(b, w) ==
    /\ ~Remains(b, w)
    /\ used' = [used EXCEPT ![b] = TRUE]
    /\ heap_used' = heap_used + Counted(b, w)
    /\ freed' = Spared(b, End(b) - 1)
    /\ UNCHANGED <<size, next, chain>>

Kmalloc(n) ==
    \E b \in FirstFit(Words(n)) :
        /\ Split(b, Words(n)) \/ TakeWhole(b, Words(n))
        /\ held' = [held EXCEPT ![b + Header] = n]

\* No block fits: the loop runs off the list and kmalloc returns 0.
KmallocFails(n) ==
    /\ Fitting(Words(n)) = {}
    /\ UNCHANGED vars

\* kfree of a block marked used: unmark it, absorb a free successor, then
\* let a free predecessor absorb the result.
FreePrevNot(b) == {}                              \* mutants
UnmarkedKept(b) == IF \E c \in chain : next[c] = b /\ ~used[c] THEN used
                   ELSE [used EXCEPT ![b] = FALSE]
AbsorbedBare(b) == size[b] + size[next[b]]

Unmarked(b) == [used EXCEPT ![b] = FALSE]
Absorbed(b) == size[b] + Header + size[next[b]]
MergeNext(b) == next[b] # NULL /\ ~used[next[b]]
FreePrev(b) == {c \in chain : next[c] = b /\ ~used[c]}

FreeBlock(b) ==
    LET eats  == MergeNext(b)
        size1 == IF eats THEN Absorbed(b) ELSE size[b]
        next1 == IF eats THEN next[next[b]] ELSE next[b]
        prev  == FreePrev(b)
    IN
    /\ used' = Unmarked(b)
    /\ heap_used' = heap_used - size[b]
    /\ chain' = {c \in chain : ~(eats /\ c = next[b]) /\ ~(prev # {} /\ c = b)}
    /\ size' = [a \in Addr |-> IF a \notin chain' THEN 0
                               ELSE IF a \in prev THEN size[a] + Header + size1
                               ELSE IF a = b THEN size1 ELSE size[a]]
    /\ next' = [a \in Addr |-> IF a \notin chain' THEN NULL
                               ELSE IF a \in prev \cup {b} THEN next1 ELSE next[a]]

\* kfree of a pointer the caller holds, or of one it has freed already and
\* whose header still stands (sys_exit of a dangling process does that).
\* Any freed pointer may be the one a caller remembers.
Kfree(p) ==
    /\ held[p] # 0 \/ p \in freed
    /\ IF used[p - Header]
       THEN /\ FreeBlock(p - Header)
            /\ held' = [held EXCEPT ![p] = 0]
            /\ freed' \in {freed, {p}}
       ELSE UNCHANGED vars

Next ==
    \/ \E n \in Sizes : Kmalloc(n) \/ KmallocFails(n)
    \/ \E p \in Addr : Kfree(p)

Spec == Init /\ [][Next]_vars

-----------------------------------------------------------------------------
\* Types of the variables.
TypeOK ==
    /\ size \in [Addr -> Nat]
    /\ used \in [Addr -> BOOLEAN]
    /\ next \in [Addr -> Addr \cup {NULL}]
    /\ chain \in SUBSET Addr
    /\ heap_used \in Int
    /\ held \in [Addr -> Sizes \cup {0}]
    /\ freed \in SUBSET Addr

\* The blocks of the list tile the heap: each next pointer is the end of its
\* block, the last block ends the heap, no two blocks overlap and no word is
\* lost, whatever sequence of splits and merges made the list.
Tiled ==
    /\ HeapStart \in chain
    /\ \A b \in chain :
        /\ size[b] >= 1
        /\ \/ End(b) = HeapEnd /\ next[b] = NULL
           \/ End(b) \in chain /\ next[b] = End(b)
    /\ \A b, c \in chain : b < c => End(b) <= c
    /\ \A a \in Addr : \E b \in chain : b <= a /\ a < End(b)

\* kfree merges on both sides, so two neighbours are never both free.
Coalesced == \A b \in chain : next[b] # NULL => used[b] \/ used[next[b]]

\* The used blocks are exactly those callers hold, each with room for what
\* its caller asked for: kfree and kmalloc never disturb a live pointer.
HeldAreUsed ==
    \A p \in Addr :
        /\ held[p] # 0 <=> p - Header \in chain /\ used[p - Header]
        /\ held[p] # 0 => Words(held[p]) <= size[p - Header]

\* "Already freed": a second kfree of a pointer whose header nobody has
\* reused finds used = 0, even when the block was merged into a neighbour.
FreedInert == \A p \in freed : p - Header \in Addr /\ ~used[p - Header]

\* heap_used counts the words of the used blocks, their headers aside: what
\* kmalloc adds for a block, cut or whole, is what its kfree subtracts, and no
\* merge changes the size of a used block in between.
UsedWords == UNION {(b + Header) .. (End(b) - 1) : b \in {c \in chain : used[c]}}

Accounting == heap_used = Cardinality(UsedWords)

\* kmalloc refuses a request only when the heap has no room for it: if some
\* window of words, large enough for the request and its header, touches no
\* used block, then the search finds a block.
Occupied == UNION {b .. (End(b) - 1) : b \in {c \in chain : used[c]}}

RefusesOnlyWhenFull ==
    \A n \in Sizes : \A a \in Addr :
        LET window == a .. (a + Header + Words(n) - 1) IN
        window \subseteq Addr /\ window \cap Occupied = {} => Fitting(Words(n)) # {}

\* Once every pointer is freed the heap is the one block heap_init made.
AllFreedIsInitial ==
    (\A p \in Addr : held[p] = 0) =>
        chain = {HeapStart} /\ size[HeapStart] = HeapWords - Header

\* The heap implements the abstract allocator.
Abstract == INSTANCE Allocator
RefinesAllocator == Abstract!AllocSpec
==============================================================================
