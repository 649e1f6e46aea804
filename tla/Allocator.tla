------------------------------ MODULE Allocator ------------------------------
(***************************************************************************)
(* What the kernel heap promises its callers, with no header, no list and  *)
(* no search: a pointer kmalloc returns names words of the heap that no    *)
(* other live pointer names, and they stay the caller's until kfree.       *)
(* kmalloc may refuse (return 0) at any time: that is a stuttering step.   *)
(***************************************************************************)
EXTENDS Integers

CONSTANTS
    Addr,       \* the word addresses of the heap
    Sizes,      \* the request sizes, in bytes, that callers use
    Words(_)    \* the words a request of that many bytes needs

VARIABLE held   \* held[p]: the bytes requested for live pointer p, 0 if not live

Region(p, n) == p .. (p + Words(n) - 1)

AllocInit == held = [p \in Addr |-> 0]

Alloc(p, n) ==
    /\ held[p] = 0
    /\ Region(p, n) \subseteq Addr
    /\ \A q \in Addr : held[q] # 0 => Region(p, n) \cap Region(q, held[q]) = {}
    /\ held' = [held EXCEPT ![p] = n]

Release(p) ==
    /\ held[p] # 0
    /\ held' = [held EXCEPT ![p] = 0]

AllocNext == \E p \in Addr : Release(p) \/ \E n \in Sizes : Alloc(p, n)

AllocSpec == AllocInit /\ [][AllocNext]_held
==============================================================================
