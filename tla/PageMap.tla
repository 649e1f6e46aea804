------------------------------- MODULE PageMap -------------------------------
(***************************************************************************)
(* What paging promises: a flat map from virtual pages to frames.  Mapping *)
(* a page, or unmapping it, changes that page alone.  A request to map may *)
(* be dropped (the pool of page tables is empty): a stuttering step.       *)
(***************************************************************************)
CONSTANTS
    Pages,      \* virtual page numbers
    Frames,     \* physical frame numbers
    Unmapped,   \* the image of a page that is not mapped
    Identity    \* the map at the start

VARIABLE map

MapInit == map = Identity

Map(v, f) == map' = [map EXCEPT ![v] = f]

Unmap(v) == map' = [map EXCEPT ![v] = Unmapped]

MapNext == \E v \in Pages : Unmap(v) \/ \E f \in Frames : Map(v, f)

MapSpec == MapInit /\ [][MapNext]_map
==============================================================================
