------------------------------- MODULE OpenFiles -----------------------------
(***************************************************************************)
(* What a table of open files promises: a descriptor that is handed out is *)
(* nobody else's and starts at the beginning of the file; reads and writes *)
(* move its own position and no other; a position never leaves the file;   *)
(* and a file is emptied for reuse only when nobody has it open.           *)
(***************************************************************************)
EXTENDS Integers

CONSTANTS
    Fds,        \* the descriptors
    Nodes,      \* the files
    MaxLength,  \* the greatest length of a file
    Moves       \* the distances of a seek

VARIABLES
    handles,    \* what is open: from descriptors to a node and a position
    length      \* of each node

FilesInit ==
    /\ handles = [fd \in {} |-> 0]    \* nothing is open
    /\ length = [n \in Nodes |-> 0]

Open(fd, n) ==
    /\ fd \notin DOMAIN handles
    /\ handles' = [g \in DOMAIN handles \cup {fd} |->
                      IF g = fd THEN [node |-> n, pos |-> 0] ELSE handles[g]]
    /\ UNCHANGED length

Close(fd) ==
    /\ handles' = [g \in DOMAIN handles \ {fd} |-> handles[g]]
    /\ UNCHANGED length

MoveTo(fd, pos) == handles' = [handles EXCEPT ![fd].pos = pos]

\* Part of what lies ahead of the position, or all of it.
Read(fd) ==
    /\ \E pos \in handles[fd].pos .. length[handles[fd].node] : MoveTo(fd, pos)
    /\ UNCHANGED length

Write(fd) ==
    \E pos \in handles[fd].pos .. MaxLength :
        /\ MoveTo(fd, pos)
        /\ length' = [length EXCEPT ![handles[fd].node] = IF pos > @ THEN pos ELSE @]

\* To a place in the file; a target on either side of it means the end.
Seek(fd) ==
    /\ \E base \in {0, handles[fd].pos, length[handles[fd].node]}, move \in Moves :
          MoveTo(fd, IF base + move \in 0 .. length[handles[fd].node]
                       THEN base + move ELSE length[handles[fd].node])
    /\ UNCHANGED length

Reuse(n) ==
    /\ \A fd \in DOMAIN handles : handles[fd].node # n
    /\ length' = [length EXCEPT ![n] = 0]
    /\ UNCHANGED handles

FilesNext ==
    \/ \E fd \in Fds, n \in Nodes : Open(fd, n)
    \/ \E fd \in DOMAIN handles : Close(fd) \/ Read(fd) \/ Write(fd) \/ Seek(fd)
    \/ \E n \in Nodes : Reuse(n)

FilesSpec == FilesInit /\ [][FilesNext]_<<handles, length>>
==============================================================================
