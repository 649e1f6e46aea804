---------------------------------- MODULE Vfs --------------------------------
(***************************************************************************)
(* The virtual file system, src/kernel/fs/vfs_complete.c: one table of     *)
(* file descriptors and the walk from a path to a node, over a file system *)
(* (external) that it reaches through the function pointers of its nodes.  *)
(* A path is a sequence of letters and slashes, a name one of letters.     *)
(* Calls that are refused change nothing and are stuttering steps.         *)
(***************************************************************************)
EXTENDS Integers, SequencesExt

CONSTANTS
    MaxOpenFiles,   \* MAX_OPEN_FILES, 256
    MaxFilename,    \* MAX_FILENAME, 128: a component of a path and its NUL
    MaxPath,        \* MAX_PATH, 256: the directory part of a path and its NUL
    Width,          \* values of a uint32_t, 2^32
    Slash,          \* the one character that is no letter
    Letters,        \* the other characters
    Root, Dirs,     \* the directories, Root among them
    Nodes,          \* every node the file system has room for
    Null,           \* no node
    Paths,          \* what callers pass as a path
    MaxLength,      \* a file's greatest length
    Moves,          \* the int offsets of a seek
    NameLists       \* for the properties: sequences of names that fit MaxFilename

ASSUME VfsAssumption ==
    /\ MaxOpenFiles \in Nat \ {0}
    /\ MaxFilename \in Nat \ {0, 1} /\ MaxPath \in Nat \ {0}
    /\ MaxLength \in Nat /\ Moves \subseteq Int
    \* no offset and no int reaches across the whole range of a uint32_t
    /\ Width \in Nat
    /\ \A m \in Moves : m + MaxLength < Width /\ MaxLength < m + Width
    /\ \A names \in NameLists : names # << >> /\ names \in Seq(Seq(Letters))
    /\ \A names \in NameLists : \A i \in DOMAIN names :
          names[i] # << >> /\ Len(names[i]) < MaxFilename
    /\ Slash \notin Letters /\ \A path \in Paths : path \in Seq(Letters \cup {Slash})
    /\ Root \in Dirs /\ Dirs \subseteq Nodes /\ Null \notin Nodes

Fds == 0 .. (MaxOpenFiles - 1)

VARIABLES
    vfs_root,       \* Null until a file system is mounted
    fd_table,       \* per descriptor: in_use, node, offset
    tree,           \* external: the entries of the directories
    length,         \* external: length of each node
    opens           \* external: calls of a node's open without one of its close

vars == <<vfs_root, fd_table, tree, length, opens>>

Init ==
    /\ vfs_root = Null
    /\ fd_table = [fd \in Fds |-> [in_use |-> FALSE, node |-> Null, offset |-> 0]]
    /\ tree = {}
    /\ length = [n \in Nodes |-> 0]
    /\ opens = [n \in Nodes |-> 0]

\* vfs_set_root
SetRoot ==
    /\ vfs_root' = Root
    /\ UNCHANGED <<fd_table, tree, length, opens>>

-----------------------------------------------------------------------------
(* Paths.                                                                   *)

\* A directory's finddir: the node of that name, or Null.
FindDir(dir, name) ==
    LET found == {e \in tree : e.dir = dir /\ e.name = name}
    IN  IF found = {} THEN Null ELSE (CHOOSE e \in found : TRUE).node

\* Mutant: the buffer is taken for one character shorter.
FullEarly(name) == Len(name) = MaxFilename - 2

\* The buffer of a component has room for its NUL only.
Full(name) == Len(name) = MaxFilename - 1

\* One more character of the path: a slash ends the component, and so does a
\* letter that has no room in it.  What is no directory has no finddir.
Advance(at, c) ==
    IF c = Slash THEN [dir |-> FindDir(at.dir, at.name), name |-> << >>]
    ELSE IF Full(at.name) THEN [dir |-> FindDir(at.dir, at.name), name |-> <<c>>]
    ELSE [dir |-> at.dir, name |-> Append(at.name, c)]

\* The directory that the walk is in behind the last character, and the
\* component that has not been looked up yet.
Walk(path) ==
    LET walked[k \in 0 .. Len(path)] ==
            IF k = 0 THEN [dir |-> vfs_root, name |-> << >>]
            ELSE Advance(walked[k - 1], path[k])
    IN  walked[Len(path)]

\* vfs_resolve_path: a node or Null.  A slash at the start is skipped.
Resolve(path) ==
    LET walk == Walk(IF path # << >> /\ path[1] = Slash THEN Tail(path) ELSE path)
    IN  IF walk.name = << >> THEN walk.dir ELSE FindDir(walk.dir, walk.name)

-----------------------------------------------------------------------------
(* The descriptor table.                                                    *)

\* alloc_fd: the first entry that is not in use.
FreeFd == {fd \in Fds : ~fd_table[fd].in_use /\ \A g \in 0 .. (fd - 1) : fd_table[g].in_use}

\* Mutant: the offset stays as the last user of the entry left it.
OpenedKept(entry, n) == [entry EXCEPT !.in_use = TRUE, !.node = n]

Opened(entry, n) == [in_use |-> TRUE, node |-> n, offset |-> 0]

\* Mutant: the node is not told.
CallOpenNot(n) == UNCHANGED opens

\* node->open, from which the file system knows that the node is in use.
CallOpen(n) == opens' = [opens EXCEPT ![n] = @ + 1]

Open(path) ==
    LET node == Resolve(path) IN
    /\ node \in Nodes
    /\ \E fd \in FreeFd : fd_table' = [fd_table EXCEPT ![fd] = Opened(@, node)]
    /\ CallOpen(node)
    /\ UNCHANGED <<vfs_root, tree, length>>

\* Mutant: the node is opened before the table is found to be full.
NoDescriptorLate(n) == CallOpen(n) /\ UNCHANGED <<vfs_root, fd_table, tree, length>>

\* The table is full: nothing was done yet.
NoDescriptor(n) == UNCHANGED vars

OpenFails(path) ==
    /\ Resolve(path) \in Nodes /\ FreeFd = {}
    /\ NoDescriptor(Resolve(path))

InUse(fd) == fd_table[fd].in_use
NodeOf(fd) == fd_table[fd].node
IsFile(fd) == NodeOf(fd) \notin Dirs

\* vfs_close: node->close, and the entry is given back with its offset.
Close(fd) ==
    /\ InUse(fd)
    /\ opens' = [opens EXCEPT ![NodeOf(fd)] = @ - 1]
    /\ fd_table' = [fd_table EXCEPT ![fd].in_use = FALSE, ![fd].node = Null]
    /\ UNCHANGED <<vfs_root, tree, length>>

SetOffset(fd, offset) == fd_table' = [fd_table EXCEPT ![fd].offset = offset]

\* node->read gives some or all of the bytes from the offset to the end.
Read(fd) ==
    /\ InUse(fd) /\ IsFile(fd)
    /\ \E count \in 0 .. (length[NodeOf(fd)] - fd_table[fd].offset) :
          SetOffset(fd, fd_table[fd].offset + count)
    /\ UNCHANGED <<vfs_root, tree, length, opens>>

\* node->write takes some or all of the bytes, and the file grows.
Write(fd) ==
    /\ InUse(fd) /\ IsFile(fd)
    /\ \E end \in fd_table[fd].offset .. MaxLength :
          /\ SetOffset(fd, end)
          /\ length' = [length EXCEPT ![NodeOf(fd)] = IF end > @ THEN end ELSE @]
    /\ UNCHANGED <<vfs_root, tree, opens>>

SeekBase(fd, whence) ==
    CASE whence = "SEEK_SET" -> 0
      [] whence = "SEEK_CUR" -> fd_table[fd].offset
      [] whence = "SEEK_END" -> length[NodeOf(fd)]

\* The sum is unsigned: a target before the start of the file wraps, is
\* greater than the length, and so means the end.
Seek(fd, move, whence) ==
    LET new_offset == (SeekBase(fd, whence) + move) % Width
        end == length[NodeOf(fd)]
    IN  /\ InUse(fd)
        /\ SetOffset(fd, IF new_offset > end THEN end ELSE new_offset)
        /\ UNCHANGED <<vfs_root, tree, length, opens>>

-----------------------------------------------------------------------------
(* The directories.                                                         *)

LastSlash(path) == Max({0} \cup {i \in 1 .. Len(path) : path[i] = Slash})

\* What is before the last slash, cut to the buffer.
DirPath(path) == SubSeq(path, 1, Min({LastSlash(path) - 1, MaxPath - 1}))

ParentOf(path) == IF LastSlash(path) = 0 THEN vfs_root ELSE Resolve(DirPath(path))

\* Mutant: the name starts at the slash.
NameFromSlash(path) == SubSeq(path, Max({LastSlash(path), 1}), Len(path))

NameIn(path) == SubSeq(path, LastSlash(path) + 1, Len(path))

\* External: the nodes in use as files and directories.
Live == {Root} \cup {e.node : e \in tree}

\* vfs_create, and vfs_mkdir for a node that is a directory.  The file system
\* refuses an empty name and one that is taken, and takes a node it has free.
Make(path, n) ==
    /\ ParentOf(path) \in Dirs
    /\ NameIn(path) # << >>
    /\ FindDir(ParentOf(path), NameIn(path)) = Null
    /\ n \notin Live
    /\ tree' = tree \cup {[dir |-> ParentOf(path), name |-> NameIn(path), node |-> n]}
    /\ length' = [length EXCEPT ![n] = 0]
    /\ UNCHANGED <<vfs_root, fd_table, opens>>

\* vfs_unlink.  The file system refuses a node that is open and a directory
\* that is not empty.
Unlink(path) ==
    \E e \in tree :
        /\ e.dir = ParentOf(path) /\ e.name = NameIn(path)
        /\ opens[e.node] = 0
        /\ \A f \in tree : f.dir # e.node
        /\ tree' = tree \ {e}
        /\ UNCHANGED <<vfs_root, fd_table, length, opens>>

Whences == {"SEEK_SET", "SEEK_CUR", "SEEK_END"}

Next ==
    \/ SetRoot
    \/ \E path \in Paths : Open(path) \/ OpenFails(path) \/ Unlink(path)
    \/ \E path \in Paths, n \in Nodes : Make(path, n)
    \/ \E fd \in Fds : Close(fd) \/ Read(fd) \/ Write(fd)
    \/ \E fd \in Fds, move \in Moves, whence \in Whences : Seek(fd, move, whence)

Spec == Init /\ [][Next]_vars

-----------------------------------------------------------------------------
(* Properties.                                                              *)

Entry == [in_use : BOOLEAN, node : Nodes \cup {Null}, offset : 0 .. MaxLength]

TypeOK ==
    /\ vfs_root \in {Null, Root}
    /\ fd_table \in [Fds -> Entry]
    /\ tree \subseteq [dir : Dirs, name : {NameIn(path) : path \in Paths}, node : Nodes]
    /\ length \in [Nodes -> 0 .. MaxLength]
    /\ opens \in [Nodes -> Nat]

OpenOn(n) == {fd \in Fds : InUse(fd) /\ NodeOf(fd) = n}

\* The file system is told of every open and of every close, once: a failed
\* open leaves nothing behind, and no close is made twice.
OpensMatch == \A n \in Nodes : opens[n] = Cardinality(OpenOn(n))

\* No descriptor in use refers to a node that was unlinked, or to one that has
\* become another file since: the table keeps a bare pointer, and all that
\* protects it is that the file system was told.
NothingDangles == \A fd \in Fds : InUse(fd) => NodeOf(fd) \in Live

\* The path that spells the first k of a sequence of names, from the root.
Joined(path, name) == path \o <<Slash>> \o name

Absolute(names, k) ==
    LET upto[j \in 0 .. Len(names)] ==
            IF j = 0 THEN << >> ELSE Joined(upto[j - 1], names[j])
    IN  upto[k]

\* The two paths that spell all of it: absolute and relative.
Spellings(names) == LET path == Absolute(names, Len(names)) IN {path, Tail(path)}

\* The node that the first k names lead to: a set of one at most.
Leads(names, k) ==
    LET at[j \in 0 .. Len(names)] ==
            IF j = 0 THEN {vfs_root} \ {Null}
            ELSE {e.node : e \in {f \in tree : f.dir \in at[j - 1] /\ f.name = names[j]}}
    IN  at[k]

\* A path finds the node that its names lead to one after the other, with and
\* without a slash before and behind, as long as the names fit the buffer.
ResolvesAsNamed ==
    \A names \in NameLists : \A path \in Spellings(names) : \A p \in {path, path \o <<Slash>>} :
        Leads(names, Len(names)) = {Resolve(p)} \ {Null}

\* The entries of the last name, before or after a step, in the directory that
\* the names before it lead to.
Named(names) == {e \in tree \cup tree' : /\ e.dir \in Leads(names, Len(names) - 1)
                                         /\ e.name = names[Len(names)]}

\* Making a file or a directory adds the entry of that name to the directory
\* that the names before it lead to, and unlinking takes it away, as long as
\* the directory part fits its buffer.  No other entry is touched.
ChangesAsNamed ==
    [][\A names \in NameLists : \A path \in Spellings(names) :
         tree' # tree /\ LastSlash(path) <= MaxPath =>
            /\ \A n \in Nodes : Make(path, n) =>
                  Cardinality(Named(names)) = 1 /\ tree' = tree \cup Named(names)
            /\ Unlink(path) => Cardinality(Named(names)) = 1 /\ tree' = tree \ Named(names)]_vars

\* The table of descriptors implements OpenFiles, with a position that is a
\* plain number where the code adds modulo 2^32 and then clamps.
Handles == [fd \in {g \in Fds : InUse(g)} |-> [node |-> NodeOf(fd), pos |-> fd_table[fd].offset]]

Files == INSTANCE OpenFiles WITH handles <- Handles

RefinesOpenFiles == Files!FilesSpec
==============================================================================
