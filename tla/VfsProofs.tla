------------------------------- MODULE VfsProofs -----------------------------
(***************************************************************************)
(* Proofs about the table of file descriptors, for every size of the table *)
(* and every file system that keeps to its side, and about the walk along  *)
(* a path: it ends at a node that has an entry, or nowhere, and a path     *)
(* that is spelled from names leads where the names do.                    *)
(***************************************************************************)
EXTENDS Vfs, FiniteSetTheorems, SequenceTheorems, WellFoundedInduction, TLAPS

\* A position in use is never behind the end of its file.
OffsetsInside ==
    \A fd \in Fds : InUse(fd) => NodeOf(fd) \in Nodes /\ fd_table[fd].offset <= length[NodeOf(fd)]

\* The inductive invariant.  NothingDangles needs OpensMatch to know that the
\* file system refuses to unlink what is open; OffsetsInside needs
\* NothingDangles, since the length of a node that is reused drops to zero.
IInv == TypeOK /\ OpensMatch /\ NothingDangles /\ OffsetsInside

-----------------------------------------------------------------------------
(* Lemmas.                                                                  *)

\* The order of the natural numbers is well founded, with its pairs in sight.
LEMMA LessIsWellFounded == IsWellFoundedOn({ss \in Nat \X Nat : ss[1] < ss[2]}, Nat)
  BY NatLessThanWellFounded, Zenon DEF OpToRel

\* A set of numbers that is not empty has a least one.
LEMMA Least ==
  ASSUME NEW S \in SUBSET Nat, S # {}
  PROVE  \E m \in S : \A k \in S : m <= k
  <1>1. PICK m \in S : \A k \in S : <<k, m>> \notin {ss \in Nat \X Nat : ss[1] < ss[2]}
    BY LessIsWellFounded, WFMin, Zenon
  <1>2. \A k \in S : ~(k < m)
    BY <1>1
  <1> QED
    BY <1>2

\* Induction along a path: a set that holds 0, and with every number below N
\* the next one, holds N, because no number is the least one it lacks.
LEMMA Induct ==
  ASSUME NEW N \in Nat, NEW S \in SUBSET (0 .. N), 0 \in S,
         \A k \in S : k < N => k + 1 \in S
  PROVE  N \in S
  <1> SUFFICES ASSUME N \notin S PROVE FALSE
    OBVIOUS
  <1>1. PICK m \in (0 .. N) \ S : \A k \in (0 .. N) \ S : m <= k
    <2>1. (0 .. N) \ S \in SUBSET Nat /\ (0 .. N) \ S # {}
      OBVIOUS
    <2> QED
      BY <2>1, Least
  <1>2. m # 0 /\ m - 1 \in S /\ m - 1 < N
    BY <1>1
  <1> QED
    BY <1>1, <1>2

\* The descriptors are finitely many, and so are those open on a node.
LEMMA OpenOnFinite == IsFiniteSet(Fds) /\ \A n : IsFiniteSet(OpenOn(n))
  <1>1. IsFiniteSet(Fds)
    BY FS_Interval, VfsAssumption DEF Fds
  <1>2. \A n : OpenOn(n) \subseteq Fds
    BY DEF OpenOn
  <1> QED
    BY <1>1, <1>2, FS_Subset

\* The unsigned sum of a seek: a place in the file is itself, and what is
\* before the start is beyond every length.
LEMMA UnsignedSum ==
  ASSUME NEW base \in 0 .. MaxLength, NEW m \in Moves
  PROVE  /\ (base + m) % Width \in Nat
         /\ base + m >= 0 => (base + m) % Width = base + m
         /\ base + m < 0 => (base + m) % Width > MaxLength
  <1> DEFINE x == base + m
  <1>1. /\ Width \in Nat /\ MaxLength \in Nat /\ m \in Int /\ base \in Nat /\ base <= MaxLength
        /\ m + MaxLength < Width /\ MaxLength < m + Width
    BY VfsAssumption
  <1>2. x \in Int /\ x < Width /\ x + Width > MaxLength /\ Width > 0
    BY <1>1
  <1>3. CASE x >= 0
    <2>1. x % Width = x
      BY <1>2, <1>3, <1>1
    <2> QED
      BY <2>1, <1>2, <1>3
  <1>4. CASE x < 0
    <2>1. x + Width \in 0 .. (Width - 1)
      BY <1>1, <1>2, <1>4
    <2>2. x % Width = x + Width
      BY <1>1, <1>2, <1>4, <2>1
    <2> QED
      BY <2>1, <2>2, <1>2, <1>4
  <1> QED
    BY <1>2, <1>3, <1>4

-----------------------------------------------------------------------------
(* The walk along a path.                                                   *)

\* A directory gives a node that has an entry, or none.
LEMMA FindDirLive == \A dir, name : FindDir(dir, name) \in Live \cup {Null}
  <1> SUFFICES ASSUME NEW dir, NEW name PROVE FindDir(dir, name) \in Live \cup {Null}
    OBVIOUS
  <1> DEFINE found == {e \in tree : e.dir = dir /\ e.name = name}
  <1>1. CASE found = {}
    BY <1>1 DEF FindDir
  <1>2. CASE found # {}
    <2>1. (CHOOSE e \in found : TRUE) \in found
      BY <1>2
    <2>2. (CHOOSE e \in found : TRUE) \in tree
      BY <2>1
    <2>3. FindDir(dir, name) = (CHOOSE e \in found : TRUE).node
      BY <1>2 DEF FindDir
    <2> QED
      BY <2>2, <2>3 DEF Live
  <1> QED
    BY <1>1, <1>2

\* The recursive function of the walk exists, and so satisfies its equation.
LEMMA WalkEquation ==
  ASSUME NEW path, Len(path) \in Nat
  PROVE  \E g : /\ g = [k \in 0 .. Len(path) |->
                          IF k = 0 THEN [dir |-> vfs_root, name |-> << >>]
                          ELSE Advance(g[k - 1], path[k])]
                /\ Walk(path) = g[Len(path)]
  <1> DEFINE start == [dir |-> vfs_root, name |-> << >>]
             n == Len(path)
             IsWalk(g, m) == g = [k \in 0 .. m |-> IF k = 0 THEN start ELSE Advance(g[k - 1], path[k])]
             S == {m \in 0 .. n : \E g : IsWalk(g, m)}
  <1>1. 0 \in S
    <2>1. \E g : IsWalk(g, 0)
      <3> WITNESS [k \in 0 .. 0 |-> start]
      <3> QED
        OBVIOUS
    <2> HIDE DEF IsWalk
    <2> QED
      BY <2>1
  <1>2. ASSUME NEW m \in S, m < n PROVE m + 1 \in S
    <2>1. PICK g : IsWalk(g, m)
      OBVIOUS
    <2> DEFINE last == Advance(g[m], path[m + 1])
               h == [k \in 0 .. (m + 1) |-> IF k <= m THEN g[k] ELSE last]
    <2>2. \A k \in 0 .. (m + 1) : h[k] = IF k = 0 THEN start ELSE Advance(h[k - 1], path[k])
      <3> SUFFICES ASSUME NEW k \in 0 .. (m + 1)
                   PROVE  h[k] = IF k = 0 THEN start ELSE Advance(h[k - 1], path[k])
        OBVIOUS
      <3>1. m \in Nat
        OBVIOUS
      <3>2. CASE k = 0
        BY <2>1, <3>1, <3>2
      <3>3. CASE k > 0 /\ k <= m
        <4>1. k \in 0 .. m /\ k - 1 \in 0 .. m /\ k # m + 1 /\ k - 1 # m + 1
          BY <3>1, <3>3
        <4>2. h[k] = g[k] /\ h[k - 1] = g[k - 1]
          BY <4>1
        <4> QED
          BY <2>1, <3>3, <4>1, <4>2
      <3>4. CASE k = m + 1
        <4>1. h[k] = last /\ h[k - 1] = g[m] /\ k # 0
          BY <3>1, <3>4
        <4> QED
          BY <3>4, <4>1
      <3> QED
        BY <3>1, <3>2, <3>3, <3>4
    <2>3. \E f : IsWalk(f, m + 1)
      <3> WITNESS h
      <3> QED
        BY <2>2
    <2>4. m + 1 \in 0 .. n
      BY <1>2
    <2> HIDE DEF IsWalk
    <2> QED
      BY <2>3, <2>4
  <1>3. n \in S
    <2>1. \A m \in S : m < n => m + 1 \in S
      BY <1>2
    <2>2. S \in SUBSET (0 .. n) /\ n \in Nat
      OBVIOUS
    <2> HIDE DEF S, n
    <2> QED
      BY <1>1, <2>1, <2>2, Induct
  <1>4. \E g : IsWalk(g, n)
    BY <1>3
  <1>5. IsWalk(CHOOSE g : IsWalk(g, n), n)
    BY <1>4
  <1>6. Walk(path) = (CHOOSE g : IsWalk(g, n))[n]
    BY DEF Walk
  <1> QED
    BY <1>5, <1>6

\* A path leads to the root, to a node that has an entry, or to none.
LEMMA ResolveLive ==
  ASSUME vfs_root \in {Null, Root}, NEW path \in Seq(Letters \cup {Slash})
  PROVE  Resolve(path) \in Live \cup {Null}
  <1> DEFINE Good == Live \cup {Null}
  <1>1. ASSUME NEW p, Len(p) \in Nat PROVE Walk(p).dir \in Good
    <2> DEFINE n == Len(p)
    <2>1. PICK g : /\ g = [k \in 0 .. n |-> IF k = 0 THEN [dir |-> vfs_root, name |-> << >>]
                                            ELSE Advance(g[k - 1], p[k])]
                   /\ Walk(p) = g[n]
      BY <1>1, WalkEquation
    <2> DEFINE S == {k \in 0 .. n : g[k].dir \in Good}
    <2> HIDE DEF n
    <2>n. n \in Nat
      BY <1>1 DEF n
    <2>2. 0 \in S
      <3>1. g[0] = [dir |-> vfs_root, name |-> << >>]
        BY <2>1, <2>n
      <3> QED
        BY <2>n, <3>1 DEF Live
    <2>3. ASSUME NEW k \in S, k < n PROVE k + 1 \in S
      <3>1. k + 1 \in 0 .. n /\ k + 1 # 0 /\ (k + 1) - 1 = k
        BY <2>3, <2>n
      <3>2. g[k + 1] = Advance(g[k], p[k + 1])
        BY <2>1, <3>1
      <3>3. g[k].dir \in Good
        OBVIOUS
      <3>4. \A name : FindDir(g[k].dir, name) \in Good
        BY FindDirLive
      <3>5. Advance(g[k], p[k + 1]).dir \in Good
        BY <3>3, <3>4 DEF Advance
      <3> QED
        BY <3>1, <3>2, <3>5
    <2>4. n \in S
      <3>1. \A k \in S : k < n => k + 1 \in S
        BY <2>3
      <3>2. S \in SUBSET (0 .. n)
        OBVIOUS
      <3> HIDE DEF S
      <3> QED
        BY <2>n, <2>2, <3>1, <3>2, Induct
    <2> QED
      BY <2>1, <2>4 DEF n
  <1> DEFINE rest == IF path # << >> /\ path[1] = Slash THEN Tail(path) ELSE path
             walk == Walk(rest)
  <1>2. Len(rest) \in Nat
    OBVIOUS
  <1>3. walk.dir \in Good
    BY <1>1, <1>2
  <1>4. FindDir(walk.dir, walk.name) \in Good
    BY FindDirLive
  <1>5. Resolve(path) = IF walk.name = << >> THEN walk.dir ELSE FindDir(walk.dir, walk.name)
    BY DEF Resolve
  <1> QED
    BY <1>3, <1>4, <1>5

-----------------------------------------------------------------------------
(* Paths that are made of names.                                            *)

\* No directory has two entries of one name.
EntriesUnique == \A e, f \in tree : e.dir = f.dir /\ e.name = f.name => e = f

Chars == Letters \cup {Slash}

\* A function on 0 .. n given by its first value and its steps exists.
Steps(n, V) == [1 .. n -> [V -> V]]
Follows(g, n, V, v, step) ==
    /\ g \in [0 .. n -> V]
    /\ g[0] = v /\ \A k \in 1 .. n : g[k] = step[k][g[k - 1]]

LEMMA StepsExist ==
  ASSUME NEW n \in Nat, NEW V, NEW v \in V, NEW step \in Steps(n, V)
  PROVE  \E g : Follows(g, n, V, v, step)
  <1> DEFINE Upto(g, m) == g[0] = v /\ \A k \in 1 .. m : g[k] = step[k][g[k - 1]]
             S == {m \in 0 .. n : \E g \in [0 .. m -> V] : Upto(g, m)}
  <1>1. 0 \in S
    <2> DEFINE g == [k \in 0 .. 0 |-> v]
    <2>1. g \in [0 .. 0 -> V] /\ Upto(g, 0)
      OBVIOUS
    <2> HIDE DEF g, Upto
    <2>2. \E f \in [0 .. 0 -> V] : Upto(f, 0)
      BY <2>1
    <2> QED
      BY <2>2
  <1>2. ASSUME NEW m \in S, m < n PROVE m + 1 \in S
    <2>1. m \in Nat /\ m + 1 \in 0 .. n /\ m + 1 \in 1 .. n
      BY <1>2
    <2>s. step \in [1 .. n -> [V -> V]]
      BY DEF Steps
    <2>2. PICK g \in [0 .. m -> V] : Upto(g, m)
      OBVIOUS
    <2> DEFINE last == step[m + 1][g[m]]
               h == [k \in 0 .. (m + 1) |-> IF k <= m THEN g[k] ELSE last]
    <2>3. last \in V
      BY <2>1, <2>s
    <2>4. h \in [0 .. (m + 1) -> V]
      BY <2>1, <2>3
    <2>5. \A k \in 0 .. m : h[k] = g[k]
      BY <2>1
    <2>6. h[m + 1] = last
      BY <2>1
    <2> HIDE DEF h
    <2>7. h[0] = v
      BY <2>1, <2>2, <2>5
    <2>8. ASSUME NEW k \in 1 .. (m + 1) PROVE h[k] = step[k][h[k - 1]]
      <3>1. CASE k \in 1 .. m
        <4>1. k \in 0 .. m /\ k - 1 \in 0 .. m
          BY <3>1, <2>1
        <4> QED
          BY <3>1, <4>1, <2>2, <2>5
      <3>2. CASE k = m + 1
        <4>1. k - 1 = m /\ m \in 0 .. m
          BY <3>2, <2>1
        <4> QED
          BY <3>2, <4>1, <2>5, <2>6
      <3> QED
        BY <3>1, <3>2, <2>1
    <2>9. Upto(h, m + 1)
      BY <2>7, <2>8
    <2> HIDE DEF Upto
    <2>10. \E f \in [0 .. (m + 1) -> V] : Upto(f, m + 1)
      BY <2>4, <2>9
    <2> QED
      BY <2>1, <2>10
  <1>3. n \in S
    <2>1. \A m \in S : m < n => m + 1 \in S
      BY <1>2
    <2>2. S \in SUBSET (0 .. n)
      OBVIOUS
    <2> HIDE DEF S
    <2> QED
      BY <1>1, <2>1, <2>2, Induct
  <1>4. PICK g \in [0 .. n -> V] : Upto(g, n)
    BY <1>3
  <1>5. Follows(g, n, V, v, step)
    BY <1>4 DEF Follows
  <1> QED
    BY <1>5

\* What is assumed of a sequence of names.
LEMMA NamesAre ==
  ASSUME NEW names \in NameLists
  PROVE  /\ Len(names) \in Nat /\ Len(names) >= 1 /\ DOMAIN names = 1 .. Len(names)
         /\ \A k \in 1 .. Len(names) :
               /\ names[k] \in Seq(Letters) /\ names[k] \in Seq(Chars)
               /\ names[k] # << >> /\ Len(names[k]) < MaxFilename
  <1>1. names \in Seq(Seq(Letters)) /\ names # << >>
    BY VfsAssumption
  <1>2. Len(names) \in Nat /\ Len(names) >= 1 /\ DOMAIN names = 1 .. Len(names)
    <2> DEFINE Name == Seq(Letters)
    <2>1. names \in Seq(Name)
      BY <1>1
    <2> HIDE DEF Name
    <2> QED
      BY <1>1, <2>1
  <1>3. ASSUME NEW k \in 1 .. Len(names)
        PROVE  names[k] \in Seq(Letters) /\ names[k] # << >> /\ Len(names[k]) < MaxFilename
    <2>1. names[k] \in Seq(Letters)
      <3> DEFINE Name == Seq(Letters)
      <3>1. names \in Seq(Name)
        BY <1>1
      <3> HIDE DEF Name
      <3>2. names[k] \in Name
        BY <1>2, <3>1
      <3> QED
        BY <3>2 DEF Name
    <2>2. names[k] # << >> /\ Len(names[k]) < MaxFilename
      BY <1>2, VfsAssumption
    <2> QED
      BY <2>1, <2>2
  <1>4. \A name \in Seq(Letters) : name \in Seq(Chars)
    BY DEF Chars
  <1> QED
    BY <1>2, <1>3, <1>4

\* The path of one name more.
LEMMA AbsoluteIs ==
  ASSUME NEW names \in NameLists
  PROVE  /\ Absolute(names, 0) = << >>
         /\ \A k \in 0 .. Len(names) : Absolute(names, k) \in Seq(Chars)
         /\ \A k \in 1 .. Len(names) :
               Absolute(names, k) = Joined(Absolute(names, k - 1), names[k])
  <1> DEFINE n == Len(names)
             V == Seq(Chars)
             step == [k \in 1 .. n |-> [path \in V |-> Joined(path, names[k])]]
             IsUpto(g) == g = [j \in 0 .. n |-> IF j = 0 THEN << >> ELSE Joined(g[j - 1], names[j])]
  <1>1. n \in Nat /\ << >> \in V /\ \A k \in 1 .. n : names[k] \in V
    BY NamesAre
  <1>2. step \in Steps(n, V)
    <2>1. ASSUME NEW k \in 1 .. n, NEW path \in V PROVE Joined(path, names[k]) \in V
      BY <1>1 DEF Chars, Joined
    <2> HIDE DEF V
    <2> QED
      BY <2>1 DEF Steps
  <1>3. PICK g \in [0 .. n -> V] : g[0] = << >> /\ \A k \in 1 .. n : g[k] = step[k][g[k - 1]]
    <2> DEFINE empty == << >>
    <2>1. empty \in V
      BY <1>1
    <2> HIDE DEF step, n, V, empty
    <2>2. \E g : Follows(g, n, V, empty, step)
      BY <1>1, <1>2, <2>1, StepsExist
    <2> QED
      BY <2>2 DEF empty, Follows
  <1>4. \A k \in 1 .. n : g[k] = Joined(g[k - 1], names[k])
    <2> SUFFICES ASSUME NEW k \in 1 .. n PROVE g[k] = Joined(g[k - 1], names[k])
      OBVIOUS
    <2>1. k - 1 \in 0 .. n
      BY <1>1
    <2> HIDE DEF V, n
    <2>2. g[k - 1] \in V
      BY <2>1
    <2> QED
      BY <1>3, <2>2
  <1> HIDE DEF V, step
  <1>5. IsUpto(g)
    <2>1. \A j \in 0 .. n : g[j] = IF j = 0 THEN << >> ELSE Joined(g[j - 1], names[j])
      BY <1>1, <1>3, <1>4
    <2>2. DOMAIN g = 0 .. n /\ g = [j \in 0 .. n |-> g[j]]
      OBVIOUS
    <2> QED
      BY <2>1, <2>2
  <1> DEFINE f == CHOOSE h : IsUpto(h)
  <1>6. IsUpto(f)
    BY <1>5
  <1>7. \A k : Absolute(names, k) = f[k]
    BY DEF Absolute
  <1>8. f[0] = << >> /\ \A k \in 1 .. n : f[k] = Joined(f[k - 1], names[k])
    <2> HIDE DEF f
    <2> QED
      BY <1>1, <1>6
  <1>9. \A k \in 0 .. n : f[k] \in V
    <2> DEFINE S == {k \in 0 .. n : f[k] \in V}
    <2> SUFFICES ASSUME NEW m \in 0 .. n PROVE f[m] = g[m]
      OBVIOUS
    <2> DEFINE T == {k \in 0 .. m : f[k] = g[k]}
    <2>1. 0 \in T
      BY <1>3, <1>8
    <2>2. ASSUME NEW k \in T, k < m PROVE k + 1 \in T
      <3>1. k + 1 \in 1 .. n /\ (k + 1) - 1 = k /\ k + 1 \in 0 .. m
        BY <1>1, <2>2
      <3> QED
        BY <1>4, <1>8, <3>1
    <2>3. m \in Nat /\ T \in SUBSET (0 .. m) /\ \A k \in T : k < m => k + 1 \in T
      BY <1>1, <2>2
    <2> HIDE DEF T, f
    <2>4. m \in T
      BY <2>1, <2>3, Induct
    <2> QED
      BY <2>4 DEF T
  <1> HIDE DEF f
  <1> QED
    BY <1>1, <1>7, <1>8, <1>9 DEF V

\* The nodes of one name more.
Entered(nodes, name) == {e.node : e \in {f \in tree : f.dir \in nodes /\ f.name = name}}

LEMMA LeadsIs ==
  ASSUME TypeOK, NEW names \in NameLists
  PROVE  /\ Leads(names, 0) = {vfs_root} \ {Null}
         /\ \A k \in 1 .. Len(names) : Leads(names, k) = Entered(Leads(names, k - 1), names[k])
  <1> DEFINE n == Len(names)
             V == SUBSET Nodes
             start == {vfs_root} \ {Null}
             step == [k \in 1 .. n |-> [nodes \in V |-> Entered(nodes, names[k])]]
             IsAt(g) == g = [j \in 0 .. n |-> IF j = 0 THEN start ELSE Entered(g[j - 1], names[j])]
  <1>1. n \in Nat
    BY NamesAre
  <1>2. start \in V
    BY VfsAssumption DEF TypeOK
  <1>3. step \in Steps(n, V)
    <2>1. \A nodes, name : Entered(nodes, name) \in V
      BY DEF TypeOK, Entered
    <2> HIDE DEF V
    <2> QED
      BY <2>1 DEF Steps
  <1> HIDE DEF start, V
  <1>4. PICK g : Follows(g, n, V, start, step)
    <2> HIDE DEF step, n
    <2> QED
      BY <1>1, <1>2, <1>3, StepsExist
  <1>5. g \in [0 .. n -> V] /\ g[0] = start /\ \A k \in 1 .. n : g[k] = Entered(g[k - 1], names[k])
    <2>1. g \in [0 .. n -> V] /\ g[0] = start /\ \A k \in 1 .. n : g[k] = step[k][g[k - 1]]
      BY <1>4 DEF Follows
    <2>2. ASSUME NEW k \in 1 .. n PROVE g[k] = Entered(g[k - 1], names[k])
      <3>1. k - 1 \in 0 .. n
        BY <1>1
      <3>2. g[k - 1] \in V
        BY <2>1, <3>1
      <3> QED
        BY <2>1, <3>2
    <2> QED
      BY <2>1, <2>2
  <1> HIDE DEF step
  <1>6. IsAt(g)
    <2>1. \A j \in 0 .. n : g[j] = IF j = 0 THEN start ELSE Entered(g[j - 1], names[j])
      BY <1>1, <1>5
    <2>2. DOMAIN g = 0 .. n /\ g = [j \in 0 .. n |-> g[j]]
      BY <1>5
    <2> QED
      BY <2>1, <2>2
  <1> DEFINE f == CHOOSE h : IsAt(h)
  <1>7. IsAt(f)
    BY <1>6
  <1>8. \A k : Leads(names, k) = f[k]
    BY DEF Leads, Entered, start
  <1>9. f[0] = start /\ \A k \in 1 .. n : f[k] = Entered(f[k - 1], names[k])
    <2> HIDE DEF f
    <2> QED
      BY <1>1, <1>7
  <1> HIDE DEF f
  <1> QED
    BY <1>8, <1>9 DEF start

\* finddir finds nothing only where there is no entry.
LEMMA FindDirNull ==
  ASSUME TypeOK, NEW dir, NEW name, FindDir(dir, name) = Null
  PROVE  ~\E e \in tree : e.dir = dir /\ e.name = name
  <1> DEFINE found == {e \in tree : e.dir = dir /\ e.name = name}
  <1> SUFFICES ASSUME found # {} PROVE FALSE
    OBVIOUS
  <1> DEFINE e == CHOOSE x \in found : TRUE
  <1>1. e \in found
    OBVIOUS
  <1>2. FindDir(dir, name) = e.node
    BY DEF FindDir
  <1> HIDE DEF e
  <1>3. e.node # Null
    BY <1>1, VfsAssumption DEF TypeOK
  <1> QED
    BY <1>2, <1>3

\* One step from one node: what finddir finds, if anything.
LEMMA EnteredIs ==
  ASSUME TypeOK, EntriesUnique, NEW dir, NEW name
  PROVE  Entered({dir} \ {Null}, name) = {FindDir(dir, name)} \ {Null}
  <1> DEFINE found == {e \in tree : e.dir = dir /\ e.name = name}
  <1>1. \A e \in tree : e.dir \in Nodes /\ e.node \in Nodes /\ e.dir # Null /\ e.node # Null
    BY VfsAssumption DEF TypeOK
  <1>2. Entered({dir} \ {Null}, name) = {e.node : e \in found}
    BY <1>1 DEF Entered
  <1>3. CASE found = {}
    BY <1>2, <1>3 DEF FindDir
  <1>4. CASE found # {}
    <2> DEFINE e == CHOOSE x \in found : TRUE
    <2>1. e \in found
      BY <1>4
    <2>2. FindDir(dir, name) = e.node
      BY <1>4 DEF FindDir
    <2>3. \A x \in found : x = e
      BY <2>1 DEF EntriesUnique
    <2> HIDE DEF e
    <2>4. {x.node : x \in found} = {e.node}
      BY <2>1, <2>3
    <2> QED
      BY <1>1, <1>2, <2>1, <2>2, <2>4
  <1> QED
    BY <1>3, <1>4

\* One character more.
LEMMA WalkAppend ==
  /\ Walk(<< >>) = [dir |-> vfs_root, name |-> << >>]
  /\ \A p \in Seq(Chars), c \in Chars : Walk(Append(p, c)) = Advance(Walk(p), c)
  <1> DEFINE start == [dir |-> vfs_root, name |-> << >>]
             IsWalk(g, p) == g = [k \in 0 .. Len(p) |-> IF k = 0 THEN start ELSE Advance(g[k - 1], p[k])]
  <1>1. Walk(<< >>) = start
    <2>1. Len(<< >>) = 0
      OBVIOUS
    <2>2. PICK g : IsWalk(g, << >>) /\ Walk(<< >>) = g[0]
      BY <2>1, WalkEquation
    <2> HIDE DEF start
    <2> QED
      BY <2>1, <2>2
  <1>2. ASSUME NEW p \in Seq(Chars), NEW c \in Chars PROVE Walk(Append(p, c)) = Advance(Walk(p), c)
    <2> DEFINE q == Append(p, c)
               n == Len(p)
    <2>1. n \in Nat /\ Len(q) = n + 1 /\ q[n + 1] = c /\ \A k \in 1 .. n : q[k] = p[k]
      OBVIOUS
    <2>2. PICK g : IsWalk(g, p) /\ Walk(p) = g[n]
      BY <2>1, WalkEquation
    <2>3. PICK h : IsWalk(h, q) /\ Walk(q) = h[n + 1]
      <3>1. Len(q) \in Nat
        BY <2>1
      <3>2. \E h : IsWalk(h, q) /\ Walk(q) = h[Len(q)]
        <4> HIDE DEF q
        <4> QED
          BY <3>1, WalkEquation
      <3> QED
        BY <2>1, <3>2
    <2> HIDE DEF start, q
    <2> DEFINE S == {k \in 0 .. n : g[k] = h[k]}
    <2>4. 0 \in S
      BY <2>1, <2>2, <2>3
    <2>5. ASSUME NEW k \in S, k < n PROVE k + 1 \in S
      <3>1. k + 1 \in 0 .. n /\ k + 1 \in 0 .. Len(q) /\ k + 1 # 0 /\ (k + 1) - 1 = k /\ k + 1 \in 1 .. n
        BY <2>1, <2>5
      <3>2. g[k + 1] = Advance(g[k], p[k + 1]) /\ h[k + 1] = Advance(h[k], q[k + 1])
        BY <2>2, <2>3, <3>1
      <3> QED
        BY <2>1, <3>1, <3>2
    <2>6. n \in S
      <3>1. S \in SUBSET (0 .. n) /\ \A k \in S : k < n => k + 1 \in S
        BY <2>5
      <3> HIDE DEF S, n
      <3> QED
        BY <2>1, <2>4, <3>1, Induct
    <2>7. h[n + 1] = Advance(h[n], c)
      <3>1. n + 1 \in 0 .. Len(q) /\ n + 1 # 0 /\ (n + 1) - 1 = n
        BY <2>1
      <3>2. h[n + 1] = Advance(h[n], q[n + 1])
        BY <2>3, <3>1
      <3> QED
        BY <2>1, <3>2
    <2> QED
      BY <2>2, <2>3, <2>6, <2>7 DEF q
  <1> QED
    BY <1>1, <1>2

\* The letters of a name that fits gather in the component.
LEMMA WalkName ==
  ASSUME NEW p \in Seq(Chars), NEW dir, Walk(p) = [dir |-> dir, name |-> << >>],
         NEW name \in Seq(Letters), Len(name) < MaxFilename
  PROVE  Walk(p \o name) = [dir |-> dir, name |-> name]
  <1> DEFINE n == Len(name)
             part(k) == SubSeq(name, 1, k)
             S == {k \in 0 .. n : Walk(p \o part(k)) = [dir |-> dir, name |-> part(k)]}
  <1>1. n \in Nat /\ MaxFilename \in Nat
    BY VfsAssumption
  <1>2. 0 \in S
    <2>1. part(0) = << >>
      BY SubSeqEmpty
    <2>2. p \o << >> = p
      BY ConcatEmptySeq
    <2>3. 0 \in 0 .. n
      BY <1>1
    <2> HIDE DEF n
    <2>4. Walk(p \o part(0)) = [dir |-> dir, name |-> part(0)]
      BY <2>1, <2>2
    <2> HIDE DEF part
    <2> QED
      BY <2>3, <2>4
  <1>3. ASSUME NEW k \in S, k < n PROVE k + 1 \in S
    <2>1. k \in Nat /\ k + 1 \in 1 .. n
      BY <1>1, <1>3
    <2>2. /\ part(k) \in Seq(Letters) /\ Len(part(k)) = k
          /\ name[k + 1] \in Letters /\ part(k + 1) = Append(part(k), name[k + 1])
      BY <2>1
    <2>3. Walk(p \o part(k)) = [dir |-> dir, name |-> part(k)]
      OBVIOUS
    <2> DEFINE c == name[k + 1]
               old == part(k)
    <2>4. p \o old \in Seq(Chars) /\ c \in Chars /\ p \o Append(old, c) = Append(p \o old, c)
      BY <2>2 DEF Chars
    <2>5. c # Slash /\ ~Full(old)
      BY <1>1, <2>1, <2>2, VfsAssumption DEF Full
    <2> HIDE DEF c, old
    <2>6. Walk(Append(p \o old, c)) = Advance(Walk(p \o old), c)
      BY <2>4, WalkAppend
    <2>7. Advance([dir |-> dir, name |-> old], c) = [dir |-> dir, name |-> Append(old, c)]
      BY <2>5 DEF Advance
    <2>8. Walk(p \o part(k + 1)) = [dir |-> dir, name |-> part(k + 1)]
      <3>1. part(k) = old /\ part(k + 1) = Append(old, c)
        BY <2>2 DEF old, c
      <3> HIDE DEF part
      <3> QED
        BY <2>3, <2>4, <2>6, <2>7, <3>1
    <2> QED
      BY <2>1, <2>8
  <1>4. n \in S
    <2>1. S \in SUBSET (0 .. n) /\ \A k \in S : k < n => k + 1 \in S
      BY <1>3
    <2> HIDE DEF S, n
    <2> QED
      BY <1>1, <1>2, <2>1, Induct
  <1>5. part(n) = name
    OBVIOUS
  <1> QED
    BY <1>4, <1>5

\* A path, a slash and a name.
LEMMA JoinedIs ==
  ASSUME NEW path \in Seq(Chars), NEW name \in Seq(Chars)
  PROVE  /\ Joined(path, name) = Append(path, Slash) \o name
         /\ Joined(path, name) \in Seq(Chars)
         /\ Len(path) \in Nat /\ Len(name) \in Nat
         /\ Len(Joined(path, name)) = Len(path) + 1 + Len(name)
         /\ \A i \in 1 .. Len(path) : Joined(path, name)[i] = path[i]
         /\ Joined(path, name)[Len(path) + 1] = Slash
         /\ \A i \in (Len(path) + 2) .. (Len(path) + 1 + Len(name)) :
               Joined(path, name)[i] = name[i - (Len(path) + 1)]
  <1> DEFINE u == Append(path, Slash)
             v == u \o name
  <1>1. Slash \in Chars
    BY DEF Chars
  <1>2. Joined(path, name) = v
    BY <1>1, AppendIsConcat DEF Joined
  <1>3. Len(path) \in Nat /\ Len(name) \in Nat
    BY LenProperties
  <1>4. /\ u \in Seq(Chars) /\ Len(u) = Len(path) + 1 /\ u[Len(path) + 1] = Slash
        /\ \A i \in 1 .. Len(path) : u[i] = path[i]
    BY <1>1, AppendProperties
  <1> HIDE DEF u
  <1>5. /\ v \in Seq(Chars) /\ Len(v) = Len(u) + Len(name)
        /\ \A i \in 1 .. Len(u) + Len(name) : v[i] = IF i <= Len(u) THEN u[i] ELSE name[i - Len(u)]
    BY <1>4, ConcatProperties
  <1> HIDE DEF v
  <1>6. ASSUME NEW i \in 1 .. Len(path) PROVE v[i] = path[i]
    <2>1. i \in 1 .. Len(u) + Len(name) /\ i <= Len(u)
      BY <1>3, <1>4
    <2> QED
      BY <1>4, <1>5, <2>1
  <1>7. v[Len(path) + 1] = Slash
    <2>1. Len(path) + 1 \in 1 .. Len(u) + Len(name) /\ Len(path) + 1 <= Len(u)
      BY <1>3, <1>4
    <2> QED
      BY <1>4, <1>5, <2>1
  <1>8. ASSUME NEW i \in (Len(path) + 2) .. (Len(path) + 1 + Len(name))
        PROVE  v[i] = name[i - (Len(path) + 1)]
    <2>1. i \in 1 .. Len(u) + Len(name) /\ ~(i <= Len(u))
      BY <1>3, <1>4
    <2> QED
      BY <1>4, <1>5, <2>1
  <1>9. Len(v) = Len(path) + 1 + Len(name)
    BY <1>3, <1>4, <1>5
  <1>10. v = Append(path, Slash) \o name
    BY DEF u, v
  <1> QED
    BY <1>2, <1>3, <1>5, <1>6, <1>7, <1>8, <1>9, <1>10

\* Without its first character, if it has one.
LEMMA TailOfJoined ==
  ASSUME NEW path \in Seq(Chars), path # << >>, NEW name \in Seq(Chars)
  PROVE  /\ Tail(path) \in Seq(Chars) /\ Tail(Joined(path, name)) = Joined(Tail(path), name)
         /\ Len(path) >= 2 => Joined(Tail(path), name)[1] = Tail(path)[1]
         /\ Joined(path, name)[1] = path[1]
  <1> DEFINE t == Tail(path)
             u == Joined(path, name)
             v == Joined(t, name)
             w == Tail(u)
  <1>1. /\ t \in Seq(Chars) /\ Len(t) = Len(path) - 1
        /\ \A i \in 1 .. Len(t) : t[i] = path[i + 1]
    BY HeadTailProperties
  <1>2. /\ u \in Seq(Chars) /\ Len(path) \in Nat /\ Len(name) \in Nat
        /\ Len(u) = Len(path) + 1 + Len(name)
        /\ \A i \in 1 .. Len(path) : u[i] = path[i]
        /\ u[Len(path) + 1] = Slash
        /\ \A i \in (Len(path) + 2) .. (Len(path) + 1 + Len(name)) : u[i] = name[i - (Len(path) + 1)]
    BY JoinedIs
  <1> HIDE DEF t
  <1>3. /\ v \in Seq(Chars) /\ Len(v) = Len(t) + 1 + Len(name)
        /\ \A i \in 1 .. Len(t) : v[i] = t[i]
        /\ v[Len(t) + 1] = Slash
        /\ \A i \in (Len(t) + 2) .. (Len(t) + 1 + Len(name)) : v[i] = name[i - (Len(t) + 1)]
    BY <1>1, JoinedIs
  <1> HIDE DEF u, v
  <1>4. u # << >>
    <2>1. Len(u) # 0
      BY <1>2
    <2> QED
      BY <2>1
  <1>5. w \in Seq(Chars) /\ Len(w) = Len(u) - 1 /\ \A i \in 1 .. Len(w) : w[i] = u[i + 1]
    BY <1>2, <1>4, HeadTailProperties
  <1> HIDE DEF w
  <1>6. Len(w) = Len(v) /\ Len(path) >= 1
    <2>1. Len(path) # 0
      BY EmptySeq
    <2> QED
      BY <1>1, <1>2, <1>3, <1>5, <2>1
  <1>7. ASSUME NEW i \in 1 .. Len(w) PROVE w[i] = v[i]
    <2>1. i \in Int /\ w[i] = u[i + 1]
      BY <1>5
    <2>2. CASE i <= Len(t)
      <3>1. i \in 1 .. Len(t) /\ i + 1 \in 1 .. Len(path)
        BY <1>1, <1>2, <2>1, <2>2
      <3> QED
        BY <1>1, <1>2, <1>3, <2>1, <3>1
    <2>3. CASE i = Len(t) + 1
      <3>1. i + 1 = Len(path) + 1
        BY <1>1, <1>2, <2>3
      <3> QED
        BY <1>2, <1>3, <2>1, <2>3, <3>1
    <2>4. CASE i > Len(t) + 1
      <3>1. /\ i \in (Len(t) + 2) .. (Len(t) + 1 + Len(name))
            /\ i + 1 \in (Len(path) + 2) .. (Len(path) + 1 + Len(name))
            /\ (i + 1) - (Len(path) + 1) = i - (Len(t) + 1)
        BY <1>1, <1>2, <1>3, <1>6, <2>1, <2>4
      <3>2. u[i + 1] = name[(i + 1) - (Len(path) + 1)] /\ v[i] = name[i - (Len(t) + 1)]
        BY <1>2, <1>3, <3>1
      <3> QED
        BY <2>1, <3>1, <3>2
    <2>5. i <= Len(t) \/ i = Len(t) + 1 \/ i > Len(t) + 1
      BY <1>1, <1>2, <2>1
    <2> QED
      BY <2>2, <2>3, <2>4, <2>5
  <1>8. w = v
    BY <1>3, <1>5, <1>6, <1>7, SeqEqual
  <1>9. u[1] = path[1]
    BY <1>2, <1>6
  <1>10. Len(path) >= 2 => v[1] = t[1]
    BY <1>1, <1>2, <1>3
  <1> QED
    BY <1>1, <1>8, <1>9, <1>10 DEF t, u, v, w

\* A path of names, without its first slash, leads into the directory of the
\* names before the last, with the last in the component.
LEMMA WalkNamed ==
  ASSUME TypeOK, EntriesUnique, NEW names \in NameLists, NEW k \in 1 .. Len(names)
  PROVE  /\ Absolute(names, k) \in Seq(Chars) /\ Len(Absolute(names, k)) >= 2
         /\ Absolute(names, k)[1] = Slash /\ Tail(Absolute(names, k))[1] # Slash
         /\ Tail(Absolute(names, k)) \in Seq(Chars) /\ Tail(Absolute(names, k)) # << >>
         /\ \E dir : /\ Walk(Tail(Absolute(names, k))) = [dir |-> dir, name |-> names[k]]
                     /\ Leads(names, k - 1) = {dir} \ {Null}
  <1> DEFINE n == Len(names)
             path(j) == Absolute(names, j)
             Good(j) == /\ path(j) \in Seq(Chars) /\ Len(path(j)) >= 2
                        /\ path(j)[1] = Slash /\ Tail(path(j))[1] # Slash
                        /\ \E dir : /\ Walk(Tail(path(j))) = [dir |-> dir, name |-> names[j]]
                                    /\ Leads(names, j - 1) = {dir} \ {Null}
             S == {j \in 0 .. n : j = 0 \/ Good(j)}
  <1>1. n \in Nat /\ \A j \in 1 .. n : /\ names[j] \in Seq(Letters) /\ names[j] \in Seq(Chars)
                                       /\ names[j] # << >> /\ Len(names[j]) < MaxFilename
    BY NamesAre
  <1>2. /\ path(0) = << >> /\ \A j \in 0 .. n : path(j) \in Seq(Chars)
        /\ \A j \in 1 .. n : path(j) = Joined(path(j - 1), names[j])
    BY AbsoluteIs
  <1>3. /\ Leads(names, 0) = {vfs_root} \ {Null}
        /\ \A j \in 1 .. n : Leads(names, j) = Entered(Leads(names, j - 1), names[j])
    BY LeadsIs
  <1> HIDE DEF n, path
  <1>4. ASSUME 1 \in 1 .. n PROVE Good(1)
    <2> DEFINE name == names[1]
    <2>1. name \in Seq(Letters) /\ name \in Seq(Chars) /\ name # << >> /\ Len(name) < MaxFilename
      BY <1>1, <1>4
    <2>2. path(1) = <<Slash>> \o name
      <3>1. path(1) = path(0) \o <<Slash>> \o name
        <4>1. 1 - 1 = 0
          OBVIOUS
        <4> QED
          BY <1>2, <1>4, <4>1 DEF Joined
      <3>2. << >> \o <<Slash>> \o name = <<Slash>> \o name
        BY <2>1
      <3> QED
        BY <1>2, <3>1, <3>2
    <2>3. path(1) \in Seq(Chars)
      <3>1. 1 \in 0 .. n
        BY <1>1, <1>4
      <3> QED
        BY <1>2, <3>1
    <2> HIDE DEF name
    <2>4. /\ Tail(path(1)) = name /\ path(1)[1] = Slash /\ Len(path(1)) >= 2
          /\ name[1] \in Letters
      BY <2>1, <2>2
    <2>5. Walk(<< >> \o name) = [dir |-> vfs_root, name |-> name]
      <3>1. Walk(<< >>) = [dir |-> vfs_root, name |-> << >>] /\ << >> \in Seq(Chars)
        BY WalkAppend
      <3> QED
        BY <2>1, <3>1, WalkName
    <2>6. << >> \o name = name
      BY <2>1
    <2>7. name[1] # Slash
      BY <2>4, VfsAssumption
    <2>8. 1 - 1 = 0
      OBVIOUS
    <2>9. Tail(path(1))[1] # Slash /\ Walk(Tail(path(1))) = [dir |-> vfs_root, name |-> name]
      BY <2>4, <2>5, <2>6, <2>7
    <2> QED
      BY <1>3, <2>3, <2>4, <2>8, <2>9 DEF name
  <1>5. ASSUME NEW j \in 1 .. n, j + 1 \in 1 .. n, Good(j) PROVE Good(j + 1)
    <2> DEFINE old == path(j)
               name == names[j + 1]
               rest == Tail(old)
    <2>1. name \in Seq(Letters) /\ name \in Seq(Chars) /\ name # << >> /\ Len(name) < MaxFilename
      BY <1>1, <1>5
    <2>2. old \in Seq(Chars) /\ Len(old) >= 2 /\ old[1] = Slash /\ rest[1] # Slash /\ names[j] # << >>
      BY <1>1, <1>5
    <2>3. path(j + 1) = Joined(old, name) /\ path(j + 1) \in Seq(Chars)
      <3>1. (j + 1) - 1 = j /\ j + 1 \in 0 .. n
        BY <1>1, <1>5
      <3> QED
        BY <1>2, <1>5, <3>1
    <2>4. PICK dir : /\ Walk(rest) = [dir |-> dir, name |-> names[j]]
                     /\ Leads(names, j - 1) = {dir} \ {Null}
      BY <1>5
    <2> HIDE DEF old, name
    <2>5. /\ rest \in Seq(Chars) /\ Slash \in Chars
          /\ Tail(path(j + 1)) = Append(rest, Slash) \o name
          /\ path(j + 1)[1] = Slash /\ Len(path(j + 1)) >= 2 /\ Tail(path(j + 1))[1] = rest[1]
      <3>1. Slash \in Chars /\ old # << >>
        BY <2>2 DEF Chars
      <3>2. /\ rest \in Seq(Chars) /\ Tail(Joined(old, name)) = Joined(rest, name)
            /\ Joined(rest, name)[1] = rest[1] /\ Joined(old, name)[1] = old[1]
        BY <2>1, <2>2, <3>1, TailOfJoined
      <3> HIDE DEF rest
      <3>3. Joined(rest, name) = Append(rest, Slash) \o name
        BY <2>1, <3>2, JoinedIs
      <3>4. Len(Joined(old, name)) >= 2
        <4>1. Len(old) \in Nat /\ Len(name) \in Nat /\ Len(Joined(old, name)) = Len(old) + 1 + Len(name)
          BY <2>1, <2>2, JoinedIs
        <4> QED
          BY <2>2, <4>1
      <3> QED
        BY <2>2, <2>3, <3>1, <3>2, <3>3, <3>4
    <2> HIDE DEF rest
    <2> DEFINE next == FindDir(dir, names[j])
    <2>6. Walk(Append(rest, Slash)) = [dir |-> next, name |-> << >>]
      <3>1. Walk(Append(rest, Slash)) = Advance([dir |-> dir, name |-> names[j]], Slash)
        BY <2>4, <2>5, WalkAppend
      <3> QED
        BY <3>1 DEF Advance
    <2> HIDE DEF next
    <2>7. Append(rest, Slash) \in Seq(Chars)
      BY <2>5
    <2>8. Walk(Tail(path(j + 1))) = [dir |-> next, name |-> name]
      <3> DEFINE front == Append(rest, Slash)
      <3> HIDE DEF front
      <3>1. Walk(front \o name) = [dir |-> next, name |-> name]
        BY <2>1, <2>6, <2>7, WalkName DEF front
      <3> QED
        BY <2>5, <3>1 DEF front
    <2>9. Leads(names, j) = {next} \ {Null}
      BY <1>3, <2>4, EnteredIs DEF next
    <2>10. (j + 1) - 1 = j
      BY <1>1
    <2> QED
      BY <2>2, <2>3, <2>5, <2>8, <2>9, <2>10 DEF name
  <1>6. k \in S
    <2> DEFINE T == {j \in 0 .. k : j = 0 \/ Good(j)}
    <2>1. k \in Nat /\ k \in 1 .. n
      BY <1>1 DEF n
    <2> HIDE DEF Good
    <2>2. ASSUME NEW j \in T, j < k PROVE j + 1 \in T
      <3>1. j \in 0 .. k /\ j + 1 \in 0 .. k /\ j + 1 \in 1 .. n
        BY <2>1, <2>2, <1>1
      <3>2. CASE j = 0
        BY <1>4, <3>1, <3>2
      <3>3. CASE j # 0
        <4>1. j \in 1 .. n /\ Good(j)
          BY <3>1, <3>3, <1>1
        <4> QED
          BY <1>5, <3>1, <4>1
      <3> QED
        BY <3>2, <3>3
    <2>3. T \in SUBSET (0 .. k) /\ 0 \in T /\ \A j \in T : j < k => j + 1 \in T
      BY <2>1, <2>2
    <2>4. k \in T
      <3> HIDE DEF T
      <3> QED
        BY <2>1, <2>3, Induct
    <2> QED
      BY <2>1, <2>4, <1>1
  <1>7. Good(k)
    <2>1. k # 0
      OBVIOUS
    <2> HIDE DEF Good
    <2> QED
      BY <1>6, <2>1
  <1>8. Tail(path(k)) \in Seq(Chars) /\ Tail(path(k)) # << >>
    <2> DEFINE whole == path(k)
    <2>1. whole \in Seq(Chars) /\ Len(whole) >= 2
      BY <1>7
    <2> HIDE DEF whole
    <2>2. whole # << >>
      BY <2>1
    <2>3. Tail(whole) \in Seq(Chars) /\ Len(Tail(whole)) = Len(whole) - 1
      BY <2>1, <2>2, HeadTailProperties
    <2>4. Len(Tail(whole)) # 0
      BY <2>1, <2>3
    <2>5. Tail(whole) # << >>
      BY <2>4, EmptySeq
    <2> QED
      BY <2>3, <2>5 DEF whole
  <1> QED
    BY <1>7, <1>8 DEF path

\* Every spelling of a sequence of names resolves to the node they lead to.
LEMMA NamedResolves ==
  ASSUME TypeOK, EntriesUnique, NEW names \in NameLists, NEW k \in 1 .. Len(names),
         NEW path \in {Absolute(names, k), Tail(Absolute(names, k))}
  PROVE  /\ Leads(names, k) = {Resolve(path)} \ {Null}
         /\ Leads(names, k) = {Resolve(path \o <<Slash>>)} \ {Null}
  <1> DEFINE long == Absolute(names, k)
             short == Tail(long)
  <1>1. /\ long \in Seq(Chars) /\ Len(long) >= 2 /\ long[1] = Slash
        /\ short \in Seq(Chars) /\ short # << >> /\ short[1] # Slash
    BY WalkNamed
  <1>2. PICK dir : /\ Walk(short) = [dir |-> dir, name |-> names[k]]
                   /\ Leads(names, k - 1) = {dir} \ {Null}
    BY WalkNamed
  <1>3. names[k] # << >>
    BY NamesAre
  <1>4. Leads(names, k) = {FindDir(dir, names[k])} \ {Null}
    BY <1>2, LeadsIs, EnteredIs
  <1> HIDE DEF long
  <1>5. Walk(short \o <<Slash>>) = [dir |-> FindDir(dir, names[k]), name |-> << >>]
    <2>1. short \o <<Slash>> = Append(short, Slash) /\ Slash \in Chars
      BY <1>1 DEF Chars
    <2>2. Walk(Append(short, Slash)) = Advance([dir |-> dir, name |-> names[k]], Slash)
      BY <1>1, <1>2, <2>1, WalkAppend
    <2> QED
      BY <2>1, <2>2 DEF Advance
  <1>6. Resolve(long) = FindDir(dir, names[k]) /\ Resolve(short) = FindDir(dir, names[k])
    <2>1. long # << >>
      BY <1>1
    <2>2. /\ Resolve(long) = LET walk == Walk(short) IN IF walk.name = << >> THEN walk.dir ELSE FindDir(walk.dir, walk.name)
          /\ Resolve(short) = LET walk == Walk(short) IN IF walk.name = << >> THEN walk.dir ELSE FindDir(walk.dir, walk.name)
      BY <1>1, <2>1 DEF Resolve
    <2> QED
      BY <1>2, <1>3, <2>2
  <1>7. /\ Resolve(long \o <<Slash>>) = FindDir(dir, names[k])
        /\ Resolve(short \o <<Slash>>) = FindDir(dir, names[k])
    <2> DEFINE long2 == long \o <<Slash>>
               short2 == short \o <<Slash>>
    <2>1. /\ long2 # << >> /\ long2[1] = Slash /\ Tail(long2) = short2
          /\ short2 # << >> /\ short2[1] # Slash
      <3>1. Len(long2) = Len(long) + 1 /\ long2[1] = Slash
        BY <1>1
      <3>2. Len(short2) = Len(short) + 1 /\ short2[1] = short[1] /\ Len(short) \in Nat
        BY <1>1
      <3>3. Tail(long2) = short2
        BY <1>1
      <3> QED
        BY <1>1, <3>1, <3>2, <3>3
    <2> HIDE DEF long2, short2
    <2>2. /\ Resolve(long2) = LET walk == Walk(short2) IN IF walk.name = << >> THEN walk.dir ELSE FindDir(walk.dir, walk.name)
          /\ Resolve(short2) = LET walk == Walk(short2) IN IF walk.name = << >> THEN walk.dir ELSE FindDir(walk.dir, walk.name)
      BY <2>1 DEF Resolve
    <2>3. Walk(short2) = [dir |-> FindDir(dir, names[k]), name |-> << >>]
      BY <1>5 DEF short2
    <2> QED
      BY <2>2, <2>3 DEF long2, short2
  <1> QED
    BY <1>4, <1>6, <1>7 DEF long

\* The last slash of a path divides it into the names before and the last one.
LEMMA LastOfJoined ==
  ASSUME NEW base \in Seq(Chars), NEW name \in Seq(Letters)
  PROVE  /\ LastSlash(Joined(base, name)) = Len(base) + 1
         /\ NameIn(Joined(base, name)) = name
         /\ Len(base) < MaxPath => DirPath(Joined(base, name)) = base
  <1> DEFINE p == Joined(base, name)
             n == Len(base)
             S == {0} \cup {i \in 1 .. Len(p) : p[i] = Slash}
  <1>1. name \in Seq(Chars) /\ \A i \in 1 .. Len(name) : name[i] # Slash
    <2>1. name \in Seq(Chars)
      BY DEF Chars
    <2>2. \A i \in 1 .. Len(name) : name[i] \in Letters
      BY ElementOfSeq
    <2> QED
      BY <2>1, <2>2, VfsAssumption
  <1>2. /\ p \in Seq(Chars) /\ n \in Nat /\ Len(name) \in Nat /\ Len(p) = n + 1 + Len(name)
        /\ \A i \in 1 .. n : p[i] = base[i]
        /\ p[n + 1] = Slash
        /\ \A i \in (n + 2) .. (n + 1 + Len(name)) : p[i] = name[i - (n + 1)]
    BY <1>1, JoinedIs
  <1> HIDE DEF p, n
  <1>3. LastSlash(p) = n + 1
    <2>1. n + 1 \in S
      BY <1>2
    <2>2. ASSUME NEW i \in S PROVE i \in Int /\ i <= n + 1
      <3>1. CASE i = 0
        BY <1>2, <3>1
      <3>2. CASE i # 0
        <4>1. i \in 1 .. Len(p) /\ p[i] = Slash
          BY <3>2
        <4>2. CASE i >= n + 2
          <5>1. i \in (n + 2) .. (n + 1 + Len(name)) /\ i - (n + 1) \in 1 .. Len(name)
            BY <1>2, <4>1, <4>2
          <5> QED
            BY <1>1, <1>2, <4>1, <5>1
        <4> QED
          BY <1>2, <4>1, <4>2
      <3> QED
        BY <3>1, <3>2
    <2> HIDE DEF S
    <2>3. Max(S) \in S /\ \A i \in S : Max(S) >= i
      <3>1. \E x \in S : \A i \in S : x >= i
        BY <1>2, <2>1, <2>2
      <3> QED
        BY <3>1 DEF Max
    <2>4. Max(S) = n + 1
      BY <1>2, <2>1, <2>2, <2>3
    <2> QED
      BY <2>4 DEF LastSlash, S
  <1>4. NameIn(p) = name
    <2> DEFINE q == SubSeq(p, n + 2, Len(p))
    <2>1. \A i \in (n + 2) .. Len(p) : p[i] \in Chars
      BY <1>2, ElementOfSeq
    <2>2. n + 2 \in Int /\ Len(p) \in Int
      BY <1>2
    <2>3. /\ q \in Seq(Chars)
          /\ Len(q) = IF n + 2 <= Len(p) THEN Len(p) - (n + 2) + 1 ELSE 0
          /\ \A i \in 1 .. Len(p) - (n + 2) + 1 : q[i] = p[(n + 2) + i - 1]
      BY <2>1, <2>2, SubSeqProperties
    <2> HIDE DEF q
    <2>4. Len(q) = Len(name)
      BY <1>2, <2>3
    <2>5. ASSUME NEW i \in 1 .. Len(q) PROVE q[i] = name[i]
      <3>1. /\ i \in 1 .. Len(p) - (n + 2) + 1 /\ (n + 2) + i - 1 \in (n + 2) .. (n + 1 + Len(name))
            /\ ((n + 2) + i - 1) - (n + 1) = i
        BY <1>2, <2>4
      <3>2. q[i] = p[(n + 2) + i - 1] /\ p[(n + 2) + i - 1] = name[((n + 2) + i - 1) - (n + 1)]
        BY <1>2, <2>3, <3>1
      <3> QED
        BY <3>1, <3>2
    <2>6. q = name
      BY <1>1, <2>3, <2>4, <2>5, SeqEqual
    <2>7. (n + 1) + 1 = n + 2
      BY <1>2
    <2> QED
      BY <1>3, <2>6, <2>7 DEF NameIn, q
  <1>5. ASSUME n < MaxPath PROVE DirPath(p) = base
    <2> DEFINE q == SubSeq(p, 1, n)
               T == {n, MaxPath - 1}
    <2>1. Min(T) = n
      <3>1. n \in T /\ \A i \in T : n <= i /\ i \in Int
        BY <1>2, <1>5, VfsAssumption
      <3> HIDE DEF T
      <3>2. \A m \in T : (\A i \in T : m <= i) => m = n
        BY <1>2, <3>1
      <3> QED
        BY <3>1, <3>2 DEF Min
    <2>2. (n + 1) - 1 = n
      BY <1>2
    <2>3. \A i \in 1 .. n : p[i] \in Chars
      BY <1>2, ElementOfSeq
    <2>4. 1 \in Int /\ n \in Int
      BY <1>2
    <2>5. /\ q \in Seq(Chars)
          /\ Len(q) = IF 1 <= n THEN n - 1 + 1 ELSE 0
          /\ \A i \in 1 .. n - 1 + 1 : q[i] = p[1 + i - 1]
      BY <2>3, <2>4, SubSeqProperties
    <2> HIDE DEF q
    <2>6. Len(q) = n
      BY <1>2, <2>5
    <2>7. ASSUME NEW i \in 1 .. Len(q) PROVE q[i] = base[i]
      <3>1. i \in 1 .. n - 1 + 1 /\ i \in 1 .. n /\ 1 + i - 1 = i
        BY <1>2, <2>6
      <3> QED
        BY <1>2, <2>5, <3>1
    <2>8. q = base
      BY <2>5, <2>6, <2>7, SeqEqual DEF n
    <2> QED
      BY <1>3, <2>1, <2>2, <2>8 DEF DirPath, q
  <1> QED
    BY <1>3, <1>4, <1>5 DEF p, n

\* A name alone is in the root.
LEMMA NameAlone ==
  ASSUME NEW name \in Seq(Letters)
  PROVE  LastSlash(name) = 0 /\ NameIn(name) = name
  <1> DEFINE S == {0} \cup {i \in 1 .. Len(name) : name[i] = Slash}
  <1>1. S = {0}
    <2>1. \A i \in 1 .. Len(name) : name[i] \in Letters
      BY ElementOfSeq
    <2>2. \A i \in 1 .. Len(name) : name[i] # Slash
      BY <2>1, VfsAssumption
    <2> QED
      BY <2>2
  <1>2. Max({0}) = 0
    BY DEF Max
  <1>3. LastSlash(name) = 0
    BY <1>1, <1>2 DEF LastSlash
  <1>4. SubSeq(name, 1, Len(name)) = name
    BY SubSeqFull
  <1>5. 0 + 1 = 1
    OBVIOUS
  <1> QED
    BY <1>3, <1>4, <1>5 DEF NameIn

\* The directory a path changes is the one that the names before its last name
\* lead to, and the name it changes there is the last one.
LEMMA ParentNamed ==
  ASSUME TypeOK, EntriesUnique, NEW names \in NameLists, NEW path \in Spellings(names),
         LastSlash(path) <= MaxPath
  PROVE  /\ Leads(names, Len(names) - 1) = {ParentOf(path)} \ {Null}
         /\ NameIn(path) = names[Len(names)]
  <1> DEFINE n == Len(names)
             name == names[n]
             base == Absolute(names, n - 1)
             whole == Absolute(names, n)
  <1>1. n \in Nat \ {0} /\ n \in 1 .. n /\ MaxPath \in Nat \ {0}
    BY NamesAre, VfsAssumption
  <1>2. name \in Seq(Letters) /\ name \in Seq(Chars)
    BY <1>1, NamesAre
  <1>3. whole = Joined(base, name) /\ base \in Seq(Chars) /\ (n = 1 => base = << >>)
    <2>1. n - 1 \in 0 .. n /\ (n = 1 => n - 1 = 0)
      BY <1>1
    <2> QED
      BY <1>1, <2>1, AbsoluteIs
  <1>4. path \in {whole, Tail(whole)}
    BY DEF Spellings
  <1>5. ASSUME NEW start \in Seq(Chars), path = Joined(start, name)
        PROVE  ParentOf(path) = Resolve(start) /\ NameIn(path) = name
    <2> HIDE DEF name
    <2>1. Len(start) \in Nat
      BY LenProperties
    <2>2. LastSlash(path) = Len(start) + 1 /\ NameIn(path) = name
      BY <1>2, <1>5, LastOfJoined
    <2>3. DirPath(path) = start
      BY <1>1, <1>2, <1>5, <2>1, <2>2, LastOfJoined
    <2>4. LastSlash(path) # 0
      BY <2>1, <2>2
    <2> QED
      BY <2>2, <2>3, <2>4 DEF ParentOf
  <1> HIDE DEF whole, base, name
  <1>6. CASE n = 1
    <2>1. Leads(names, n - 1) = {vfs_root} \ {Null}
      <3>1. n - 1 = 0
        BY <1>6
      <3> QED
        BY <3>1, LeadsIs
    <2>2. CASE path = whole
      <3>1. Resolve(<< >>) = vfs_root
        BY WalkAppend DEF Resolve
      <3> DEFINE empty == << >>
      <3>2. empty \in Seq(Chars) /\ path = Joined(empty, name)
        BY <1>3, <1>6, <2>2
      <3> HIDE DEF empty
      <3>3. ParentOf(path) = Resolve(empty) /\ NameIn(path) = name
        BY <1>5, <3>2
      <3> QED
        BY <2>1, <3>1, <3>3 DEF empty, name
    <2>3. CASE path = Tail(whole)
      <3>1. whole = << >> \o <<Slash>> \o name
        BY <1>3, <1>6 DEF Joined
      <3>2. Tail(whole) = name
        BY <1>2, <3>1
      <3>3. LastSlash(path) = 0 /\ NameIn(path) = name
        BY <1>2, <2>3, <3>2, NameAlone
      <3> QED
        BY <2>1, <3>3 DEF ParentOf, name
    <2> QED
      BY <1>4, <2>2, <2>3
  <1>7. CASE n # 1
    <2>1. n - 1 \in 1 .. n
      <3> HIDE DEF n
      <3> QED
        BY <1>1, <1>7
    <2>2. Len(base) >= 2
      BY <2>1, WalkNamed DEF base
    <2>3. base # << >>
      BY <2>2
    <2>4. Tail(base) \in Seq(Chars) /\ Tail(whole) = Joined(Tail(base), name)
      BY <1>2, <1>3, <2>3, TailOfJoined
    <2>5. \A p \in {base, Tail(base)} : Leads(names, n - 1) = {Resolve(p)} \ {Null}
      BY <2>1, NamedResolves DEF base
    <2>6. PICK p \in {base, Tail(base)} : p \in Seq(Chars) /\ path = Joined(p, name)
      BY <1>3, <1>4, <2>4
    <2>7. ParentOf(path) = Resolve(p) /\ NameIn(path) = name
      BY <1>5, <2>6
    <2> QED
      BY <2>5, <2>7 DEF name
  <1> QED
    BY <1>6, <1>7

-----------------------------------------------------------------------------
(* The inductive invariant.                                                 *)

\* vfs_init leaves every entry unused.
LEMMA InitIInv == Init => IInv
  <1> SUFFICES ASSUME Init PROVE IInv
    OBVIOUS
  <1>1. TypeOK
    BY VfsAssumption DEF Init, TypeOK, Entry
  <1>2. \A n \in Nodes : OpenOn(n) = {}
    BY DEF Init, OpenOn, InUse
  <1>3. OpensMatch
    BY <1>2, FS_EmptySet DEF Init, OpensMatch
  <1>4. NothingDangles /\ OffsetsInside
    BY DEF Init, NothingDangles, OffsetsInside, InUse
  <1> QED
    BY <1>1, <1>3, <1>4 DEF IInv

\* A step that changes no descriptor's node and no count keeps the match.
LEMMA SameOpens ==
  ASSUME OpensMatch, UNCHANGED opens,
         \A fd \in Fds : InUse(fd)' = InUse(fd) /\ NodeOf(fd)' = NodeOf(fd)
  PROVE  OpensMatch'
  <1>1. \A n : OpenOn(n)' = OpenOn(n)
    BY DEF OpenOn
  <1> QED
    BY <1>1 DEF OpensMatch

\* vfs_open takes an entry that is not in use, and tells the node.
LEMMA OpenIInv == ASSUME IInv, NEW path \in Paths, Open(path) PROVE IInv'
  <1> DEFINE node == Resolve(path)
  <1>1. node \in Nodes /\ UNCHANGED <<vfs_root, tree, length>>
    BY DEF Open
  <1>2. PICK fd \in FreeFd : fd_table' = [fd_table EXCEPT ![fd] = Opened(@, node)]
    BY DEF Open
  <1>3. opens' = [opens EXCEPT ![node] = @ + 1]
    BY DEF Open, CallOpen
  <1>4. fd \in Fds /\ ~InUse(fd)
    BY DEF FreeFd, InUse
  <1>5. fd_table' = [fd_table EXCEPT ![fd] = [in_use |-> TRUE, node |-> node, offset |-> 0]]
    BY <1>2 DEF Opened
  <1> HIDE DEF node
  <1>6. TypeOK'
    <2>1. fd_table' \in [Fds -> Entry]
      BY <1>1, <1>4, <1>5, VfsAssumption DEF IInv, TypeOK, Entry
    <2>2. opens' \in [Nodes -> Nat]
      BY <1>1, <1>3 DEF IInv, TypeOK
    <2> QED
      BY <1>1, <2>1, <2>2 DEF IInv, TypeOK
  <1>7. \A g \in Fds : /\ g # fd => InUse(g)' = InUse(g) /\ NodeOf(g)' = NodeOf(g)
                                    /\ fd_table'[g] = fd_table[g]
                       /\ InUse(fd)' /\ NodeOf(fd)' = node /\ fd_table'[fd].offset = 0
    BY <1>4, <1>5 DEF IInv, TypeOK, InUse, NodeOf
  <1>8. OpensMatch'
    <2> SUFFICES ASSUME NEW n \in Nodes PROVE opens'[n] = Cardinality(OpenOn(n)')
      BY DEF OpensMatch
    <2>1. opens[n] = Cardinality(OpenOn(n)) /\ opens[n] \in Nat
      BY DEF IInv, OpensMatch, TypeOK
    <2>2. CASE n = node
      <3>1. OpenOn(n)' = OpenOn(n) \cup {fd} /\ fd \notin OpenOn(n)
        BY <1>4, <1>7, <2>2 DEF OpenOn
      <3>2. Cardinality(OpenOn(n)') = Cardinality(OpenOn(n)) + 1
        BY <3>1, OpenOnFinite, FS_AddElement
      <3> QED
        BY <1>3, <2>1, <2>2, <3>2 DEF IInv, TypeOK
    <2>3. CASE n # node
      <3>1. OpenOn(n)' = OpenOn(n)
        BY <1>4, <1>7, <2>3 DEF OpenOn
      <3> QED
        BY <1>1, <1>3, <2>1, <2>3, <3>1 DEF IInv, TypeOK
    <2> QED
      BY <2>2, <2>3
  <1>9. NothingDangles'
    <2>1. node \in Live
      BY <1>1, ResolveLive, VfsAssumption DEF IInv, TypeOK, node
    <2>2. Live' = Live
      BY <1>1 DEF Live
    <2> QED
      BY <1>4, <1>7, <2>1, <2>2 DEF IInv, NothingDangles
  <1>10. OffsetsInside'
    BY <1>1, <1>6, <1>7 DEF IInv, OffsetsInside, TypeOK
  <1> QED
    BY <1>6, <1>8, <1>9, <1>10 DEF IInv

\* vfs_close gives an entry back, and tells the node once.
LEMMA CloseIInv == ASSUME IInv, NEW fd \in Fds, Close(fd) PROVE IInv'
  <1> DEFINE node == NodeOf(fd)
  <1>1. node \in Nodes /\ InUse(fd) /\ UNCHANGED <<vfs_root, tree, length>>
    BY DEF Close, IInv, OffsetsInside
  <1>2. opens' = [opens EXCEPT ![node] = @ - 1]
    BY DEF Close
  <1>3. /\ fd_table' \in [Fds -> Entry] /\ fd_table'[fd].in_use = FALSE
        /\ \A g \in Fds : g # fd => fd_table'[g] = fd_table[g]
    <2>1. fd_table' = [fd_table EXCEPT ![fd].in_use = FALSE, ![fd].node = Null]
      BY DEF Close
    <2>2. fd_table \in [Fds -> Entry]
      BY DEF IInv, TypeOK
    <2> DEFINE given == [[fd_table[fd] EXCEPT !.in_use = FALSE] EXCEPT !.node = Null]
    <2>3. given \in Entry /\ given.in_use = FALSE
      BY <2>2 DEF Entry
    <2>4. fd_table' = [fd_table EXCEPT ![fd] = given]
      BY <2>1, <2>2
    <2> HIDE DEF given
    <2> QED
      BY <2>2, <2>3, <2>4
  <1> HIDE DEF node
  <1>4. \A g \in Fds : g # fd => /\ InUse(g)' = InUse(g) /\ NodeOf(g)' = NodeOf(g)
                                 /\ fd_table'[g] = fd_table[g]
    BY <1>3 DEF IInv, TypeOK, InUse, NodeOf
  <1>5. ~InUse(fd)'
    BY <1>3 DEF IInv, TypeOK, InUse
  <1>6. \A n \in Nodes : opens'[n] = Cardinality(OpenOn(n)') /\ opens'[n] \in Nat
    <2> SUFFICES ASSUME NEW n \in Nodes
                 PROVE  opens'[n] = Cardinality(OpenOn(n)') /\ opens'[n] \in Nat
      OBVIOUS
    <2>1. opens[n] = Cardinality(OpenOn(n)) /\ opens[n] \in Nat
      BY DEF IInv, OpensMatch, TypeOK
    <2>2. CASE n = node
      <3>1. OpenOn(n)' = OpenOn(n) \ {fd} /\ fd \in OpenOn(n)
        BY <1>1, <1>4, <1>5, <2>2 DEF OpenOn, node
      <3>2. IsFiniteSet(OpenOn(n)') /\ Cardinality(OpenOn(n)') = Cardinality(OpenOn(n)) - 1
        BY <3>1, OpenOnFinite, FS_RemoveElement
      <3>3. Cardinality(OpenOn(n)') \in Nat
        BY <3>2, FS_CardinalityType
      <3> QED
        BY <1>2, <2>1, <2>2, <3>2, <3>3 DEF IInv, TypeOK
    <2>3. CASE n # node
      <3>1. OpenOn(n)' = OpenOn(n)
        BY <1>4, <1>5, <1>1, <2>3 DEF OpenOn, node
      <3> QED
        BY <1>1, <1>2, <2>1, <2>3, <3>1 DEF IInv, TypeOK
    <2> QED
      BY <2>2, <2>3
  <1>7. OpensMatch'
    BY <1>6 DEF OpensMatch
  <1>8. TypeOK'
    <2>1. opens' \in [Nodes -> Nat]
      BY <1>2, <1>6 DEF IInv, TypeOK
    <2> QED
      BY <1>1, <1>3, <2>1 DEF IInv, TypeOK
  <1>9. NothingDangles'
    <2>1. Live' = Live
      BY <1>1 DEF Live
    <2> QED
      BY <1>4, <1>5, <2>1 DEF IInv, NothingDangles
  <1>10. OffsetsInside'
    BY <1>1, <1>4, <1>5 DEF IInv, OffsetsInside
  <1> QED
    BY <1>7, <1>8, <1>9, <1>10 DEF IInv

\* A new position inside a file that does not shrink: what vfs_read, vfs_write
\* and vfs_seek come to.
LEMMA MoveIInv ==
  ASSUME IInv, NEW fd \in Fds, InUse(fd), NEW offset \in 0 .. MaxLength,
         SetOffset(fd, offset), UNCHANGED <<vfs_root, tree, opens>>,
         length' \in [Nodes -> 0 .. MaxLength],
         \A n \in Nodes : length[n] <= length'[n],
         offset <= length'[NodeOf(fd)]
  PROVE  IInv'
  <1>1. fd_table' = [fd_table EXCEPT ![fd].offset = offset]
    BY DEF SetOffset
  <1>2. TypeOK'
    BY <1>1 DEF IInv, TypeOK, Entry
  <1>3. \A g \in Fds : InUse(g)' = InUse(g) /\ NodeOf(g)' = NodeOf(g)
    BY <1>1 DEF IInv, TypeOK, Entry, InUse, NodeOf
  <1>4. OpensMatch'
    BY <1>3, SameOpens DEF IInv
  <1>5. NothingDangles'
    <2>1. Live' = Live
      BY DEF Live
    <2> QED
      BY <1>3, <2>1 DEF IInv, NothingDangles
  <1>6. OffsetsInside'
    <2> SUFFICES ASSUME NEW g \in Fds, InUse(g)'
                 PROVE  NodeOf(g)' \in Nodes /\ fd_table'[g].offset <= length'[NodeOf(g)']
      BY DEF OffsetsInside
    <2>1. NodeOf(g) \in Nodes /\ fd_table[g].offset <= length[NodeOf(g)]
      BY <1>3 DEF IInv, OffsetsInside
    <2>2. fd_table'[g].offset = IF g = fd THEN offset ELSE fd_table[g].offset
      BY <1>1 DEF IInv, TypeOK, Entry
    <2>3. fd_table[g].offset \in Nat /\ length[NodeOf(g)] \in Nat /\ length'[NodeOf(g)] \in Nat
      BY <2>1 DEF IInv, TypeOK, Entry
    <2>4. NodeOf(g)' = NodeOf(g)
      BY <1>3
    <2>5. CASE g = fd
      BY <2>1, <2>2, <2>4, <2>5
    <2>6. CASE g # fd
      BY <2>1, <2>2, <2>3, <2>4, <2>6
    <2> QED
      BY <2>5, <2>6
  <1> QED
    BY <1>2, <1>4, <1>5, <1>6 DEF IInv

\* What is known of the entry behind a descriptor in use.
LEMMA UsedEntry ==
  ASSUME IInv, NEW fd \in Fds, InUse(fd)
  PROVE  /\ NodeOf(fd) \in Nodes /\ NodeOf(fd) \in Live
         /\ fd_table[fd].offset \in 0 .. length[NodeOf(fd)]
         /\ length[NodeOf(fd)] \in 0 .. MaxLength /\ MaxLength \in Nat
  BY VfsAssumption DEF IInv, TypeOK, Entry, OffsetsInside, NothingDangles

LEMMA ReadIInv == ASSUME IInv, NEW fd \in Fds, Read(fd) PROVE IInv'
  <1>1. InUse(fd) /\ UNCHANGED <<vfs_root, tree, length, opens>>
    BY DEF Read
  <1>2. PICK count \in 0 .. (length[NodeOf(fd)] - fd_table[fd].offset) :
           SetOffset(fd, fd_table[fd].offset + count)
    BY DEF Read
  <1> DEFINE offset == fd_table[fd].offset + count
  <1>3. offset \in 0 .. MaxLength /\ offset <= length[NodeOf(fd)]
    BY <1>1, UsedEntry
  <1>4. /\ length' \in [Nodes -> 0 .. MaxLength] /\ offset <= length'[NodeOf(fd)]
        /\ \A n \in Nodes : length[n] <= length'[n]
    BY <1>1, <1>3, VfsAssumption DEF IInv, TypeOK
  <1>5. SetOffset(fd, offset)
    BY <1>2
  <1> HIDE DEF offset
  <1> QED
    BY <1>1, <1>3, <1>4, <1>5, MoveIInv

LEMMA WriteIInv == ASSUME IInv, NEW fd \in Fds, Write(fd) PROVE IInv'
  <1>1. InUse(fd) /\ UNCHANGED <<vfs_root, tree, opens>>
    BY DEF Write
  <1>2. PICK end \in fd_table[fd].offset .. MaxLength :
           /\ SetOffset(fd, end)
           /\ length' = [length EXCEPT ![NodeOf(fd)] = IF end > @ THEN end ELSE @]
    BY DEF Write
  <1>3. end \in 0 .. MaxLength
    BY <1>1, UsedEntry
  <1>4. /\ length' \in [Nodes -> 0 .. MaxLength] /\ end <= length'[NodeOf(fd)]
        /\ \A n \in Nodes : length[n] <= length'[n]
    <2>1. /\ length \in [Nodes -> 0 .. MaxLength] /\ NodeOf(fd) \in Nodes
          /\ MaxLength \in Nat
      BY <1>1, UsedEntry DEF IInv, TypeOK
    <2> QED
      BY <1>2, <1>3, <2>1
  <1> QED
    BY <1>1, <1>2, <1>3, <1>4, MoveIInv

\* The place that a seek goes to.
Target(fd, move, whence) ==
    LET new_offset == (SeekBase(fd, whence) + move) % Width
    IN  IF new_offset > length[NodeOf(fd)] THEN length[NodeOf(fd)] ELSE new_offset

\* It is in the file: the sum itself where that is in the file, else the end.
LEMMA TargetInside ==
  ASSUME IInv, NEW fd \in Fds, InUse(fd), NEW move \in Moves, NEW whence \in Whences
  PROVE  /\ SeekBase(fd, whence) \in {0, fd_table[fd].offset, length[NodeOf(fd)]}
         /\ Target(fd, move, whence) \in 0 .. length[NodeOf(fd)]
         /\ Target(fd, move, whence) =
              IF SeekBase(fd, whence) + move \in 0 .. length[NodeOf(fd)]
                THEN SeekBase(fd, whence) + move ELSE length[NodeOf(fd)]
  <1> DEFINE base == SeekBase(fd, whence)
             end == length[NodeOf(fd)]
             sum == (base + move) % Width
  <1>1. base \in {0, fd_table[fd].offset, end}
    BY DEF Whences, SeekBase
  <1>2. /\ fd_table[fd].offset \in 0 .. end /\ end \in 0 .. MaxLength /\ MaxLength \in Nat
        /\ move \in Int
    BY UsedEntry, VfsAssumption
  <1>3. Target(fd, move, whence) = IF sum > end THEN end ELSE sum
    BY DEF Target
  <1>4. base \in 0 .. MaxLength
    BY <1>1, <1>2
  <1> HIDE DEF base, end
  <1>5. /\ sum \in Nat
        /\ base + move >= 0 => sum = base + move
        /\ base + move < 0 => sum > MaxLength
    BY <1>4, UnsignedSum
  <1> HIDE DEF sum
  <1>6. /\ (IF sum > end THEN end ELSE sum) \in 0 .. end
        /\ (IF sum > end THEN end ELSE sum) =
             IF base + move \in 0 .. end THEN base + move ELSE end
    BY <1>2, <1>4, <1>5
  <1> QED
    BY <1>1, <1>3, <1>6 DEF base, end

LEMMA SeekIInv ==
  ASSUME IInv, NEW fd \in Fds, NEW move \in Moves, NEW whence \in Whences, Seek(fd, move, whence)
  PROVE  IInv'
  <1> DEFINE offset == Target(fd, move, whence)
  <1>1. InUse(fd) /\ UNCHANGED <<vfs_root, tree, length, opens>>
    BY DEF Seek
  <1>2. SetOffset(fd, offset)
    BY DEF Seek, Target
  <1>3. offset \in 0 .. length[NodeOf(fd)] /\ length[NodeOf(fd)] \in 0 .. MaxLength
    BY <1>1, TargetInside, UsedEntry
  <1> HIDE DEF offset
  <1>4. offset \in 0 .. MaxLength /\ offset <= length[NodeOf(fd)] /\ MaxLength \in Nat
    BY <1>3, VfsAssumption
  <1>5. /\ length' \in [Nodes -> 0 .. MaxLength] /\ offset <= length'[NodeOf(fd)]
        /\ \A n \in Nodes : length[n] <= length'[n]
    BY <1>1, <1>4 DEF IInv, TypeOK
  <1> QED
    BY <1>1, <1>2, <1>4, <1>5, MoveIInv

\* vfs_create and vfs_mkdir take a node that has no entry, so none that is open.
LEMMA MakeIInv == ASSUME IInv, NEW path \in Paths, NEW n \in Nodes, Make(path, n) PROVE IInv'
  <1>1. /\ UNCHANGED <<vfs_root, fd_table, opens>> /\ n \notin Live /\ ParentOf(path) \in Dirs
        /\ tree' = tree \cup {[dir |-> ParentOf(path), name |-> NameIn(path), node |-> n]}
        /\ length' = [length EXCEPT ![n] = 0]
    BY DEF Make
  <1>2. TypeOK'
    <2>1. ParentOf(path) \in Dirs /\ NameIn(path) \in {NameIn(q) : q \in Paths}
      BY <1>1
    <2>2. tree' \subseteq [dir : Dirs, name : {NameIn(q) : q \in Paths}, node : Nodes]
      BY <1>1, <2>1 DEF IInv, TypeOK
    <2>3. length' \in [Nodes -> 0 .. MaxLength]
      BY <1>1, VfsAssumption DEF IInv, TypeOK
    <2> QED
      BY <1>1, <2>2, <2>3 DEF IInv, TypeOK
  <1>3. \A g \in Fds : InUse(g)' = InUse(g) /\ NodeOf(g)' = NodeOf(g)
    BY <1>1 DEF InUse, NodeOf
  <1>4. OpensMatch'
    BY <1>1, <1>3, SameOpens DEF IInv
  <1>5. NothingDangles'
    <2>1. Live \subseteq Live'
      BY <1>1 DEF Live
    <2> QED
      BY <1>3, <2>1 DEF IInv, NothingDangles
  <1>6. OffsetsInside'
    <2> SUFFICES ASSUME NEW g \in Fds, InUse(g)
                 PROVE  NodeOf(g) \in Nodes /\ fd_table[g].offset <= length'[NodeOf(g)]
      BY <1>1, <1>3 DEF OffsetsInside
    <2>1. NodeOf(g) # n /\ NodeOf(g) \in Nodes /\ fd_table[g].offset <= length[NodeOf(g)]
      BY <1>1 DEF IInv, NothingDangles, OffsetsInside
    <2> QED
      BY <1>1, <2>1 DEF IInv, TypeOK
  <1> QED
    BY <1>2, <1>4, <1>5, <1>6 DEF IInv

\* vfs_unlink takes away the entry of a node that nobody has open.
LEMMA UnlinkIInv == ASSUME IInv, NEW path \in Paths, Unlink(path) PROVE IInv'
  <1>1. PICK e \in tree : opens[e.node] = 0 /\ tree' = tree \ {e}
    BY DEF Unlink
  <1>2. UNCHANGED <<vfs_root, fd_table, length, opens>>
    BY DEF Unlink
  <1>3. TypeOK'
    BY <1>1, <1>2 DEF IInv, TypeOK
  <1>4. \A g \in Fds : InUse(g)' = InUse(g) /\ NodeOf(g)' = NodeOf(g)
    BY <1>2 DEF InUse, NodeOf
  <1>5. OpensMatch'
    BY <1>2, <1>4, SameOpens DEF IInv
  <1>6. e.node \in Nodes
    BY <1>1 DEF IInv, TypeOK
  <1>7. OpenOn(e.node) = {}
    <2>1. Cardinality(OpenOn(e.node)) = 0
      BY <1>1, <1>6 DEF IInv, OpensMatch
    <2> QED
      BY <2>1, OpenOnFinite, FS_EmptySet
  <1>8. NothingDangles'
    <2> SUFFICES ASSUME NEW g \in Fds, InUse(g) PROVE NodeOf(g) \in Live'
      BY <1>4 DEF NothingDangles
    <2>1. NodeOf(g) \in Live /\ NodeOf(g) # e.node
      BY <1>7 DEF IInv, NothingDangles, OpenOn
    <2> QED
      BY <1>1, <2>1 DEF Live
  <1>9. OffsetsInside'
    BY <1>2, <1>4 DEF IInv, OffsetsInside
  <1> QED
    BY <1>3, <1>5, <1>8, <1>9 DEF IInv

\* Nothing changed, or only the root was mounted.
LEMMA MountIInv ==
  ASSUME IInv, UNCHANGED <<fd_table, tree, length, opens>>, vfs_root' \in {vfs_root, Root}
  PROVE  IInv'
  <1>1. TypeOK'
    BY DEF IInv, TypeOK
  <1>2. \A g \in Fds : InUse(g)' = InUse(g) /\ NodeOf(g)' = NodeOf(g)
    BY DEF InUse, NodeOf
  <1>3. OpensMatch'
    BY <1>2, SameOpens DEF IInv
  <1>4. NothingDangles' /\ OffsetsInside'
    <2>1. Live' = Live
      BY DEF Live
    <2> QED
      BY <1>2, <2>1 DEF IInv, NothingDangles, OffsetsInside
  <1> QED
    BY <1>1, <1>3, <1>4 DEF IInv

\* Every step preserves the invariant.
LEMMA NextIInv == IInv /\ [Next]_vars => IInv'
  <1> SUFFICES ASSUME IInv, [Next]_vars PROVE IInv'
    OBVIOUS
  <1>1. CASE SetRoot
    BY <1>1, MountIInv DEF SetRoot
  <1>2. ASSUME NEW path \in Paths, Open(path) PROVE IInv'
    BY <1>2, OpenIInv
  <1>3. ASSUME NEW path \in Paths, OpenFails(path) PROVE IInv'
    BY <1>3, MountIInv DEF OpenFails, NoDescriptor, vars
  <1>4. ASSUME NEW path \in Paths, Unlink(path) PROVE IInv'
    BY <1>4, UnlinkIInv
  <1>5. ASSUME NEW path \in Paths, NEW n \in Nodes, Make(path, n) PROVE IInv'
    BY <1>5, MakeIInv
  <1>6. ASSUME NEW fd \in Fds, Close(fd) PROVE IInv'
    BY <1>6, CloseIInv
  <1>7. ASSUME NEW fd \in Fds, Read(fd) PROVE IInv'
    BY <1>7, ReadIInv
  <1>8. ASSUME NEW fd \in Fds, Write(fd) PROVE IInv'
    BY <1>8, WriteIInv
  <1>9. ASSUME NEW fd \in Fds, NEW move \in Moves, NEW whence \in Whences, Seek(fd, move, whence)
        PROVE  IInv'
    BY <1>9, SeekIInv
  <1>10. CASE UNCHANGED vars
    BY <1>10, MountIInv DEF vars
  <1> QED
    BY <1>1, <1>2, <1>3, <1>4, <1>5, <1>6, <1>7, <1>8, <1>9, <1>10 DEF Next

\* The invariant of every behaviour.
THEOREM VfsInvariant == Spec => []IInv
  BY InitIInv, NextIInv, PTL DEF Spec

\* The types of the table, of the directories and of the counts.
THEOREM VfsTypeOK == Spec => []TypeOK
  <1>1. IInv => TypeOK
    BY DEF IInv
  <1> QED
    BY <1>1, VfsInvariant, PTL

\* A file system is told of every open and of every close, once.
THEOREM VfsOpensMatch == Spec => []OpensMatch
  <1>1. IInv => OpensMatch
    BY DEF IInv
  <1> QED
    BY <1>1, VfsInvariant, PTL

\* No descriptor in use refers to a node that has no entry any more.
THEOREM VfsNothingDangles == Spec => []NothingDangles
  <1>1. IInv => NothingDangles
    BY DEF IInv
  <1> QED
    BY <1>1, VfsInvariant, PTL

\* The file system refuses a name that is taken, so no directory ever has two
\* entries of one name.
LEMMA NextUnique == TypeOK /\ EntriesUnique /\ [Next]_vars => EntriesUnique'
  <1> SUFFICES ASSUME TypeOK, EntriesUnique, [Next]_vars PROVE EntriesUnique'
    OBVIOUS
  <1>1. CASE UNCHANGED tree
    BY <1>1 DEF EntriesUnique
  <1>2. ASSUME NEW path \in Paths, NEW n \in Nodes, Make(path, n) PROVE EntriesUnique'
    <2> DEFINE dir == ParentOf(path)
               name == NameIn(path)
               new == [dir |-> dir, name |-> name, node |-> n]
    <2>1. tree' = tree \cup {new} /\ FindDir(dir, name) = Null
      BY <1>2 DEF Make
    <2> HIDE DEF dir, name
    <2>2. ~\E e \in tree : e.dir = dir /\ e.name = name
      BY <2>1, FindDirNull
    <2> QED
      BY <2>1, <2>2 DEF EntriesUnique
  <1>3. ASSUME NEW path \in Paths, Unlink(path) PROVE EntriesUnique'
    BY <1>3 DEF Unlink, EntriesUnique
  <1>4. ASSUME NEW path \in Paths, Open(path) \/ OpenFails(path) PROVE UNCHANGED tree
    BY <1>4 DEF Open, OpenFails, NoDescriptor, vars
  <1>5. ASSUME NEW fd \in Fds, Close(fd) \/ Read(fd) \/ Write(fd) PROVE UNCHANGED tree
    BY <1>5 DEF Close, Read, Write
  <1>6. ASSUME NEW fd \in Fds, NEW move \in Moves, NEW whence \in Whences, Seek(fd, move, whence)
        PROVE  UNCHANGED tree
    BY <1>6 DEF Seek
  <1>7. SetRoot \/ UNCHANGED vars => UNCHANGED tree
    BY DEF SetRoot, vars
  <1> QED
    BY <1>1, <1>2, <1>3, <1>4, <1>5, <1>6, <1>7 DEF Next

THEOREM VfsEntriesUnique == Spec => []EntriesUnique
  <1>1. Init => EntriesUnique
    BY DEF Init, EntriesUnique
  <1> QED
    BY <1>1, NextUnique, VfsTypeOK, PTL DEF Spec

\* A path finds the node that its names lead to one after the other, however
\* it is spelled.
THEOREM VfsResolvesAsNamed == Spec => []ResolvesAsNamed
  <1>1. TypeOK /\ EntriesUnique => ResolvesAsNamed
    <2> SUFFICES ASSUME TypeOK, EntriesUnique, NEW names \in NameLists, NEW path \in Spellings(names)
                 PROVE  \A p \in {path, path \o <<Slash>>} :
                           Leads(names, Len(names)) = {Resolve(p)} \ {Null}
      BY DEF ResolvesAsNamed
    <2>1. Len(names) \in 1 .. Len(names)
      BY NamesAre
    <2>2. path \in {Absolute(names, Len(names)), Tail(Absolute(names, Len(names)))}
      BY DEF Spellings
    <2> DEFINE k == Len(names)
    <2> HIDE DEF k
    <2>3. Leads(names, k) = {Resolve(path)} \ {Null} /\ Leads(names, k) = {Resolve(path \o <<Slash>>)} \ {Null}
      BY <2>1, <2>2, NamedResolves, Zenon DEF k
    <2> QED
      BY <2>3, Zenon DEF k
  <1> QED
    BY <1>1, VfsTypeOK, VfsEntriesUnique, PTL

\* vfs_create and vfs_mkdir add one entry, vfs_unlink takes one away, and it is
\* the one that the path names.
THEOREM VfsChangesAsNamed == Spec => ChangesAsNamed
  <1> DEFINE Changes(names, path) ==
        tree' # tree /\ LastSlash(path) <= MaxPath =>
           /\ \A n \in Nodes : Make(path, n) =>
                 Cardinality(Named(names)) = 1 /\ tree' = tree \cup Named(names)
           /\ Unlink(path) => Cardinality(Named(names)) = 1 /\ tree' = tree \ Named(names)
  <1>1. ASSUME TypeOK, EntriesUnique, NEW names \in NameLists, NEW path \in Spellings(names),
               LastSlash(path) <= MaxPath
        PROVE  /\ \A n \in Nodes : Make(path, n) =>
                     Cardinality(Named(names)) = 1 /\ tree' = tree \cup Named(names)
               /\ Unlink(path) => Cardinality(Named(names)) = 1 /\ tree' = tree \ Named(names)
    <2> DEFINE dir == ParentOf(path)
               name == NameIn(path)
    <2>1. Leads(names, Len(names) - 1) = {dir} \ {Null} /\ name = names[Len(names)]
      BY <1>1, ParentNamed
    <2>2. dir # Null => Named(names) = {e \in tree \cup tree' : e.dir = dir /\ e.name = name}
      BY <2>1 DEF Named
    <2>3. ASSUME NEW n \in Nodes, Make(path, n)
          PROVE  Cardinality(Named(names)) = 1 /\ tree' = tree \cup Named(names)
      <3> DEFINE new == [dir |-> dir, name |-> name, node |-> n]
      <3>1. tree' = tree \cup {new} /\ FindDir(dir, name) = Null /\ dir \in Dirs
        BY <2>3 DEF Make
      <3> HIDE DEF dir, name
      <3>2. dir # Null
        BY <3>1, VfsAssumption
      <3>3. ~\E e \in tree : e.dir = dir /\ e.name = name
        BY <1>1, <3>1, FindDirNull
      <3>4. new.dir = dir /\ new.name = name
        OBVIOUS
      <3> HIDE DEF new
      <3>5. Named(names) = {new}
        BY <2>2, <3>1, <3>2, <3>3, <3>4
      <3>6. Cardinality({new}) = 1
        BY FS_Singleton
      <3> QED
        BY <3>1, <3>5, <3>6
    <2>4. ASSUME Unlink(path)
          PROVE  Cardinality(Named(names)) = 1 /\ tree' = tree \ Named(names)
      <3>1. PICK e \in tree : e.dir = dir /\ e.name = name /\ tree' = tree \ {e}
        BY <2>4 DEF Unlink
      <3> HIDE DEF dir, name
      <3>2. dir # Null
        BY <1>1, <3>1, VfsAssumption DEF TypeOK
      <3>3. \A f \in tree : f.dir = dir /\ f.name = name => f = e
        BY <1>1, <3>1 DEF EntriesUnique
      <3>4. Named(names) = {e}
        BY <2>2, <3>1, <3>2, <3>3
      <3>5. Cardinality({e}) = 1
        BY FS_Singleton
      <3> QED
        BY <3>1, <3>4, <3>5
    <2> QED
      BY <2>3, <2>4
  <1>2. TypeOK /\ EntriesUnique =>
           [\A names \in NameLists : \A path \in Spellings(names) : Changes(names, path)]_vars
    BY <1>1
  <1> QED
    BY <1>2, VfsTypeOK, VfsEntriesUnique, PTL DEF ChangesAsNamed

-----------------------------------------------------------------------------
(* The table of descriptors implements OpenFiles.                           *)

\* The mapped table at a descriptor in use, before and after a step.
LEMMA HandlesAt ==
  /\ DOMAIN Handles = {g \in Fds : InUse(g)}
  /\ \A fd \in Fds : InUse(fd) => Handles[fd] = [node |-> NodeOf(fd), pos |-> fd_table[fd].offset]
  BY DEF Handles

\* Before vfs_set_root nothing is open.
LEMMA InitRefines == Init => Files!FilesInit
  <1> SUFFICES ASSUME Init PROVE Files!FilesInit
    OBVIOUS
  <1>1. {g \in Fds : InUse(g)} = {}
    BY DEF Init, InUse
  <1>2. Handles = [fd \in {} |-> 0]
    BY <1>1 DEF Handles
  <1> QED
    BY <1>2 DEF Init, Files!FilesInit

LEMMA OpenRefines ==
  ASSUME IInv, NEW path \in Paths, Open(path)
  PROVE  \E fd \in Fds, n \in Nodes : Files!Open(fd, n)
  <1> DEFINE node == Resolve(path)
  <1>1. node \in Nodes /\ UNCHANGED length
    BY DEF Open
  <1>2. PICK fd \in FreeFd : fd_table' = [fd_table EXCEPT ![fd] = Opened(@, node)]
    BY DEF Open
  <1> HIDE DEF node
  <1>3. fd \in Fds /\ ~InUse(fd)
    BY DEF FreeFd, InUse
  <1>4. fd_table' = [fd_table EXCEPT ![fd] = [in_use |-> TRUE, node |-> node, offset |-> 0]]
    BY <1>2 DEF Opened
  <1>5. \A g \in Fds : /\ g # fd => InUse(g)' = InUse(g) /\ fd_table'[g] = fd_table[g]
                       /\ InUse(fd)' /\ fd_table'[fd].node = node /\ fd_table'[fd].offset = 0
    BY <1>3, <1>4 DEF IInv, TypeOK, InUse
  <1>6. {g \in Fds : InUse(g)}' = {g \in Fds : InUse(g)} \cup {fd}
    BY <1>3, <1>5
  <1>7. Handles' = [g \in {h \in Fds : InUse(h)} \cup {fd} |->
                      [node |-> fd_table'[g].node, pos |-> fd_table'[g].offset]]
    BY <1>6 DEF Handles, NodeOf
  <1>8. Handles' = [g \in DOMAIN Handles \cup {fd} |->
                      IF g = fd THEN [node |-> node, pos |-> 0] ELSE Handles[g]]
    BY <1>3, <1>5, <1>7, HandlesAt DEF NodeOf
  <1>9. Files!Open(fd, node)
    BY <1>1, <1>3, <1>8, HandlesAt DEF Files!Open
  <1> QED
    BY <1>1, <1>3, <1>9

LEMMA CloseRefines ==
  ASSUME IInv, NEW fd \in Fds, Close(fd)
  PROVE  fd \in DOMAIN Handles /\ Files!Close(fd)
  <1>1. InUse(fd) /\ UNCHANGED length
    BY DEF Close
  <1>2. fd_table' = [fd_table EXCEPT ![fd].in_use = FALSE, ![fd].node = Null]
    BY DEF Close
  <1>3. \A g \in Fds : g # fd => fd_table'[g] = fd_table[g]
    BY <1>2 DEF IInv, TypeOK
  <1>4. ~fd_table'[fd].in_use
    <2> DEFINE given == [[fd_table[fd] EXCEPT !.in_use = FALSE] EXCEPT !.node = Null]
    <2>1. fd_table' = [fd_table EXCEPT ![fd] = given]
      BY <1>2 DEF IInv, TypeOK
    <2>2. given.in_use = FALSE
      BY DEF IInv, TypeOK, Entry
    <2> HIDE DEF given
    <2> QED
      BY <2>1, <2>2 DEF IInv, TypeOK
  <1>5. {g \in Fds : InUse(g)}' = {g \in Fds : InUse(g)} \ {fd}
    BY <1>3, <1>4 DEF InUse
  <1>6. Handles' = [g \in {h \in Fds : InUse(h)} \ {fd} |->
                      [node |-> fd_table'[g].node, pos |-> fd_table'[g].offset]]
    BY <1>5 DEF Handles, NodeOf
  <1>7. Handles' = [g \in DOMAIN Handles \ {fd} |-> Handles[g]]
    BY <1>3, <1>6, HandlesAt DEF NodeOf
  <1> QED
    BY <1>1, <1>7, HandlesAt DEF Files!Close

\* A position that is set is the position of the handle.
LEMMA MoveRefines ==
  ASSUME IInv, NEW fd \in Fds, InUse(fd), NEW offset, SetOffset(fd, offset)
  PROVE  Files!MoveTo(fd, offset)
  <1>1. fd_table' = [fd_table EXCEPT ![fd].offset = offset]
    BY DEF SetOffset
  <1>2. \A g \in Fds : /\ fd_table'[g].in_use = fd_table[g].in_use
                       /\ fd_table'[g].node = fd_table[g].node
                       /\ fd_table'[g].offset = IF g = fd THEN offset ELSE fd_table[g].offset
    BY <1>1 DEF IInv, TypeOK, Entry
  <1>3. {g \in Fds : InUse(g)}' = {g \in Fds : InUse(g)}
    BY <1>2 DEF InUse
  <1>4. Handles' = [g \in DOMAIN Handles |->
                      [node |-> fd_table[g].node,
                       pos |-> IF g = fd THEN offset ELSE fd_table[g].offset]]
    BY <1>2, <1>3, HandlesAt DEF Handles, NodeOf
  <1>5. Handles' = [Handles EXCEPT ![fd].pos = offset]
    <2> DEFINE moved == [Handles EXCEPT ![fd].pos = offset]
    <2>1. DOMAIN Handles' = DOMAIN moved
      BY <1>4
    <2>2. ASSUME NEW g \in DOMAIN Handles PROVE Handles'[g] = moved[g]
      <3>1. Handles[g] = [node |-> fd_table[g].node, pos |-> fd_table[g].offset] /\ g \in Fds
        BY HandlesAt DEF NodeOf
      <3>2. CASE g = fd
        <4>1. moved[g] = [Handles[g] EXCEPT !.pos = offset]
          BY <3>2
        <4>2. moved[g] = [node |-> fd_table[g].node, pos |-> offset]
          BY <3>1, <4>1
        <4> QED
          BY <1>4, <3>2, <4>2
      <3>3. CASE g # fd
        BY <1>4, <3>1, <3>3
      <3> QED
        BY <3>2, <3>3
    <2> QED
      BY <1>4, <2>1, <2>2
  <1> QED
    BY <1>5 DEF Files!MoveTo

LEMMA ReadRefines ==
  ASSUME IInv, NEW fd \in Fds, Read(fd)
  PROVE  fd \in DOMAIN Handles /\ Files!Read(fd)
  <1>1. InUse(fd) /\ UNCHANGED length
    BY DEF Read
  <1>2. PICK count \in 0 .. (length[NodeOf(fd)] - fd_table[fd].offset) :
           SetOffset(fd, fd_table[fd].offset + count)
    BY DEF Read
  <1> DEFINE pos == fd_table[fd].offset + count
  <1>3. pos \in fd_table[fd].offset .. length[NodeOf(fd)]
    BY <1>1, UsedEntry
  <1>4. Files!MoveTo(fd, pos)
    BY <1>1, <1>2, MoveRefines
  <1>5. fd \in DOMAIN Handles /\ Handles[fd].pos = fd_table[fd].offset /\ Handles[fd].node = NodeOf(fd)
    BY <1>1, HandlesAt
  <1> HIDE DEF pos
  <1> QED
    BY <1>1, <1>3, <1>4, <1>5 DEF Files!Read

LEMMA WriteRefines ==
  ASSUME IInv, NEW fd \in Fds, Write(fd)
  PROVE  fd \in DOMAIN Handles /\ Files!Write(fd)
  <1>1. InUse(fd)
    BY DEF Write
  <1>2. PICK end \in fd_table[fd].offset .. MaxLength :
           /\ SetOffset(fd, end)
           /\ length' = [length EXCEPT ![NodeOf(fd)] = IF end > @ THEN end ELSE @]
    BY DEF Write
  <1>3. Files!MoveTo(fd, end)
    BY <1>1, <1>2, MoveRefines
  <1>4. fd \in DOMAIN Handles /\ Handles[fd].pos = fd_table[fd].offset /\ Handles[fd].node = NodeOf(fd)
    BY <1>1, HandlesAt
  <1> QED
    BY <1>2, <1>3, <1>4 DEF Files!Write

LEMMA SeekRefines ==
  ASSUME IInv, NEW fd \in Fds, NEW move \in Moves, NEW whence \in Whences, Seek(fd, move, whence)
  PROVE  fd \in DOMAIN Handles /\ Files!Seek(fd)
  <1> DEFINE offset == Target(fd, move, whence)
             base == SeekBase(fd, whence)
  <1>1. InUse(fd) /\ UNCHANGED length
    BY DEF Seek
  <1>2. SetOffset(fd, offset)
    BY DEF Seek, Target
  <1>3. /\ base \in {0, fd_table[fd].offset, length[NodeOf(fd)]}
        /\ offset = IF base + move \in 0 .. length[NodeOf(fd)] THEN base + move
                      ELSE length[NodeOf(fd)]
    BY <1>1, TargetInside
  <1> HIDE DEF offset, base
  <1>4. Files!MoveTo(fd, offset)
    BY <1>1, <1>2, MoveRefines
  <1>5. fd \in DOMAIN Handles /\ Handles[fd].pos = fd_table[fd].offset /\ Handles[fd].node = NodeOf(fd)
    BY <1>1, HandlesAt
  <1> QED
    BY <1>1, <1>3, <1>4, <1>5 DEF Files!Seek

\* A node is given to a new file only when nobody has it open.
LEMMA MakeRefines ==
  ASSUME IInv, NEW path \in Paths, NEW n \in Nodes, Make(path, n)
  PROVE  Files!Reuse(n)
  <1>1. UNCHANGED fd_table /\ n \notin Live /\ length' = [length EXCEPT ![n] = 0]
    BY DEF Make
  <1>2. UNCHANGED Handles
    BY <1>1 DEF Handles, InUse, NodeOf
  <1>3. \A fd \in DOMAIN Handles : Handles[fd].node # n
    BY <1>1, HandlesAt DEF IInv, NothingDangles
  <1> QED
    BY <1>1, <1>2, <1>3 DEF Files!Reuse

\* Every step of the code is a step of OpenFiles or changes nothing of it.
LEMMA StepRefines == IInv /\ [Next]_vars => [Files!FilesNext]_<<Handles, length>>
  <1> SUFFICES ASSUME IInv, [Next]_vars PROVE [Files!FilesNext]_<<Handles, length>>
    OBVIOUS
  <1>1. ASSUME UNCHANGED <<fd_table, length>> PROVE UNCHANGED <<Handles, length>>
    BY <1>1 DEF Handles, InUse, NodeOf
  <1>2. CASE SetRoot
    BY <1>1, <1>2 DEF SetRoot
  <1>3. ASSUME NEW path \in Paths, Open(path) PROVE Files!FilesNext
    BY <1>3, OpenRefines DEF Files!FilesNext
  <1>4. ASSUME NEW path \in Paths, OpenFails(path) PROVE UNCHANGED <<Handles, length>>
    BY <1>1, <1>4 DEF OpenFails, NoDescriptor, vars
  <1>5. ASSUME NEW path \in Paths, Unlink(path) PROVE UNCHANGED <<Handles, length>>
    BY <1>1, <1>5 DEF Unlink
  <1>6. ASSUME NEW path \in Paths, NEW n \in Nodes, Make(path, n) PROVE Files!FilesNext
    BY <1>6, MakeRefines DEF Files!FilesNext
  <1>7. ASSUME NEW fd \in Fds, Close(fd) PROVE Files!FilesNext
    BY <1>7, CloseRefines DEF Files!FilesNext
  <1>8. ASSUME NEW fd \in Fds, Read(fd) PROVE Files!FilesNext
    BY <1>8, ReadRefines DEF Files!FilesNext
  <1>9. ASSUME NEW fd \in Fds, Write(fd) PROVE Files!FilesNext
    BY <1>9, WriteRefines DEF Files!FilesNext
  <1>10. ASSUME NEW fd \in Fds, NEW move \in Moves, NEW whence \in Whences, Seek(fd, move, whence)
         PROVE  Files!FilesNext
    BY <1>10, SeekRefines DEF Files!FilesNext
  <1>11. CASE UNCHANGED vars
    BY <1>1, <1>11 DEF vars
  <1> QED
    BY <1>2, <1>3, <1>4, <1>5, <1>6, <1>7, <1>8, <1>9, <1>10, <1>11 DEF Next

\* The table of descriptors, with its sums modulo 2^32 and its entries that are
\* found anew, does what OpenFiles promises.
THEOREM VfsRefinesOpenFiles == Spec => RefinesOpenFiles
  <1>1. Spec => Files!FilesInit
    BY InitRefines DEF Spec
  <1> QED
    BY <1>1, VfsInvariant, StepRefines, PTL DEF Spec, RefinesOpenFiles, Files!FilesSpec
==============================================================================
