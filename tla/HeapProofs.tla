----------------------------- MODULE HeapProofs ------------------------------
(***************************************************************************)
(* Proofs about the heap for every heap size and every set of requests.    *)
(***************************************************************************)
EXTENDS Heap, FiniteSetTheorems, TLAPS

\* A rounded request is at least one word.
LEMMA WordsPositive == ASSUME NEW n \in Sizes PROVE Words(n) \in Nat /\ Words(n) >= 1
  BY HeapAssumption DEF Words

\* The inductive invariant: none of its parts is inductive alone, since a merge
\* keeps the tiling only if next names the neighbour, and keeps the callers'
\* blocks only if used says who they are.
IInv == TypeOK /\ Tiled /\ Coalesced /\ HeldAreUsed /\ FreedInert

\* Every block of the list lies within the heap.
LEMMA BlockBounds ==
  ASSUME TypeOK, Tiled, NEW b \in chain
  PROVE  /\ b \in Addr /\ b \in Int /\ b >= HeapStart /\ HeapStart \in Nat
         /\ HeapStart > 0 /\ HeapEnd \in Nat /\ b < HeapEnd
         /\ size[b] \in Nat /\ size[b] >= 1
         /\ End(b) \in Int /\ End(b) = b + Header + size[b] /\ End(b) <= HeapEnd
         /\ next[b] \in Addr \cup {NULL}
  <1>1. b \in Addr /\ size[b] \in Nat /\ size[b] >= 1 /\ next[b] \in Addr \cup {NULL}
    BY DEF TypeOK, Tiled
  <1>2. b \in Int /\ b >= HeapStart /\ HeapStart \in Nat /\ HeapStart > 0
        /\ HeapEnd \in Nat /\ b < HeapEnd
    BY <1>1, HeapAssumption DEF Addr, HeapEnd
  <1>3. End(b) \in Int /\ End(b) = b + Header + size[b]
    BY <1>1, <1>2 DEF End, Header
  <1>4. End(b) = HeapEnd \/ End(b) \in Addr
    BY DEF Tiled, TypeOK
  <1>5. End(b) <= HeapEnd
    BY <1>2, <1>4 DEF Addr
  <1> QED
    BY <1>1, <1>2, <1>3, <1>5

\* A next pointer is null at the end of the heap and nowhere else.
LEMMA NextBlock ==
  ASSUME TypeOK, Tiled, NEW b \in chain
  PROVE  \/ next[b] = NULL /\ End(b) = HeapEnd
         \/ next[b] # NULL /\ next[b] \in chain /\ next[b] = End(b) /\ next[b] > b
  <1>1. CASE End(b) = HeapEnd /\ next[b] = NULL
    BY <1>1
  <1>2. CASE End(b) \in chain /\ next[b] = End(b)
    <2>1. End(b) > b /\ End(b) > 0
      BY BlockBounds DEF Header
    <2> QED
      BY <1>2, <2>1 DEF NULL
  <1> QED
    BY <1>1, <1>2 DEF Tiled

\* heap_init makes the one free block the invariant allows.
LEMMA InitIInv == Init => IInv
  <1> SUFFICES ASSUME Init PROVE IInv
    OBVIOUS
  <1> USE HeapAssumption DEF Init, Addr, HeapEnd, Header, NULL
  <1>1. TypeOK
    BY DEF TypeOK
  <1>2. Tiled
    BY DEF Tiled, End
  <1>3. Coalesced
    BY DEF Coalesced
  <1>4. HeldAreUsed
    BY DEF HeldAreUsed
  <1>5. FreedInert
    BY DEF FreedInert
  <1> QED
    BY <1>1, <1>2, <1>3, <1>4, <1>5 DEF IInv

\* Facts about a split of a free block b for w words: the new header lies
\* strictly inside b, so nothing else on the list is touched.
LEMMA SplitIInv ==
  ASSUME IInv, NEW n \in Sizes, NEW b \in chain, ~used[b], size[b] >= Words(n),
         Split(b, Words(n)), held' = [held EXCEPT ![b + Header] = n]
  PROVE  IInv'
  <1> DEFINE w == Words(n)
             new == b + Header + w
  <1> USE HeapAssumption DEF Header, NULL
  <1>1. /\ w \in Nat /\ w >= 1
        /\ b \in Addr /\ HeapStart \in Nat /\ HeapEnd \in Nat
        /\ size[b] \in Nat /\ size[b] > w + Header + 1
        /\ End(b) <= HeapEnd
    BY WordsPositive, BlockBounds DEF IInv, Split, Remains
  <1>2. /\ new \in Addr /\ new > b /\ new < End(b) /\ new + Header + 1 < End(b)
        /\ new # b /\ b + Header \in Addr
    BY <1>1 DEF End, Addr, HeapEnd
  <1>3. new \notin chain
    <2> SUFFICES ASSUME new \in chain PROVE FALSE
      OBVIOUS
    <2>1. End(b) <= new
      BY <1>2 DEF IInv, Tiled
    <2> QED
      BY <2>1, <1>1, <1>2, BlockBounds DEF IInv
  <1>4. /\ size' = [size EXCEPT ![b] = w, ![new] = size[b] - w - Header]
        /\ used' = [used EXCEPT ![b] = TRUE, ![new] = FALSE]
        /\ next' = [next EXCEPT ![b] = new, ![new] = next[b]]
        /\ chain' = chain \cup {new}
        /\ heap_used' = heap_used + w
        /\ freed' = Spared(b, new + Header - 1)
        /\ held' = [held EXCEPT ![b + Header] = n]
    BY DEF Split, Remains
  <1> HIDE DEF w, new
  <1>5. TypeOK'
    <2>1. size[b] - w - Header \in Nat
      BY <1>1
    <2>2. size' \in [Addr -> Nat] /\ used' \in [Addr -> BOOLEAN]
      BY <1>1, <1>4, <2>1 DEF IInv, TypeOK
    <2>3. next' \in [Addr -> Addr \cup {NULL}] /\ chain' \in SUBSET Addr
      BY <1>1, <1>2, <1>4 DEF IInv, TypeOK
    <2>4. heap_used' \in Int
      BY <1>1, <1>4 DEF IInv, TypeOK
    <2>5. held' \in [Addr -> Sizes \cup {0}]
      BY <1>2, <1>4 DEF IInv, TypeOK
    <2>6. freed' \in SUBSET Addr
      BY <1>4 DEF IInv, TypeOK, Spared
    <2> QED
      BY <2>2, <2>3, <2>4, <2>5, <2>6 DEF TypeOK
  <1>6. /\ size'[b] = w /\ size'[new] = size[b] - w - Header
        /\ used'[b] /\ ~used'[new] /\ next'[b] = new /\ next'[new] = next[b]
        /\ \A c \in chain : c # b => size'[c] = size[c] /\ used'[c] = used[c] /\ next'[c] = next[c]
    BY <1>1, <1>2, <1>3, <1>4 DEF IInv, TypeOK
  <1>7. End(b)' = new /\ End(new)' = End(b) /\ \A c \in chain : c # b => End(c)' = End(c)
    BY <1>1, <1>2, <1>6, BlockBounds DEF IInv, End, new
  <1>8. Tiled'
    <2>1. (HeapStart \in chain)'
      BY <1>4 DEF IInv, Tiled
    <2>2. ASSUME NEW c \in chain'
          PROVE  /\ size'[c] >= 1
                 /\ \/ End(c)' = HeapEnd /\ next'[c] = NULL
                    \/ End(c)' \in chain' /\ next'[c] = End(c)'
      <3>1. CASE c = b
        BY <3>1, <1>1, <1>4, <1>6, <1>7
      <3>2. CASE c = new
        <4>1. size'[c] >= 1
          BY <3>2, <1>1, <1>6
        <4>2. End(c)' = End(b) /\ next'[c] = next[b]
          BY <3>2, <1>6, <1>7
        <4> QED
          BY <4>1, <4>2, <1>4 DEF IInv, Tiled
      <3>3. CASE c \in chain /\ c # b
        <4>1. /\ size[c] >= 1
              /\ \/ End(c) = HeapEnd /\ next[c] = NULL
                 \/ End(c) \in chain /\ next[c] = End(c)
          BY <3>3 DEF IInv, Tiled
        <4>2. size'[c] = size[c] /\ next'[c] = next[c] /\ End(c)' = End(c)
          BY <3>3, <1>6, <1>7
        <4> QED
          BY <4>1, <4>2, <1>4
      <3> QED
        BY <3>1, <3>2, <3>3, <1>4
    <2>3. ASSUME NEW c \in chain', NEW d \in chain', c < d
          PROVE  End(c)' <= d
      <3> DEFINE last == IF c = new THEN b ELSE c
      <3>1. last \in chain /\ last \in Int /\ End(last) \in Int /\ new \in Int /\ b \in Int /\ End(b) \in Int
        BY <1>2, <1>4, BlockBounds DEF IInv, Addr
      <3>2. CASE d = new
        <4>1. c \in chain
          BY <2>3, <3>1, <3>2, <1>4
        <4>2. CASE c = b
          BY <4>2, <3>2, <3>1, <1>7
        <4>3. CASE c < b
          BY <4>1, <4>3, <3>1, <3>2, <1>2, <1>7, BlockBounds DEF IInv, Tiled
        <4>4. CASE b < c
          BY <4>1, <4>4, <3>1, <3>2, <1>2, <2>3, BlockBounds DEF IInv, Tiled
        <4> QED
          BY <4>1, <4>2, <4>3, <4>4, <3>1, BlockBounds DEF IInv
      <3>3. CASE d \in chain
        <4>1. d \in Int /\ last < d
          BY <3>1, <3>3, <2>3, <1>2, BlockBounds DEF IInv
        <4>2. End(last) <= d
          BY <4>1, <3>1, <3>3 DEF IInv, Tiled
        <4>3. End(c)' <= End(last) /\ End(c)' \in Int
          BY <3>1, <1>2, <1>4, <1>7
        <4> QED
          BY <4>1, <4>2, <4>3, <3>1
      <3> QED
        BY <3>2, <3>3, <1>4
    <2>4. ASSUME NEW a \in Addr
          PROVE  \E c \in chain' : c <= a /\ a < End(c)'
      <3>1. PICK c \in chain : c <= a /\ a < End(c)
        BY DEF IInv, Tiled
      <3>2. CASE c # b
        BY <3>1, <3>2, <1>4, <1>7
      <3>3. CASE c = b /\ a < new
        BY <3>1, <3>3, <1>4, <1>7
      <3>4. CASE c = b /\ ~(a < new)
        <4>1. new <= a /\ a < End(new)' /\ new \in chain'
          BY <3>1, <3>4, <1>2, <1>4, <1>7 DEF Addr
        <4> QED
          BY <4>1
      <3> QED
        BY <3>2, <3>3, <3>4
    <2> QED
      BY <2>1, <2>2, <2>3, <2>4 DEF Tiled
  <1>9. Coalesced'
    <2> SUFFICES ASSUME NEW c \in chain', next'[c] # NULL
                 PROVE  used'[c] \/ used'[next'[c]]
      BY DEF Coalesced
    <2>1. CASE c = b
      BY <2>1, <1>6
    <2>2. CASE c = new
      <3>1. next'[c] = next[b] /\ next[b] \in chain /\ next[b] > b /\ b \in Int
        BY <2>2, <1>6, NextBlock, BlockBounds DEF IInv
      <3>2. used[next[b]]
        BY <3>1, <2>2, <1>6 DEF IInv, Coalesced
      <3> QED
        BY <3>1, <3>2, <1>6
    <2>3. CASE c \in chain /\ c # b
      <3>1. next'[c] = next[c] /\ next[c] \in chain
        BY <2>3, <1>6, NextBlock DEF IInv
      <3>2. used[c] \/ used[next[c]]
        BY <3>1, <2>3 DEF IInv, Coalesced
      <3> QED
        BY <3>1, <3>2, <2>3, <1>6
    <2> QED
      BY <2>1, <2>2, <2>3, <1>4
  <1>10. HeldAreUsed'
    <2> SUFFICES ASSUME NEW p \in Addr
                 PROVE  /\ held'[p] # 0 <=> p - Header \in chain' /\ used'[p - Header]
                        /\ held'[p] # 0 => Words(held'[p]) <= size'[p - Header]
      BY DEF HeldAreUsed
    <2>1. p \in Int /\ b \in Int /\ n # 0
      BY <1>1 DEF Addr
    <2>2. CASE p - Header = b
      <3>1. p = b + Header
        BY <2>1, <2>2
      <3>2. held'[p] = n
        BY <3>1, <1>4 DEF IInv, TypeOK
      <3> QED
        <4>1. Words(n) <= w
          BY <1>1 DEF w
        <4>2. held'[p] # 0 /\ Words(held'[p]) <= size'[b]
          BY <4>1, <3>2, <2>1, <1>6
        <4> QED
          BY <4>2, <2>2, <1>4, <1>6
    <2>3. CASE p - Header = new
      <3>1. held'[p] = held[p]
        BY <2>1, <2>3, <1>2, <1>4 DEF IInv, TypeOK
      <3> QED
        BY <2>3, <3>1, <1>3, <1>6 DEF IInv, HeldAreUsed
    <2>4. CASE p - Header # b /\ p - Header # new
      <3>1. held'[p] = held[p]
        BY <2>1, <2>4, <1>4 DEF IInv, TypeOK
      <3> QED
        BY <2>4, <3>1, <1>4, <1>6 DEF IInv, HeldAreUsed
    <2> QED
      BY <2>2, <2>3, <2>4
  <1>11. FreedInert'
    <2> SUFFICES ASSUME NEW p \in freed' PROVE p - Header \in Addr /\ ~used'[p - Header]
      BY DEF FreedInert
    <2>1. p \in freed /\ p \in Int /\ b \in Int /\ new \in Int /\ b < new
          /\ (p <= b \/ p - Header > new + Header - 1)
      BY <1>1, <1>2, <1>4 DEF Spared, IInv, TypeOK, Addr
    <2>2. p - Header # b /\ p - Header # new
      BY <2>1
    <2> QED
      BY <2>1, <2>2, <1>4 DEF IInv, FreedInert, TypeOK
  <1> QED
    BY <1>5, <1>8, <1>9, <1>10, <1>11 DEF IInv

\* Taking a block whole changes nothing but its mark and its owner.
LEMMA TakeWholeIInv ==
  ASSUME IInv, NEW n \in Sizes, NEW b \in chain, ~used[b], size[b] >= Words(n),
         TakeWhole(b, Words(n)), held' = [held EXCEPT ![b + Header] = n]
  PROVE  IInv'
  <1> USE HeapAssumption DEF Header, NULL
  <1>1. /\ b \in Addr /\ b \in Int /\ n # 0 /\ b + Header \in Addr
        /\ used' = [used EXCEPT ![b] = TRUE]
        /\ size' = size /\ next' = next /\ chain' = chain
    BY BlockBounds DEF IInv, TakeWhole, Remains, Counted, Addr
  <1>2. /\ freed' \in SUBSET freed
        /\ \A p \in freed' : p <= b \/ p - Header > End(b) - 1
    BY DEF TakeWhole, Remains, Counted, Spared
  <1>3. TypeOK'
    <2>1. used' \in [Addr -> BOOLEAN]
      BY <1>1 DEF IInv, TypeOK
    <2>2. heap_used' \in Int
      BY BlockBounds DEF IInv, TypeOK, TakeWhole, Remains, Counted
    <2>3. held' \in [Addr -> Sizes \cup {0}]
      BY DEF IInv, TypeOK
    <2>4. freed' \in SUBSET Addr
      BY <1>2 DEF IInv, TypeOK
    <2> QED
      BY <1>1, <2>1, <2>2, <2>3, <2>4 DEF IInv, TypeOK
  <1>4. Tiled'
    BY <1>1 DEF IInv, Tiled, End
  <1>5. used'[b] /\ \A a \in Addr : a # b => used'[a] = used[a]
    BY <1>1 DEF IInv, TypeOK
  <1>6. Coalesced'
    BY <1>1, <1>5, NextBlock DEF IInv, Coalesced, TypeOK
  <1>7. HeldAreUsed'
    <2> SUFFICES ASSUME NEW p \in Addr
                 PROVE  /\ held'[p] # 0 <=> p - Header \in chain' /\ used'[p - Header]
                        /\ held'[p] # 0 => Words(held'[p]) <= size'[p - Header]
      BY DEF HeldAreUsed
    <2>1. CASE p - Header = b
      <3>1. p = b + Header
        BY <2>1, <1>1 DEF Addr
      <3>2. held'[p] = n
        BY <3>1 DEF IInv, TypeOK
      <3> QED
        BY <2>1, <3>2, <1>1, <1>5
    <2>2. CASE p - Header # b
      <3>1. held'[p] = held[p]
        BY <2>2, <1>1 DEF IInv, TypeOK, Addr
      <3> QED
        BY <2>2, <3>1, <1>1, <1>5 DEF IInv, HeldAreUsed, TypeOK
    <2> QED
      BY <2>1, <2>2
  <1>8. FreedInert'
    <2> SUFFICES ASSUME NEW p \in freed' PROVE p - Header \in Addr /\ ~used'[p - Header]
      BY DEF FreedInert
    <2>1. p \in freed /\ p - Header \in Addr /\ ~used[p - Header]
      BY <1>2 DEF IInv, FreedInert
    <2>2. p \in Int /\ (p <= b \/ p - Header > End(b) - 1)
      BY <1>2, <2>1 DEF IInv, TypeOK, Addr
    <2>3. End(b) \in Int /\ End(b) > b
      BY BlockBounds DEF IInv
    <2>4. p - Header # b
      BY <1>1, <2>2, <2>3
    <2> QED
      BY <2>1, <2>4, <1>5
  <1> QED
    BY <1>3, <1>4, <1>6, <1>7, <1>8 DEF IInv

-----------------------------------------------------------------------------
(* Merging.  kfree merges up to twice, so the tiling is stated of any sizes *)
(* sz, links nx and set ch of blocks, and shown to survive one merge.       *)

Reach(sz, b) == b + Header + sz[b]

Tiling(sz, nx, ch) ==
    /\ sz \in [Addr -> Nat] /\ nx \in [Addr -> Addr \cup {NULL}] /\ ch \in SUBSET Addr
    /\ HeapStart \in ch
    /\ \A b \in ch :
        /\ sz[b] >= 1
        /\ \/ Reach(sz, b) = HeapEnd /\ nx[b] = NULL
           \/ Reach(sz, b) \in ch /\ nx[b] = Reach(sz, b)
    /\ \A b, c \in ch : b < c => Reach(sz, b) <= c
    /\ \A a \in Addr : \E b \in ch : b <= a /\ a < Reach(sz, b)

\* The parametrised tiling, at the variables, is the property Tiled.
LEMMA TilingIsTiled ==
    TypeOK => (Tiled <=> Tiling(size, next, chain))
  BY DEF TypeOK, Tiled, Tiling, Reach, End

\* sz2, nx2, ch2 is the list after block b has absorbed its successor.
Merged(sz, nx, ch, b, sz2, nx2, ch2) ==
    /\ sz2 \in [Addr -> Nat] /\ nx2 \in [Addr -> Addr \cup {NULL}]
    /\ ch2 = ch \ {nx[b]}
    /\ sz2[b] = sz[b] + Header + sz[nx[b]]
    /\ nx2[b] = nx[nx[b]]
    /\ \A c \in ch2 : c # b => sz2[c] = sz[c] /\ nx2[c] = nx[c]

\* Absorbing the right-hand neighbour keeps the tiling.
LEMMA MergeTiling ==
  ASSUME NEW sz, NEW nx, NEW ch, Tiling(sz, nx, ch),
         NEW b \in ch, nx[b] # NULL,
         NEW sz2, NEW nx2, NEW ch2, Merged(sz, nx, ch, b, sz2, nx2, ch2)
  PROVE  Tiling(sz2, nx2, ch2)
  <1> DEFINE n == nx[b]
  <1> USE HeapAssumption DEF Header, NULL
  <1>1. /\ HeapStart \in Nat /\ HeapStart > 0 /\ HeapEnd \in Nat
        /\ \A a \in Addr : a \in Int /\ a >= HeapStart /\ a < HeapEnd
    BY DEF Addr, HeapEnd
  <1>2. \A c \in ch : /\ c \in Addr /\ c \in Int /\ sz[c] \in Nat /\ sz[c] >= 1
                      /\ Reach(sz, c) \in Int /\ Reach(sz, c) = c + Header + sz[c]
    BY <1>1 DEF Tiling, Reach
  <1>3. n \in ch /\ n = Reach(sz, b) /\ n > b
    BY <1>2 DEF Tiling
  <1>4. /\ b \in ch2 /\ n \notin ch2 /\ ch2 = ch \ {n} /\ nx2[b] = nx[n]
        /\ sz2[b] = sz[b] + Header + sz[n]
        /\ \A c \in ch2 : c # b => sz2[c] = sz[c] /\ nx2[c] = nx[c]
    BY <1>2, <1>3 DEF Merged
  <1>5. Reach(sz2, b) = Reach(sz, n) /\ \A c \in ch2 : c # b => Reach(sz2, c) = Reach(sz, c)
    <2>1. Reach(sz2, b) = b + Header + (sz[b] + Header + sz[n])
      BY <1>4 DEF Reach
    <2>2. Reach(sz, n) = (b + Header + sz[b]) + Header + sz[n]
      BY <1>2, <1>3
    <2> QED
      BY <2>1, <2>2, <1>2, <1>3, <1>4 DEF Reach
  <1> HIDE DEF n
  <1>6. HeapStart \in ch2
    BY <1>1, <1>2, <1>3, <1>4 DEF Tiling
  <1>7. ASSUME NEW c \in ch2
        PROVE  /\ sz2[c] >= 1
               /\ \/ Reach(sz2, c) = HeapEnd /\ nx2[c] = NULL
                  \/ Reach(sz2, c) \in ch2 /\ nx2[c] = Reach(sz2, c)
    <2>1. CASE c = b
      <3>1. sz2[c] >= 1
        BY <2>1, <1>2, <1>3, <1>4
      <3>2. Reach(sz, n) # n
        BY <1>2, <1>3
      <3> QED
        BY <2>1, <3>1, <3>2, <1>3, <1>4, <1>5 DEF Tiling
    <2>2. CASE c # b
      <3>1. c \in ch /\ sz2[c] = sz[c] /\ nx2[c] = nx[c] /\ Reach(sz2, c) = Reach(sz, c)
        BY <2>2, <1>4, <1>5
      <3>2. Reach(sz, c) # n
        <4>1. CASE c < b
          BY <4>1, <3>1, <1>2, <1>3 DEF Tiling
        <4>2. CASE c > b
          <5>1. n <= c
            BY <4>2, <3>1, <1>3 DEF Tiling
          <5> QED
            BY <5>1, <3>1, <1>2, <1>3
        <4> QED
          BY <4>1, <4>2, <2>2, <3>1, <1>2
      <3> QED
        BY <3>1, <3>2, <1>4 DEF Tiling
    <2> QED
      BY <2>1, <2>2
  <1>8. ASSUME NEW c \in ch2, NEW d \in ch2, c < d
        PROVE  Reach(sz2, c) <= d
    <2>1. CASE c # b
      BY <2>1, <1>8, <1>4, <1>5 DEF Tiling
    <2>2. CASE c = b
      <3>1. n <= d /\ n # d /\ d \in ch
        BY <2>2, <1>8, <1>3, <1>4 DEF Tiling
      <3>2. n < d
        BY <3>1, <1>2, <1>3
      <3> QED
        BY <2>2, <3>1, <3>2, <1>3, <1>5 DEF Tiling
    <2> QED
      BY <2>1, <2>2
  <1>9. ASSUME NEW a \in Addr
        PROVE  \E c \in ch2 : c <= a /\ a < Reach(sz2, c)
    <2>1. PICK c \in ch : c <= a /\ a < Reach(sz, c)
      BY DEF Tiling
    <2>2. CASE c # b /\ c # n
      BY <2>1, <2>2, <1>4, <1>5
    <2>3. CASE c = n
      BY <2>1, <2>3, <1>1, <1>2, <1>3, <1>4, <1>5
    <2>4. CASE c = b
      <3>1. Reach(sz, b) <= Reach(sz, n)
        BY <1>2, <1>3
      <3>2. a < Reach(sz, n)
        BY <2>1, <2>4, <3>1, <1>1, <1>2, <1>3
      <3> QED
        BY <2>1, <2>4, <3>2, <1>4, <1>5
    <2> QED
      BY <2>2, <2>3, <2>4
  <1>10. sz2 \in [Addr -> Nat] /\ nx2 \in [Addr -> Addr \cup {NULL}] /\ ch2 \in SUBSET Addr
    BY DEF Merged, Tiling
  <1> QED
    BY <1>6, <1>7, <1>8, <1>9, <1>10 DEF Tiling

\* A free predecessor is the one block whose next is b.
LEMMA OnePrevious ==
  ASSUME IInv, NEW b \in chain, NEW c \in FreePrev(b), NEW d \in FreePrev(b)
  PROVE  c = d
  <1>1. c \in chain /\ d \in chain /\ next[c] = b /\ next[d] = b
    BY DEF FreePrev
  <1>2. b \in Int /\ c \in Int /\ d \in Int /\ b # NULL
    BY <1>1, BlockBounds DEF IInv, NULL
  <1>3. End(c) = b /\ End(d) = b /\ c < b /\ d < b
    BY <1>1, <1>2, NextBlock DEF IInv
  <1> QED
    BY <1>1, <1>2, <1>3 DEF IInv, Tiled

\* Freeing a used block, with the one or two merges that follow, keeps the
\* tiling, leaves no two free neighbours and touches no other used block.
LEMMA FreeBlockIInv ==
  ASSUME IInv, NEW p \in Addr, p - Header \in chain, used[p - Header],
         FreeBlock(p - Header), held' = [held EXCEPT ![p] = 0], freed' \in {freed, {p}}
  PROVE  IInv'
  <1> DEFINE b == p - Header
             eats == MergeNext(b)
             n == next[b]
             size1 == IF eats THEN size[b] + Header + size[next[b]] ELSE size[b]
             next1 == IF eats THEN next[next[b]] ELSE next[b]
             prev == FreePrev(b)
  <1> USE HeapAssumption DEF Header, NULL
  <1>1. /\ used' = [used EXCEPT ![b] = FALSE]
        /\ heap_used' = heap_used - size[b]
        /\ chain' = {c \in chain : ~(eats /\ c = n) /\ ~(prev # {} /\ c = b)}
        /\ size' = [a \in Addr |-> IF a \notin chain' THEN 0
                                   ELSE IF a \in prev THEN size[a] + Header + size1
                                   ELSE IF a = b THEN size1 ELSE size[a]]
        /\ next' = [a \in Addr |-> IF a \notin chain' THEN NULL
                                   ELSE IF a \in prev \cup {b} THEN next1 ELSE next[a]]
    BY DEF FreeBlock, Unmarked, Absorbed
  <1>2. /\ b \in chain /\ used[b]
        /\ n = NULL \/ (n \in chain /\ n > b)
        /\ eats <=> n # NULL /\ ~used[n]
        /\ \A c \in prev : c \in chain /\ next[c] = b /\ ~used[c] /\ c < b
        /\ \A c \in chain : c \in Addr /\ c \in Int /\ size[c] \in Nat /\ next[c] \in Addr \cup {NULL}
    <2>a. b \in chain /\ used[b]
      OBVIOUS
    <2>b. ASSUME NEW c \in chain
          PROVE  c \in Addr /\ c \in Int /\ size[c] \in Nat /\ next[c] \in Addr \cup {NULL}
      BY BlockBounds DEF IInv
    <2>1. /\ b \in chain /\ used[b]
          /\ \A c \in chain : c \in Addr /\ c \in Int /\ size[c] \in Nat /\ next[c] \in Addr \cup {NULL}
      BY <2>a, <2>b
    <2>2. n = NULL \/ (n \in chain /\ n > b)
      BY <2>1, NextBlock DEF IInv
    <2>3. eats <=> n # NULL /\ ~used[n]
      BY DEF MergeNext
    <2>4. ASSUME NEW c \in prev PROVE c \in chain /\ next[c] = b /\ ~used[c] /\ c < b
      <3>1. c \in chain /\ next[c] = b /\ ~used[c]
        BY DEF FreePrev
      <3>2. b # NULL
        BY <2>1, BlockBounds DEF IInv
      <3> QED
        BY <3>1, <3>2, <2>1, NextBlock DEF IInv
    <2> QED
      BY <2>1, <2>2, <2>3, <2>4
  <1>3. \A c, d \in prev : c = d
    BY <1>2, OnePrevious
  <1> HIDE DEF b, eats, n, prev
  <1>4. /\ size1 \in Nat /\ next1 \in Addr \cup {NULL}
        /\ size1 = IF eats THEN size[b] + Header + size[n] ELSE size[b]
        /\ next1 = IF eats THEN next[n] ELSE next[b]
    BY <1>2 DEF n
  <1> HIDE DEF size1, next1
  <1>5. size' \in [Addr -> Nat] /\ next' \in [Addr -> Addr \cup {NULL}] /\ chain' \in SUBSET chain
    <2>1. \A a \in Addr : a \in prev => size[a] + Header + size1 \in Nat
      BY <1>2, <1>4
    <2>2. size \in [Addr -> Nat] /\ next \in [Addr -> Addr \cup {NULL}]
      BY DEF IInv, TypeOK
    <2>3. size' \in [Addr -> Nat]
      BY <1>1, <1>4, <2>1, <2>2
    <2>4. next' \in [Addr -> Addr \cup {NULL}]
      BY <1>1, <1>4, <2>2
    <2> QED
      BY <1>1, <2>3, <2>4
  <1>6. TypeOK'
    <2>1. used' \in [Addr -> BOOLEAN]
      BY <1>1 DEF IInv, TypeOK
    <2>2. heap_used' \in Int
      BY <1>1, <1>2 DEF IInv, TypeOK
    <2>3. held' \in [Addr -> Sizes \cup {0}] /\ freed' \in SUBSET Addr
      BY DEF IInv, TypeOK
    <2> QED
      BY <1>5, <2>1, <2>2, <2>3 DEF IInv, TypeOK
  \* One merge or two: the list after the first is nx1, sz1, ch1.
  <1>7. Tiling(size', next', chain')
    <2>1. Tiling(size, next, chain)
      BY TilingIsTiled DEF IInv
    <2> DEFINE sz1 == [a \in Addr |-> IF a = b THEN size1 ELSE size[a]]
               nx1 == [a \in Addr |-> IF a = b THEN next1 ELSE next[a]]
               ch1 == IF eats THEN chain \ {n} ELSE chain
    <2>2. sz1 \in [Addr -> Nat] /\ nx1 \in [Addr -> Addr \cup {NULL}]
      BY <1>4 DEF IInv, TypeOK
    <2>3. Tiling(sz1, nx1, ch1)
      <3>1. CASE eats
        <4>1. Merged(size, next, chain, b, sz1, nx1, ch1)
          BY <3>1, <1>2, <1>4, <2>2 DEF Merged, n
        <4>2. next[b] # NULL /\ b \in chain
          BY <3>1, <1>2 DEF n
        <4> HIDE DEF sz1, nx1, ch1
        <4> QED
          BY <2>1, <4>1, <4>2, MergeTiling
      <3>2. CASE ~eats
        <4>1. sz1 = size /\ nx1 = next /\ ch1 = chain
          BY <3>2, <1>4 DEF IInv, TypeOK
        <4> QED
          BY <4>1, <2>1
      <3> QED
        BY <3>1, <3>2
    <2>4. CASE prev = {}
      <3>1. chain' = ch1 /\ \A c \in ch1 : size'[c] = sz1[c] /\ next'[c] = nx1[c]
        BY <2>4, <1>1, <1>2
      <3> HIDE DEF sz1, nx1, ch1
      <3> QED
        BY <3>1, <2>3, <1>5 DEF Tiling, Reach
    <2>5. CASE prev # {}
      <3>1. PICK c \in prev : TRUE
        BY <2>5
      <3>2. /\ prev = {c} /\ c \in chain /\ next[c] = b /\ c # b /\ c # n /\ c \in Addr
            /\ b \in Addr
        <4>1. prev = {c} /\ c \in chain /\ next[c] = b /\ c < b
          BY <3>1, <1>2, <1>3
        <4>2. c \in Addr /\ b \in Addr /\ c \in Int /\ b \in Int /\ c # NULL
          BY <4>1, <1>2, BlockBounds DEF IInv
        <4>3. c # b /\ c # n
          BY <4>1, <4>2, <1>2
        <4> QED
          BY <4>1, <4>2, <4>3
      <3>3. chain' = ch1 \ {b} /\ c \in ch1 /\ b \in ch1
        BY <3>2, <1>1, <1>2
      <3>4. sz1[b] = size1 /\ nx1[b] = next1 /\ nx1[c] = b /\ sz1[c] = size[c]
        BY <3>2
      <3>5. c \in chain' /\ size'[c] = size[c] + Header + size1 /\ next'[c] = next1
        BY <3>2, <3>3, <1>1
      <3>6. \A d \in chain' : d # c => size'[d] = sz1[d] /\ next'[d] = nx1[d]
        BY <3>2, <3>3, <1>1, <1>2
      <3> HIDE DEF sz1, nx1, ch1
      <3>7. Merged(sz1, nx1, ch1, c, size', next', chain')
        BY <3>3, <3>4, <3>5, <3>6, <1>5 DEF Merged
      <3>8. nx1[c] # NULL
        BY <3>4, <3>2, <1>2, BlockBounds DEF IInv
      <3> QED
        BY <2>3, <3>3, <3>7, <3>8, MergeTiling
    <2> QED
      BY <2>4, <2>5
  <1>8. Tiled'
    BY <1>5, <1>7, <1>6, TilingIsTiled DEF Tiled, Tiling, Reach, End, IInv
  <1>9. ~used'[b] /\ \A a \in Addr : a # b => used'[a] = used[a]
    BY <1>1, <1>2 DEF IInv, TypeOK
  <1>10. HeldAreUsed'
    <2> SUFFICES ASSUME NEW q \in Addr
                 PROVE  /\ held'[q] # 0 <=> q - Header \in chain' /\ used'[q - Header]
                        /\ held'[q] # 0 => Words(held'[q]) <= size'[q - Header]
      BY DEF HeldAreUsed
    <2>1. CASE q = p
      BY <2>1, <1>9 DEF IInv, TypeOK, b
    <2>2. CASE q # p
      <3>1. held'[q] = held[q] /\ q - Header # b
        BY <2>2 DEF IInv, TypeOK, b, Addr
      <3>2. q - Header \in chain /\ used[q - Header] <=> q - Header \in chain' /\ used'[q - Header]
        BY <3>1, <1>1, <1>2, <1>9
      <3>3. ASSUME held[q] # 0 PROVE Words(held[q]) <= size'[q - Header]
        <4>1. q - Header \in chain /\ used[q - Header] /\ Words(held[q]) <= size[q - Header]
          BY <3>3 DEF IInv, HeldAreUsed
        <4>2. size'[q - Header] = size[q - Header]
          BY <4>1, <3>1, <3>2, <1>1, <1>2
        <4> QED
          BY <4>1, <4>2
      <3> QED
        BY <3>1, <3>2, <3>3 DEF IInv, HeldAreUsed
    <2> QED
      BY <2>1, <2>2
  <1>11. FreedInert'
    <2> SUFFICES ASSUME NEW q \in freed' PROVE q - Header \in Addr /\ ~used'[q - Header]
      BY DEF FreedInert
    <2>1. CASE q = p
      BY <2>1, <1>2, <1>9 DEF b
    <2>2. CASE q \in freed
      BY <2>2, <1>9 DEF IInv, FreedInert
    <2> QED
      BY <2>1, <2>2
  <1>12. Coalesced'
    <2> SUFFICES ASSUME NEW c \in chain', next'[c] # NULL PROVE used'[c] \/ used'[next'[c]]
      BY DEF Coalesced
    <2>1. CASE c \in prev \cup {b}
      <3>1. next'[c] = next1 /\ next1 # NULL
        BY <2>1, <1>1, <1>5, <1>2
      <3>2. CASE eats
        <4>1. n \in chain /\ n > b /\ ~used[n] /\ next1 = next[n]
          BY <3>2, <1>2, <1>4
        <4>2. next1 \in chain /\ next1 > n /\ used[next1]
          BY <4>1, <3>1, NextBlock DEF IInv, Coalesced
        <4> QED
          BY <3>1, <4>1, <4>2, <1>2, <1>9
      <3>3. CASE ~eats
        BY <3>1, <3>3, <1>2, <1>4, <1>9 DEF n
      <3> QED
        BY <3>2, <3>3
    <2>2. CASE c \notin prev \cup {b}
      <3>1. c \in chain /\ next'[c] = next[c] /\ next[c] \in chain
        BY <2>2, <1>1, <1>2, <1>5, NextBlock DEF IInv
      <3>2. used[c] \/ used[next[c]]
        BY <3>1, <2>2 DEF IInv, Coalesced
      <3>3. CASE next[c] = b
        BY <3>1, <3>3, <2>2, <1>2, <1>9 DEF prev, FreePrev
      <3>4. CASE next[c] # b
        BY <3>1, <3>2, <3>4, <2>2, <1>2, <1>9
      <3> QED
        BY <3>3, <3>4
    <2> QED
      BY <2>1, <2>2
  <1> QED
    BY <1>6, <1>8, <1>10, <1>11, <1>12 DEF IInv

-----------------------------------------------------------------------------
\* kfree acts only on a pointer somebody holds: a pointer freed already is
\* inert.
LEMMA KfreeCases ==
  ASSUME IInv, NEW p \in Addr, Kfree(p)
  PROVE  \/ /\ held[p] # 0 /\ p - Header \in chain /\ used[p - Header]
            /\ FreeBlock(p - Header)
            /\ held' = [held EXCEPT ![p] = 0] /\ freed' \in {freed, {p}}
         \/ UNCHANGED vars
  <1>1. CASE used[p - Header]
    <2>1. held[p] # 0
      BY <1>1 DEF Kfree, IInv, FreedInert
    <2>2. freed' \in {freed, {p}}
      BY <1>1 DEF Kfree, IInv, TypeOK
    <2> QED
      BY <1>1, <2>1, <2>2 DEF Kfree, IInv, HeldAreUsed
  <1>2. CASE ~used[p - Header]
    BY <1>2 DEF Kfree
  <1> QED
    BY <1>1, <1>2

\* Every call of kmalloc and kfree keeps the inductive invariant.
LEMMA NextIInv == IInv /\ [Next]_vars => IInv'
  <1> SUFFICES ASSUME IInv, [Next]_vars PROVE IInv'
    OBVIOUS
  <1>1. ASSUME NEW n \in Sizes, Kmalloc(n) PROVE IInv'
    <2>1. PICK b \in FirstFit(Words(n)) :
            /\ Split(b, Words(n)) \/ TakeWhole(b, Words(n))
            /\ held' = [held EXCEPT ![b + Header] = n]
      BY <1>1 DEF Kmalloc
    <2>2. b \in chain /\ ~used[b] /\ size[b] >= Words(n)
      BY DEF FirstFit, Fitting
    <2> QED
      BY <2>1, <2>2, SplitIInv, TakeWholeIInv
  <1>2. ASSUME NEW p \in Addr, Kfree(p) PROVE IInv'
    <2>1. CASE UNCHANGED vars
      BY <2>1 DEF vars, IInv, TypeOK, Tiled, Coalesced, HeldAreUsed, FreedInert, End
    <2> QED
      BY <1>2, <2>1, KfreeCases, FreeBlockIInv
  <1>3. CASE UNCHANGED vars
    BY <1>3 DEF vars, IInv, TypeOK, Tiled, Coalesced, HeldAreUsed, FreedInert, End
  <1> QED
    BY <1>1, <1>2, <1>3 DEF Next, KmallocFails

\* The inductive invariant holds of every reachable state of the heap.
THEOREM HeapInvariant == Spec => []IInv
  BY InitIInv, NextIInv, PTL DEF Spec

\* Types, heap.c: every variable keeps its type.
THEOREM HeapTypeOK == Spec => []TypeOK
  <1>1. IInv => TypeOK
    BY DEF IInv
  <1> QED
    BY <1>1, HeapInvariant, PTL

\* kmalloc and kfree keep the list a tiling of the heap: no word is in two
\* blocks and none is lost, for every heap size and every sequence of calls.
THEOREM HeapTiled == Spec => []Tiled
  <1>1. IInv => Tiled
    BY DEF IInv
  <1> QED
    BY <1>1, HeapInvariant, PTL

\* kfree's two merges never leave two free neighbours.
THEOREM HeapCoalesced == Spec => []Coalesced
  <1>1. IInv => Coalesced
    BY DEF IInv
  <1> QED
    BY <1>1, HeapInvariant, PTL

\* The used blocks are those callers hold, each as large as was asked.
THEOREM HeapHeldAreUsed == Spec => []HeldAreUsed
  <1>1. IInv => HeldAreUsed
    BY DEF IInv
  <1> QED
    BY <1>1, HeapInvariant, PTL

\* A second kfree of a pointer whose header stands finds used = 0.
THEOREM HeapFreedInert == Spec => []FreedInert
  <1>1. IInv => FreedInert
    BY DEF IInv
  <1> QED
    BY <1>1, HeapInvariant, PTL

-----------------------------------------------------------------------------
(* The counter.  Kmalloc adds one block to the used ones and kfree removes  *)
(* one; by the tiling the words of two blocks are disjoint, so the words in *)
(* use change by the size of that block.  Stated of any sizes and blocks,   *)
(* as the tiling is, to serve both states of a step.                        *)

Room(sz, b) == (b + Header) .. (Reach(sz, b) - 1)
Filled(sz, U) == UNION {Room(sz, c) : c \in U}
UsedBlocks == {c \in chain : used[c]}

LEMMA UsedWordsFilled == UsedWords = Filled(size, UsedBlocks) /\ UsedWords' = Filled(size', UsedBlocks')
  BY DEF UsedWords, Filled, Room, Reach, End, UsedBlocks

\* In a tiling, one used block more is as many words more as its size.
LEMMA OneBlockMore ==
  ASSUME NEW sz, NEW nx, NEW ch, Tiling(sz, nx, ch), NEW U \in SUBSET ch, NEW b \in U
  PROVE  /\ Cardinality(Filled(sz, U)) = Cardinality(Filled(sz, U \ {b})) + sz[b]
         /\ Cardinality(Filled(sz, U \ {b})) \in Nat
  <1> DEFINE rest == Filled(sz, U \ {b})
             room == Room(sz, b)
  <1>1. HeapStart \in Nat /\ HeapEnd \in Nat /\ HeapEnd - 1 \in Int /\ Header = 3
    BY HeapAssumption DEF HeapEnd, Header
  <1>2. ASSUME NEW c \in ch
        PROVE  /\ c \in Int /\ c >= HeapStart /\ sz[c] \in Nat /\ sz[c] >= 1
               /\ Reach(sz, c) = c + Header + sz[c] /\ Reach(sz, c) \in Int
               /\ Reach(sz, c) <= HeapEnd
    <2>1. c \in Addr /\ sz[c] \in Nat /\ sz[c] >= 1
      BY DEF Tiling
    <2>2. c \in Int /\ c >= HeapStart
      BY <1>1, <2>1 DEF Addr
    <2>3. Reach(sz, c) = c + Header + sz[c] /\ Reach(sz, c) \in Int
      BY <1>1, <2>1, <2>2 DEF Reach
    <2>4. Reach(sz, c) = HeapEnd \/ Reach(sz, c) \in Addr
      BY DEF Tiling
    <2>5. Reach(sz, c) <= HeapEnd
      BY <1>1, <2>4 DEF Addr
    <2> QED
      BY <2>1, <2>2, <2>3, <2>5
  <1>3. IsFiniteSet(room) /\ Cardinality(room) = sz[b]
    <2> DEFINE lo == b + Header
               hi == Reach(sz, b) - 1
    <2>1. lo \in Int /\ hi \in Int /\ ~(lo > hi) /\ hi - lo + 1 = sz[b]
      BY <1>1, <1>2
    <2>2. room = lo .. hi
      BY DEF Room
    <2> HIDE DEF lo, hi, room
    <2> QED
      BY <2>1, <2>2, FS_Interval
  <1>4. IsFiniteSet(rest)
    <2>1. IsFiniteSet(Addr)
      BY <1>1, FS_Interval DEF Addr
    <2>2. ASSUME NEW c \in ch, NEW a \in Room(sz, c) PROVE a \in Addr
      BY <1>1, <1>2 DEF Room, Addr
    <2>3. rest \in SUBSET Addr
      BY <2>2 DEF Filled
    <2> HIDE DEF rest
    <2> QED
      BY <2>1, <2>3, FS_Subset
  <1>5. rest \cap room = {}
    <2> SUFFICES ASSUME NEW c \in U \ {b} PROVE Room(sz, c) \cap room = {}
      BY DEF Filled
    <2>1. c \in Int /\ b \in Int /\ Reach(sz, c) \in Int /\ Reach(sz, b) \in Int
      BY <1>2
    <2>2. Reach(sz, c) <= b \/ Reach(sz, b) <= c
      BY <2>1 DEF Tiling
    <2> QED
      BY <1>1, <2>1, <2>2 DEF Room
  <1>6. Filled(sz, U) = rest \cup room
    BY DEF Filled
  <1> HIDE DEF rest, room
  <1>7. Cardinality(rest \cup room) = Cardinality(rest) + Cardinality(room) - Cardinality(rest \cap room)
    BY <1>3, <1>4, FS_Union
  <1>8. Cardinality(rest \cap room) = 0 /\ Cardinality(rest) \in Nat /\ Cardinality(room) \in Nat
    BY <1>3, <1>4, <1>5, FS_EmptySet, FS_CardinalityType
  <1>9. Cardinality(Filled(sz, U)) = Cardinality(rest) + sz[b]
    BY <1>3, <1>6, <1>7, <1>8
  <1> QED
    BY <1>8, <1>9 DEF rest

\* The blocks kmalloc uses: one more, and the others are as they were.
LEMMA KmallocCounts ==
  ASSUME IInv, IInv', Accounting, NEW n \in Sizes, Kmalloc(n)
  PROVE  Accounting'
  <1>1. PICK b \in FirstFit(Words(n)) : Split(b, Words(n)) \/ TakeWhole(b, Words(n))
    BY DEF Kmalloc
  <1> DEFINE w == Words(n)
             new == b + Header + w
  <1>2. b \in chain /\ ~used[b] /\ b \in Addr
    BY BlockBounds DEF FirstFit, Fitting, IInv
  <1>3. /\ UsedBlocks' = UsedBlocks \cup {b} /\ b \notin UsedBlocks
        /\ \A c \in UsedBlocks : size'[c] = size[c]
        /\ heap_used' = heap_used + size'[b]
    <2>1. CASE Split(b, w)
      <3>1. /\ size' = [size EXCEPT ![b] = w, ![new] = size[b] - w - Header]
            /\ used' = [used EXCEPT ![b] = TRUE, ![new] = FALSE]
            /\ chain' = chain \cup {new} /\ heap_used' = heap_used + w
        BY <2>1 DEF Split
      <3>2. size \in [Addr -> Nat] /\ used \in [Addr -> BOOLEAN] /\ chain \in SUBSET Addr
        BY DEF IInv, TypeOK
      <3>3. /\ new \in Int /\ new > b /\ new < End(b) /\ b \in Int /\ End(b) \in Int
        <4>1. w \in Nat /\ w >= 1 /\ size[b] > w + Header + 1 /\ size[b] \in Nat
          BY <1>2, <2>1, WordsPositive, BlockBounds DEF IInv, Split, Remains
        <4>2. b \in Int /\ End(b) = b + Header + size[b] /\ Header = 3
          BY <1>2, BlockBounds DEF IInv, Header
        <4> HIDE DEF w
        <4> QED
          BY <4>1, <4>2
      <3>4. new \notin chain
        <4> SUFFICES ASSUME new \in chain PROVE FALSE
          OBVIOUS
        <4>1. End(b) <= new
          BY <1>2, <3>3 DEF IInv, Tiled
        <4> QED
          BY <3>3, <4>1
      <3> HIDE DEF new, w
      <3>5. new # b
        BY <3>3
      <3>6. size'[b] = w /\ used'[b] /\ \A c \in chain : c # b => size'[c] = size[c] /\ used'[c] = used[c]
        BY <1>2, <3>1, <3>2, <3>4, <3>5
      <3>7. ~used'[new]
        <4>1. new \in chain'
          BY <3>1
        <4>2. new \in Addr
          BY <4>1 DEF IInv, TypeOK
        <4> QED
          BY <3>1, <3>2, <4>2
      <3> QED
        BY <1>2, <3>1, <3>6, <3>7 DEF UsedBlocks
    <2>2. CASE TakeWhole(b, w)
      <3>1. /\ used' = [used EXCEPT ![b] = TRUE] /\ heap_used' = heap_used + size[b]
            /\ size' = size /\ chain' = chain
        BY <2>2 DEF TakeWhole, Counted
      <3>2. used'[b] /\ \A c \in chain : c # b => used'[c] = used[c]
        BY <1>2, <3>1 DEF IInv, TypeOK
      <3> QED
        BY <1>2, <3>1, <3>2 DEF UsedBlocks
    <2> QED
      BY <1>1, <2>1, <2>2
  <1> HIDE DEF w, new
  <1>4. Tiling(size', next', chain')
    BY DEF IInv, TypeOK, Tiled, Tiling, Reach, End
  <1>5. UsedBlocks' \in SUBSET chain' /\ b \in UsedBlocks' /\ UsedBlocks' \ {b} = UsedBlocks
    BY <1>3 DEF UsedBlocks
  <1>6. Filled(size', UsedBlocks) = Filled(size, UsedBlocks)
    BY <1>3 DEF Filled, Room, Reach
  <1>7. Cardinality(UsedWords') = Cardinality(UsedWords) + size'[b]
    <2>1. /\ Cardinality(Filled(size', UsedBlocks'))
               = Cardinality(Filled(size', UsedBlocks' \ {b})) + size'[b]
      BY <1>4, <1>5, OneBlockMore
    <2> QED
      BY <1>5, <1>6, <2>1, UsedWordsFilled
  <1> QED
    BY <1>3, <1>7 DEF Accounting

\* The block kfree frees was one of the used ones; the blocks it merges with
\* were not, and no other changes.
LEMMA KfreeCounts ==
  ASSUME IInv, IInv', Accounting, NEW p \in Addr, p - Header \in chain, used[p - Header],
         FreeBlock(p - Header)
  PROVE  Accounting'
  <1> DEFINE b == p - Header
             prev == FreePrev(b)
             eats == MergeNext(b)
             size1 == IF eats THEN Absorbed(b) ELSE size[b]
  <1>1. /\ used' = [used EXCEPT ![b] = FALSE] /\ heap_used' = heap_used - size[b]
        /\ chain' = {c \in chain : ~(eats /\ c = next[b]) /\ ~(prev # {} /\ c = b)}
        /\ size' = [a \in Addr |-> IF a \notin chain' THEN 0
                                   ELSE IF a \in prev THEN size[a] + Header + size1
                                   ELSE IF a = b THEN size1 ELSE size[a]]
    BY DEF FreeBlock, Unmarked
  <1>2. /\ \A c \in prev : ~used[c]
        /\ eats => ~used[next[b]]
        /\ b \in chain /\ used[b]
    BY DEF FreePrev, MergeNext
  <1>3. used \in [Addr -> BOOLEAN] /\ chain \in SUBSET Addr
    BY DEF IInv, TypeOK
  <1> HIDE DEF b, prev, eats, size1
  <1>4. b \in UsedBlocks /\ UsedBlocks \in SUBSET chain
    BY <1>2 DEF UsedBlocks
  <1>5. UsedBlocks' = UsedBlocks \ {b}
    BY <1>1, <1>2, <1>3 DEF UsedBlocks
  <1>6. \A c \in UsedBlocks \ {b} : size'[c] = size[c]
    <2> SUFFICES ASSUME NEW c \in UsedBlocks \ {b} PROVE size'[c] = size[c]
      OBVIOUS
    <2>1. c \in Addr /\ c \in chain' /\ c \notin prev /\ c # b
      BY <1>1, <1>2, <1>3 DEF UsedBlocks
    <2> QED
      BY <1>1, <2>1
  <1>7. Filled(size', UsedBlocks') = Filled(size, UsedBlocks \ {b})
    BY <1>5, <1>6 DEF Filled, Room, Reach
  <1>8. Tiling(size, next, chain)
    BY TilingIsTiled DEF IInv
  <1>9. /\ Cardinality(UsedWords) = Cardinality(UsedWords') + size[b]
        /\ Cardinality(UsedWords') \in Nat
    <2>1. /\ Cardinality(Filled(size, UsedBlocks)) = Cardinality(Filled(size, UsedBlocks \ {b})) + size[b]
          /\ Cardinality(Filled(size, UsedBlocks \ {b})) \in Nat
      BY <1>4, <1>8, OneBlockMore
    <2> QED
      BY <1>7, <2>1, UsedWordsFilled
  <1>10. size[b] \in Nat
    BY <1>2, BlockBounds DEF IInv
  <1> QED
    BY <1>1, <1>9, <1>10 DEF Accounting

\* heap_used counts the words of the used blocks, after every sequence of
\* kmalloc and kfree: what a block added it takes away again, however it was
\* cut and whatever was merged around it.
THEOREM HeapAccounting == Spec => []Accounting
  <1>1. Init => Accounting
    <2> SUFFICES ASSUME Init PROVE Accounting
      OBVIOUS
    <2>1. HeapStart \in Addr
      BY HeapAssumption DEF Addr, HeapEnd, Header
    <2>2. \A c \in chain : ~used[c]
      <3>1. used[HeapStart] = FALSE
        BY <2>1 DEF Init
      <3> QED
        BY <3>1, Zenon DEF Init
    <2>3. UsedWords = {}
      BY <2>2 DEF UsedWords
    <2> QED
      BY <2>3, FS_EmptySet DEF Init, Accounting
  <1>2. IInv /\ IInv' /\ Accounting /\ [Next]_vars => Accounting'
    <2> SUFFICES ASSUME IInv, IInv', Accounting, [Next]_vars PROVE Accounting'
      OBVIOUS
    <2>1. CASE UNCHANGED vars
      BY <2>1 DEF vars, Accounting, UsedWords, End
    <2>2. ASSUME NEW n \in Sizes, Kmalloc(n) PROVE Accounting'
      BY <2>2, KmallocCounts
    <2>3. ASSUME NEW p \in Addr, Kfree(p) PROVE Accounting'
      BY <2>1, <2>3, KfreeCases, KfreeCounts
    <2> QED
      BY <2>1, <2>2, <2>3 DEF Next, KmallocFails
  <1> QED
    BY <1>1, <1>2, HeapInvariant, PTL DEF Spec

\* kmalloc returns 0 only when no stretch of the heap free of used blocks is
\* long enough: fragmentation never hides room that lies in one piece.
LEMMA InvRefuses == IInv => RefusesOnlyWhenFull
  <1> SUFFICES ASSUME IInv, NEW n \in Sizes, NEW a \in Addr,
                      a .. (a + Header + Words(n) - 1) \subseteq Addr,
                      (a .. (a + Header + Words(n) - 1)) \cap Occupied = {}
               PROVE  \E b \in Fitting(Words(n)) : TRUE
    BY DEF RefusesOnlyWhenFull
  <1> DEFINE w == Words(n)
             window == a .. (a + Header + w - 1)
  <1>1. w \in Nat /\ w >= 1 /\ a \in Int
    BY WordsPositive DEF Addr
  <1>2. PICK b \in chain : b <= a /\ a < End(b)
    BY DEF IInv, Tiled
  <1>3. b \in Int /\ End(b) \in Int /\ End(b) = b + Header + size[b] /\ size[b] \in Nat
    BY BlockBounds DEF IInv
  <1> HIDE DEF w
  <1>4. \A c \in chain : used[c] => window \cap (c .. (End(c) - 1)) = {}
    BY DEF Occupied, w
  <1>5. ~used[b]
    <2>1. a \in window /\ a \in b .. (End(b) - 1)
      BY <1>1, <1>2, <1>3 DEF Header
    <2> QED
      BY <1>4, <2>1
  <1>6. a + Header + w <= End(b)
    <2> SUFFICES ASSUME End(b) < a + Header + w PROVE FALSE
      BY <1>1, <1>3 DEF Header
    <2>1. End(b) \in window
      BY <1>1, <1>2, <1>3 DEF Header
    <2>2. End(b) \in Addr /\ End(b) # HeapEnd
      BY <2>1, HeapAssumption DEF w, Addr, HeapEnd
    <2>3. next[b] # NULL /\ next[b] = End(b) /\ End(b) \in chain
      BY <2>2, NextBlock DEF IInv
    <2>4. used[End(b)]
      BY <2>3, <1>5 DEF IInv, Coalesced
    <2>5. End(b) \in End(b) .. (End(End(b)) - 1)
      BY <2>3, <1>3, BlockBounds DEF IInv, Header
    <2> QED
      BY <2>1, <2>3, <2>4, <2>5, <1>4
  <1>7. size[b] >= w
    BY <1>1, <1>2, <1>3, <1>6 DEF Header
  <1> QED
    BY <1>5, <1>7 DEF Fitting, w

\* kmalloc fails only when no window free of used blocks is large enough, for
\* every heap size, every set of request sizes and every history of calls.
THEOREM HeapRefusesOnlyWhenFull == Spec => []RefusesOnlyWhenFull
  BY InvRefuses, HeapInvariant, PTL

\* Once every pointer is freed the merges have rebuilt the single block that
\* heap_init made.
LEMMA InvAllFreed == IInv => AllFreedIsInitial
  <1> SUFFICES ASSUME IInv, \A p \in Addr : held[p] = 0
               PROVE  chain = {HeapStart} /\ size[HeapStart] = HeapWords - Header
    BY DEF AllFreedIsInitial
  <1>1. ASSUME NEW b \in chain PROVE ~used[b]
    <2>1. b \in Int /\ b + Header \in Addr /\ (b + Header) - Header = b
      BY BlockBounds, HeapAssumption DEF IInv, Addr, HeapEnd, Header
    <2> QED
      BY <2>1 DEF IInv, HeldAreUsed
  <1>2. HeapStart \in chain
    BY DEF IInv, Tiled
  <1>3. End(HeapStart) = HeapEnd
    <2>1. CASE next[HeapStart] # NULL
      BY <2>1, <1>1, <1>2, NextBlock DEF IInv, Coalesced
    <2>2. CASE next[HeapStart] = NULL
      BY <2>2, <1>2, NextBlock DEF IInv
    <2> QED
      BY <2>1, <2>2
  <1>4. ASSUME NEW c \in chain PROVE c = HeapStart
    <2>1. c >= HeapStart /\ c < HeapEnd /\ c \in Int /\ HeapStart \in Int /\ HeapEnd \in Int
      BY BlockBounds DEF IInv
    <2>2. ASSUME HeapStart < c PROVE FALSE
      BY <2>1, <2>2, <1>2, <1>3 DEF IInv, Tiled
    <2> QED
      BY <2>1, <2>2
  <1>5. size[HeapStart] = HeapWords - Header
    BY <1>2, <1>3, BlockBounds, HeapAssumption DEF IInv, HeapEnd, Header
  <1> QED
    BY <1>2, <1>4, <1>5

\* Whatever the order of the frees, the last one leaves the initial heap.
THEOREM HeapAllFreedIsInitial == Spec => []AllFreedIsInitial
  BY InvAllFreed, HeapInvariant, PTL

-----------------------------------------------------------------------------
(* Refinement: what callers hold behaves as the abstract allocator says.    *)

\* A block from the search is unheld, lies in the heap, and meets no region
\* a caller holds.
LEMMA KmallocIsAlloc ==
  ASSUME IInv, NEW n \in Sizes, Kmalloc(n)
  PROVE  \E p \in Addr : Abstract!Alloc(p, n)
  <1>1. PICK b \in FirstFit(Words(n)) : held' = [held EXCEPT ![b + Header] = n]
    BY DEF Kmalloc
  <1> DEFINE w == Words(n)
             p == b + Header
  <1>2. b \in chain /\ ~used[b] /\ size[b] >= w
    BY DEF FirstFit, Fitting
  <1>3. w \in Nat /\ w >= 1
    BY WordsPositive
  <1>4. /\ b \in Int /\ b >= HeapStart /\ HeapStart \in Nat /\ HeapEnd \in Nat
        /\ size[b] \in Nat /\ End(b) = b + Header + size[b] /\ End(b) <= HeapEnd
    BY <1>2, BlockBounds DEF IInv
  <1> HIDE DEF w
  <1>5. p \in Addr /\ p - Header = b /\ p + w <= End(b)
    BY <1>2, <1>3, <1>4 DEF Addr, HeapEnd, Header
  <1>6. held[p] = 0
    BY <1>2, <1>5 DEF IInv, HeldAreUsed
  <1>7. p .. (p + w - 1) \subseteq Addr
    BY <1>3, <1>4, <1>5 DEF Addr, Header
  <1>8. ASSUME NEW q \in Addr, held[q] # 0
        PROVE  (p .. (p + w - 1)) \cap (q .. (q + Words(held[q]) - 1)) = {}
    <2> DEFINE c == q - Header
               v == Words(held[q])
    <2>1. c \in chain /\ used[c] /\ v <= size[c] /\ c # b
      BY <1>8, <1>2 DEF IInv, HeldAreUsed
    <2>2. v \in Nat /\ q \in Int /\ q = c + Header
      BY <1>8, WordsPositive DEF IInv, TypeOK, Addr, Header
    <2>3. /\ c \in Int /\ size[c] \in Nat
          /\ End(c) = c + Header + size[c]
      BY <2>1, BlockBounds DEF IInv
    <2>4. q + v <= End(c)
      <3> HIDE DEF c, v
      <3> QED
        BY <2>1, <2>2, <2>3 DEF Header
    <2>5. End(b) <= c \/ End(c) <= b
      BY <2>1, <2>3, <1>2, <1>4 DEF IInv, Tiled
    <2> HIDE DEF c, v
    <2>6. End(b) <= q \/ End(c) <= p
      BY <2>2, <2>3, <2>5, <1>4 DEF Header
    <2>7. p + w <= q \/ q + v <= p
      BY <2>2, <2>3, <2>4, <2>6, <1>3, <1>4, <1>5 DEF Header
    <2>8. (p .. (p + w - 1)) \cap (q .. (q + v - 1)) = {}
      BY <2>2, <2>7, <1>3, <1>4 DEF Header
    <2> QED
      BY <2>8 DEF v
  <1> QED
    BY <1>1, <1>5, <1>6, <1>7, <1>8 DEF Abstract!Alloc, Abstract!Region, w

\* The heap implements the allocator, for every heap size and set of sizes.
THEOREM HeapRefinesAllocator == Spec => RefinesAllocator
  <1>1. Init => Abstract!AllocInit
    BY DEF Init, Abstract!AllocInit
  <1>2. IInv /\ [Next]_vars => [Abstract!AllocNext]_held
    <2> SUFFICES ASSUME IInv, [Next]_vars PROVE Abstract!AllocNext \/ held' = held
      OBVIOUS
    <2>1. ASSUME NEW n \in Sizes, Kmalloc(n) PROVE Abstract!AllocNext
      BY <2>1, KmallocIsAlloc DEF Abstract!AllocNext
    <2>2. ASSUME NEW p \in Addr, Kfree(p) PROVE Abstract!AllocNext \/ held' = held
      <3>1. CASE UNCHANGED vars
        BY <3>1 DEF vars
      <3>2. CASE held[p] # 0 /\ held' = [held EXCEPT ![p] = 0]
        BY <3>2 DEF Abstract!AllocNext, Abstract!Release
      <3> QED
        BY <2>2, <3>1, <3>2, KfreeCases
    <2>3. CASE UNCHANGED vars
      BY <2>3 DEF vars
    <2> QED
      BY <2>1, <2>2, <2>3 DEF Next, KmallocFails
  <1> QED
    BY <1>1, <1>2, HeapInvariant, PTL DEF Spec, RefinesAllocator, Abstract!AllocSpec
==============================================================================
