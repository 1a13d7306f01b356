----------------------------- MODULE FatOpsProofs -----------------------------
(***************************************************************************)
(* What the operators of FatOps return, for every volume: the facts that   *)
(* the proofs about the layers above the allocator need.                   *)
(***************************************************************************)
EXTENDS FatOps, LeastElements, FiniteSetTheorems

Tables  == [Blocks -> Words]
Volumes == [fat : Tables, head : Words]

\* The free blocks of the table are the last ones of the volume.
TailFree(fat) == \A b, c \in Blocks : fat[b] = BLOCK_FREE /\ b < c => fat[c] = BLOCK_FREE

\* The constants of freeSpace.h, and the range of block numbers.
LEMMA FatWords ==
    /\ TotalBlocks \in Nat /\ Blocks = 0 .. TotalBlocks - 1
    /\ Words = -2 .. TotalBlocks /\ Blocks \subseteq Words /\ Blocks \subseteq Nat
    /\ BLOCK_FREE = 0 /\ BLOCK_RESERVED = -2 /\ NoBlock = -1
    /\ FirstFreeBlock \in Blocks /\ FirstFreeBlock > 1 /\ DataBlocks \subseteq Blocks
  BY VolumeAssumption
  DEF Words, Blocks, NoBlock, BLOCK_RESERVED, BLOCK_FREE, FirstFreeBlock, FatStart, DataBlocks

\* A freshly formatted table is a table, and its free blocks are at the end.
LEMMA InitVolume ==
    /\ initFreeSpace \in Volumes
    /\ TailFree(initFreeSpace.fat)
    /\ \A b \in Blocks : initFreeSpace.fat[b] = IF b < FirstFreeBlock THEN BLOCK_RESERVED
                                                ELSE BLOCK_FREE
  BY FatWords DEF Volumes, Tables, initFreeSpace, TailFree

\* Sets of blocks are finite.
LEMMA FiniteBlocks ==
    /\ IsFiniteSet(Blocks)
    /\ \A S \in SUBSET Blocks : IsFiniteSet(S) /\ Cardinality(S) \in Nat
<1>1. IsFiniteSet(Blocks)
  BY FatWords, FS_Interval
<1>2. ASSUME NEW S \in SUBSET Blocks PROVE IsFiniteSet(S) /\ Cardinality(S) \in Nat
  BY <1>1, <1>2, FS_Subset, FS_CardinalityType
<1> QED
  BY <1>1, <1>2

\* Min and Max of sets of blocks.
LEMMA MinMaxBlocks ==
    ASSUME NEW S \in SUBSET Blocks, S # {}
    PROVE  /\ Min(S) \in S /\ \A b \in S : Min(S) <= b
           /\ Max(S) \in S /\ \A b \in S : b <= Max(S)
<1>1. S \subseteq Nat /\ TotalBlocks \in Nat /\ \A x \in S : x <= TotalBlocks
  BY FatWords
<1> QED
  BY <1>1, MinNat, MaxNat

\* The lowest element is always among the n lowest.
LEMMA LowestHasMin ==
    ASSUME NEW S \in SUBSET Blocks, S # {}, NEW n \in Nat, n > 0
    PROVE  /\ Lowest(S, n) \in SUBSET S /\ Lowest(S, n) # {}
           /\ Min(S) \in Lowest(S, n) /\ Min(Lowest(S, n)) = Min(S)
<1>1. Min(S) \in S /\ \A b \in S : Min(S) <= b
  BY MinMaxBlocks
<1>2. {c \in S : c < Min(S)} = {}
  <2>1. \A c \in S : c \in Nat
    BY FatWords
  <2>2. Min(S) \in Nat /\ \A c \in S : ~ (c < Min(S))
    BY <1>1, <2>1
  <2> QED
    BY <2>2
<1>3. Min(S) \in Lowest(S, n)
  BY <1>1, <1>2, FS_EmptySet DEF Lowest
<1>4. Lowest(S, n) \in SUBSET S
  BY DEF Lowest
<1>5. Min(Lowest(S, n)) \in Lowest(S, n) /\ \A b \in Lowest(S, n) : Min(Lowest(S, n)) <= b
  <2>1. Lowest(S, n) \in SUBSET Blocks
    BY <1>4
  <2> QED
    BY <2>1, <1>3, MinMaxBlocks
<1>6. Min(Lowest(S, n)) \in Nat /\ Min(S) \in Nat
  BY <1>1, <1>4, <1>5, FatWords
<1> QED
  BY <1>1, <1>3, <1>4, <1>5, <1>6

\* The one lowest element: a request for one block is met or finds nothing.
LEMMA LowestOne ==
    ASSUME NEW S \in SUBSET Blocks, S # {}
    PROVE  Lowest(S, 1) = {Min(S)}
<1>1. Min(S) \in S /\ \A b \in S : Min(S) <= b
  BY MinMaxBlocks
<1>2. Min(S) \in Lowest(S, 1)
  BY LowestHasMin
<1>3. ASSUME NEW b \in S, b # Min(S) PROVE b \notin Lowest(S, 1)
  <2> DEFINE Below == {c \in S : c < b}
  <2>1. Min(S) \in Below
    <3> S \subseteq Nat
      BY FatWords
    <3>1. Min(S) <= b /\ Min(S) \in Nat /\ b \in Nat
      BY <1>1
    <3> QED
      BY <1>1, <1>3, <3>1
  <2>2. IsFiniteSet(Below) /\ Cardinality(Below) \in Nat
    BY FiniteBlocks
  <2>3. Cardinality(Below) # 0
    BY <2>1, <2>2, FS_EmptySet
  <2> QED
    BY <2>2, <2>3 DEF Lowest
<1> QED
  BY <1>2, <1>3 DEF Lowest

\* The search of the scan: only free blocks of the volume, from the head on.
LEMMA ReachableBlocks ==
    ASSUME NEW vol \in Volumes
    PROVE  /\ Reachable(vol) \in SUBSET Blocks
           /\ \A b \in Reachable(vol) : vol.fat[b] = BLOCK_FREE
  BY DEF Reachable

\* Linking changes the entries of the collected blocks only, to entries that
\* are not BLOCK_FREE.
LEMMA LinkedTable ==
    ASSUME NEW fat \in Tables, NEW S \in SUBSET Blocks
    PROVE  /\ Linked(fat, S) \in Tables
           /\ \A b \in Blocks \ S : Linked(fat, S)[b] = fat[b]
           /\ \A b \in S : (\E c \in S : c > b) => Linked(fat, S)[b] \in S \ 0 .. b
           /\ \A b \in S : ~(\E c \in S : c > b) => Linked(fat, S)[b] = fat[b]
<1>1. \A b \in Blocks : Linked(fat, S)[b] =
        IF b \in S /\ \E c \in S : c > b THEN Min({c \in S : c > b}) ELSE fat[b]
  BY DEF Linked
<1>2. ASSUME NEW b \in S, \E c \in S : c > b PROVE Min({c \in S : c > b}) \in S \ 0 .. b
  <2>1. {c \in S : c > b} \in SUBSET Blocks /\ {c \in S : c > b} # {}
    BY <1>2
  <2>2. Min({c \in S : c > b}) \in {c \in S : c > b}
    BY <2>1, MinMaxBlocks
  <2> QED
    BY <2>2, FatWords
<1>3. \A b \in Blocks : Linked(fat, S)[b] \in Words
  BY <1>1, <1>2, FatWords DEF Tables
<1>4. Linked(fat, S) \in Tables
  BY <1>3 DEF Linked, Tables
<1> QED
  BY <1>1, <1>2, <1>4

-----------------------------------------------------------------------------
\* A state of the loop of releaseBlocks.
Walks == [fat : Tables, cur : Words, freeHead : Words]

\* One iteration of that loop.
WalkStep(w) ==
    IF w.cur \in Blocks
    THEN [fat |-> [w.fat EXCEPT ![w.cur] = w.freeHead], cur |-> w.fat[w.cur], freeHead |-> w.cur]
    ELSE w

\* A step of the walk stays well typed.
LEMMA WalkStepType ==
    ASSUME NEW w \in Walks
    PROVE  WalkStep(w) \in Walks
  BY FatWords DEF WalkStep, Walks, Tables

\* The loop of releaseBlocks as a sequence of states.
LEMMA ReleaseStates ==
    ASSUME NEW vol \in Volumes, NEW location \in Words, NEW n \in Nat
    PROVE  \E w \in [0 .. n -> Walks] :
             /\ w[0] = [fat |-> vol.fat, cur |-> location, freeHead |-> vol.head]
             /\ \A k \in 0 .. n - 1 : w[k + 1] = WalkStep(w[k])
             /\ ReleaseWalk(vol, location, n) = w[n]
<1> DEFINE base == [fat |-> vol.fat, cur |-> location, freeHead |-> vol.head]
           F(w) == [k \in 0 .. n |-> IF k = 0 THEN base ELSE WalkStep(w[k - 1])]
           step == [k \in 1 .. n |-> [w \in Walks |-> WalkStep(w)]]
           walk == CHOOSE w : w = F(w)
<1>1. base \in Walks /\ step \in [1 .. n -> [Walks -> Walks]]
  BY WalkStepType DEF Walks, Volumes
<1>2. PICK v \in [0 .. n -> Walks] :
        v[0] = base /\ \A k \in 1 .. n : v[k] = step[k][v[k - 1]]
  <2> HIDE DEF base, step
  <2> QED
    BY <1>1, Iteration
<1>3. v = F(v)
  <2>1. \A k \in 1 .. n : v[k - 1] \in Walks
    OBVIOUS
  <2>2. \A k \in 1 .. n : step[k][v[k - 1]] = WalkStep(v[k - 1])
    BY <2>1
  <2> HIDE DEF base, step
  <2>3. ASSUME NEW k \in 0 .. n PROVE v[k] = IF k = 0 THEN base ELSE WalkStep(v[k - 1])
    <3>1. k # 0 => k \in 1 .. n
      OBVIOUS
    <3> QED
      BY <1>2, <2>2, <3>1
  <2>4. v = [k \in 0 .. n |-> v[k]]
    OBVIOUS
  <2> QED
    BY <2>3, <2>4, Zenon
<1>4. walk = F(walk)
  <2> HIDE DEF F
  <2> QED
    BY <1>3
<1>5. ReleaseWalk(vol, location, n) = walk[n]
  BY DEF ReleaseWalk, WalkStep
<1>6. /\ walk[0] = base
      /\ \A k \in 0 .. n - 1 : walk[k + 1] = WalkStep(walk[k])
      /\ DOMAIN walk = 0 .. n
  <2> HIDE DEF base, walk
  <2> QED
    BY <1>4
<1>7. \A k \in 0 .. n : walk[k] \in Walks
  <2> HIDE DEF base, walk
  <2> DEFINE P == {k \in 0 .. n : walk[k] \in Walks}
  <2>1. 0 \in P /\ \A k \in 0 .. n - 1 : k \in P => k + 1 \in P
    BY <1>1, <1>6, WalkStepType
  <2> HIDE DEF P
  <2>2. 0 .. n \subseteq P
    BY <2>1, BoundedInduction
  <2> QED
    BY <2>2 DEF P
<1>8. walk \in [0 .. n -> Walks]
  <2> HIDE DEF base
  <2>1. walk = [k \in 0 .. n |-> walk[k]]
    BY <1>4
  <2> HIDE DEF walk
  <2> QED
    BY <1>7, <2>1
<1> HIDE DEF walk
<1> QED
  BY <1>5, <1>6, <1>8

\* Releasing keeps a volume a volume, even from a location that is not the
\* start of a chain.
LEMMA ReleaseVolume ==
    ASSUME NEW vol \in Volumes, NEW location \in Words, NEW n \in Nat
    PROVE  releaseBlocks(vol, location, n) \in Volumes
<1>1. ReleaseWalk(vol, location, n) \in Walks
  <2>1. PICK w \in [0 .. n -> Walks] : ReleaseWalk(vol, location, n) = w[n]
    BY ReleaseStates
  <2> QED
    BY <2>1
<1> QED
  BY <1>1 DEF releaseBlocks, Walks, Volumes

-----------------------------------------------------------------------------
\* The three outcomes of an allocation.
LEMMA AllocateCases ==
    ASSUME NEW vol \in Volumes, NEW n \in Nat, n > 0,
           NEW taken, taken = Lowest(Reachable(vol), n)
    PROVE  \/ /\ taken = {}
              /\ allocateBlocks(vol, n) = [vol |-> vol, start |-> NoBlock]
           \/ /\ taken # {} /\ Cardinality(taken) < n
              /\ allocateBlocks(vol, n) =
                   [vol   |-> releaseBlocks([vol EXCEPT !.fat = Linked(vol.fat, taken)],
                                            Min(taken), Cardinality(taken)),
                    start |-> NoBlock]
           \/ /\ taken # {} /\ Cardinality(taken) >= n
              /\ allocateBlocks(vol, n) =
                   [vol   |-> [fat  |-> [Linked(vol.fat, taken) EXCEPT
                                           ![Max(taken)] = BLOCK_RESERVED],
                               head |-> Max(taken) + 1],
                    start |-> Min(taken)]
<1>1. taken \in SUBSET Blocks
  BY ReachableBlocks DEF Lowest
<1>2. Cardinality(taken) \in Nat
  BY <1>1, FiniteBlocks
<1>3. CASE taken = {}
  BY <1>3 DEF allocateBlocks
<1>4. CASE taken # {} /\ Cardinality(taken) < n
  BY <1>4 DEF allocateBlocks
<1>5. CASE taken # {} /\ Cardinality(taken) >= n
  BY <1>2, <1>5 DEF allocateBlocks
<1> QED
  BY <1>2, <1>3, <1>4, <1>5

\* Whatever the outcome, the volume stays one and the start is a block or
\* none.
LEMMA AllocateType ==
    ASSUME NEW vol \in Volumes, NEW n \in Nat, n > 0
    PROVE  /\ allocateBlocks(vol, n).vol \in Volumes
           /\ allocateBlocks(vol, n).start \in Blocks \cup {NoBlock}
<1> DEFINE taken == Lowest(Reachable(vol), n)
<1>1. taken \in SUBSET Blocks
  BY ReachableBlocks DEF Lowest
<1>2. Cardinality(taken) \in Nat
  BY <1>1, FiniteBlocks
<1>3. Linked(vol.fat, taken) \in Tables
  BY <1>1, LinkedTable DEF Volumes
<1>4. taken # {} => Min(taken) \in Blocks /\ Max(taken) \in Blocks
  BY <1>1, MinMaxBlocks
<1> HIDE DEF taken
<1>5. taken # {} => releaseBlocks([vol EXCEPT !.fat = Linked(vol.fat, taken)],
                                  Min(taken), Cardinality(taken)) \in Volumes
  <2>1. [vol EXCEPT !.fat = Linked(vol.fat, taken)] \in Volumes
    BY <1>3 DEF Volumes
  <2> QED
    BY <1>2, <1>4, <2>1, ReleaseVolume, FatWords
<1>6. taken # {} => [fat  |-> [Linked(vol.fat, taken) EXCEPT ![Max(taken)] = BLOCK_RESERVED],
                     head |-> Max(taken) + 1] \in Volumes
  BY <1>3, <1>4, FatWords DEF Volumes, Tables
<1>7. taken = Lowest(Reachable(vol), n)
  BY DEF taken
<1> QED
  BY <1>4, <1>5, <1>6, <1>7, AllocateCases

\* An allocation that succeeds takes free blocks only: no entry of a block in
\* use changes, no block becomes free, and the start is no longer free.
LEMMA AllocateTakesFree ==
    ASSUME NEW vol \in Volumes, NEW n \in Nat, n > 0,
           allocateBlocks(vol, n).start # NoBlock
    PROVE  LET r == allocateBlocks(vol, n)
           IN  /\ vol.fat[r.start] = BLOCK_FREE /\ vol.head <= r.start
               /\ \A b \in Blocks : vol.fat[b] # BLOCK_FREE => r.vol.fat[b] = vol.fat[b]
               /\ r.vol.fat[r.start] # BLOCK_FREE
               /\ r.vol.head \in Nat
<1> DEFINE taken == Lowest(Reachable(vol), n)
           linked == Linked(vol.fat, taken)
           r == allocateBlocks(vol, n)
<1>1. taken \in SUBSET Blocks /\ taken \subseteq Reachable(vol)
  BY ReachableBlocks DEF Lowest
<1>2. \A b \in taken : vol.fat[b] = BLOCK_FREE /\ vol.head <= b
  BY <1>1 DEF Reachable
<1>3. linked \in Tables /\ \A b \in Blocks \ taken : linked[b] = vol.fat[b]
  BY <1>1, LinkedTable DEF Volumes
<1> HIDE DEF taken
<1>4. /\ taken # {}
      /\ r.vol.fat = [linked EXCEPT ![Max(taken)] = BLOCK_RESERVED]
      /\ r.vol.head = Max(taken) + 1
      /\ r.start = Min(taken)
  <2>1. taken = Lowest(Reachable(vol), n)
    BY DEF taken
  <2>2. \/ r.start = NoBlock
        \/ /\ taken # {}
           /\ r = [vol   |-> [fat  |-> [linked EXCEPT ![Max(taken)] = BLOCK_RESERVED],
                             head |-> Max(taken) + 1],
                   start |-> Min(taken)]
    <3> HIDE DEF linked
    <3>1. \A rel : r = [vol |-> rel, start |-> NoBlock] => r.start = NoBlock
      OBVIOUS
    <3> QED
      BY <2>1, <3>1, AllocateCases, Zenon DEF linked
  <2> HIDE DEF linked, r
  <2>3. r.start # NoBlock
    BY DEF r
  <2> QED
    BY <2>2, <2>3
<1>5. Min(taken) \in taken /\ Max(taken) \in taken /\ Max(taken) \in Nat
  BY <1>1, <1>4, MinMaxBlocks, FatWords
<1>6. \A b \in Blocks : vol.fat[b] # BLOCK_FREE => r.vol.fat[b] = vol.fat[b]
  BY <1>2, <1>3, <1>4, <1>5 DEF Tables
<1>7. r.vol.fat[Min(taken)] # BLOCK_FREE
  <2>1. CASE Min(taken) = Max(taken)
    BY <1>1, <1>3, <1>4, <1>5, <2>1, FatWords DEF Tables
  <2>2. CASE Min(taken) # Max(taken)
    <3>1. Max(taken) > Min(taken)
      <4>1. Min(taken) <= Max(taken) /\ Min(taken) \in Nat
        BY <1>1, <1>4, <1>5, MinMaxBlocks, FatWords
      <4> QED
        BY <1>5, <2>2, <4>1
    <3>2. linked[Min(taken)] \in taken \ 0 .. Min(taken)
      BY <1>1, <1>5, <3>1, LinkedTable DEF Volumes
    <3>3. r.vol.fat[Min(taken)] = linked[Min(taken)]
      BY <1>1, <1>3, <1>4, <1>5, <2>2 DEF Tables
    <3>4. linked[Min(taken)] # 0
      <4>1. Min(taken) \in Nat
        BY <1>1, <1>5, FatWords
      <4> HIDE DEF linked
      <4> QED
        BY <3>2, <4>1
    <3> QED
      BY <3>3, <3>4, FatWords
  <2> QED
    BY <2>1, <2>2
<1> QED
  BY <1>2, <1>4, <1>5, <1>6, <1>7

\* When the free blocks are at the end of the volume, the scan collects a run,
\* from the first one it can reach, and linking points each block to the next.
LEMMA FreeRun ==
    ASSUME NEW vol \in Volumes, TailFree(vol.fat), NEW n \in Nat, n > 0,
           NEW taken, taken = Lowest(Reachable(vol), n), taken # {}
    PROVE  \E h, last \in Blocks :
             /\ taken = h .. last /\ h <= last /\ Cardinality(taken) = last - h + 1
             /\ Min(taken) = h /\ Max(taken) = last /\ vol.head <= h
             /\ last = (IF h + n <= TotalBlocks THEN h + n ELSE TotalBlocks) - 1
             /\ \A b \in h .. last : vol.fat[b] = BLOCK_FREE
             /\ \A b \in Blocks : vol.fat[b] = BLOCK_FREE /\ vol.head <= b => h <= b
             /\ Linked(vol.fat, taken) \in Tables
             /\ \A b \in Blocks :
                  Linked(vol.fat, taken)[b] = IF b \in h .. last - 1 THEN b + 1 ELSE vol.fat[b]
<1> DEFINE S == Reachable(vol)
           h == Min(S)
           last == (IF h + n <= TotalBlocks THEN h + n ELSE TotalBlocks) - 1
<1>1. /\ S \in SUBSET Blocks
      /\ \A b \in S : vol.fat[b] = BLOCK_FREE /\ vol.head <= b /\ vol.head \in Blocks
  BY DEF Reachable
<1>2. taken \in SUBSET S /\ taken # {} /\ S # {}
  BY DEF Lowest
<1>3. h \in S /\ h \in Blocks /\ \A b \in S : h <= b
  <2> HIDE DEF S
  <2> QED
    BY <1>1, <1>2, MinMaxBlocks
\* What the scan can reach is everything from its first block on.
<1>4. S = h .. TotalBlocks - 1
  <2>1. \A b \in S : b \in h .. TotalBlocks - 1
    <3> HIDE DEF S
    <3> QED
      BY <1>1, <1>3, FatWords
  <2>2. ASSUME NEW b \in h .. TotalBlocks - 1 PROVE b \in S
    <3>1. b \in Blocks /\ h <= b /\ vol.head <= h /\ vol.head \in Blocks
      <4> HIDE DEF S, h
      <4> QED
        BY <1>1, <1>3, FatWords
    <3>2. vol.fat[h] = BLOCK_FREE
      BY <1>1, <1>3
    <3>3. vol.fat[b] = BLOCK_FREE
      <4> HIDE DEF S, h
      <4>1. b = h \/ h < b
        BY <1>3, <3>1, FatWords
      <4> QED
        BY <1>3, <3>1, <3>2, <4>1 DEF TailFree
    <3>4. vol.head <= b
      <4> HIDE DEF S, h
      <4> QED
        BY <1>3, <3>1, FatWords
    <3> QED
      BY <3>1, <3>3, <3>4 DEF Reachable
  <2> QED
    BY <2>1, <2>2
<1> HIDE DEF S, h
<1>5. h \in Nat /\ TotalBlocks \in Nat /\ h <= TotalBlocks - 1
  BY <1>3, FatWords
<1>6. ASSUME NEW b \in S
      PROVE  Cardinality({c \in S : c < b}) = b - h
  <2>1. {c \in S : c < b} = h .. b - 1
    BY <1>4, <1>5
  <2>2. b \in Nat /\ h <= b /\ b - 1 \in Int
    BY <1>4, <1>5
  <2>3. Cardinality(h .. b - 1) = IF h > b - 1 THEN 0 ELSE (b - 1) - h + 1
    BY <1>5, <2>2, FS_Interval
  <2>4. Cardinality({c \in S : c < b}) = Cardinality(h .. b - 1)
    BY <2>1, Zenon
  <2> QED
    BY <1>5, <2>2, <2>3, <2>4
<1>7. \A b : b \in taken <=> b \in h .. TotalBlocks - 1 /\ b - h < n
  <2>1. taken = Lowest(S, n)
    BY DEF S
  <2> QED
    BY <1>4, <1>6, <2>1 DEF Lowest
<1> HIDE DEF last
<1>8. last \in Nat /\ h <= last /\ last <= h + n - 1 /\ last <= TotalBlocks - 1
      /\ (last = h + n - 1 \/ last = TotalBlocks - 1)
  BY <1>5 DEF last
<1>9. taken = h .. last
  <2>1. \A b : b \in taken <=> b \in h .. last
    BY <1>5, <1>7, <1>8
  <2> QED
    BY <2>1, Zenon
<1>10. taken \in SUBSET Blocks
  BY <1>1, <1>2
<1>11. Min(taken) = h /\ Max(taken) = last
  <2>1. /\ Min(taken) \in taken /\ \A b \in taken : Min(taken) <= b
        /\ Max(taken) \in taken /\ \A b \in taken : b <= Max(taken)
    BY <1>2, <1>10, MinMaxBlocks
  <2>2. h \in taken /\ last \in taken
    BY <1>5, <1>8, <1>9
  <2>3. Min(taken) \in h .. last /\ Max(taken) \in h .. last
    BY <1>9, <2>1
  <2>4. Min(taken) <= h /\ last <= Max(taken)
    BY <2>1, <2>2
  <2> QED
    BY <1>5, <1>8, <2>3, <2>4
<1>12. Cardinality(taken) = last - h + 1
  <2>1. Cardinality(h .. last) = last - h + 1
    BY <1>5, <1>8, FS_Interval
  <2> QED
    BY <1>9, <2>1
<1>13. ASSUME NEW b \in Blocks
       PROVE  Linked(vol.fat, taken)[b] = IF b \in h .. last - 1 THEN b + 1 ELSE vol.fat[b]
  <2>1. CASE b \in h .. last - 1
    <3>1. b \in taken /\ b + 1 \in taken /\ b + 1 > b
      BY <1>5, <1>8, <1>9, <2>1
    <3>2. Linked(vol.fat, taken)[b] = Min({c \in taken : c > b})
      BY <3>1 DEF Linked
    <3>3. {c \in taken : c > b} = b + 1 .. last
      BY <1>5, <1>8, <1>9, <2>1
    <3>4. b + 1 .. last \in SUBSET Blocks /\ b + 1 \in b + 1 .. last
      BY <1>5, <1>8, <1>9, <2>1, FatWords
    <3>5. Min(b + 1 .. last) = b + 1
      <4>1. Min(b + 1 .. last) \in b + 1 .. last /\ Min(b + 1 .. last) <= b + 1
        BY <3>4, MinMaxBlocks
      <4> QED
        BY <4>1, <1>5, <1>8, <2>1
    <3> QED
      BY <2>1, <3>2, <3>3, <3>5
  <2>2. CASE b \notin h .. last - 1
    <3>1. ~(b \in taken /\ \E c \in taken : c > b)
      BY <1>5, <1>8, <1>9, <2>2
    <3> QED
      BY <2>2, <3>1 DEF Linked
  <2> QED
    BY <2>1, <2>2
<1>14. Linked(vol.fat, taken) \in Tables
  BY <1>10, LinkedTable DEF Volumes
<1>15. last \in Blocks
  BY <1>8, FatWords
<1>16. \A b \in h .. last : vol.fat[b] = BLOCK_FREE
  BY <1>1, <1>2, <1>9
<1>17. ASSUME NEW b \in Blocks, vol.fat[b] = BLOCK_FREE, vol.head <= b PROVE h <= b
  <2>1. b \in S
    BY <1>1, <1>2, <1>17 DEF S, Reachable
  <2> QED
    BY <1>3, <2>1
<1>18. vol.head <= h
  BY <1>1, <1>3
<1> QED
  BY <1>3, <1>8, <1>9, <1>11, <1>12, <1>13, <1>14, <1>15, <1>16, <1>17, <1>18 DEF last

\* When the free blocks are the last ones of the volume, an allocation takes
\* the first n of them behind the head: one run, linked in order and sealed.
LEMMA AllocateRun ==
    ASSUME NEW vol \in Volumes, TailFree(vol.fat), NEW n \in Nat, n > 0,
           NEW r, r = allocateBlocks(vol, n), r.start # NoBlock,
           NEW last, last = r.start + n - 1
    PROVE  /\ r.start \in Blocks /\ last \in Blocks /\ r.start <= last
           /\ \A b \in r.start .. last : vol.fat[b] = BLOCK_FREE
           /\ \A b \in Blocks :
                r.vol.fat[b] = IF b \in r.start .. last
                               THEN IF b = last THEN BLOCK_RESERVED ELSE b + 1
                               ELSE vol.fat[b]
           /\ r.vol.head = last + 1
<1> DEFINE taken == Lowest(Reachable(vol), n)
<1>1. taken # {}
  <2> SUFFICES ASSUME taken = {} PROVE r.start = NoBlock
    OBVIOUS
  <2>1. allocateBlocks(vol, n) = [vol |-> vol, start |-> NoBlock]
    BY DEF allocateBlocks
  <2> QED
    BY <2>1
<1> HIDE DEF taken
<1>2. \A rel : r = [vol |-> rel, start |-> NoBlock] => r.start = NoBlock
  OBVIOUS
<1>3. /\ r = [vol   |-> [fat  |-> [Linked(vol.fat, taken) EXCEPT ![Max(taken)] = BLOCK_RESERVED],
                      head |-> Max(taken) + 1],
            start |-> Min(taken)]
      /\ Cardinality(taken) >= n
  BY <1>1, <1>2, AllocateCases, Zenon DEF taken
<1>4. PICK h, end \in Blocks :
        /\ taken = h .. end /\ h <= end /\ Cardinality(taken) = end - h + 1
        /\ Min(taken) = h /\ Max(taken) = end
        /\ end = (IF h + n <= TotalBlocks THEN h + n ELSE TotalBlocks) - 1
        /\ \A b \in h .. end : vol.fat[b] = BLOCK_FREE
        /\ Linked(vol.fat, taken) \in Tables
        /\ \A b \in Blocks :
             Linked(vol.fat, taken)[b] = IF b \in h .. end - 1 THEN b + 1 ELSE vol.fat[b]
  <2>1. \E h, end \in Blocks :
          /\ taken = h .. end /\ h <= end /\ Cardinality(taken) = end - h + 1
          /\ Min(taken) = h /\ Max(taken) = end /\ vol.head <= h
          /\ end = (IF h + n <= TotalBlocks THEN h + n ELSE TotalBlocks) - 1
          /\ \A b \in h .. end : vol.fat[b] = BLOCK_FREE
          /\ \A b \in Blocks : vol.fat[b] = BLOCK_FREE /\ vol.head <= b => h <= b
          /\ Linked(vol.fat, taken) \in Tables
          /\ \A b \in Blocks :
               Linked(vol.fat, taken)[b] = IF b \in h .. end - 1 THEN b + 1 ELSE vol.fat[b]
    BY <1>1, FreeRun DEF taken
  <2> QED
    BY <2>1
<1>5. r.start = h /\ r.vol.head = end + 1
  BY <1>3, <1>4
<1>6. end = last
  BY <1>3, <1>4, <1>5, FatWords
<1>7. r.vol.fat = [Linked(vol.fat, taken) EXCEPT ![last] = BLOCK_RESERVED]
  BY <1>3, <1>4, <1>6
<1>8. ASSUME NEW b \in Blocks
      PROVE  r.vol.fat[b] = IF b \in h .. last
                            THEN IF b = last THEN BLOCK_RESERVED ELSE b + 1
                            ELSE vol.fat[b]
  <2>1. r.vol.fat[b] = IF b = last THEN BLOCK_RESERVED ELSE Linked(vol.fat, taken)[b]
    BY <1>4, <1>7 DEF Tables
  <2>2. b \in Nat /\ last \in Nat /\ h \in Nat
    BY <1>4, <1>6, FatWords
  <2> QED
    BY <1>4, <1>6, <2>1, <2>2
<1> QED
  BY <1>4, <1>5, <1>6, <1>8

-----------------------------------------------------------------------------
(* Volumes as the layers above the allocator see them: the free blocks are *)
(* the last ones, and the head is in front of them.                        *)

Tidy(vol) ==
    /\ vol \in Volumes /\ vol.head > 0
    /\ TailFree(vol.fat)
    /\ \A b \in Blocks : vol.fat[b] = BLOCK_FREE => vol.head <= b /\ b # 0

\* Releasing n blocks of a run: each one is chained to the block before it,
\* the first one to the old head, and no other entry changes.
LEMMA ReleaseRun ==
    ASSUME NEW vol \in Volumes, NEW first \in Blocks, NEW n \in Nat,
           first + n <= TotalBlocks,
           \A b \in first .. first + n - 2 : vol.fat[b] = b + 1
    PROVE  \A b \in Blocks : releaseBlocks(vol, first, n).fat[b] =
             IF b \in first .. first + n - 1
             THEN IF b = first THEN vol.head ELSE b - 1
             ELSE vol.fat[b]
<1>1. PICK w \in [0 .. n -> Walks] :
        /\ w[0] = [fat |-> vol.fat, cur |-> first, freeHead |-> vol.head]
        /\ \A k \in 0 .. n - 1 : w[k + 1] = WalkStep(w[k])
        /\ ReleaseWalk(vol, first, n) = w[n]
  BY ReleaseStates, FatWords
<1> DEFINE P == {k \in 0 .. n :
                  /\ k < n => w[k].cur = first + k
                  /\ w[k].freeHead = IF k = 0 THEN vol.head ELSE first + k - 1
                  /\ \A b \in Blocks : w[k].fat[b] =
                       IF b \in first .. first + k - 1
                       THEN IF b = first THEN vol.head ELSE b - 1
                       ELSE vol.fat[b]}
<1>2. first \in Nat /\ TotalBlocks \in Nat /\ Blocks = 0 .. TotalBlocks - 1
  BY FatWords
<1>3. 0 \in P
  BY <1>1, <1>2
<1>4. ASSUME NEW k \in 0 .. n - 1, k \in P PROVE k + 1 \in P
  <2>1. /\ w[k].cur = first + k
        /\ w[k].freeHead = (IF k = 0 THEN vol.head ELSE first + k - 1)
        /\ \A b \in Blocks : w[k].fat[b] =
             IF b \in first .. first + k - 1
             THEN IF b = first THEN vol.head ELSE b - 1
             ELSE vol.fat[b]
    BY <1>4
  <2> HIDE DEF P
  <2>2. first + k \in Blocks
    BY <1>2
  <2>3. /\ w[k + 1].fat = [w[k].fat EXCEPT ![first + k] = w[k].freeHead]
        /\ w[k + 1].cur = w[k].fat[first + k] /\ w[k + 1].freeHead = first + k
    <3>1. w[k + 1] = WalkStep(w[k]) /\ w[k].cur \in Blocks /\ k < n
      BY <1>1, <2>1, <2>2
    <3>2. w[k + 1] = [fat |-> [w[k].fat EXCEPT ![w[k].cur] = w[k].freeHead],
                      cur |-> w[k].fat[w[k].cur], freeHead |-> w[k].cur]
      BY <3>1, Zenon DEF WalkStep
    <3> QED
      BY <2>1, <3>1, <3>2
  <2>4. w[k].fat \in Tables
    BY DEF Walks
  <2>5. ASSUME NEW b \in Blocks
        PROVE  w[k + 1].fat[b] = IF b \in first .. first + (k + 1) - 1
                                 THEN IF b = first THEN vol.head ELSE b - 1
                                 ELSE vol.fat[b]
    <3>1. w[k + 1].fat[b] = IF b = first + k THEN w[k].freeHead ELSE w[k].fat[b]
      BY <2>2, <2>3, <2>4 DEF Tables
    <3>2. b \in Nat
      BY <1>2
    <3>3. CASE b = first + k
      BY <1>2, <2>1, <3>1, <3>2, <3>3
    <3>4. CASE b # first + k
      BY <1>2, <2>1, <3>1, <3>2, <3>4
    <3> QED
      BY <3>3, <3>4
  <2>6. k + 1 < n => w[k + 1].cur = first + (k + 1)
    <3> SUFFICES ASSUME k + 1 < n PROVE w[k + 1].cur = first + (k + 1)
      OBVIOUS
    <3>1. first + k \notin first .. first + k - 1 /\ first + k \in first .. first + n - 2
      BY <1>2
    <3> QED
      BY <1>2, <2>1, <2>2, <2>3, <3>1
  <2>7. w[k + 1].freeHead = IF k + 1 = 0 THEN vol.head ELSE first + (k + 1) - 1
    BY <1>2, <2>3
  <2>8. k + 1 \in 0 .. n
    OBVIOUS
  <2> QED
    BY <2>5, <2>6, <2>7, <2>8 DEF P
<1> HIDE DEF P
<1>5. n \in P
  BY <1>3, <1>4, BoundedInduction
<1>6. releaseBlocks(vol, first, n).fat = w[n].fat
  BY <1>1 DEF releaseBlocks
<1> QED
  BY <1>5, <1>6 DEF P

\* Released blocks do not become free, and no other entry changes.
LEMMA ReleaseTidy ==
    ASSUME NEW vol, Tidy(vol), NEW first \in Blocks, first > 0, vol.fat[first] # BLOCK_FREE,
           NEW n \in Nat, first + n <= TotalBlocks,
           \A b \in first .. first + n - 2 : vol.fat[b] = b + 1,
           \A b \in first .. first + n - 1 : vol.fat[b] # BLOCK_FREE
    PROVE  LET r == releaseBlocks(vol, first, n)
           IN  /\ Tidy(r)
               /\ \A b \in Blocks : r.fat[b] = BLOCK_FREE <=> vol.fat[b] = BLOCK_FREE
               /\ \A b \in Blocks : b \notin first .. first + n - 1 => r.fat[b] = vol.fat[b]
<1> DEFINE r == releaseBlocks(vol, first, n)
<1>1. vol \in Volumes /\ vol.head > 0 /\ vol.head \in Int /\ first \in Words
  BY FatWords DEF Tidy, Volumes
<1>2. r \in Volumes
  BY <1>1, ReleaseVolume
<1>3. r.head = first
  BY DEF releaseBlocks
<1>4. \A b \in Blocks : r.fat[b] = IF b \in first .. first + n - 1
                                   THEN IF b = first THEN vol.head ELSE b - 1
                                   ELSE vol.fat[b]
  BY <1>1, ReleaseRun
<1> HIDE DEF r
<1>5. ASSUME NEW b \in Blocks PROVE r.fat[b] = BLOCK_FREE <=> vol.fat[b] = BLOCK_FREE
  <2>1. b \in Nat /\ first \in Nat /\ BLOCK_FREE = 0
    BY FatWords
  <2>2. CASE b \in first .. first + n - 1
    BY <1>1, <1>4, <2>1, <2>2
  <2>3. CASE b \notin first .. first + n - 1
    BY <1>4, <2>3
  <2> QED
    BY <2>2, <2>3
<1>6. ASSUME NEW b \in Blocks, r.fat[b] = BLOCK_FREE PROVE first <= b /\ b # 0
  <2>1. vol.fat[b] = BLOCK_FREE /\ b # 0
    BY <1>5, <1>6 DEF Tidy
  <2>2. ~(b < first)
    BY <2>1 DEF Tidy, TailFree
  <2> QED
    BY <2>1, <2>2, FatWords
<1>7. Tidy(r)
  BY <1>2, <1>3, <1>5, <1>6 DEF Tidy, TailFree
<1> QED
  BY <1>4, <1>5, <1>7 DEF r

\* An allocation changes only free blocks, and leaves the volume tidy also
\* when it fails: what it had collected is then lost.
LEMMA AllocateTidy ==
    ASSUME NEW vol, Tidy(vol), NEW n \in Nat, n > 0
    PROVE  LET r == allocateBlocks(vol, n)
           IN  /\ Tidy(r.vol)
               /\ \A b \in Blocks : vol.fat[b] # BLOCK_FREE =>
                    r.vol.fat[b] = vol.fat[b] /\ r.vol.fat[b] # BLOCK_FREE
<1> DEFINE taken == Lowest(Reachable(vol), n)
           linked == Linked(vol.fat, taken)
           r == allocateBlocks(vol, n)
<1>1. vol \in Volumes /\ TailFree(vol.fat)
  BY DEF Tidy
<1>2. CASE r = [vol |-> vol, start |-> NoBlock]
  BY <1>2
<1>3. CASE /\ taken # {} /\ Cardinality(taken) < n
           /\ r = [vol   |-> releaseBlocks([vol EXCEPT !.fat = linked], Min(taken), Cardinality(taken)),
                   start |-> NoBlock]
  <2> HIDE DEF taken
  <2>1. PICK h, last \in Blocks :
          /\ taken = h .. last /\ h <= last /\ Cardinality(taken) = last - h + 1
          /\ Min(taken) = h /\ Max(taken) = last /\ vol.head <= h
          /\ last = (IF h + n <= TotalBlocks THEN h + n ELSE TotalBlocks) - 1
          /\ \A b \in h .. last : vol.fat[b] = BLOCK_FREE
          /\ \A b \in Blocks : vol.fat[b] = BLOCK_FREE /\ vol.head <= b => h <= b
          /\ Linked(vol.fat, taken) \in Tables
          /\ \A b \in Blocks :
               Linked(vol.fat, taken)[b] = IF b \in h .. last - 1 THEN b + 1 ELSE vol.fat[b]
    BY <1>1, <1>3, FreeRun DEF taken
  <2> DEFINE v == [vol EXCEPT !.fat = linked]
             m == last - h + 1
  <2>2. v \in Volumes /\ v.fat = linked /\ v.head = vol.head
    BY <1>1, <2>1 DEF Volumes
  <2>3. h \in Nat /\ last \in Nat /\ m \in Nat /\ h + m <= TotalBlocks /\ h > 0
    BY <1>1, <2>1, FatWords DEF Tidy, Volumes
  <2>4. r.vol = releaseBlocks(v, h, m)
    BY <1>3, <2>1
  <2> HIDE DEF v, linked, r
  <2>5. \A b \in h .. h + m - 2 : v.fat[b] = b + 1
    <3>1. \A b \in h .. h + m - 2 : b \in Blocks /\ b \in h .. last - 1
      BY <2>1, <2>3, FatWords
    <3> QED
      BY <2>1, <2>2, <3>1 DEF linked
  <2>6. \A b \in Blocks : r.vol.fat[b] = IF b \in h .. h + m - 1
                                         THEN IF b = h THEN v.head ELSE b - 1
                                         ELSE v.fat[b]
    BY <2>2, <2>3, <2>4, <2>5, ReleaseRun
  <2>7. r.vol \in Volumes /\ r.vol.head = h
    BY <2>2, <2>3, <2>4, ReleaseVolume, FatWords DEF releaseBlocks
  <2>8. ASSUME NEW b \in Blocks
        PROVE  r.vol.fat[b] = IF b \in h .. last THEN IF b = h THEN vol.head ELSE b - 1
                              ELSE vol.fat[b]
    <3>1. h + m - 1 = last /\ b \in Nat
      BY <2>3, FatWords
    <3>2. b \in h .. last => r.vol.fat[b] = IF b = h THEN v.head ELSE b - 1
      BY <2>6, <3>1
    <3>3. b \notin h .. last => r.vol.fat[b] = v.fat[b] /\ b \notin h .. last - 1
      BY <2>3, <2>6, <3>1
    <3>4. v.fat[b] = IF b \in h .. last - 1 THEN b + 1 ELSE vol.fat[b]
      BY <2>1, <2>2 DEF linked
    <3> QED
      BY <2>2, <3>2, <3>3, <3>4
  <2>9. vol.head \in Int /\ vol.head > 0 /\ BLOCK_FREE = 0
    BY <1>1, FatWords DEF Tidy, Volumes
  <2>10. \A b \in Blocks : r.vol.fat[b] # BLOCK_FREE
    <3> SUFFICES ASSUME NEW b \in Blocks PROVE r.vol.fat[b] # BLOCK_FREE
      OBVIOUS
    <3>1. b \in Nat
      BY FatWords
    <3>2. CASE b \in h .. last
      BY <2>3, <2>8, <2>9, <3>1, <3>2
    <3>3. CASE b \notin h .. last
      <4>1. ASSUME vol.fat[b] = BLOCK_FREE PROVE FALSE
        <5>1. h <= b
          BY <2>1, <4>1 DEF Tidy
        <5>2. last < b /\ last # TotalBlocks - 1
          BY <2>3, <3>1, <3>3, <5>1, FatWords
        <5>3. Cardinality(taken) = n
          BY <2>1, <2>3, <5>2
        <5> QED
          BY <1>3, <5>3
      <4> QED
        BY <2>8, <3>3, <4>1
    <3> QED
      BY <3>2, <3>3
  <2>11. Tidy(r.vol)
    BY <2>3, <2>7, <2>10 DEF Tidy, TailFree
  <2>12. \A b \in Blocks : vol.fat[b] # BLOCK_FREE => r.vol.fat[b] = vol.fat[b]
    BY <2>1, <2>8
  <2> QED
    BY <2>10, <2>11, <2>12 DEF r
<1>4. CASE r.start # NoBlock
  <2> DEFINE last == r.start + n - 1
  <2> HIDE DEF r
  <2>1. /\ r.start \in Blocks /\ last \in Blocks /\ r.start <= last
        /\ \A b \in r.start .. last : vol.fat[b] = BLOCK_FREE
        /\ \A b \in Blocks :
             r.vol.fat[b] = IF b \in r.start .. last
                            THEN IF b = last THEN BLOCK_RESERVED ELSE b + 1
                            ELSE vol.fat[b]
        /\ r.vol.head = last + 1
    BY <1>1, <1>4, AllocateRun DEF r
  <2>2. r.vol \in Volumes
    BY <1>1, AllocateType DEF r
  <2> HIDE DEF last
  <2>3. r.start \in Nat /\ last \in Nat /\ BLOCK_FREE = 0 /\ BLOCK_RESERVED = -2
    BY <2>1, FatWords
  <2>4. ASSUME NEW b \in Blocks
        PROVE  r.vol.fat[b] = BLOCK_FREE <=> vol.fat[b] = BLOCK_FREE /\ last < b
    <3>1. b \in Nat /\ r.start \in Blocks
      BY <2>1, FatWords
    <3>2. vol.fat[b] = BLOCK_FREE => r.start <= b
      <4>1. ASSUME vol.fat[b] = BLOCK_FREE, b < r.start PROVE FALSE
        <5>1. vol.head <= b /\ b \in Reachable(vol)
          <6>1. vol.head <= b /\ vol.head \in Int /\ vol.head > 0
            BY <1>1, <4>1, FatWords DEF Tidy, Volumes
          <6>2. vol.head \in Blocks
            BY <3>1, <6>1, FatWords
          <6> QED
            BY <4>1, <6>1, <6>2 DEF Reachable
        <5>2. taken # {} /\ r.start = Min(taken)
          <6>1. \A rel : r = [vol |-> rel, start |-> NoBlock] => r.start = NoBlock
            OBVIOUS
          <6>2. /\ taken # {}
                /\ r = [vol   |-> [fat  |-> [Linked(vol.fat, taken) EXCEPT ![Max(taken)] = BLOCK_RESERVED],
                                   head |-> Max(taken) + 1],
                        start |-> Min(taken)]
            BY <1>1, <1>4, <6>1, AllocateCases, Zenon DEF r, taken
          <6> QED
            BY <6>2
        <5>3. Min(taken) = Min(Reachable(vol))
          BY <1>1, <5>1, ReachableBlocks, LowestHasMin
        <5>4. Min(Reachable(vol)) <= b
          BY <1>1, <5>1, ReachableBlocks, MinMaxBlocks
        <5> HIDE DEF taken
        <5> QED
          BY <2>3, <3>1, <4>1, <5>2, <5>3, <5>4
      <4> QED
        BY <2>3, <3>1, <4>1
    <3>3. CASE b \in r.start .. last
      BY <2>1, <2>3, <3>1, <3>3
    <3>4. CASE b \notin r.start .. last
      BY <2>1, <2>3, <3>1, <3>2, <3>4
    <3> QED
      BY <3>3, <3>4
  <2>5. Tidy(r.vol)
    <3>1. TailFree(r.vol.fat)
      <4> SUFFICES ASSUME NEW b \in Blocks, NEW c \in Blocks, r.vol.fat[b] = BLOCK_FREE, b < c
                   PROVE  r.vol.fat[c] = BLOCK_FREE
        BY DEF TailFree
      <4>1. vol.fat[b] = BLOCK_FREE /\ last < b
        BY <2>4
      <4>2. vol.fat[c] = BLOCK_FREE
        BY <1>1, <4>1 DEF TailFree
      <4>3. last < c
        BY <2>3, <4>1, FatWords
      <4> QED
        BY <2>4, <4>2, <4>3
    <3>2. \A b \in Blocks : r.vol.fat[b] = BLOCK_FREE => r.vol.head <= b /\ b # 0
      BY <2>1, <2>3, <2>4, FatWords
    <3> QED
      BY <2>1, <2>2, <2>3, <3>1, <3>2 DEF Tidy
  <2>6. \A b \in Blocks : vol.fat[b] # BLOCK_FREE => r.vol.fat[b] = vol.fat[b]
    BY <2>1
  <2> QED
    BY <2>4, <2>5, <2>6 DEF r
<1>5. r.start = NoBlock => \/ r = [vol |-> vol, start |-> NoBlock]
                           \/ /\ taken # {} /\ Cardinality(taken) < n
                              /\ r = [vol   |-> releaseBlocks([vol EXCEPT !.fat = linked],
                                                              Min(taken), Cardinality(taken)),
                                      start |-> NoBlock]
  <2>1. ASSUME r.start = NoBlock, taken # {}, Cardinality(taken) >= n,
               r = [vol   |-> [fat  |-> [Linked(vol.fat, taken) EXCEPT ![Max(taken)] = BLOCK_RESERVED],
                               head |-> Max(taken) + 1],
                    start |-> Min(taken)]
        PROVE  FALSE
    <3>1. taken \in SUBSET Blocks
      BY <1>1, ReachableBlocks DEF Lowest
    <3>2. r.start = Min(taken)
      BY <2>1
    <3>3. Min(taken) \in taken
      BY <2>1, <3>1, MinMaxBlocks
    <3> QED
      BY <2>1, <3>1, <3>2, <3>3, FatWords
  <2> QED
    BY <1>1, <2>1, AllocateCases, Zenon
<1> HIDE DEF r
<1>6. QED
  BY <1>2, <1>3, <1>4, <1>5 DEF r

\* The first allocation of a formatted volume gets the first data blocks.
LEMMA FirstAllocation ==
    ASSUME NEW n \in Nat, n > 0, FirstFreeBlock + n <= TotalBlocks,
           NEW r, r = allocateBlocks(initFreeSpace, n)
    PROVE  /\ r.start = FirstFreeBlock /\ Tidy(r.vol)
           /\ \A b \in Blocks : r.vol.fat[b] = BLOCK_FREE => r.start + n <= b
<1> DEFINE taken == Lowest(Reachable(initFreeSpace), n)
<1>1. Tidy(initFreeSpace) /\ initFreeSpace.head = FirstFreeBlock
  <2>1. initFreeSpace.head = FirstFreeBlock
    BY DEF initFreeSpace
  <2> QED
    BY <2>1, InitVolume, FatWords DEF Tidy
<1>2. FirstFreeBlock \in Reachable(initFreeSpace)
  BY <1>1, InitVolume, FatWords DEF Reachable
<1>3. taken # {}
  BY <1>1, <1>2, ReachableBlocks, LowestHasMin DEF Tidy
<1>4. taken = Lowest(Reachable(initFreeSpace), n)
  OBVIOUS
<1> HIDE DEF taken
<1>5. PICK h, last \in Blocks :
        /\ Cardinality(taken) = last - h + 1 /\ Min(taken) = h /\ initFreeSpace.head <= h
        /\ last = (IF h + n <= TotalBlocks THEN h + n ELSE TotalBlocks) - 1
        /\ \A b \in Blocks : initFreeSpace.fat[b] = BLOCK_FREE /\ initFreeSpace.head <= b => h <= b
  <2>1. initFreeSpace \in Volumes /\ TailFree(initFreeSpace.fat)
    BY <1>1 DEF Tidy
  <2>2. \E h, last \in Blocks :
          /\ taken = h .. last /\ h <= last /\ Cardinality(taken) = last - h + 1
          /\ Min(taken) = h /\ Max(taken) = last /\ initFreeSpace.head <= h
          /\ last = (IF h + n <= TotalBlocks THEN h + n ELSE TotalBlocks) - 1
          /\ \A b \in h .. last : initFreeSpace.fat[b] = BLOCK_FREE
          /\ \A b \in Blocks : initFreeSpace.fat[b] = BLOCK_FREE /\ initFreeSpace.head <= b => h <= b
          /\ Linked(initFreeSpace.fat, taken) \in Tables
          /\ \A b \in Blocks : Linked(initFreeSpace.fat, taken)[b] =
               IF b \in h .. last - 1 THEN b + 1 ELSE initFreeSpace.fat[b]
    BY <1>3, <1>4, <2>1, FreeRun
  <2> QED
    BY <2>2
<1>6. h = FirstFreeBlock
  <2>1. initFreeSpace.fat[FirstFreeBlock] = BLOCK_FREE
    BY InitVolume, FatWords
  <2> QED
    BY <1>1, <1>5, <2>1, FatWords
<1>7. Cardinality(taken) = n
  BY <1>5, <1>6, FatWords
<1>8. r.start = FirstFreeBlock
  <2>1. ~(Cardinality(taken) < n)
    BY <1>7
  <2>2. r = [vol   |-> [fat  |-> [Linked(initFreeSpace.fat, taken) EXCEPT ![Max(taken)] = BLOCK_RESERVED],
                        head |-> Max(taken) + 1],
             start |-> Min(taken)]
    BY <1>1, <1>3, <1>4, <2>1, AllocateCases, Zenon DEF Tidy
  <2> QED
    BY <1>5, <1>6, <2>2
<1>9. Tidy(r.vol)
  BY <1>1, AllocateTidy
<1>10. ASSUME NEW b \in Blocks, r.vol.fat[b] = BLOCK_FREE PROVE r.start + n <= b
  <2> DEFINE end == r.start + n - 1
  <2>1. initFreeSpace \in Volumes /\ TailFree(initFreeSpace.fat) /\ r.start # NoBlock
    BY <1>1, <1>8, FatWords DEF Tidy
  <2>2. r.vol.head = end + 1
    BY <2>1, AllocateRun
  <2>3. r.vol.head <= b
    BY <1>9, <1>10 DEF Tidy
  <2> QED
    BY <1>8, <2>2, <2>3, FatWords
<1> QED
  BY <1>8, <1>9, <1>10

-----------------------------------------------------------------------------
\* The loop of releaseBlocks stopped after any number of iterations.
LEMMA ReleasePrefix ==
    ASSUME NEW vol \in Volumes, NEW location \in Words, NEW n \in Nat
    PROVE  \E w \in [0 .. n -> Walks] :
             /\ w[0] = [fat |-> vol.fat, cur |-> location, freeHead |-> vol.head]
             /\ \A k \in 0 .. n - 1 : w[k + 1] = WalkStep(w[k])
             /\ \A k \in 0 .. n : ReleaseWalk(vol, location, k) = w[k]
<1>1. PICK w \in [0 .. n -> Walks] :
        /\ w[0] = [fat |-> vol.fat, cur |-> location, freeHead |-> vol.head]
        /\ \A k \in 0 .. n - 1 : w[k + 1] = WalkStep(w[k])
  BY ReleaseStates
<1>2. ASSUME NEW k \in 0 .. n PROVE ReleaseWalk(vol, location, k) = w[k]
  <2>0. k \in Nat
    OBVIOUS
  <2>1. PICK v \in [0 .. k -> Walks] :
          /\ v[0] = [fat |-> vol.fat, cur |-> location, freeHead |-> vol.head]
          /\ \A j \in 0 .. k - 1 : v[j + 1] = WalkStep(v[j])
          /\ ReleaseWalk(vol, location, k) = v[k]
    BY <2>0, ReleaseStates
  <2> DEFINE P == {j \in 0 .. k : v[j] = w[j]}
  <2>2. 0 \in P
    BY <1>1, <2>1
  <2>3. \A j \in 0 .. k - 1 : j \in P => j + 1 \in P
    BY <1>1, <2>1
  <2> HIDE DEF P
  <2>4. 0 .. k \subseteq P
    BY <2>2, <2>3, BoundedInduction
  <2> QED
    BY <2>1, <2>4 DEF P
<1> QED
  BY <1>1, <1>2

\* Its iterations one by one.
LEMMA ReleaseNext ==
    ASSUME NEW vol \in Volumes, NEW location \in Words
    PROVE  /\ ReleaseWalk(vol, location, 0) =
                [fat |-> vol.fat, cur |-> location, freeHead |-> vol.head]
           /\ \A n \in Nat : /\ ReleaseWalk(vol, location, n) \in Walks
                             /\ ReleaseWalk(vol, location, n + 1) =
                                  WalkStep(ReleaseWalk(vol, location, n))
<1>1. ReleaseWalk(vol, location, 0) = [fat |-> vol.fat, cur |-> location, freeHead |-> vol.head]
  <2>1. 0 \in Nat /\ 0 \in 0 .. 0
    OBVIOUS
  <2>2. PICK w \in [0 .. 0 -> Walks] :
          /\ w[0] = [fat |-> vol.fat, cur |-> location, freeHead |-> vol.head]
          /\ \A k \in 0 .. 0 : ReleaseWalk(vol, location, k) = w[k]
    BY <2>1, ReleasePrefix
  <2> QED
    BY <2>1, <2>2
<1>2. ASSUME NEW n \in Nat
      PROVE  /\ ReleaseWalk(vol, location, n) \in Walks
             /\ ReleaseWalk(vol, location, n + 1) = WalkStep(ReleaseWalk(vol, location, n))
  <2>1. n + 1 \in Nat /\ n \in 0 .. n + 1 /\ n + 1 \in 0 .. n + 1 /\ n \in 0 .. (n + 1) - 1
    OBVIOUS
  <2>2. PICK w \in [0 .. n + 1 -> Walks] :
          /\ \A k \in 0 .. (n + 1) - 1 : w[k + 1] = WalkStep(w[k])
          /\ \A k \in 0 .. n + 1 : ReleaseWalk(vol, location, k) = w[k]
    BY <2>1, ReleasePrefix
  <2> QED
    BY <2>1, <2>2
<1> QED
  BY <1>1, <1>2

\* It changes nothing once it has left the volume.
LEMMA ReleaseStays ==
    ASSUME NEW vol \in Volumes, NEW location \in Words, NEW n \in Nat, NEW m \in Nat, n <= m,
           ReleaseWalk(vol, location, n).cur \notin Blocks
    PROVE  ReleaseWalk(vol, location, m) = ReleaseWalk(vol, location, n)
<1> DEFINE P == {k \in Nat : ReleaseWalk(vol, location, n + k) = ReleaseWalk(vol, location, n)}
<1>1. 0 \in P
  OBVIOUS
<1>2. ASSUME NEW k \in Nat, k \in P PROVE k + 1 \in P
  <2>1. n + k \in Nat /\ n + (k + 1) = (n + k) + 1
    OBVIOUS
  <2>2. ReleaseWalk(vol, location, (n + k) + 1) = WalkStep(ReleaseWalk(vol, location, n + k))
    BY <2>1, ReleaseNext
  <2>3. WalkStep(ReleaseWalk(vol, location, n)) = ReleaseWalk(vol, location, n)
    BY DEF WalkStep
  <2> QED
    BY <1>2, <2>1, <2>2, <2>3
<1> HIDE DEF P
<1>3. m - n \in P
  BY <1>1, <1>2, InductionOverNat
<1>4. n + (m - n) = m
  OBVIOUS
<1> QED
  BY <1>3, <1>4 DEF P

-----------------------------------------------------------------------------
\* What a scan has collected when it has enough, or when nothing is left.
LEMMA LowestBelow ==
    ASSUME NEW S \in SUBSET Blocks, NEW x \in Int, NEW n \in Nat,
           NEW low, low = {b \in S : b < x},
           Cardinality(low) = n \/ (low = S /\ Cardinality(low) <= n)
    PROVE  Lowest(S, n) = low
<1>1. S \subseteq Nat /\ low \in SUBSET Blocks /\ IsFiniteSet(low) /\ Cardinality(low) \in Nat
  BY FatWords, FiniteBlocks
<1>2. ASSUME NEW b \in low PROVE Cardinality({c \in S : c < b}) < n
  <2> DEFINE Below == {c \in S : c < b}
  <2>1. Below \subseteq low \ {b}
    <3>1. ASSUME NEW c \in Below PROVE c \in low /\ c # b
      <4>1. c \in S /\ c < b /\ b < x /\ c \in Int /\ b \in Int
        BY <1>1
      <4>2. c < x /\ c # b
        BY <4>1
      <4> QED
        BY <4>1, <4>2
    <3> QED
      BY <3>1
  <2>2. Cardinality(low \ {b}) = Cardinality(low) - 1 /\ IsFiniteSet(low \ {b})
    BY <1>1, FS_RemoveElement
  <2>3. Cardinality(Below) <= Cardinality(low \ {b}) /\ Cardinality(Below) \in Nat
    BY <2>1, <2>2, FS_Subset, FS_CardinalityType
  <2> HIDE DEF Below
  <2>4. Cardinality(Below) < n
    BY <1>1, <2>2, <2>3
  <2> QED
    BY <2>4 DEF Below
<1>3. ASSUME NEW b \in S \ low PROVE ~(Cardinality({c \in S : c < b}) < n)
  <2> DEFINE Below == {c \in S : c < b}
  <2>1. low \subseteq Below /\ Cardinality(low) = n
    <3>1. b \in Int /\ x <= b
      BY <1>1
    <3>2. ASSUME NEW c \in low PROVE c \in S /\ c < b
      <4>1. c \in S /\ c < x /\ c \in Int
        BY <1>1
      <4> QED
        BY <3>1, <4>1
    <3> QED
      BY <3>2
  <2>2. IsFiniteSet(Below) /\ Cardinality(Below) \in Nat
    BY FiniteBlocks
  <2>3. Cardinality(low) <= Cardinality(Below)
    BY <2>1, <2>2, FS_Subset
  <2> HIDE DEF Below
  <2>4. ~(Cardinality(Below) < n)
    BY <2>1, <2>2, <2>3
  <2> QED
    BY <2>4 DEF Below
<1> QED
  BY <1>2, <1>3 DEF Lowest

\* Linking no block, or one block, changes nothing.
LEMMA LinkedFew ==
    ASSUME NEW fat \in Tables, NEW b \in Blocks
    PROVE  Linked(fat, {}) = fat /\ Linked(fat, {b}) = fat
<1>1. \A x \in Blocks : Linked(fat, {})[x] = fat[x] /\ Linked(fat, {b})[x] = fat[x]
  BY FatWords DEF Linked
<1>2. Linked(fat, {}) \in Tables /\ Linked(fat, {b}) \in Tables
  BY LinkedTable
<1> QED
  BY <1>1, <1>2 DEF Tables

\* Linking one block more, above the others, changes one entry.
LEMMA LinkedNext ==
    ASSUME NEW fat \in Tables, NEW S \in SUBSET Blocks, S # {}, NEW b \in Blocks,
           \A c \in S : c < b
    PROVE  /\ Linked(fat, S \cup {b}) = [Linked(fat, S) EXCEPT ![Max(S)] = b]
           /\ Max(S \cup {b}) = b /\ Min(S \cup {b}) = Min(S)
<1> DEFINE U == S \cup {b}
<1>0. Blocks \subseteq Nat
  BY FatWords
<1>1. U \in SUBSET Blocks /\ U # {} /\ b \in U
  OBVIOUS
<1>2. /\ Max(S) \in S /\ \A c \in S : c <= Max(S)
      /\ Min(S) \in S /\ \A c \in S : Min(S) <= c
  BY MinMaxBlocks
<1>3. /\ Max(U) \in U /\ \A c \in U : c <= Max(U)
      /\ Min(U) \in U /\ \A c \in U : Min(U) <= c
  BY <1>1, MinMaxBlocks
<1>4. Max(U) = b /\ Min(U) = Min(S)
  <2>1. \A c \in U : c <= b /\ c \in Nat
    BY <1>0
  <2>2. Max(U) \in Nat /\ Min(U) \in Nat /\ Min(S) \in Nat /\ Min(S) < b /\ Min(S) \in U
    BY <1>0, <1>1, <1>2, <1>3
  <2>3. Max(U) = b
    BY <1>1, <1>3, <2>1, <2>2
  <2>4. Min(U) <= Min(S) /\ Min(U) # b
    BY <1>3, <2>2
  <2>5. Min(S) <= Min(U)
    BY <1>2, <1>3, <2>4
  <2> QED
    BY <2>2, <2>3, <2>4, <2>5
<1>5. Linked(fat, U) \in Tables /\ Linked(fat, S) \in Tables
  BY <1>1, LinkedTable
<1>6. ASSUME NEW x \in Blocks
      PROVE  Linked(fat, U)[x] = IF x = Max(S) THEN b ELSE Linked(fat, S)[x]
  <2>1. /\ Linked(fat, U)[x] = IF x \in U /\ \E c \in U : c > x THEN Min({c \in U : c > x}) ELSE fat[x]
        /\ Linked(fat, S)[x] = IF x \in S /\ \E c \in S : c > x THEN Min({c \in S : c > x}) ELSE fat[x]
    BY DEF Linked
  <2>2. CASE x \notin S
    <3>1. x \in U => x = b /\ ~(\E c \in U : c > x)
      BY <1>0, <2>2
    <3> QED
      BY <1>2, <2>1, <2>2, <3>1
  <2>3. CASE x = Max(S)
    <3>1. {c \in U : c > x} = {b} /\ x \in U /\ b > x
      <4>1. x \in S /\ x < b /\ x \in Nat /\ b \in Nat
        BY <1>0, <1>2, <2>3
      <4>2. \A c \in S : ~(c > x)
        BY <1>0, <1>2, <2>3
      <4> QED
        BY <4>1, <4>2
    <3>2. Min({b}) = b
      <4>1. {b} \in SUBSET Blocks /\ {b} # {}
        OBVIOUS
      <4>2. Min({b}) \in {b}
        BY <4>1, MinMaxBlocks
      <4> QED
        BY <4>2
    <3>3. \E c \in U : c > x
      BY <1>1, <3>1
    <3> QED
      BY <2>1, <2>3, <3>1, <3>2, <3>3
  <2>4. CASE x \in S /\ x # Max(S)
    <3> DEFINE A == {c \in S : c > x}
               B == {c \in U : c > x}
    <3>1. Max(S) \in A /\ A \in SUBSET Blocks /\ B = A \cup {b}
      <4>1. x < b /\ x \in Nat /\ b \in Nat /\ Max(S) \in Nat
        BY <1>0, <1>2, <2>4
      <4>2. Max(S) > x
        BY <1>2, <2>4, <4>1
      <4>3. b > x
        BY <4>1
      <4> QED
        BY <1>2, <4>2, <4>3
    <3>2. B \in SUBSET Blocks /\ B # {} /\ A # {}
      BY <3>1
    <3>3. /\ Min(A) \in A /\ \A c \in A : Min(A) <= c
          /\ Min(B) \in B /\ \A c \in B : Min(B) <= c
      BY <3>1, <3>2, MinMaxBlocks
    <3>4. \A c \in A : c < b
      OBVIOUS
    <3>5. x \in U /\ (\E c \in U : c > x) /\ \E c \in S : c > x
      BY <2>4, <3>1
    <3> HIDE DEF A, B
    <3>6. Min(A) \in Nat /\ Min(B) \in Nat /\ Min(A) < b /\ Min(A) \in B
      BY <1>0, <3>1, <3>2, <3>3, <3>4
    <3>7. Min(B) <= Min(A) /\ Min(B) # b
      BY <1>0, <3>3, <3>6
    <3>8. Min(A) <= Min(B)
      BY <3>1, <3>3, <3>7
    <3>9. Min(A) = Min(B)
      BY <3>6, <3>7, <3>8
    <3> QED
      BY <2>1, <2>4, <3>5, <3>9 DEF A, B
  <2> QED
    BY <2>2, <2>3, <2>4
<1>7. Linked(fat, U) = [Linked(fat, S) EXCEPT ![Max(S)] = b]
  <2> HIDE DEF U
  <2> QED
    BY <1>5, <1>6 DEF Tables
<1> QED
  BY <1>4, <1>7

-----------------------------------------------------------------------------
\* One step of the walk of LastOfChain.
ChainStep(fat, b) ==
    IF readFATEntry(fat, b) = BLOCK_RESERVED THEN b ELSE readFATEntry(fat, b)

\* The walk is over: the entry is BLOCK_RESERVED or names itself.
IsLast(fat, b) == readFATEntry(fat, b) \in {BLOCK_RESERVED, b}

\* A block that is not the last one of its chain is a block of the volume.
LEMMA ChainStepIs ==
    ASSUME NEW fat \in Tables, NEW b \in Words
    PROVE  /\ ChainStep(fat, b) \in Words
           /\ IsLast(fat, b) => ChainStep(fat, b) = b
           /\ ~IsLast(fat, b) => b \in Blocks /\ ChainStep(fat, b) = readFATEntry(fat, b)
  BY FatWords DEF ChainStep, IsLast, readFATEntry, Tables

\* The walk of LastOfChain as a sequence of blocks.
LEMMA ChainWalk ==
    ASSUME NEW fat \in Tables, NEW c \in Words
    PROVE  \E w \in [0 .. TotalBlocks -> Words] :
             /\ w[0] = c
             /\ \A k \in 0 .. TotalBlocks - 1 : w[k + 1] = ChainStep(fat, w[k])
             /\ LastOfChain(fat, c) = w[TotalBlocks]
<1> DEFINE F(w) == [k \in 0 .. TotalBlocks |-> IF k = 0 THEN c ELSE ChainStep(fat, w[k - 1])]
           step == [k \in 1 .. TotalBlocks |-> [b \in Words |-> ChainStep(fat, b)]]
           walk == CHOOSE w : w = F(w)
<1>0. TotalBlocks \in Nat
  BY FatWords
<1>1. step \in [1 .. TotalBlocks -> [Words -> Words]]
  BY ChainStepIs
<1>2. PICK v \in [0 .. TotalBlocks -> Words] :
        v[0] = c /\ \A k \in 1 .. TotalBlocks : v[k] = step[k][v[k - 1]]
  <2> HIDE DEF step
  <2>1. PICK n, S : n = TotalBlocks /\ S = Words
    BY <1>0
  <2>2. n \in Nat /\ c \in S /\ step \in [1 .. n -> [S -> S]]
    BY <1>0, <1>1, <2>1
  <2>3. \E v \in [0 .. n -> S] : v[0] = c /\ \A k \in 1 .. n : v[k] = step[k][v[k - 1]]
    BY <2>2, Iteration
  <2> QED
    BY <2>1, <2>3
<1>3. v = F(v)
  <2>1. \A k \in 1 .. TotalBlocks : v[k - 1] \in Words
    BY <1>0
  <2>2. \A k \in 1 .. TotalBlocks : step[k][v[k - 1]] = ChainStep(fat, v[k - 1])
    BY <2>1
  <2> HIDE DEF step
  <2>3. ASSUME NEW k \in 0 .. TotalBlocks PROVE v[k] = IF k = 0 THEN c ELSE ChainStep(fat, v[k - 1])
    <3>1. k # 0 => k \in 1 .. TotalBlocks
      BY <1>0
    <3> QED
      BY <1>2, <2>2, <3>1
  <2>4. v = [k \in 0 .. TotalBlocks |-> v[k]]
    OBVIOUS
  <2> QED
    BY <2>3, <2>4, Zenon
<1>4. walk = F(walk)
  <2> HIDE DEF F
  <2> QED
    BY <1>3
<1>5. LastOfChain(fat, c) = walk[TotalBlocks]
  BY DEF LastOfChain, ChainStep
<1>6. /\ walk[0] = c
      /\ \A k \in 0 .. TotalBlocks - 1 : walk[k + 1] = ChainStep(fat, walk[k])
      /\ DOMAIN walk = 0 .. TotalBlocks
  <2> HIDE DEF walk
  <2> QED
    BY <1>0, <1>4
<1>7. \A k \in 0 .. TotalBlocks : walk[k] \in Words
  <2> HIDE DEF walk
  <2> DEFINE P == {k \in 0 .. TotalBlocks : walk[k] \in Words}
  <2>1. 0 \in P /\ \A k \in 0 .. TotalBlocks - 1 : k \in P => k + 1 \in P
    BY <1>0, <1>6, ChainStepIs
  <2> HIDE DEF P
  <2>2. 0 .. TotalBlocks \subseteq P
    BY <1>0, <2>1, BoundedInduction
  <2> QED
    BY <2>2 DEF P
<1>8. walk \in [0 .. TotalBlocks -> Words]
  <2>1. walk = [k \in 0 .. TotalBlocks |-> walk[k]]
    BY <1>4
  <2> HIDE DEF walk
  <2> QED
    BY <1>7, <2>1
<1> HIDE DEF walk
<1> QED
  BY <1>5, <1>6, <1>8

\* From the last block of a chain the walk goes nowhere.
LEMMA LastIsLast ==
    ASSUME NEW fat \in Tables, NEW c \in Words, IsLast(fat, c)
    PROVE  LastOfChain(fat, c) = c
<1>1. PICK w \in [0 .. TotalBlocks -> Words] :
        /\ w[0] = c
        /\ \A k \in 0 .. TotalBlocks - 1 : w[k + 1] = ChainStep(fat, w[k])
        /\ LastOfChain(fat, c) = w[TotalBlocks]
  BY ChainWalk
<1>2. TotalBlocks \in Nat
  BY FatWords
<1> DEFINE P == {k \in 0 .. TotalBlocks : w[k] = c}
<1>3. 0 \in P
  BY <1>1, <1>2
<1>4. \A k \in 0 .. TotalBlocks - 1 : k \in P => k + 1 \in P
  BY <1>1, <1>2, ChainStepIs
<1> HIDE DEF P
<1>5. 0 .. TotalBlocks \subseteq P
  BY <1>2, <1>3, <1>4, BoundedInduction
<1> QED
  BY <1>1, <1>2, <1>5 DEF P

\* A walk that is longer than the volume has blocks meets one twice.
LEMMA WalkRepeats ==
    ASSUME NEW w, \A k \in 0 .. TotalBlocks : w[k] \in Blocks
    PROVE  \E i, j \in 0 .. TotalBlocks : i < j /\ w[i] = w[j]
<1> SUFFICES ASSUME ~(\E i, j \in 0 .. TotalBlocks : i < j /\ w[i] = w[j]) PROVE FALSE
  OBVIOUS
<1> DEFINE f == [k \in 0 .. TotalBlocks |-> w[k]]
<1>1. TotalBlocks \in Nat /\ TotalBlocks > 0 /\ Blocks = 0 .. TotalBlocks - 1
  BY FatWords, VolumeAssumption
<1>2. /\ IsFiniteSet(0 .. TotalBlocks) /\ Cardinality(0 .. TotalBlocks) = TotalBlocks + 1
      /\ IsFiniteSet(Blocks) /\ Cardinality(Blocks) = TotalBlocks
  BY <1>1, FS_Interval
<1>3. f \in [0 .. TotalBlocks -> Blocks]
  OBVIOUS
<1>4. \A i, j \in 0 .. TotalBlocks : f[i] = f[j] => i = j
  <2>1. \A i, j \in 0 .. TotalBlocks : f[i] = f[j] => ~(i < j) /\ ~(j < i)
    OBVIOUS
  <2> HIDE DEF f
  <2>2. \A i, j \in 0 .. TotalBlocks : ~(i < j) /\ ~(j < i) => i = j
    BY <1>1
  <2> QED
    BY <2>1, <2>2
<1> HIDE DEF f
<1>5. Cardinality(Blocks) < Cardinality(0 .. TotalBlocks)
  BY <1>1, <1>2
<1>6. \E x, y \in 0 .. TotalBlocks : x # y /\ f[x] = f[y]
  <2>1. PICK S : S = 0 .. TotalBlocks
    OBVIOUS
  <2>2. IsFiniteSet(S) /\ IsFiniteSet(Blocks) /\ Cardinality(Blocks) < Cardinality(S) /\ f \in [S -> Blocks]
    BY <1>2, <1>3, <1>5, <2>1
  <2>3. \E x, y \in S : x # y /\ f[x] = f[y]
    BY <2>2, FS_PigeonHole
  <2> QED
    BY <2>1, <2>3
<1> QED
  BY <1>4, <1>6

\* If the walk from the next block ends, the walk from this one ends there
\* too, within as many steps.
LEMMA LastOfNext ==
    ASSUME NEW fat \in Tables, NEW c \in Words, ~IsLast(fat, c),
           NEW next, next = readFATEntry(fat, c),
           IsLast(fat, LastOfChain(fat, next))
    PROVE  LastOfChain(fat, c) = LastOfChain(fat, next)
<1>1. TotalBlocks \in Nat /\ next \in Words /\ next = ChainStep(fat, c)
  BY FatWords, ChainStepIs
<1>2. PICK v \in [0 .. TotalBlocks -> Words] :
        /\ v[0] = next
        /\ \A k \in 0 .. TotalBlocks - 1 : v[k + 1] = ChainStep(fat, v[k])
        /\ LastOfChain(fat, next) = v[TotalBlocks]
  BY <1>1, ChainWalk
<1>3. PICK u \in [0 .. TotalBlocks -> Words] :
        /\ u[0] = c
        /\ \A k \in 0 .. TotalBlocks - 1 : u[k + 1] = ChainStep(fat, u[k])
        /\ LastOfChain(fat, c) = u[TotalBlocks]
  BY ChainWalk
<1> DEFINE w == [k \in 0 .. TotalBlocks + 1 |-> IF k = 0 THEN c ELSE v[k - 1]]
<1>4. /\ \A k \in 0 .. TotalBlocks + 1 : w[k] \in Words
      /\ w[0] = c /\ w[TotalBlocks + 1] = v[TotalBlocks]
      /\ \A k \in 0 .. TotalBlocks : w[k + 1] = ChainStep(fat, w[k])
  <2>1. ASSUME NEW k \in 0 .. TotalBlocks + 1 PROVE w[k] \in Words
    BY <1>1
  <2>2. w[0] = c /\ w[TotalBlocks + 1] = v[TotalBlocks] /\ w[1] = next
    BY <1>1, <1>2
  <2>3. ASSUME NEW k \in 0 .. TotalBlocks PROVE w[k + 1] = ChainStep(fat, w[k])
    <3>1. CASE k = 0
      BY <1>1, <2>2, <3>1
    <3>2. CASE k # 0
      <4>1. k - 1 \in 0 .. TotalBlocks - 1 /\ k \in 0 .. TotalBlocks + 1 /\ k + 1 \in 0 .. TotalBlocks + 1
            /\ (k + 1) - 1 = (k - 1) + 1 /\ k + 1 # 0
        BY <1>1, <3>2
      <4>2. w[k] = v[k - 1] /\ w[k + 1] = v[(k - 1) + 1]
        BY <3>2, <4>1
      <4> HIDE DEF w
      <4> QED
        BY <1>2, <4>1, <4>2
    <3> QED
      BY <3>1, <3>2
  <2> QED
    BY <2>1, <2>2, <2>3
<1> HIDE DEF w
<1>5. \A k \in 0 .. TotalBlocks : u[k] = w[k]
  <2> DEFINE P == {k \in 0 .. TotalBlocks : u[k] = w[k]}
  <2>1. 0 \in P /\ \A k \in 0 .. TotalBlocks - 1 : k \in P => k + 1 \in P
    BY <1>1, <1>3, <1>4
  <2> HIDE DEF P
  <2>2. 0 .. TotalBlocks \subseteq P
    BY <1>1, <2>1, BoundedInduction
  <2> QED
    BY <2>2 DEF P
\* Once at the last block, the walk stays there.
<1>6. ASSUME NEW k \in 0 .. TotalBlocks, IsLast(fat, w[k])
      PROVE  \A m \in k .. TotalBlocks + 1 : w[m] = w[k]
  <2> DEFINE P == {i \in Nat : k + i <= TotalBlocks + 1 => w[k + i] = w[k]}
  <2>1. 0 \in P
    BY <1>1
  <2>2. ASSUME NEW i \in Nat, i \in P PROVE i + 1 \in P
    <3>1. CASE k + (i + 1) <= TotalBlocks + 1
      <4>1. k + i \in 0 .. TotalBlocks /\ k + (i + 1) = (k + i) + 1
        BY <1>1, <3>1
      <4>2. w[k + i] = w[k] /\ w[(k + i) + 1] = ChainStep(fat, w[k + i])
        BY <1>1, <1>4, <2>2, <4>1
      <4>3. ChainStep(fat, w[k]) = w[k]
        <5>1. w[k] \in Words
          BY <1>1, <1>4
        <5> QED
          BY <1>6, <5>1, ChainStepIs
      <4> QED
        BY <4>1, <4>2, <4>3
    <3>2. CASE ~(k + (i + 1) <= TotalBlocks + 1)
      BY <3>2
    <3> QED
      BY <3>1, <3>2
  <2> HIDE DEF P
  <2>3. Nat \subseteq P
    BY <2>1, <2>2, InductionOverNat
  <2>4. ASSUME NEW m \in k .. TotalBlocks + 1 PROVE w[m] = w[k]
    <3>1. m - k \in Nat /\ k + (m - k) = m /\ m <= TotalBlocks + 1
      BY <1>1
    <3> QED
      BY <2>3, <3>1 DEF P
  <2> QED
    BY <2>4
\* It meets the last block in time, for otherwise it goes round for ever.
<1>7. \E k \in 0 .. TotalBlocks : IsLast(fat, w[k])
  <2> SUFFICES ASSUME \A k \in 0 .. TotalBlocks : ~IsLast(fat, w[k]) PROVE FALSE
    OBVIOUS
  <2>1. \A k \in 0 .. TotalBlocks : w[k] \in Blocks
    BY <1>1, <1>4, ChainStepIs
  <2>2. PICK i \in 0 .. TotalBlocks, j \in 0 .. TotalBlocks : i < j /\ w[i] = w[j]
    BY <2>1, WalkRepeats
  <2> DEFINE P == {t \in Nat : j + t <= TotalBlocks + 1 => w[i + t] = w[j + t]}
  <2>3. 0 \in P
    BY <1>1, <2>2
  <2>4. ASSUME NEW t \in Nat, t \in P PROVE t + 1 \in P
    <3>1. CASE j + (t + 1) <= TotalBlocks + 1
      <4>1. /\ i + t \in 0 .. TotalBlocks /\ i + (t + 1) = (i + t) + 1
            /\ j + t \in 0 .. TotalBlocks /\ j + (t + 1) = (j + t) + 1
        BY <1>1, <2>2, <3>1
      <4>2. w[i + t] = w[j + t]
        BY <1>1, <2>4, <4>1
      <4> QED
        BY <1>4, <4>1, <4>2
    <3>2. CASE ~(j + (t + 1) <= TotalBlocks + 1)
      BY <3>2
    <3> QED
      BY <3>1, <3>2
  <2> HIDE DEF P
  <2>5. (TotalBlocks + 1) - j \in P
    <3>1. (TotalBlocks + 1) - j \in Nat
      BY <1>1
    <3> QED
      BY <2>3, <2>4, <3>1, InductionOverNat
  <2>6. w[i + ((TotalBlocks + 1) - j)] = w[TotalBlocks + 1]
    <3>1. j + ((TotalBlocks + 1) - j) = TotalBlocks + 1 /\ TotalBlocks + 1 <= TotalBlocks + 1
      BY <1>1
    <3> QED
      BY <2>5, <3>1 DEF P
  <2>7. i + ((TotalBlocks + 1) - j) \in 0 .. TotalBlocks
    BY <1>1, <2>2
  <2> QED
    BY <1>2, <1>4, <2>6, <2>7
<1>8. w[TotalBlocks] = w[TotalBlocks + 1]
  <2>1. PICK k \in 0 .. TotalBlocks : IsLast(fat, w[k])
    BY <1>7
  <2>2. TotalBlocks \in k .. TotalBlocks + 1 /\ TotalBlocks + 1 \in k .. TotalBlocks + 1
    BY <1>1
  <2> QED
    BY <1>6, <2>1, <2>2
<1>9. TotalBlocks \in 0 .. TotalBlocks
  BY <1>1
<1> QED
  BY <1>2, <1>3, <1>4, <1>5, <1>8, <1>9
=============================================================================
