--------------------------- MODULE FreeSpaceProofs ---------------------------
(***************************************************************************)
(* Proofs about FreeSpace, for every geometry of the volume, every bound   *)
(* on the requests, every set of faults and every set of stale locations   *)
(* the assumptions of the theorems allow.                                  *)
(***************************************************************************)
EXTENDS FreeSpaceCrash, FreeSpaceHistory, FatOpsProofs

\* The words an entry, a head or a local can hold.
LEMMA WordsLemma ==
    /\ Words \subseteq Int
    /\ Blocks \subseteq Words
    /\ \A b \in Blocks : b + 1 \in Words
    /\ NoBlock \in Words /\ BLOCK_RESERVED \in Words /\ BLOCK_FREE \in Words
    /\ FirstFreeBlock \in Words
    /\ NoBlock \notin Blocks /\ BLOCK_RESERVED \notin Blocks
  BY VolumeAssumption
  DEF Words, Blocks, NoBlock, BLOCK_RESERVED, BLOCK_FREE, FirstFreeBlock, FatStart

\* What a read returns is a word.
LEMMA ReadType ==
    ASSUME TypeOK, NEW b, NEW next \in ReadResults(b)
    PROVE  next \in Words
  BY WordsLemma DEF TypeOK, ReadResults, readFATEntry

\* A written entry keeps the table a table.
LEMMA WriteType ==
    ASSUME TypeOK, NEW b, NEW entry \in Words, WriteEntry(b, entry)
    PROVE  fat' \in [Blocks -> Words]
  BY DEF TypeOK, WriteEntry, writeFATEntry

\* The types hold on a formatted volume.
LEMMA InitType == Init => TypeOK
  BY WordsLemma
  DEF Init, TypeOK, initFreeSpace, NoAlloc, NoRel, NoExt

\* Returning to the caller.
LEMMA FinishType ==
    ASSUME FinishCall
    PROVE  /\ pc' \in {"idle", "walk", "scan", "save", "link", "release"}
           /\ alloc' \in [want : Nat, start : Words, prev : Words, cur : Words, got : Nat]
           /\ rel' \in [location : Words, max : Nat, cur : Words, done : Nat, freeHead : Words]
           /\ ext' \in [chain : Words, amount : Nat, last : Words, cur : Words]
           /\ taken' \subseteq Blocks
  BY WordsLemma DEF FinishCall, NoAlloc, NoRel, NoExt

\* Entering releaseBlocks.
LEMMA BeginReleaseType ==
    ASSUME TypeOK, NEW location \in Words, NEW n \in Nat, BeginRelease(location, n)
    PROVE  /\ pc' \in {"idle", "walk", "scan", "save", "link", "release"}
           /\ alloc' \in [want : Nat, start : Words, prev : Words, cur : Words, got : Nat]
           /\ rel' \in [location : Words, max : Nat, cur : Words, done : Nat, freeHead : Words]
           /\ taken' \subseteq Blocks
  BY WordsLemma DEF TypeOK, BeginRelease, NoAlloc

\* Entering allocateBlocks.
LEMMA BeginAllocateType ==
    ASSUME TypeOK, NEW n \in Nat, BeginAllocate(n)
    PROVE  /\ pc' \in {"idle", "walk", "scan", "save", "link", "release"}
           /\ alloc' \in [want : Nat, start : Words, prev : Words, cur : Words, got : Nat]
           /\ rel' \in [location : Words, max : Nat, cur : Words, done : Nat, freeHead : Words]
           /\ taken' \subseteq Blocks
  BY WordsLemma DEF TypeOK, BeginAllocate, NoAlloc

\* Saving the head stores a word.
LEMMA SaveType ==
    ASSUME TypeOK, NEW h \in Words, SaveVCB(h)
    PROVE  head' \in Words /\ diskHead' \in Words
  BY DEF TypeOK, SaveVCB

\* A grant names a word.
LEMMA GrantType ==
    ASSUME TypeOK, NEW c \in Words, Grant(c)
    PROVE  owner' \in [Blocks -> Words]
  BY DEF TypeOK, Grant

\* Every step of the code, of a caller or of the environment keeps the types.
LEMMA NextType == TypeOK /\ [Next]_vars => TypeOK'
<1> SUFFICES ASSUME TypeOK, [Next]_vars PROVE TypeOK'
  OBVIOUS
<1> USE WordsLemma
<1>1. ASSUME NEW n \in 1 .. MaxRequest, CallAllocate(n) PROVE TypeOK'
  <2>1. n \in Nat
    BY FreeSpaceAssumption
  <2>2. BeginAllocate(n) /\ UNCHANGED <<fat, diskHead, head, ext, owner>>
    BY <1>1 DEF CallAllocate
  <2> QED
    BY <2>1, <2>2, BeginAllocateType DEF TypeOK
<1>2. ASSUME NEW c \in Chains, NEW n \in 1 .. MaxRequest, CallExtend(c, n) PROVE TypeOK'
  <2>1. n \in Nat /\ c \in Words
    BY FreeSpaceAssumption DEF Chains
  <2> QED
    BY <1>2, <2>1 DEF TypeOK, CallExtend
<1>3. ASSUME NEW location \in Chains \cup Misused, NEW n \in 0 .. MaxRequest,
             CallRelease(location, n)
      PROVE  TypeOK'
  <2>1. n \in Nat /\ location \in Words
    BY FreeSpaceAssumption DEF Chains
  <2>2. BeginRelease(location, n) /\ UNCHANGED <<fat, diskHead, head, ext, owner>>
    BY <1>3 DEF CallRelease
  <2> QED
    BY <2>1, <2>2, BeginReleaseType DEF TypeOK
<1>4. CASE WalkChain
  <2>1. PICK next \in ReadResults(ext.cur) :
          /\ ext' = [ext EXCEPT !.last = ext.cur, !.cur = next]
          /\ IF next \notin {BLOCK_RESERVED, ext.cur}
             THEN UNCHANGED <<pc, alloc, rel, taken>>
             ELSE BeginAllocate(ext.amount)
    BY <1>4 DEF WalkChain
  <2>2. ext' \in [chain : Words, amount : Nat, last : Words, cur : Words]
    BY <2>1, ReadType DEF TypeOK
  <2>3. UNCHANGED <<fat, diskHead, head, owner>>
    BY <1>4 DEF WalkChain
  <2>4. CASE UNCHANGED <<pc, alloc, rel, taken>>
    BY <2>2, <2>3, <2>4 DEF TypeOK
  <2>5. CASE BeginAllocate(ext.amount)
    <3>1. ext.amount \in Nat
      BY DEF TypeOK
    <3> QED
      BY <2>2, <2>3, <2>5, <3>1, BeginAllocateType DEF TypeOK
  <2> QED
    BY <2>1, <2>4, <2>5
<1>5. CASE SkipBlock
  BY <1>5 DEF SkipBlock, ScanOpen, Scanning, TypeOK
<1>6. CASE TakeBlock
  <2>1. alloc.cur \in Blocks /\ alloc.cur \in Words
    BY <1>6 DEF TakeBlock, ScanOpen
  <2>2. fat' \in [Blocks -> Words]
    BY <1>6, <2>1, WriteType DEF TakeBlock, TypeOK
  <2>3. alloc.cur + 1 \in Words
    BY <2>1
  <2>4. alloc.got + 1 \in Nat
    BY DEF TypeOK
  <2>5. alloc' \in [want : Nat, start : Words, prev : Words, cur : Words, got : Nat]
    BY <1>6, <2>1, <2>3, <2>4 DEF TakeBlock, TypeOK
  <2>6. taken' \subseteq Blocks
    BY <1>6, <2>1 DEF TakeBlock, TypeOK
  <2> QED
    BY <1>6, <2>2, <2>5, <2>6 DEF TakeBlock, TypeOK
<1>7. CASE LinkFails \/ SealFails
  <2>1. alloc.start \in Words /\ alloc.got \in Nat
    BY DEF TypeOK
  <2>2. /\ BeginRelease(alloc.start, alloc.got)
        /\ UNCHANGED <<fat, diskHead, head, ext, owner>>
    BY <1>7 DEF LinkFails, SealFails
  <2> QED
    BY <2>1, <2>2, BeginReleaseType DEF TypeOK
<1>8. CASE ScanFails
  <2>1. alloc.start \in Words /\ alloc.got \in Nat
    BY DEF TypeOK
  <2> QED
    BY <1>8, <2>1, BeginReleaseType, FinishType DEF ScanFails, TypeOK
<1>9. CASE SealChain
  BY <1>9, WriteType DEF SealChain, TypeOK
<1>10. CASE SaveHead
  <2>1. alloc.cur \in Words /\ alloc.start \in Words
    BY DEF TypeOK
  <2>2. head' \in Words /\ diskHead' \in Words
    BY <1>10, <2>1, SaveType DEF SaveHead
  <2> QED
    BY <1>10, <2>1, <2>2, GrantType, FinishType DEF SaveHead, TypeOK
<1>11. CASE LinkChain
  <2>1. alloc.start \in Words /\ ext.chain \in Words
    BY DEF TypeOK
  <2>2. fat' \in [Blocks -> Words] /\ owner' \in [Blocks -> Words]
    BY <1>11, <2>1, WriteType, GrantType DEF LinkChain
  <2> QED
    BY <1>11, <2>2, FinishType DEF LinkChain, TypeOK
<1>12. CASE LinkChainFails
  <2>1. alloc.start \in Words /\ ext.amount \in Nat
    BY DEF TypeOK
  <2>2. /\ BeginRelease(alloc.start, ext.amount)
        /\ UNCHANGED <<fat, diskHead, head, ext, owner>>
    BY <1>12 DEF LinkChainFails
  <2> QED
    BY <2>1, <2>2, BeginReleaseType DEF TypeOK
<1>13. CASE ReleaseBlock
  <2>1. rel.freeHead \in Words /\ rel.cur \in Words
    BY DEF TypeOK
  <2>2. fat' \in [Blocks -> Words]
    BY <1>13, <2>1, WriteType DEF ReleaseBlock
  <2>3. PICK next \in ReadResults(rel.cur) :
          rel' = [rel EXCEPT !.cur = next, !.done = @ + 1, !.freeHead = rel.cur]
    BY <1>13 DEF ReleaseBlock
  <2>4. next \in Words
    BY ReadType
  <2>5. rel.done + 1 \in Nat
    BY DEF TypeOK
  <2>6. rel' \in [location : Words, max : Nat, cur : Words, done : Nat, freeHead : Words]
    BY <2>1, <2>3, <2>4, <2>5 DEF TypeOK
  <2> QED
    BY <1>13, <2>2, <2>6 DEF ReleaseBlock, TypeOK
<1>14. CASE ReleaseReturns
  <2>1. rel.location \in Words
    BY DEF TypeOK
  <2>2. head' \in Words /\ diskHead' \in Words
    BY <1>14, <2>1, SaveType DEF ReleaseReturns
  <2>3. owner' \in [Blocks -> Words]
    BY <1>14 DEF ReleaseReturns, TypeOK
  <2> QED
    BY <1>14, <2>2, <2>3, FinishType DEF ReleaseReturns, TypeOK
<1>15. CASE Restart
  BY <1>15, FinishType DEF Restart, TypeOK
<1>16. ASSUME NEW b \in Blocks, WriteData(b) PROVE TypeOK'
  BY <1>16 DEF WriteData, TypeOK
<1>17. CASE UNCHANGED vars
  BY <1>17 DEF vars, TypeOK
<1> QED
  BY <1>1, <1>2, <1>3, <1>4, <1>5, <1>6, <1>7, <1>8, <1>9, <1>10, <1>11, <1>12,
     <1>13, <1>14, <1>15, <1>16, <1>17
  DEF Next, Call, CodeStep

\* The state of freeSpace.c stays well typed: in particular no head, chain
\* cursor or table entry ever leaves the range of words.
THEOREM TypeCorrect == Spec => []TypeOK
  BY InitType, NextType, PTL DEF Spec

-----------------------------------------------------------------------------
(***************************************************************************)
(* No block is granted twice.                                              *)
(*                                                                         *)
(* Assumed: location 0 is never released (the program does so only when    *)
(* the user removes the path "NULL" after a file was removed, README.md,   *)
(* section 4), extendChain is never called (it has no caller in src/), and *)
(* the table has an entry for every block of the volume.                   *)
(* Faults is arbitrary: reads and writes may fail and the program may      *)
(* crash between any two writes.                                           *)
(***************************************************************************)
SafeUse ==
    /\ 0 \notin Misused
    /\ "extend" \notin Operations
    /\ TotalBlocks <= FatBlocks * EntriesPerBlock

\* Block 0 is a block, and it is not a free one after formatting.
LEMMA ZeroLemma ==
    /\ 0 \in Blocks
    /\ FirstFreeBlock # 0
    /\ 0 < FirstFreeBlock
    /\ BLOCK_FREE = 0 /\ BLOCK_RESERVED # 0 /\ NoBlock # 0
    /\ \A b \in Blocks : b # BLOCK_RESERVED /\ b # NoBlock /\ b + 1 # 0
  BY VolumeAssumption
  DEF Blocks, FirstFreeBlock, FatStart, BLOCK_FREE, BLOCK_RESERVED, NoBlock

\* The invariant holds on a formatted volume.
LEMMA InitIInv == Init => IInv
<1> SUFFICES ASSUME Init PROVE IInv
  OBVIOUS
<1>1. TypeOK
  BY InitType
<1>2. /\ pc = "idle" /\ taken = {} /\ ext.chain = NoBlock
      /\ \A b \in Blocks : owner[b] = NoBlock
      /\ head = FirstFreeBlock /\ diskHead = FirstFreeBlock
      /\ fat[0] = BLOCK_RESERVED
  BY ZeroLemma DEF Init, initFreeSpace, NoExt
<1> QED
  BY <1>1, <1>2, ZeroLemma
  DEF IInv, OwnedNotFree, ZeroUnused, ZeroEntry, AllocInv, RelInv, Lost

\* Returning to the caller, or restarting, with a table that has not changed
\* and with no new owner.
LEMMA FinishIInv ==
    ASSUME IInv, TypeOK', FinishCall, UNCHANGED fat,
           head' # 0, diskHead' # 0,
           \A b \in Blocks : owner'[b] \in {owner[b], NoBlock}
    PROVE  IInv'
<1>1. pc' = "idle" /\ taken' = {} /\ ext'.chain = NoBlock
  BY DEF FinishCall, NoExt
<1>2. OwnedNotFree' /\ ZeroUnused'
  BY <1>1, ZeroLemma DEF IInv, OwnedNotFree, ZeroUnused
<1>3. ZeroEntry'
  BY <1>1 DEF IInv, ZeroEntry, Lost
<1> QED
  BY <1>1, <1>2, <1>3 DEF IInv, AllocInv, RelInv

\* Entering releaseBlocks, from outside or from a failed allocation.
LEMMA ReleaseIInv ==
    ASSUME IInv, TypeOK',
           NEW location \in (Blocks \ {0}) \cup {NoBlock}, NEW n,
           BeginRelease(location, n),
           UNCHANGED <<fat, diskHead, head, ext, owner>>
    PROVE  IInv'
<1>1. /\ pc' = "release" /\ taken' = {}
      /\ rel'.location = location /\ rel'.cur = location /\ rel'.freeHead = head
  BY DEF BeginRelease
<1>2. OwnedNotFree' /\ ZeroUnused'
  BY <1>1 DEF IInv, OwnedNotFree, ZeroUnused
<1>3. ZeroEntry'
  BY <1>1 DEF IInv, ZeroEntry, Lost
<1>4. AllocInv'
  BY <1>1 DEF AllocInv
<1>5. RelInv'
  BY <1>1, ZeroLemma DEF IInv, RelInv, ZeroUnused
<1> QED
  BY <1>2, <1>3, <1>4, <1>5 DEF IInv

\* The scan takes a block.
LEMMA TakeBlockIInv ==
    ASSUME IInv, TypeOK', TakeBlock
    PROVE  IInv'
<1> DEFINE cur == alloc.cur
<1>1. /\ pc = "scan" /\ pc' = "scan" /\ cur \in Blocks /\ fat[cur] = BLOCK_FREE
      /\ taken' = taken \cup {cur}
      /\ UNCHANGED <<diskHead, head, rel, ext, owner>>
  BY DEF TakeBlock, ScanOpen, Scanning, readFATEntry
<1>2. cur # 0 /\ owner[cur] = NoBlock /\ cur # fat[0]
  BY <1>1 DEF IInv, AllocInv, OwnedNotFree, ZeroEntry, Lost
<1>3. alloc' = [alloc EXCEPT !.start = IF @ = NoBlock THEN cur ELSE @,
                             !.prev = cur, !.cur = @ + 1, !.got = @ + 1]
  BY DEF TakeBlock
<1>4. /\ alloc'.prev = cur /\ alloc'.cur = cur + 1 /\ alloc'.want = alloc.want
      /\ alloc'.start = IF alloc.start = NoBlock THEN cur ELSE alloc.start
  BY <1>3 DEF IInv, TypeOK
<1>5. fat' \in [Blocks -> Words] /\ fat \in [Blocks -> Words]
  BY DEF IInv, TypeOK
<1>6. \/ alloc.prev = NoBlock /\ fat' = fat
      \/ /\ alloc.prev \in taken /\ alloc.prev \in Blocks /\ alloc.prev # 0
         /\ fat' = [fat EXCEPT ![alloc.prev] = cur]
  BY <1>1 DEF TakeBlock, WriteEntry, writeFATEntry, IInv, AllocInv, TypeOK
<1>7. \A b \in Blocks : fat'[b] # fat[b] => b = alloc.prev /\ fat'[b] = cur /\ b # 0
  BY <1>5, <1>6
<1>8. fat'[0] = fat[0]
  BY <1>7, ZeroLemma
<1>9. OwnedNotFree' /\ ZeroUnused'
  BY <1>1, <1>2, <1>7, ZeroLemma DEF IInv, OwnedNotFree, ZeroUnused
<1>10. ZeroEntry'
  BY <1>1, <1>2, <1>7, <1>8, ZeroLemma DEF IInv, ZeroEntry, Lost
<1>11. \A b \in taken' : fat'[b] = BLOCK_FREE => b = cur
  <2> SUFFICES ASSUME NEW b \in taken', fat'[b] = BLOCK_FREE, b # cur PROVE FALSE
    OBVIOUS
  <2>1. b \in taken /\ b \in Blocks
    BY <1>1 DEF IInv, TypeOK
  <2>2. fat[b] = BLOCK_FREE
    BY <2>1, <1>7, <1>2, ZeroLemma
  <2>3. b = alloc.prev
    BY <2>1, <2>2 DEF IInv, AllocInv
  <2> QED
    BY <2>1, <2>3, <1>6, <1>2, <1>5, ZeroLemma
<1>12. AllocInv'
  <2>1. alloc'.start \in taken'
    BY <1>1, <1>4 DEF IInv, AllocInv
  <2>2. alloc'.cur # 0 /\ alloc'.want > 0 /\ 0 \notin taken'
    BY <1>1, <1>2, <1>4, ZeroLemma DEF IInv, AllocInv
  <2> QED
    BY <1>1, <1>2, <1>4, <1>11, <2>1, <2>2 DEF IInv, AllocInv
<1>13. RelInv'
  BY <1>1 DEF RelInv
<1> QED
  BY <1>9, <1>10, <1>12, <1>13 DEF IInv

\* The chain is sealed: its last block gets the end mark.
LEMMA SealChainIInv ==
    ASSUME IInv, TypeOK', SealChain
    PROVE  IInv'
<1>1. /\ pc = "scan" /\ pc' = "save" /\ alloc.prev \in Blocks
      /\ fat' = [fat EXCEPT ![alloc.prev] = BLOCK_RESERVED]
      /\ UNCHANGED <<diskHead, head, alloc, rel, ext, owner, taken>>
      /\ alloc.got = alloc.want
  BY DEF SealChain, WriteEntry, writeFATEntry
<1>2. \A b \in Blocks : fat'[b] = IF b = alloc.prev THEN BLOCK_RESERVED ELSE fat[b]
  BY <1>1 DEF IInv, TypeOK
<1>3. OwnedNotFree' /\ ZeroUnused'
  BY <1>1, <1>2, ZeroLemma DEF IInv, OwnedNotFree, ZeroUnused
<1>4. ZeroEntry'
  BY <1>1, <1>2, ZeroLemma DEF IInv, ZeroEntry, Lost
<1>5. \A b \in taken' : fat'[b] # BLOCK_FREE
  BY <1>1, <1>2, ZeroLemma DEF IInv, AllocInv, TypeOK
<1>6. AllocInv'
  BY <1>1, <1>5 DEF IInv, AllocInv
<1> QED
  BY <1>1, <1>3, <1>4, <1>6 DEF IInv, RelInv

\* The head is saved and the chain granted.
LEMMA SaveHeadIInv ==
    ASSUME IInv, TypeOK', SaveHead
    PROVE  IInv'
<1>1. /\ pc = "save" /\ SaveVCB(alloc.cur) /\ UNCHANGED fat
      /\ Grant(alloc.start) /\ FinishCall
  BY DEF SaveHead, IInv, ZeroUnused
<1>2. pc' = "idle" /\ taken' = {} /\ ext'.chain = NoBlock
  BY <1>1 DEF FinishCall, NoExt
<1>3. head' # 0 /\ diskHead' # 0
  BY <1>1 DEF SaveVCB, IInv, AllocInv, ZeroUnused
<1>4. alloc.start # 0 /\ \A b \in taken : fat[b] # BLOCK_FREE
  BY <1>1 DEF IInv, AllocInv
<1>5. \A b \in Blocks : owner'[b] = IF b \in taken THEN alloc.start ELSE owner[b]
  BY <1>1 DEF Grant
<1>6. OwnedNotFree'
  BY <1>1, <1>4, <1>5 DEF IInv, OwnedNotFree
<1>7. ZeroUnused'
  BY <1>2, <1>3, <1>4, <1>5 DEF IInv, ZeroUnused
<1>8. ZeroEntry'
  BY <1>1, <1>2, <1>5 DEF IInv, ZeroEntry, Lost
<1> QED
  BY <1>2, <1>6, <1>7, <1>8 DEF IInv, AllocInv, RelInv

\* The step that can meet block 0.
LEMMA ReleaseBlockIInv ==
    ASSUME IInv, TypeOK', ReleaseBlock
    PROVE  IInv'
<1> DEFINE cur == rel.cur
           freeHead == rel.freeHead
           LostNext(b) == owner'[b] = NoBlock /\ fat'[b] # BLOCK_FREE /\ b # 0
<1>1. PICK next \in ReadResults(cur) :
        rel' = [rel EXCEPT !.cur = next, !.done = @ + 1, !.freeHead = cur]
  BY DEF ReleaseBlock
<1>2. /\ pc = "release" /\ pc' = "release"
      /\ UNCHANGED <<diskHead, head, alloc, ext, owner, taken>>
      /\ cur \in Blocks
      /\ fat' = [fat EXCEPT ![cur] = freeHead]
  BY DEF ReleaseBlock, Releasing, WriteEntry, writeFATEntry
<1>3. rel'.location = rel.location /\ rel'.cur = next /\ rel'.freeHead = cur
  BY <1>1 DEF IInv, TypeOK
<1>4. \A b \in Blocks : fat'[b] = IF b = cur THEN freeHead ELSE fat[b]
  BY <1>2 DEF IInv, TypeOK
<1>5. next \in {fat[cur], BLOCK_RESERVED}
  BY <1>2 DEF ReadResults, readFATEntry
<1>6. taken = {} /\ taken' = {}
  BY <1>2 DEF IInv, AllocInv
<1>7. freeHead = 0 => cur # 0 /\ owner[cur] = NoBlock /\ fat[cur] # BLOCK_FREE /\ cur # fat[0]
  BY <1>2 DEF IInv, RelInv, Lost
<1>8. OwnedNotFree' /\ ZeroUnused'
  BY <1>2, <1>4, <1>7, ZeroLemma DEF IInv, OwnedNotFree, ZeroUnused
<1>9. CASE cur = 0
  <2>1. /\ freeHead \in Blocks /\ Lost(freeHead) /\ freeHead # fat[0]
    BY <1>2, <1>9 DEF IInv, RelInv
  <2>2. fat'[0] = freeHead /\ LostNext(freeHead)
    BY <1>2, <1>4, <1>9, <2>1, ZeroLemma DEF Lost
  <2>3. ZeroEntry'
    BY <2>1, <2>2, <1>6, ZeroLemma DEF ZeroEntry, Lost
  <2>4. next # 0 /\ (next \in Blocks => next = fat[0])
    BY <1>5, <1>9, ZeroLemma DEF IInv, ZeroEntry
  <2>5. next \in Blocks => LostNext(next) /\ next # fat'[0]
    BY <1>2, <1>4, <1>9, <2>1, <2>2, <2>4, ZeroLemma DEF IInv, ZeroEntry, Lost
  <2>6. RelInv'
    BY <1>2, <1>3, <1>9, <2>4, <2>5 DEF IInv, RelInv, Lost
  <2> QED
    BY <1>2, <1>6, <1>8, <2>3, <2>6 DEF IInv, AllocInv
<1>10. CASE cur # 0
  <2>1. fat'[0] = fat[0]
    BY <1>4, <1>10, ZeroLemma
  <2>2. ZeroEntry'
    BY <1>2, <1>4, <1>6, <1>7, <2>1, ZeroLemma DEF IInv, ZeroEntry, Lost
  <2>3. next = 0 => /\ fat[cur] = BLOCK_FREE /\ freeHead # 0
                    /\ owner[cur] = NoBlock /\ cur # fat[0]
    BY <1>2, <1>5, <1>7, ZeroLemma DEF IInv, OwnedNotFree, ZeroEntry, Lost
  <2>4. next = 0 => LostNext(cur) /\ cur # fat'[0]
    BY <1>2, <1>4, <1>10, <2>1, <2>3, ZeroLemma DEF Lost
  <2>5. RelInv'
    BY <1>2, <1>3, <1>10, <2>4 DEF IInv, RelInv, Lost
  <2> QED
    BY <1>2, <1>6, <1>8, <2>2, <2>5 DEF IInv, AllocInv
<1> QED
  BY <1>9, <1>10

\* Every step keeps the invariant.
LEMMA NextIInv ==
    ASSUME SafeUse
    PROVE  IInv /\ [Next]_vars => IInv'
<1> SUFFICES ASSUME IInv, [Next]_vars PROVE IInv'
  OBVIOUS
<1>0. TypeOK'
  BY NextType DEF IInv
<1>1. ASSUME NEW n \in 1 .. MaxRequest, CallAllocate(n) PROVE IInv'
  <2>1. /\ pc = "idle" /\ pc' = "scan"
        /\ alloc' = [NoAlloc EXCEPT !.want = n, !.cur = head]
        /\ UNCHANGED <<fat, diskHead, head, rel, ext, owner, taken>>
    BY <1>1 DEF CallAllocate, BeginAllocate
  <2>2. /\ alloc'.want = n /\ alloc'.cur = head /\ alloc'.got = 0
        /\ alloc'.start = NoBlock /\ alloc'.prev = NoBlock
    BY <2>1 DEF NoAlloc
  <2>3. n > 0
    BY FreeSpaceAssumption
  <2>4. taken = {}
    BY <2>1 DEF IInv, AllocInv
  <2>5. OwnedNotFree' /\ ZeroUnused' /\ ZeroEntry'
    BY <2>1, <2>4 DEF IInv, OwnedNotFree, ZeroUnused, ZeroEntry, Lost
  <2>6. AllocInv' /\ RelInv'
    BY <2>1, <2>2, <2>3, <2>4, ZeroLemma DEF IInv, AllocInv, RelInv, ZeroUnused
  <2> QED
    BY <1>0, <2>5, <2>6 DEF IInv
<1>2. ASSUME NEW c \in Chains, NEW n \in 1 .. MaxRequest, CallExtend(c, n) PROVE IInv'
  BY <1>2 DEF CallExtend, SafeUse
<1>3. ASSUME NEW location \in Chains \cup Misused, NEW n \in 0 .. MaxRequest,
             CallRelease(location, n)
      PROVE  IInv'
  <2>1. location \in (Blocks \ {0}) \cup {NoBlock}
    BY FreeSpaceAssumption DEF SafeUse, Chains, IInv, ZeroUnused
  <2>2. BeginRelease(location, n) /\ UNCHANGED <<fat, diskHead, head, ext, owner>>
    BY <1>3 DEF CallRelease
  <2> QED
    BY <1>0, <2>1, <2>2, ReleaseIInv
<1>4. CASE WalkChain \/ LinkChain \/ LinkChainFails
  BY <1>4 DEF WalkChain, LinkChain, LinkChainFails, IInv, ZeroUnused
<1>5. CASE SkipBlock
  <2>1. /\ pc = "scan" /\ alloc.cur \in Blocks
        /\ alloc' = [alloc EXCEPT !.cur = @ + 1]
        /\ UNCHANGED <<fat, diskHead, head, pc, rel, ext, owner, taken>>
    BY <1>5 DEF SkipBlock, ScanOpen, Scanning
  <2>2. /\ alloc'.want = alloc.want /\ alloc'.cur = alloc.cur + 1 /\ alloc'.got = alloc.got
        /\ alloc'.start = alloc.start /\ alloc'.prev = alloc.prev
    BY <2>1 DEF IInv, TypeOK
  <2>3. OwnedNotFree' /\ ZeroUnused' /\ ZeroEntry' /\ RelInv'
    BY <2>1 DEF IInv, OwnedNotFree, ZeroUnused, ZeroEntry, Lost, RelInv
  <2>4. AllocInv'
    BY <2>1, <2>2, ZeroLemma DEF IInv, AllocInv
  <2> QED
    BY <1>0, <2>3, <2>4 DEF IInv
<1>6. CASE TakeBlock
  BY <1>0, <1>6, TakeBlockIInv
<1>7. CASE LinkFails \/ SealFails \/ ScanFails
  <2>1. CASE FinishCall
    BY <1>0, <1>7, <2>1, FinishIInv
    DEF LinkFails, SealFails, ScanFails, BeginRelease, FinishCall, IInv, ZeroUnused
  <2>2. CASE ~FinishCall
    <3>1. /\ BeginRelease(alloc.start, alloc.got)
          /\ UNCHANGED <<fat, diskHead, head, ext, owner>>
          /\ pc = "scan"
      BY <1>7, <2>2 DEF LinkFails, SealFails, ScanFails, ScanOpen, Scanning
    <3>2. alloc.start \in (Blocks \ {0}) \cup {NoBlock}
      BY <3>1 DEF IInv, AllocInv, TypeOK
    <3> QED
      BY <1>0, <3>1, <3>2, ReleaseIInv
  <2> QED
    BY <2>1, <2>2
<1>8. CASE SealChain
  BY <1>0, <1>8, SealChainIInv
<1>9. CASE SaveHead
  BY <1>0, <1>9, SaveHeadIInv
<1>10. CASE ReleaseBlock
  BY <1>0, <1>10, ReleaseBlockIInv
<1>11. CASE ReleaseReturns
  <2>1. rel.location # 0
    BY <1>11, ZeroLemma DEF ReleaseReturns, IInv, RelInv
  <2>2. head' # 0 /\ diskHead' # 0
    BY <1>11, <2>1 DEF ReleaseReturns, SaveVCB, IInv, ZeroUnused
  <2>3. \A b \in Blocks : owner'[b] \in {owner[b], NoBlock}
    BY <1>11 DEF ReleaseReturns
  <2> QED
    BY <1>0, <1>11, <2>2, <2>3, FinishIInv DEF ReleaseReturns
<1>12. CASE Restart
  BY <1>0, <1>12, FinishIInv DEF Restart, IInv, ZeroUnused
<1>13. ASSUME NEW b \in Blocks, WriteData(b) PROVE IInv'
  <2>1. Shadow(b) = {}
    BY VolumeAssumption DEF Shadow, SafeUse, Blocks
  <2>2. fat' = fat
    BY <1>13, <2>1 DEF WriteData, IInv, TypeOK
  <2> QED
    BY <1>0, <1>13, <2>2
    DEF WriteData, IInv, OwnedNotFree, ZeroUnused, ZeroEntry, Lost, AllocInv, RelInv
<1>14. CASE UNCHANGED vars
  BY <1>0, <1>14
  DEF vars, IInv, OwnedNotFree, ZeroUnused, ZeroEntry, Lost, AllocInv, RelInv
<1> QED
  BY <1>1, <1>2, <1>3, <1>4, <1>5, <1>6, <1>7, <1>8, <1>9, <1>10, <1>11, <1>12, <1>13, <1>14
  DEF Next, Call, CodeStep

\* The allocator keeps the inductive invariant, under every fault and every
\* release of a stale location other than 0.
THEOREM Inductive ==
    ASSUME SafeUse
    PROVE  Spec => []IInv
  BY InitIInv, NextIInv, PTL DEF Spec

\* The table never shows a block that a live chain holds as free.
THEOREM OwnedBlocksStayTaken ==
    ASSUME SafeUse
    PROVE  Spec => []OwnedNotFree
<1>1. IInv => OwnedNotFree
  BY DEF IInv
<1> QED
  BY <1>1, Inductive, PTL

\* allocateBlocks never grants a block that a live chain holds, whatever
\* fails and wherever the program crashes.
THEOREM GrantsAreExclusive ==
    ASSUME SafeUse
    PROVE  Spec => NoDoubleGrant
<1> DEFINE Exclusive == \A b \in Blocks :
             owner'[b] # owner[b] => NoBlock \in {owner[b], owner'[b]}
<1>1. IInv /\ [Next]_vars => [Exclusive]_vars
  <2> SUFFICES ASSUME IInv, Next PROVE Exclusive
    BY DEF vars
  <2>1. CASE SaveHead
    <3>1. \A b \in Blocks : owner'[b] # owner[b] => b \in taken
      BY <2>1 DEF SaveHead, Grant, IInv, ZeroUnused, TypeOK
    <3> QED
      BY <3>1 DEF IInv, AllocInv
  <2>2. CASE LinkChain
    BY <2>2 DEF LinkChain, IInv, ZeroUnused
  <2>3. CASE ReleaseReturns
    BY <2>3 DEF ReleaseReturns
  <2>4. CASE UNCHANGED owner
    BY <2>4
  <2> QED
    BY <2>1, <2>2, <2>3, <2>4
    DEF Next, Call, CodeStep, CallAllocate, CallExtend, CallRelease, WalkChain, SkipBlock,
        TakeBlock, LinkFails, ScanFails, SealChain, SealFails, LinkChainFails,
        ReleaseBlock, Restart, WriteData
<1> QED
  BY <1>1, Inductive, PTL DEF Spec, NoDoubleGrant

-----------------------------------------------------------------------------
(***************************************************************************)
(* FreeSpace implements BlockPool.  Only four kinds of step change what    *)
(* the pool shows: the return of an allocation grants, giving up an        *)
(* allocation loses what it had linked, writing the entry of a released    *)
(* block takes it out of the pool (or, next to block 0, puts a lost block  *)
(* back), and the return of a release drops the chain.                     *)
(***************************************************************************)
Free == {b \in Blocks : fat[b] = BLOCK_FREE}

\* A step that touches neither the pool nor the owners.
LEMMA PoolStutter ==
    ASSUME UNCHANGED owner, Free' \cup taken' = Free \cup taken
    PROVE  [Pool!Next]_(Pool!vars)
  BY DEF Free, Pool!vars

\* Blocks that leave the pool without a new owner are lost.
LEMMA PoolLose ==
    ASSUME UNCHANGED owner, taken \subseteq Blocks,
           Free' \cup taken' \subseteq Free \cup taken
    PROVE  [Pool!Next]_(Pool!vars)
<1> DEFINE S == (Free \cup taken) \ (Free' \cup taken')
<1>1. S \subseteq Free \cup taken /\ Free' \cup taken' = (Free \cup taken) \ S
  OBVIOUS
<1>2. S \in SUBSET (Free \cup taken)
  BY <1>1
<1>3. \E T \in SUBSET (Free \cup taken) : Pool!Lose(T)
  BY <1>1, <1>2 DEF Free, Pool!Lose
<1> QED
  BY <1>3 DEF Free, Pool!Next

\* Every step of the allocator is a step of the pool.
LEMMA PoolStep ==
    ASSUME SafeUse
    PROVE  IInv /\ IInv' /\ [Next]_vars => [Pool!Next]_(Pool!vars)
<1> SUFFICES ASSUME IInv, IInv', [Next]_vars PROVE [Pool!Next]_(Pool!vars)
  OBVIOUS
<1>0. taken \subseteq Blocks /\ fat \in [Blocks -> Words]
  BY DEF IInv, TypeOK
<1>1. CASE UNCHANGED <<fat, owner>> /\ taken' \subseteq taken
  BY <1>0, <1>1, PoolLose DEF Free
<1>2. CASE WalkChain \/ LinkChain \/ LinkChainFails
  BY <1>2 DEF WalkChain, LinkChain, LinkChainFails, IInv, ZeroUnused
<1>3. CASE TakeBlock
  <2> DEFINE cur == alloc.cur
  <2>1. /\ cur \in Blocks /\ fat[cur] = BLOCK_FREE /\ taken' = taken \cup {cur}
        /\ UNCHANGED owner /\ pc = "scan"
    BY <1>3 DEF TakeBlock, ScanOpen, Scanning, readFATEntry
  <2>2. \A b \in Blocks : fat'[b] # fat[b] => b \in taken
    BY <1>0, <1>3, <2>1 DEF TakeBlock, WriteEntry, writeFATEntry, IInv, AllocInv
  <2>3. \A b \in Blocks : fat'[b] = BLOCK_FREE => b \in Free \cup taken
    BY <2>2 DEF Free
  <2>4. Free' \cup taken' \subseteq Free \cup taken
    BY <2>1, <2>3 DEF Free
  <2> QED
    BY <1>0, <2>1, <2>4, PoolLose
<1>4. CASE SealChain
  <2>1. \A b \in Blocks : fat'[b] = BLOCK_FREE => fat[b] = BLOCK_FREE
    BY <1>0, <1>4, ZeroLemma DEF SealChain, WriteEntry, writeFATEntry
  <2> QED
    BY <1>0, <1>4, <2>1, PoolLose DEF SealChain, Free
<1>5. CASE SaveHead
  <2>1. /\ pc = "save" /\ Grant(alloc.start) /\ UNCHANGED fat /\ taken' = {}
    BY <1>5 DEF SaveHead, FinishCall, IInv, ZeroUnused
  <2>2. alloc.start \in Blocks /\ \A b \in taken : fat[b] # BLOCK_FREE
    BY <1>0, <2>1 DEF IInv, AllocInv
  <2>3. Free' \cup taken' = (Free \cup taken) \ taken
    BY <2>1, <2>2 DEF Free
  <2>4. taken \in SUBSET (Free \cup taken)
    OBVIOUS
  <2>5. \E S \in SUBSET (Free \cup taken), c \in Blocks : Pool!Grant(S, c)
    BY <2>1, <2>2, <2>3, <2>4 DEF Free, Grant, Pool!Grant
  <2> QED
    BY <2>5 DEF Free, Pool!Next
<1>6. CASE ReleaseBlock
  <2> DEFINE cur == rel.cur
             freeHead == rel.freeHead
  <2>1. /\ pc = "release" /\ cur \in Blocks /\ UNCHANGED <<owner, taken>>
        /\ fat' = [fat EXCEPT ![cur] = freeHead]
    BY <1>6 DEF ReleaseBlock, Releasing, WriteEntry, writeFATEntry
  <2>2. taken = {}
    BY <2>1 DEF IInv, AllocInv
  <2>3. CASE freeHead # 0
    <3>1. \A b \in Blocks : fat'[b] = BLOCK_FREE => fat[b] = BLOCK_FREE
      BY <1>0, <2>1, <2>3, ZeroLemma
    <3> QED
      BY <1>0, <2>1, <3>1, PoolLose DEF Free
  <2>4. CASE freeHead = 0
    <3>1. owner[cur] = NoBlock
      BY <2>1, <2>4 DEF IInv, RelInv, Lost
    <3>2. \A b \in Blocks : fat'[b] = IF b = cur THEN BLOCK_FREE ELSE fat[b]
      BY <1>0, <2>1, <2>4, ZeroLemma
    <3>3. Free' \cup taken' = (Free \cup taken) \cup {cur}
      BY <2>1, <3>2 DEF Free
    <3>4. {cur} \in SUBSET Blocks
      BY <2>1
    <3>5. \E S \in SUBSET Blocks : Pool!Reclaim(S)
      BY <2>1, <3>1, <3>3, <3>4 DEF Free, Pool!Reclaim
    <3> QED
      BY <3>5 DEF Pool!Next
  <2> QED
    BY <2>3, <2>4
<1>7. CASE ReleaseReturns
  <2>1. /\ pc = "release" /\ UNCHANGED fat /\ taken' = {}
        /\ owner' = [b \in Blocks |-> IF owner[b] = rel.location THEN NoBlock ELSE owner[b]]
    BY <1>7 DEF ReleaseReturns, FinishCall
  <2>2. rel.location \in Blocks \cup {NoBlock} /\ taken = {}
    BY <2>1 DEF IInv, RelInv, AllocInv
  <2>3. Pool!Drop(rel.location)
    BY <2>1, <2>2 DEF Pool!Drop
  <2> QED
    BY <2>2, <2>3 DEF Pool!Next
<1>8. ASSUME NEW b \in Blocks, WriteData(b) PROVE [Pool!Next]_(Pool!vars)
  <2>1. Shadow(b) = {}
    BY VolumeAssumption DEF Shadow, SafeUse, Blocks
  <2>2. fat' = fat
    BY <1>0, <1>8, <2>1 DEF WriteData
  <2> QED
    BY <1>8, <2>2, PoolStutter DEF WriteData, Free
<1> QED
  BY <1>1, <1>2, <1>3, <1>4, <1>5, <1>6, <1>7, <1>8
  DEF Next, Call, CodeStep, CallAllocate, CallExtend, CallRelease, SkipBlock,
      LinkFails, ScanFails, SealFails, BeginAllocate, BeginRelease, FinishCall, Restart, vars

\* freeSpace.c keeps the promise of BlockPool through every fault: the proof
\* is for every volume, where the run checks three data blocks.
THEOREM ImplementsPool ==
    ASSUME SafeUse
    PROVE  Spec => PoolSpec
<1>1. Init => Pool!Init
  BY DEF Init, Pool!Init
<1> QED
  BY <1>1, PoolStep, Inductive, PTL DEF Spec, PoolSpec, Pool!Spec

\* What the pool promises by itself: a block that can still be granted belongs
\* to no chain, so with ImplementsPool no block allocateBlocks of freeSpace.c
\* can reach is in use.
THEOREM PoolNeverOwned == Pool!Spec => []Pool!PoolUnowned
<1> DEFINE PoolInv == Free \cup taken \subseteq Blocks /\ Pool!PoolUnowned
<1>1. Pool!Init => PoolInv
  BY DEF Free, Pool!Init, Pool!PoolUnowned
<1>2. PoolInv /\ [Pool!Next]_(Pool!vars) => PoolInv'
  <2> SUFFICES ASSUME PoolInv, [Pool!Next]_(Pool!vars) PROVE PoolInv'
    OBVIOUS
  <2> USE DEF Free, Pool!PoolUnowned
  <2>1. ASSUME NEW S \in SUBSET (Free \cup taken), NEW c \in Blocks, Pool!Grant(S, c) PROVE PoolInv'
    BY <2>1 DEF Pool!Grant
  <2>2. ASSUME NEW S \in SUBSET (Free \cup taken), Pool!Lose(S) PROVE PoolInv'
    BY <2>2 DEF Pool!Lose
  <2>3. ASSUME NEW S \in SUBSET Blocks, Pool!Reclaim(S) PROVE PoolInv'
    BY <2>3 DEF Pool!Reclaim
  <2>4. ASSUME NEW c, Pool!Drop(c) PROVE PoolInv'
    BY <2>4 DEF Pool!Drop
  <2>5. CASE UNCHANGED Pool!vars
    BY <2>5 DEF Pool!vars
  <2> QED
    BY <2>1, <2>2, <2>3, <2>4, <2>5 DEF Pool!Next
<1>3. PoolInv => Pool!PoolUnowned
  OBVIOUS
<1> HIDE DEF PoolInv
<1> QED
  BY <1>1, <1>2, <1>3, PTL DEF Pool!Spec

-----------------------------------------------------------------------------
(***************************************************************************)
(* Free space is one run, and so is every chain.                           *)
(*                                                                         *)
(* Assumed besides: the only stale location released is that of a failed   *)
(* allocation, and reads of the table do not fail (a block that cannot be  *)
(* read is skipped by the scan and lies behind the head afterwards).       *)
(* Writes may fail, and the program may crash between any two of them.     *)
(***************************************************************************)
SafeRuns == SafeUse /\ Misused \subseteq {NoBlock} /\ "read" \notin Faults

\* What a step needs to leave the settled chains alone.
LEMMA KeepChains ==
    ASSUME ChainsContiguous, OwnersInv, UNCHANGED owner,
           rel'.location = rel.location \/ rel.location \notin Chains,
           \A b \in Blocks : owner[b] \in Settled => fat'[b] = fat[b]
    PROVE  ChainsContiguous' /\ OwnersInv'
<1>1. Chains' = Chains /\ \A c : ChainBlocks(c)' = ChainBlocks(c)
  BY DEF Chains, ChainBlocks
<1>2. Settled' \subseteq Settled
  BY <1>1 DEF Settled
<1>3. OwnersInv'
  BY <1>1 DEF OwnersInv
<1>4. ChainsContiguous'
  <2> SUFFICES ASSUME NEW c \in Settled', NEW b \in ChainBlocks(c)
               PROVE  /\ c .. b \subseteq ChainBlocks(c)
                      /\ fat'[b] = IF b + 1 \in ChainBlocks(c) THEN b + 1 ELSE BLOCK_RESERVED
    BY <1>1 DEF ChainsContiguous
  <2>1. c \in Settled /\ b \in Blocks /\ owner[b] = c
    BY <1>2 DEF ChainBlocks
  <2>2. fat'[b] = fat[b]
    BY <2>1
  <2> QED
    BY <2>1, <2>2 DEF ChainsContiguous
<1> QED
  BY <1>3, <1>4

\* A step that takes blocks off the low end of free space, or none.
LEMMA KeepTail ==
    ASSUME FreeSpaceIsTail, UNCHANGED <<diskHead, head>>,
           NEW p,
           \A b \in Blocks : fat'[b] = BLOCK_FREE => fat[b] = BLOCK_FREE,
           \A b \in Blocks : b # p /\ fat[b] = BLOCK_FREE => fat'[b] = BLOCK_FREE,
           \A b \in Blocks : fat[b] = BLOCK_FREE => p <= b \/ p \notin Blocks
    PROVE  FreeSpaceIsTail'
<1> SUFFICES ASSUME NEW b \in Blocks, fat'[b] = BLOCK_FREE
             PROVE  /\ diskHead <= b /\ head <= b
                    /\ \A c \in Blocks : b < c => fat'[c] = BLOCK_FREE
  BY DEF FreeSpaceIsTail
<1>1. fat[b] = BLOCK_FREE
  OBVIOUS
<1>2. ASSUME NEW c \in Blocks, b < c PROVE fat'[c] = BLOCK_FREE
  <2>1. fat[c] = BLOCK_FREE
    BY <1>1, <1>2 DEF FreeSpaceIsTail
  <2>2. c # p
    BY <1>1, <1>2, FatWords
  <2> QED
    BY <2>1, <2>2
<1> QED
  BY <1>1, <1>2 DEF FreeSpaceIsTail

\* The invariant of runs holds on a formatted volume.
LEMMA InitCInv == CInit => CInv
<1> SUFFICES ASSUME CInit PROVE CInv
  OBVIOUS
<1>1. IInv
  BY InitIInv DEF CInit
<1>2. /\ pc = "idle" /\ \A b \in Blocks : owner[b] = NoBlock
      /\ rel.location = NoBlock
      /\ head = FirstFreeBlock /\ diskHead = FirstFreeBlock
      /\ \A b \in Blocks : fat[b] = IF b < FirstFreeBlock THEN BLOCK_RESERVED ELSE BLOCK_FREE
  BY InitVolume DEF CInit, Init, initFreeSpace, NoRel
<1>3. NoBlock \notin Blocks
  BY WordsLemma
<1>4. FreeSpaceIsTail
  BY <1>2, FatWords DEF FreeSpaceIsTail
<1>5. ChainsContiguous /\ OwnersInv /\ ScanInv /\ WalkInv
  BY <1>2, <1>3 DEF ChainsContiguous, Settled, Chains, OwnersInv, ScanInv, WalkInv, Releasing
<1> QED
  BY <1>1, <1>4, <1>5 DEF CInv, RunInv

\* Returning to the prompt without a new owner or a change of the table.
LEMMA FinishRun ==
    ASSUME RunInv, FinishCall, UNCHANGED <<fat, owner>>,
           head' \in {head, diskHead}, diskHead' = diskHead,
           rel.location \notin Chains
    PROVE  RunInv'
<1>1. pc' = "idle" /\ rel'.location = NoBlock
  BY DEF FinishCall, NoRel
<1>2. FreeSpaceIsTail'
  BY DEF RunInv, FreeSpaceIsTail
<1>3. ChainsContiguous' /\ OwnersInv'
  BY KeepChains DEF RunInv
<1>4. ScanInv' /\ WalkInv'
  BY <1>1 DEF ScanInv, WalkInv, Releasing
<1> QED
  BY <1>2, <1>3, <1>4 DEF RunInv

\* The shape of what a scan has collected.
LEMMA Collected ==
    ASSUME IInv, RunInv, pc \in {"scan", "save"}, taken # {}
    PROVE  /\ alloc.start \in taken /\ alloc.prev \in taken /\ alloc.start <= alloc.prev
           /\ taken = alloc.start .. alloc.prev /\ alloc.cur = alloc.prev + 1
           /\ alloc.got = alloc.cur - alloc.start
           /\ \A b \in taken : owner[b] = NoBlock /\ b \in Blocks /\ b \in Nat
<1>1. /\ taken = alloc.start .. alloc.prev /\ alloc.cur = alloc.prev + 1
      /\ alloc.got = alloc.cur - alloc.start
  BY DEF RunInv, ScanInv
<1>2. taken \subseteq Blocks /\ \A b \in taken : owner[b] = NoBlock /\ b \in Nat
  BY FatWords DEF IInv, TypeOK, AllocInv
<1>3. alloc.start \in Int /\ alloc.prev \in Int
  BY FatWords DEF IInv, TypeOK
<1>4. alloc.start <= alloc.prev
  BY <1>1, <1>2, <1>3
<1> QED
  BY <1>1, <1>2, <1>3, <1>4

\* An allocation gives up: its own run is handed to releaseBlocks.
LEMMA GiveUpRun ==
    ASSUME IInv, RunInv, pc = "scan", taken # {},
           BeginRelease(alloc.start, alloc.got),
           UNCHANGED <<fat, diskHead, head, ext, owner>>
    PROVE  RunInv'
<1>1. /\ pc' = "release" /\ rel'.location = alloc.start /\ rel'.cur = alloc.start
      /\ rel'.max = alloc.got /\ rel'.done = 0 /\ rel'.freeHead = head
  BY DEF BeginRelease
<1>2. /\ alloc.start \in taken /\ alloc.prev \in taken /\ alloc.start <= alloc.prev
      /\ taken = alloc.start .. alloc.prev /\ alloc.cur = alloc.prev + 1
      /\ alloc.got = alloc.cur - alloc.start
      /\ \A b \in taken : owner[b] = NoBlock /\ b \in Blocks /\ b \in Nat
  BY Collected
<1>3. /\ \A b \in taken \ {alloc.prev} : fat[b] = b + 1
      /\ fat[alloc.prev] = BLOCK_FREE
      /\ \A f \in Blocks : fat[f] = BLOCK_FREE => f = alloc.prev \/ alloc.cur <= f
  BY <1>2 DEF RunInv, ScanInv
<1>4. \A f \in Blocks : fat[f] = BLOCK_FREE => alloc.prev <= f /\ alloc.start <= f
  BY <1>2, <1>3, FatWords
<1>5. rel.location \notin Chains
  BY WordsLemma DEF RunInv, WalkInv, Chains
<1>6. FreeSpaceIsTail'
  BY DEF RunInv, FreeSpaceIsTail
<1>7. ChainsContiguous' /\ OwnersInv'
  BY <1>5, KeepChains DEF RunInv
<1>8. ScanInv'
  BY <1>1 DEF ScanInv
<1>9. WalkInv'
  <2>1. 0 \notin {alloc.start, head}
    BY <1>2 DEF IInv, AllocInv, ZeroUnused
  <2>2. \A b \in alloc.start .. alloc.prev - 1 : fat[b] = b + 1
    BY <1>2, <1>3
  <2>3. alloc.prev - alloc.start + 1 = alloc.got - 0
    BY <1>2
  <2> QED
    BY <1>1, <1>2, <1>3, <1>4, <2>1, <2>2, <2>3 DEF WalkInv
<1> QED
  BY <1>6, <1>7, <1>8, <1>9 DEF RunInv

\* An allocation begins.
LEMMA CallAllocateRun ==
    ASSUME IInv, RunInv, NEW n, CallAllocate(n)
    PROVE  RunInv'
<1>1. /\ pc = "idle" /\ pc' = "scan" /\ alloc' = [NoAlloc EXCEPT !.want = n, !.cur = head]
      /\ UNCHANGED <<fat, diskHead, head, ext, owner, rel, taken>>
  BY DEF CallAllocate, BeginAllocate
<1>2. /\ alloc'.start = NoBlock /\ alloc'.prev = NoBlock /\ alloc'.got = 0 /\ alloc'.cur = head
  BY <1>1 DEF NoAlloc
<1>3. taken' = {}
  BY <1>1 DEF IInv, AllocInv
<1>4. FreeSpaceIsTail'
  BY <1>1 DEF RunInv, FreeSpaceIsTail
<1>5. ChainsContiguous' /\ OwnersInv'
  BY <1>1, KeepChains DEF RunInv
<1>6. ScanInv'
  BY <1>1, <1>2, <1>3, <1>4, WordsLemma DEF ScanInv, FreeSpaceIsTail
<1>7. WalkInv'
  BY <1>1 DEF RunInv, WalkInv, Releasing
<1> QED
  BY <1>4, <1>5, <1>6, <1>7 DEF RunInv

\* A chain that is released is a sealed run, as long as none is torn.
LEMMA CallReleaseRun ==
    ASSUME SafeRuns, IInv, RunInv,
           NEW location \in Chains \cup Misused, NEW n, CallRelease(location, n)
    PROVE  RunInv'
<1>1. /\ pc = "idle" /\ pc' = "release"
      /\ rel'.location = location /\ rel'.cur = location /\ rel'.freeHead = head
      /\ UNCHANGED <<fat, diskHead, head, ext, owner>>
  BY DEF CallRelease, BeginRelease
<1>2. rel.location = NoBlock /\ NoBlock \notin Blocks /\ rel.location \notin Chains
  BY <1>1, WordsLemma DEF RunInv, WalkInv, Chains
<1>3. FreeSpaceIsTail'
  BY <1>1 DEF RunInv, FreeSpaceIsTail
<1>4. ChainsContiguous' /\ OwnersInv'
  BY <1>1, <1>2, KeepChains DEF RunInv
<1>5. ScanInv'
  BY <1>1 DEF ScanInv
<1>6. WalkInv'
  <2>1. CASE location \in Chains
    <3>1. location \in Blocks /\ owner[location] = location /\ location # NoBlock /\ location \in Settled
      BY <1>2, <2>1 DEF Chains, Settled
    <3>2. fat[location] # BLOCK_FREE /\ location # 0
      BY <3>1 DEF IInv, OwnedNotFree, ZeroUnused
    <3>3. ASSUME NEW f \in Blocks, fat[f] = BLOCK_FREE PROVE location <= f
      <4>1. ~ (f < location)
        BY <3>1, <3>2, <3>3 DEF RunInv, FreeSpaceIsTail
      <4> QED
        BY <3>1, <4>1, FatWords
    <3> DEFINE C == ChainBlocks(location)
               last == Max(C)
    <3>4. C \in SUBSET Blocks /\ location \in C
      BY <3>1 DEF ChainBlocks
    <3>5. last \in C /\ \A b \in C : b <= last
      <4> HIDE DEF C
      <4> QED
        BY <3>4, MinMaxBlocks
    <3>6. \A b \in C : /\ location .. b \subseteq C
                       /\ fat[b] = IF b + 1 \in C THEN b + 1 ELSE BLOCK_RESERVED
      BY <3>1 DEF RunInv, ChainsContiguous
    <3>7. \A b \in C : owner[b] = location
      BY DEF ChainBlocks
    <3> HIDE DEF C, last
    <3>8. last \in Blocks /\ last \in Nat /\ location \in Nat /\ location <= last
      BY <3>1, <3>4, <3>5, FatWords
    <3>9. fat[last] = BLOCK_RESERVED
      BY <3>5, <3>6, <3>8
    <3>10. \A b \in location .. last - 1 : fat[b] = b + 1
      <4> SUFFICES ASSUME NEW b \in location .. last - 1 PROVE fat[b] = b + 1
        OBVIOUS
      <4>1. b \in location .. last /\ b + 1 \in location .. last
        BY <3>8
      <4> QED
        BY <3>5, <3>6, <4>1
    <3>11. \A b \in location .. last : owner[b] = location
      BY <3>5, <3>6, <3>7
    <3>12. 0 \notin {location, head}
      BY <3>2 DEF IInv, ZeroUnused
    <3> QED
      BY <1>1, <3>3, <3>8, <3>9, <3>10, <3>11, <3>12 DEF WalkInv
  <2>2. CASE location \notin Chains
    <3>1. location = NoBlock
      BY <2>2 DEF SafeRuns
    <3>2. \A f \in Blocks : NoBlock <= f
      BY FatWords
    <3> QED
      BY <1>1, <1>2, <3>1, <3>2 DEF WalkInv
  <2> QED
    BY <2>1, <2>2
<1> QED
  BY <1>3, <1>4, <1>5, <1>6 DEF RunInv

\* The scan skips blocks only before it has found its first one: behind a
\* free block all are free.
LEMMA SkipBlockRun ==
    ASSUME SafeRuns, IInv, RunInv, SkipBlock
    PROVE  RunInv'
<1>1. /\ pc = "scan" /\ alloc.cur \in Blocks /\ fat[alloc.cur] # BLOCK_FREE
      /\ alloc' = [alloc EXCEPT !.cur = @ + 1]
      /\ UNCHANGED <<fat, diskHead, head, pc, rel, ext, owner, taken>>
  BY DEF SkipBlock, ScanOpen, Scanning, ReadResults, readFATEntry, SafeRuns
<1>2. /\ alloc'.start = alloc.start /\ alloc'.prev = alloc.prev /\ alloc'.got = alloc.got
      /\ alloc'.cur = alloc.cur + 1
  BY <1>1 DEF IInv, TypeOK
<1>3. taken = {}
  <2> SUFFICES ASSUME taken # {} PROVE FALSE
    OBVIOUS
  <2>1. alloc.prev \in taken /\ alloc.cur = alloc.prev + 1 /\ alloc.prev \in Blocks /\ alloc.prev \in Nat
    BY <1>1, Collected
  <2>2. fat[alloc.prev] = BLOCK_FREE
    BY <1>1, <2>1 DEF RunInv, ScanInv
  <2>3. alloc.prev < alloc.cur
    BY <2>1
  <2> QED
    BY <1>1, <2>1, <2>2, <2>3 DEF RunInv, FreeSpaceIsTail
<1>4. FreeSpaceIsTail'
  BY <1>1 DEF RunInv, FreeSpaceIsTail
<1>5. ChainsContiguous' /\ OwnersInv'
  BY <1>1, KeepChains DEF RunInv
<1>6. ScanInv'
  <2>1. alloc.start = NoBlock /\ alloc.prev = NoBlock /\ alloc.got = 0
    BY <1>1, <1>3 DEF RunInv, ScanInv
  <2>2. ASSUME NEW f \in Blocks, fat[f] = BLOCK_FREE PROVE alloc.cur + 1 <= f
    <3>1. alloc.cur <= f
      BY <1>1, <2>1, <2>2, WordsLemma DEF RunInv, ScanInv
    <3>2. alloc.cur # f /\ alloc.cur \in Nat /\ f \in Nat
      BY <1>1, <2>2, FatWords
    <3> QED
      BY <3>1, <3>2
  <2> QED
    BY <1>1, <1>2, <1>3, <2>1, <2>2, WordsLemma DEF ScanInv
<1>7. WalkInv'
  BY <1>1 DEF RunInv, WalkInv, Releasing
<1> QED
  BY <1>4, <1>5, <1>6, <1>7 DEF RunInv

\* The block the scan takes is the one behind the last.
LEMMA TakeBlockRun ==
    ASSUME IInv, RunInv, TakeBlock
    PROVE  RunInv'
<1> DEFINE cur == alloc.cur
           prev == alloc.prev
<1>1. /\ pc = "scan" /\ pc' = "scan" /\ cur \in Blocks /\ fat[cur] = BLOCK_FREE
      /\ taken' = taken \cup {cur}
      /\ alloc' = [alloc EXCEPT !.start = IF @ = NoBlock THEN cur ELSE @,
                               !.prev = cur, !.cur = @ + 1, !.got = @ + 1]
      /\ IF prev = NoBlock THEN UNCHANGED fat ELSE WriteEntry(prev, cur)
      /\ UNCHANGED <<diskHead, head, rel, ext, owner>>
  BY DEF TakeBlock, ScanOpen, Scanning, readFATEntry
<1>2. /\ alloc'.start = (IF alloc.start = NoBlock THEN cur ELSE alloc.start)
      /\ alloc'.prev = cur /\ alloc'.cur = cur + 1 /\ alloc'.got = alloc.got + 1
  BY <1>1 DEF IInv, TypeOK
<1>3. fat \in [Blocks -> Words] /\ cur \in Nat /\ NoBlock \notin Blocks /\ cur \in Words
  BY <1>1, FatWords DEF IInv, TypeOK
<1>4. \A f \in Blocks : fat[f] = BLOCK_FREE => f = prev \/ cur <= f
  BY <1>1 DEF RunInv, ScanInv
<1>5. rel.location \notin Chains /\ WalkInv'
  BY <1>1, <1>3 DEF RunInv, WalkInv, Chains, Releasing
<1>6. CASE taken = {}
  <2>1. alloc.start = NoBlock /\ prev = NoBlock /\ alloc.got = 0 /\ fat' = fat
    BY <1>1, <1>6 DEF RunInv, ScanInv
  <2>2. alloc'.start = cur /\ alloc'.got = 1 /\ taken' = cur .. cur
    BY <1>1, <1>2, <1>3, <1>6, <2>1
  <2>3. FreeSpaceIsTail'
    BY <1>1, <2>1 DEF RunInv, FreeSpaceIsTail
  <2>4. ChainsContiguous' /\ OwnersInv'
    BY <1>1, <2>1, KeepChains DEF RunInv
  <2>5. \A f \in Blocks : fat[f] = BLOCK_FREE => f = cur \/ cur + 1 <= f
    BY <1>3, <1>4, <2>1, FatWords
  <2>6. ScanInv'
    BY <1>1, <1>2, <1>3, <1>6, <2>1, <2>2, <2>5 DEF ScanInv
  <2> QED
    BY <1>5, <2>3, <2>4, <2>6 DEF RunInv
<1>7. CASE taken # {}
  <2>1. /\ alloc.start \in taken /\ prev \in taken /\ alloc.start <= prev
        /\ taken = alloc.start .. prev /\ cur = prev + 1 /\ alloc.got = cur - alloc.start
        /\ \A b \in taken : owner[b] = NoBlock /\ b \in Blocks /\ b \in Nat
    BY <1>1, <1>7, Collected
  <2>2. fat' = [fat EXCEPT ![prev] = cur] /\ alloc'.start = alloc.start
    BY <1>1, <1>2, <1>3, <2>1 DEF WriteEntry, writeFATEntry
  <2>3. \A b \in Blocks : fat'[b] = IF b = prev THEN cur ELSE fat[b]
    BY <1>3, <2>2
  <2>4. cur # BLOCK_FREE
    BY <1>3, <2>1, FatWords
  <2>5. FreeSpaceIsTail'
    <3>1. \A b \in Blocks : fat[b] = BLOCK_FREE => prev <= b
      BY <1>4, <2>1, FatWords
    <3> QED
      BY <1>1, <2>3, <2>4, <3>1, KeepTail DEF RunInv
  <2>6. ChainsContiguous' /\ OwnersInv'
    <3>1. prev \in Blocks /\ owner[prev] \notin Settled
      BY <1>3, <2>1 DEF Settled, Chains
    <3> QED
      BY <1>1, <1>5, <2>3, <3>1, KeepChains DEF RunInv
  <2>7. taken' = alloc.start .. cur
    BY <1>1, <2>1
  <2>8. \A b \in taken' \ {cur} : fat'[b] = b + 1
    <3>1. \A b \in taken \ {prev} : fat[b] = b + 1
      BY <1>1 DEF RunInv, ScanInv
    <3> QED
      BY <1>1, <2>1, <2>3, <3>1
  <2>9. fat'[cur] = BLOCK_FREE
    BY <1>1, <2>1, <2>3
  <2>10. \A f \in Blocks : fat'[f] = BLOCK_FREE => f = cur \/ cur + 1 <= f
    BY <1>3, <1>4, <2>3, <2>4, FatWords
  <2>11. ScanInv'
    <3>1. alloc'.got = alloc'.cur - alloc'.start /\ taken' # {} /\ cur \in taken'
      BY <1>1, <1>2, <2>1, <2>2
    <3> QED
      BY <1>1, <1>2, <2>2, <2>7, <2>8, <2>9, <2>10, <3>1 DEF ScanInv
  <2> QED
    BY <1>5, <2>5, <2>6, <2>11 DEF RunInv
<1> QED
  BY <1>6, <1>7

\* The chain is sealed.
LEMMA SealChainRun ==
    ASSUME IInv, RunInv, SealChain
    PROVE  RunInv'
<1> DEFINE prev == alloc.prev
<1>1. /\ pc = "scan" /\ pc' = "save" /\ alloc.got = alloc.want /\ prev \in Blocks
      /\ fat' = [fat EXCEPT ![prev] = BLOCK_RESERVED]
      /\ UNCHANGED <<diskHead, head, alloc, rel, ext, owner, taken>>
  BY DEF SealChain, WriteEntry, writeFATEntry
<1>2. taken # {}
  BY <1>1 DEF IInv, AllocInv, TypeOK, RunInv, ScanInv
<1>3. /\ prev \in taken /\ alloc.cur = prev + 1
      /\ \A b \in taken : owner[b] = NoBlock /\ b \in Blocks /\ b \in Nat
  BY <1>1, <1>2, Collected
<1>4. \A b \in Blocks : fat'[b] = IF b = prev THEN BLOCK_RESERVED ELSE fat[b]
  BY <1>1 DEF IInv, TypeOK
<1>5. \A f \in Blocks : fat[f] = BLOCK_FREE => f = prev \/ alloc.cur <= f
  BY <1>1 DEF RunInv, ScanInv
<1>6. FreeSpaceIsTail'
  <2>1. \A b \in Blocks : fat[b] = BLOCK_FREE => prev <= b
    BY <1>3, <1>5, FatWords
  <2> QED
    BY <1>1, <1>4, <2>1, KeepTail, FatWords DEF RunInv
<1>7. ChainsContiguous' /\ OwnersInv'
  <2>1. owner[prev] \notin Settled
    BY <1>3, WordsLemma DEF Settled, Chains
  <2> QED
    BY <1>1, <1>4, <2>1, KeepChains DEF RunInv
<1>8. ScanInv'
  <2>1. \A f \in Blocks : fat'[f] = BLOCK_FREE => alloc.cur <= f
    BY <1>4, <1>5, FatWords
  <2>2. \A b \in taken \ {prev} : fat'[b] = b + 1
    BY <1>1, <1>3, <1>4 DEF RunInv, ScanInv
  <2> QED
    BY <1>1, <1>2, <1>3, <1>4, <2>1, <2>2 DEF RunInv, ScanInv
<1>9. WalkInv'
  BY <1>1 DEF RunInv, WalkInv, Releasing
<1> QED
  BY <1>6, <1>7, <1>8, <1>9 DEF RunInv

\* The grant: the new chain is the run that was collected.
LEMMA SaveHeadRun ==
    ASSUME IInv, RunInv, SaveHead
    PROVE  RunInv'
<1> DEFINE start == alloc.start
<1>1. /\ pc = "save" /\ SaveVCB(alloc.cur) /\ UNCHANGED fat /\ Grant(start) /\ FinishCall
  BY DEF SaveHead, IInv, ZeroUnused
<1>2. pc' = "idle" /\ rel'.location = NoBlock /\ NoBlock \notin Blocks
  BY <1>1, WordsLemma DEF FinishCall, NoRel
<1>3. taken # {}
  BY <1>1 DEF IInv, AllocInv
<1>4. /\ start \in taken /\ alloc.prev \in taken /\ start <= alloc.prev
      /\ taken = start .. alloc.prev /\ alloc.cur = alloc.prev + 1
      /\ \A b \in taken : owner[b] = NoBlock /\ b \in Blocks /\ b \in Nat
  BY <1>1, <1>3, Collected
<1>5. /\ \A b \in taken \ {alloc.prev} : fat[b] = b + 1
      /\ fat[alloc.prev] = BLOCK_RESERVED
      /\ \A f \in Blocks : fat[f] = BLOCK_FREE => f = alloc.prev \/ alloc.cur <= f
  BY <1>1, <1>4 DEF RunInv, ScanInv
<1>6. \A b \in Blocks : owner'[b] = IF b \in taken THEN start ELSE owner[b]
  BY <1>1 DEF Grant
<1>7. FreeSpaceIsTail'
  <2>1. \A f \in Blocks : fat[f] = BLOCK_FREE => alloc.cur <= f
    BY <1>5, FatWords
  <2>2. head' = alloc.cur /\ diskHead' \in {alloc.cur, diskHead}
    BY <1>1 DEF SaveVCB
  <2> QED
    BY <1>1, <2>1, <2>2 DEF RunInv, FreeSpaceIsTail
\* Nobody held the start before.
<1>8. \A b \in Blocks : owner[b] # start
  BY <1>2, <1>4 DEF RunInv, OwnersInv, Chains
<1>9. Chains' = Chains \cup {start} /\ start \notin Chains
  BY <1>2, <1>4, <1>6, <1>8 DEF Chains
<1>10. \A c : c = start => ChainBlocks(c)' = taken
  BY <1>4, <1>6, <1>8 DEF ChainBlocks
<1>11. \A c \in Chains : ChainBlocks(c)' = ChainBlocks(c)
  BY <1>2, <1>4, <1>6, <1>9 DEF ChainBlocks, Chains
<1>12. OwnersInv'
  BY <1>2, <1>4, <1>6, <1>9 DEF RunInv, OwnersInv
<1>13. rel.location = NoBlock
  BY <1>1 DEF RunInv, WalkInv
<1>14. ChainsContiguous'
  <2> SUFFICES ASSUME NEW c \in Settled', NEW b \in ChainBlocks(c)'
               PROVE  /\ c .. b \subseteq ChainBlocks(c)'
                      /\ fat'[b] = IF b + 1 \in ChainBlocks(c)' THEN b + 1 ELSE BLOCK_RESERVED
    BY DEF ChainsContiguous
  <2>1. CASE c = start
    <3>1. b \in taken /\ b \in Nat
      BY <1>4, <1>10, <2>1
    <3>2. start .. b \subseteq taken
      BY <1>4, <3>1
    <3>3. b + 1 \in taken <=> b # alloc.prev
      BY <1>4, <3>1
    <3> QED
      BY <1>1, <1>5, <1>10, <2>1, <3>1, <3>2, <3>3
  <2>2. CASE c # start
    <3>1. c \in Chains /\ c \in Settled
      BY <1>2, <1>9, <1>13, <2>2 DEF Settled, Chains
    <3> QED
      BY <1>1, <1>11, <3>1 DEF RunInv, ChainsContiguous
  <2> QED
    BY <2>1, <2>2
<1>15. ScanInv' /\ WalkInv'
  BY <1>2 DEF ScanInv, WalkInv, Releasing
<1> QED
  BY <1>7, <1>12, <1>14, <1>15 DEF RunInv

\* The release frees the first block of what is left of the chain.
LEMMA ReleaseBlockRun ==
    ASSUME SafeRuns, IInv, RunInv, ReleaseBlock
    PROVE  RunInv'
<1> DEFINE cur == rel.cur
           freeHead == rel.freeHead
<1>1. /\ pc = "release" /\ pc' = "release" /\ Releasing /\ cur \in Blocks
      /\ fat' = [fat EXCEPT ![cur] = freeHead]
      /\ rel' = [rel EXCEPT !.cur = fat[cur], !.done = @ + 1, !.freeHead = cur]
      /\ UNCHANGED <<diskHead, head, alloc, ext, owner, taken>>
  BY DEF ReleaseBlock, Releasing, WriteEntry, writeFATEntry, ReadResults, readFATEntry, SafeRuns
<1>2. /\ rel'.location = rel.location /\ rel'.max = rel.max /\ rel'.cur = fat[cur]
      /\ rel'.done = rel.done + 1 /\ rel'.freeHead = cur
  BY <1>1 DEF IInv, TypeOK
<1>3. \A b \in Blocks : fat'[b] = IF b = cur THEN freeHead ELSE fat[b]
  BY <1>1 DEF IInv, TypeOK
<1>4. cur # 0 /\ freeHead # 0
  BY <1>1 DEF RunInv, WalkInv
<1>5. PICK last \in Blocks :
        /\ cur <= last
        /\ \A b \in cur .. last : owner[b] \in {NoBlock, rel.location}
        /\ \A b \in cur .. last - 1 : fat[b] = b + 1
        /\ \/ fat[last] = BLOCK_RESERVED
           \/ /\ last - cur + 1 = rel.max - rel.done
              /\ fat[last] = BLOCK_FREE
              /\ \A f \in Blocks : fat[f] = BLOCK_FREE => last <= f
  BY <1>1 DEF RunInv, WalkInv
<1>6. cur \in Nat /\ last \in Nat /\ rel.max \in Nat /\ rel.done \in Nat
  BY <1>1, FatWords DEF IInv, TypeOK
<1>7. cur \in cur .. last /\ (cur # last => cur \in cur .. last - 1)
  BY <1>5, <1>6
<1>8. FreeSpaceIsTail'
  <2>1. \A b \in Blocks : fat'[b] = BLOCK_FREE => fat[b] = BLOCK_FREE
    BY <1>3, <1>4, FatWords
  <2>2. CASE fat[cur] = BLOCK_FREE
    <3>1. cur = last
      BY <1>5, <1>6, <1>7, <2>2, FatWords
    <3>2. \A f \in Blocks : fat[f] = BLOCK_FREE => cur <= f
      BY <1>5, <2>2, <3>1, FatWords
    <3> QED
      BY <1>1, <1>3, <2>1, <3>2, KeepTail DEF RunInv
  <2>3. CASE fat[cur] # BLOCK_FREE
    <3>1. \A b \in Blocks : fat'[b] = BLOCK_FREE <=> fat[b] = BLOCK_FREE
      BY <1>1, <1>3, <2>1, <2>3
    <3> QED
      BY <1>1, <3>1 DEF RunInv, FreeSpaceIsTail
  <2> QED
    BY <2>2, <2>3
<1>9. ChainsContiguous' /\ OwnersInv'
  <2>1. owner[cur] \notin Settled
    BY <1>5, <1>7, WordsLemma DEF Settled, Chains
  <2> QED
    BY <1>1, <1>2, <1>3, <2>1, KeepChains DEF RunInv
<1>10. ScanInv'
  BY <1>1 DEF ScanInv
<1>11. \A f \in Blocks : fat'[f] = BLOCK_FREE => rel.location <= f
  BY <1>1, <1>3, <1>4, FatWords DEF RunInv, WalkInv
<1>12. WalkInv'
  <2>1. CASE cur = last
    <3>1. ~ Releasing' \/ rel'.cur \notin Blocks
      <4>1. CASE fat[cur] = BLOCK_RESERVED
        BY <1>2, <4>1 DEF Releasing
      <4>2. CASE fat[cur] # BLOCK_RESERVED
        <5>1. rel.max - rel.done = 1
          BY <1>5, <1>6, <2>1, <4>2
        <5>2. ~ (rel'.done < rel'.max)
          BY <1>2, <1>6, <5>1
        <5> QED
          BY <5>2 DEF Releasing
      <4> QED
        BY <4>1, <4>2
    <3> QED
      BY <1>1, <1>2, <1>11, <3>1 DEF WalkInv
  <2>2. CASE cur # last
    <3>1. rel'.cur = cur + 1 /\ rel'.cur <= last
      BY <1>2, <1>5, <1>6, <1>7, <2>2
    <3>2. \A b \in rel'.cur .. last : owner[b] \in {NoBlock, rel.location}
      BY <1>5, <1>6, <3>1
    <3>3. \A b \in rel'.cur .. last - 1 : fat'[b] = b + 1
      <4> SUFFICES ASSUME NEW b \in rel'.cur .. last - 1 PROVE fat'[b] = b + 1
        OBVIOUS
      <4>1. b \in cur .. last - 1 /\ b # cur /\ b \in Blocks
        BY <1>6, <3>1, FatWords
      <4> QED
        BY <1>3, <1>5, <4>1
    <3>4. fat'[last] = fat[last]
      BY <1>3, <2>2
    <3>5. fat[last] # BLOCK_RESERVED =>
            /\ last - rel'.cur + 1 = rel'.max - rel'.done
            /\ fat'[last] = BLOCK_FREE
            /\ \A f \in Blocks : fat'[f] = BLOCK_FREE => last <= f
      <4> SUFFICES ASSUME fat[last] # BLOCK_RESERVED
                   PROVE  /\ last - rel'.cur + 1 = rel'.max - rel'.done
                          /\ fat'[last] = BLOCK_FREE
                          /\ \A f \in Blocks : fat'[f] = BLOCK_FREE => last <= f
        OBVIOUS
      <4>1. last - cur + 1 = rel.max - rel.done /\ fat[last] = BLOCK_FREE
        BY <1>5
      <4>2. last - rel'.cur + 1 = rel'.max - rel'.done
        BY <1>2, <1>6, <3>1, <4>1
      <4>3. \A f \in Blocks : fat'[f] = BLOCK_FREE => fat[f] = BLOCK_FREE
        BY <1>3, <1>4, FatWords
      <4> QED
        BY <1>5, <3>4, <4>1, <4>2, <4>3
    <3>6. 0 \notin {rel'.cur, rel'.freeHead}
      BY <1>2, <1>4, <1>6, <3>1
    <3> QED
      BY <1>1, <1>2, <1>11, <3>1, <3>2, <3>3, <3>4, <3>5, <3>6 DEF WalkInv
  <2> QED
    BY <2>1, <2>2
<1> QED
  BY <1>8, <1>9, <1>10, <1>12 DEF RunInv

\* The release is over: the chain is no more.
LEMMA ReleaseReturnsRun ==
    ASSUME RunInv, ReleaseReturns
    PROVE  RunInv'
<1> DEFINE location == rel.location
<1>1. /\ pc = "release" /\ SaveVCB(location) /\ FinishCall /\ UNCHANGED fat
      /\ owner' = [b \in Blocks |-> IF owner[b] = location THEN NoBlock ELSE owner[b]]
  BY DEF ReleaseReturns
<1>2. pc' = "idle" /\ rel'.location = NoBlock /\ NoBlock \notin Blocks
  BY <1>1, WordsLemma DEF FinishCall, NoRel
<1>3. FreeSpaceIsTail'
  <2>1. head' = location /\ diskHead' \in {location, diskHead}
    BY <1>1 DEF SaveVCB
  <2>2. \A f \in Blocks : fat[f] = BLOCK_FREE => location <= f
    BY <1>1 DEF RunInv, WalkInv
  <2> QED
    BY <1>1, <2>1, <2>2 DEF RunInv, FreeSpaceIsTail
<1>4. Chains' = Chains \ {location}
  BY <1>1, <1>2 DEF Chains
<1>5. \A c \in Chains' : ChainBlocks(c)' = ChainBlocks(c)
  BY <1>1, <1>2, <1>4 DEF ChainBlocks, Chains
<1>6. OwnersInv'
  BY <1>1, <1>4 DEF RunInv, OwnersInv
<1>7. ChainsContiguous'
  <2>1. \A c \in Settled' : c \in Settled /\ c \in Chains'
    BY <1>4 DEF Settled
  <2> QED
    BY <1>1, <1>5, <2>1 DEF RunInv, ChainsContiguous
<1>8. ScanInv' /\ WalkInv'
  BY <1>2 DEF ScanInv, WalkInv, Releasing
<1> QED
  BY <1>3, <1>6, <1>7, <1>8 DEF RunInv

\* Every step keeps the invariant of runs, until a crash cuts off a
\* release.
LEMMA NextCInv ==
    ASSUME SafeRuns
    PROVE  CInv /\ [CNext]_<<vars, torn>> => CInv'
<1> SUFFICES ASSUME CInv, [CNext]_<<vars, torn>> PROVE CInv'
  OBVIOUS
<1>1. IInv /\ IInv' /\ [Next]_vars
  BY NextIInv DEF CInv, CNext, SafeRuns
<1>2. CASE torn'
  BY <1>1, <1>2 DEF CInv
<1>3. CASE ~torn'
  <2> SUFFICES RunInv'
    BY <1>1 DEF CInv
  <2>1. RunInv /\ [Next]_vars
    BY <1>1, <1>3 DEF CInv, CNext
  <2>2. ASSUME NEW n \in 1 .. MaxRequest, CallAllocate(n) PROVE RunInv'
    BY <1>1, <2>1, <2>2, CallAllocateRun
  <2>3. ASSUME NEW c \in Chains, NEW n \in 1 .. MaxRequest, CallExtend(c, n) PROVE RunInv'
    BY <2>3 DEF CallExtend, SafeRuns, SafeUse
  <2>4. ASSUME NEW location \in Chains \cup Misused, NEW n \in 0 .. MaxRequest,
               CallRelease(location, n)
        PROVE  RunInv'
    BY <1>1, <2>1, <2>4, CallReleaseRun
  <2>5. CASE WalkChain \/ LinkChain \/ LinkChainFails
    BY <1>1, <2>5 DEF WalkChain, LinkChain, LinkChainFails, IInv, ZeroUnused
  <2>6. CASE SkipBlock
    BY <1>1, <2>1, <2>6, SkipBlockRun
  <2>7. CASE TakeBlock
    BY <1>1, <2>1, <2>7, TakeBlockRun
  <2>8. CASE LinkFails \/ SealFails \/ ScanFails
    <3>1. pc = "scan" /\ UNCHANGED <<fat, diskHead, head, owner>> /\ alloc.want > 0
      BY <1>1, <2>8 DEF LinkFails, SealFails, ScanFails, ScanOpen, Scanning, IInv, AllocInv
    <3>2. rel.location \notin Chains
      BY <2>1, <3>1, WordsLemma DEF RunInv, WalkInv, Chains
    <3>3. CASE FinishCall
      BY <2>1, <3>1, <3>2, <3>3, FinishRun
    <3>4. CASE ~FinishCall
      <4>1. BeginRelease(alloc.start, alloc.got) /\ UNCHANGED ext
        BY <2>8, <3>4 DEF LinkFails, SealFails, ScanFails
      <4>2. taken # {}
        BY <2>1, <2>8, <3>1, <3>4 DEF LinkFails, SealFails, ScanFails, RunInv, ScanInv
      <4> QED
        BY <1>1, <2>1, <3>1, <4>1, <4>2, GiveUpRun
    <3> QED
      BY <3>3, <3>4
  <2>9. CASE SealChain
    BY <1>1, <2>1, <2>9, SealChainRun
  <2>10. CASE SaveHead
    BY <1>1, <2>1, <2>10, SaveHeadRun
  <2>11. CASE ReleaseBlock
    BY <1>1, <2>1, <2>11, ReleaseBlockRun
  <2>12. CASE ReleaseReturns
    BY <2>1, <2>12, ReleaseReturnsRun
  <2>13. CASE Restart
    <3>1. FinishCall /\ head' = diskHead /\ UNCHANGED <<fat, diskHead, owner>>
      BY <2>13 DEF Restart
    <3>2. rel.location \notin Chains
      <4>1. CASE pc = "release"
        BY <1>3, <2>13, <4>1 DEF CNext, Restart, vars, FinishCall
      <4>2. CASE pc # "release"
        BY <2>1, <4>2, WordsLemma DEF RunInv, WalkInv, Chains
      <4> QED
        BY <4>1, <4>2
    <3> QED
      BY <2>1, <3>1, <3>2, FinishRun
  <2>14. ASSUME NEW b \in Blocks, WriteData(b) PROVE RunInv'
    <3>1. Shadow(b) = {}
      BY VolumeAssumption DEF Shadow, SafeRuns, SafeUse, Blocks
    <3>2. fat' = fat
      BY <1>1, <2>14, <3>1 DEF WriteData, IInv, TypeOK
    <3> QED
      BY <2>1, <2>14, <3>2
      DEF WriteData, RunInv, FreeSpaceIsTail, ChainsContiguous, Settled, Chains, ChainBlocks,
          OwnersInv, ScanInv, WalkInv, Releasing
  <2>15. CASE UNCHANGED vars
    BY <2>1, <2>15
    DEF vars, RunInv, FreeSpaceIsTail, ChainsContiguous, Settled, Chains, ChainBlocks,
        OwnersInv, ScanInv, WalkInv, Releasing
  <2> QED
    BY <2>1, <2>2, <2>3, <2>4, <2>5, <2>6, <2>7, <2>8, <2>9, <2>10, <2>11, <2>12, <2>13,
       <2>14, <2>15
    DEF Next, Call, CodeStep
<1> QED
  BY <1>2, <1>3

\* The allocator keeps the invariant of runs, without stale locations.
THEOREM InductiveUntilTorn ==
    ASSUME SafeRuns
    PROVE  CSpec => []CInv
  BY InitCInv, NextCInv, PTL DEF CSpec

\* Free space is the end of the volume and the scan misses none of it, through
\* failing writes and crashes, until a crash cuts off the release of a chain.
THEOREM FreeSpaceStaysTail ==
    ASSUME SafeRuns
    PROVE  CSpec => []TailUntilTorn
<1>1. CInv => TailUntilTorn
  BY DEF CInv, RunInv, TailUntilTorn
<1> QED
  BY <1>1, InductiveUntilTorn, PTL

\* Every chain is a run of consecutive blocks until then: the multi-block
\* reads and writes of directories are justified.
THEOREM ChainsStayRuns ==
    ASSUME SafeRuns
    PROVE  CSpec => []ContiguousUntilTorn
<1>1. CInv => ContiguousUntilTorn
  BY DEF CInv, RunInv, ContiguousUntilTorn
<1> QED
  BY <1>1, InductiveUntilTorn, PTL

\* Following the table through a sealed run visits the run.
LEMMA WalkedRun ==
    ASSUME NEW c \in Blocks, NEW last \in Blocks, c <= last,
           \A b \in c .. last - 1 : fat[b] = b + 1,
           fat[last] = BLOCK_RESERVED
    PROVE  Walked(c) = (c .. last) \cup {BLOCK_RESERVED}
<1> DEFINE F(w) == [k \in 0 .. TotalBlocks |-> IF k = 0 THEN c ELSE readFATEntry(fat, w[k - 1])]
           walk == CHOOSE w : w = F(w)
           at(k) == IF k <= last - c THEN c + k ELSE BLOCK_RESERVED
           v == [k \in 0 .. TotalBlocks |-> at(k)]
<1>1. /\ c \in Nat /\ last \in Nat /\ TotalBlocks \in Nat /\ last < TotalBlocks
      /\ BLOCK_RESERVED \notin Blocks
  BY FatWords
\* One step along the run, and none past its end.
<1>2. ASSUME NEW k \in 0 .. TotalBlocks - 1 PROVE readFATEntry(fat, at(k)) = at(k + 1)
  <2>1. CASE k < last - c
    <3>1. at(k) = c + k /\ c + k \in c .. last - 1 /\ c + k \in Blocks /\ at(k + 1) = c + k + 1
      BY <1>1, <2>1, FatWords
    <3> HIDE DEF at
    <3> QED
      BY <3>1 DEF readFATEntry
  <2>2. CASE k = last - c
    <3>1. at(k) = last /\ at(k + 1) = BLOCK_RESERVED
      BY <1>1, <2>2
    <3> HIDE DEF at
    <3> QED
      BY <3>1 DEF readFATEntry
  <2>3. CASE k > last - c
    <3>1. at(k) = BLOCK_RESERVED /\ at(k + 1) = BLOCK_RESERVED
      BY <1>1, <2>3
    <3> HIDE DEF at
    <3> QED
      BY <1>1, <3>1 DEF readFATEntry
  <2> QED
    BY <1>1, <2>1, <2>2, <2>3
<1>3. at(0) = c
  BY <1>1
<1> HIDE DEF at
<1>4. v = F(v)
  <2>1. \A k \in 1 .. TotalBlocks : v[k - 1] = at(k - 1) /\ k - 1 \in 0 .. TotalBlocks - 1
    BY <1>1
  <2>2. \A k \in 1 .. TotalBlocks : readFATEntry(fat, v[k - 1]) = at(k)
    BY <1>1, <1>2, <2>1
  <2>3. \A k \in 0 .. TotalBlocks : at(k) = IF k = 0 THEN c ELSE readFATEntry(fat, v[k - 1])
    BY <1>1, <1>3, <2>2
  <2> QED
    BY <2>3
<1>5. walk = F(walk)
  <2> HIDE DEF F, v
  <2> QED
    BY <1>4
<1>6. \A k \in 0 .. TotalBlocks :
        walk[k] = IF k = 0 THEN c ELSE readFATEntry(fat, walk[k - 1])
  <2> HIDE DEF walk
  <2> QED
    BY <1>5
<1>7. \A k \in 0 .. TotalBlocks : walk[k] = at(k)
  <2> DEFINE P == {k \in 0 .. TotalBlocks : walk[k] = at(k)}
  <2> HIDE DEF walk
  <2>1. 0 \in P
    BY <1>1, <1>3, <1>6
  <2>2. ASSUME NEW k \in 0 .. TotalBlocks - 1, k \in P PROVE k + 1 \in P
    <3>1. walk[k + 1] = readFATEntry(fat, walk[k])
      BY <1>1, <1>6
    <3> QED
      BY <1>1, <1>2, <2>2, <3>1
  <2> HIDE DEF P
  <2>3. 0 .. TotalBlocks \subseteq P
    BY <1>1, <2>1, <2>2, BoundedInduction
  <2> QED
    BY <2>3 DEF P
<1>8. Walked(c) = {walk[k] : k \in 0 .. TotalBlocks}
  BY DEF Walked
<1>9. {walk[k] : k \in 0 .. TotalBlocks} = {at(k) : k \in 0 .. TotalBlocks}
  <2> HIDE DEF walk
  <2> QED
    BY <1>7
<1>10. {at(k) : k \in 0 .. TotalBlocks} = (c .. last) \cup {BLOCK_RESERVED}
  <2>1. \A k \in 0 .. TotalBlocks : at(k) \in (c .. last) \cup {BLOCK_RESERVED}
    BY <1>1 DEF at
  <2>2. \A b \in c .. last : b - c \in 0 .. TotalBlocks /\ at(b - c) = b
    BY <1>1 DEF at
  <2>3. at(TotalBlocks) = BLOCK_RESERVED /\ TotalBlocks \in 0 .. TotalBlocks
    BY <1>1 DEF at
  <2> QED
    BY <2>1, <2>2, <2>3
<1> QED
  BY <1>8, <1>9, <1>10

\* As long as no chain is extended and none is torn, following the table from
\* the first block of a chain visits exactly the blocks granted to it.
THEOREM ChainsStayComplete ==
    ASSUME SafeRuns
    PROVE  CSpec => [](torn \/ ChainsComplete)
<1>1. CInv => torn \/ ChainsComplete
  <2> SUFFICES ASSUME RunInv, NEW c \in Settled
               PROVE  Walked(c) = ChainBlocks(c) \cup {BLOCK_RESERVED}
    BY DEF CInv, ChainsComplete
  <2> DEFINE C == ChainBlocks(c)
             last == Max(C)
  <2>1. C \in SUBSET Blocks /\ c \in C /\ c \in Blocks
    BY DEF Settled, Chains, ChainBlocks
  <2>2. \A b \in C : /\ c .. b \subseteq C
                     /\ fat[b] = IF b + 1 \in C THEN b + 1 ELSE BLOCK_RESERVED
    BY DEF RunInv, ChainsContiguous
  <2> HIDE DEF C
  <2>3. last \in C /\ \A b \in C : b <= last
    BY <2>1, MinMaxBlocks
  <2> HIDE DEF last
  <2>4. c \in Nat /\ last \in Blocks /\ last \in Nat /\ c <= last /\ C \subseteq Nat
    BY <2>1, <2>3, FatWords
  <2>5. fat[last] = BLOCK_RESERVED
    BY <2>2, <2>3, <2>4
  <2>6. \A b \in c .. last - 1 : fat[b] = b + 1
    <3> SUFFICES ASSUME NEW b \in c .. last - 1 PROVE fat[b] = b + 1
      OBVIOUS
    <3>1. b \in c .. last /\ b + 1 \in c .. last
      BY <2>4
    <3> QED
      BY <2>2, <2>3, <3>1
  <2>7. \A b : b \in C <=> b \in c .. last
    <3>1. ASSUME NEW b \in C PROVE b \in c .. last
      <4>1. b \in Nat /\ b <= last
        BY <2>3, <2>4
      <4>2. c <= b
        BY <2>1, <2>4, WordsLemma DEF C, ChainBlocks, RunInv, OwnersInv
      <4> QED
        BY <2>4, <4>1, <4>2
    <3> QED
      BY <2>2, <2>3, <3>1
  <2>8. C = c .. last
    BY <2>7, Zenon
  <2> QED
    BY <2>1, <2>4, <2>5, <2>6, <2>8, WalkedRun DEF C
<1> QED
  BY <1>1, InductiveUntilTorn, PTL

-----------------------------------------------------------------------------
(* Whole calls: FreeSpaceHistory implements AtomicFreeSpace.               *)

\* The operators that the instance Atomic has of its own are those of FatOps.
LEMMA SameRelease ==
    ASSUME NEW v, NEW l, NEW n
    PROVE  Atomic!releaseBlocks(v, l, n) = releaseBlocks(v, l, n)
  BY DEF Atomic!releaseBlocks, releaseBlocks, Atomic!ReleaseWalk, ReleaseWalk, Atomic!Blocks, Blocks

\* Linking the blocks of a set, and the ends of the set.
LEMMA SameLinked ==
    ASSUME NEW f, NEW S
    PROVE  /\ Atomic!Linked(f, S) = Linked(f, S)
           /\ Atomic!Min(S) = Min(S) /\ Atomic!Max(S) = Max(S)
           /\ Atomic!Cardinality(S) = Cardinality(S)
  BY DEF Atomic!Linked, Linked, Atomic!Min, Min, Atomic!Max, Max, Atomic!Blocks, Blocks,
         Atomic!Cardinality, Cardinality

\* What an allocation takes.
LEMMA SameLowest ==
    ASSUME NEW v, NEW n
    PROVE  Atomic!Lowest(Atomic!Reachable(v), n) = Lowest(Reachable(v), n)
  BY DEF Atomic!Lowest, Lowest, Atomic!Cardinality, Cardinality, Atomic!Reachable, Reachable,
         Atomic!Blocks, Blocks, Atomic!BLOCK_FREE, BLOCK_FREE

\* A whole call of allocateBlocks.
LEMMA SameAllocate ==
    ASSUME NEW v, NEW n
    PROVE  Atomic!allocateBlocks(v, n) = allocateBlocks(v, n)
<1> DEFINE S == Lowest(Reachable(v), n)
<1>1. Atomic!Lowest(Atomic!Reachable(v), n) = S
  BY SameLowest
<1>2. /\ Atomic!Linked(v.fat, S) = Linked(v.fat, S)
      /\ Atomic!Min(S) = Min(S) /\ Atomic!Max(S) = Max(S)
      /\ Atomic!Cardinality(S) = Cardinality(S)
  BY SameLinked
<1>3. \A w, l, k : Atomic!releaseBlocks(w, l, k) = releaseBlocks(w, l, k)
  BY SameRelease
<1>4. Atomic!NoBlock = NoBlock /\ Atomic!BLOCK_RESERVED = BLOCK_RESERVED
  BY DEF Atomic!NoBlock, NoBlock, Atomic!BLOCK_RESERVED, BLOCK_RESERVED
<1> QED
  BY <1>1, <1>2, <1>3, <1>4 DEF Atomic!allocateBlocks, allocateBlocks

\* A whole call of extendChain.
LEMMA SameExtend ==
    ASSUME NEW v, NEW c, NEW n
    PROVE  Atomic!extendChain(v, c, n) = extendChain(v, c, n)
<1>1. Atomic!LastOfChain(v.fat, c) = LastOfChain(v.fat, c)
  BY DEF Atomic!LastOfChain, LastOfChain, Atomic!readFATEntry, readFATEntry, Atomic!Blocks, Blocks,
         Atomic!BLOCK_RESERVED, BLOCK_RESERVED
<1>2. Atomic!allocateBlocks(v, n) = allocateBlocks(v, n)
  BY SameAllocate
<1>3. \A w, l, k : Atomic!releaseBlocks(w, l, k) = releaseBlocks(w, l, k)
  BY SameRelease
<1>4. Atomic!NoBlock = NoBlock /\ Atomic!Blocks = Blocks
  BY DEF Atomic!NoBlock, NoBlock, Atomic!Blocks, Blocks
<1> QED
  BY <1>1, <1>2, <1>3, <1>4 DEF Atomic!extendChain, extendChain

\* A step inside a call is a step that the caller does not see.
LEMMA Unseen ==
    ASSUME pc # "idle", pc' # "idle", Record
    PROVE  call' = call /\ answer' = answer /\ UNCHANGED Atomic!vars
  BY DEF Record, Atomic!vars

\* A step between calls that leaves the volume alone is one too.
LEMMA Between ==
    ASSUME HInv, pc = "idle", pc' = "idle", Record, Volume' = Volume
    PROVE  call' = call /\ answer' = answer /\ UNCHANGED Atomic!vars
  BY DEF Record, Atomic!vars, HInv, CalledInv

\* The step that returns is the whole call.
LEMMA Returns ==
    ASSUME pc # "idle", pc' = "idle", Record,
           call.op \in {"allocate", "extend", "release"},
           call.op = "allocate" => call.location = NoBlock,
           Outcome = [vol |-> Volume', start |-> Result]
    PROVE  Atomic!Next
<1>1. /\ answer' = [op |-> call.op, location |-> call.location, n |-> call.n, start |-> Result]
  BY DEF Record
<1> DEFINE after == IF pc' = "idle" THEN Volume' ELSE call'.before
           now   == IF pc = "idle" THEN Volume ELSE call.before
<1>2. now = call.before /\ after = Volume'
  OBVIOUS
<1>3. CASE call.op = "allocate"
  <2>1. allocateBlocks(call.before, call.n) = [vol |-> Volume', start |-> Result]
    BY <1>3 DEF Outcome
  <2>2. Atomic!Allocate(call.n)
    BY <1>1, <1>3, <2>1, SameAllocate DEF Atomic!Allocate, Atomic!NoBlock, NoBlock
  <2> QED
    BY <1>1, <1>3, <2>2 DEF Atomic!Next
<1>4. CASE call.op = "extend"
  <2>1. extendChain(call.before, call.location, call.n) = [vol |-> Volume', start |-> Result]
    BY <1>4 DEF Outcome
  <2>2. Atomic!Extend(call.location, call.n)
    BY <1>1, <1>4, <2>1, SameExtend DEF Atomic!Extend
  <2> QED
    BY <1>1, <1>4, <2>2 DEF Atomic!Next
<1>5. CASE call.op = "release"
  <2>1. releaseBlocks(call.before, call.location, call.n) = Volume' /\ Result = NoBlock
    BY <1>5 DEF Outcome
  <2>2. Atomic!Release(call.location, call.n)
    BY <1>1, <1>5, <2>1, SameRelease DEF Atomic!Release, Atomic!NoBlock, NoBlock
  <2> QED
    BY <1>1, <1>5, <2>2 DEF Atomic!Next
<1> QED
  BY <1>3, <1>4, <1>5

\* What the call in progress was made with.
LEMMA Called ==
    ASSUME HInv, pc # "idle"
    PROVE  /\ call.op \in {"allocate", "extend", "release"}
           /\ call.op = "allocate" => call.location = NoBlock
           /\ call.location \in Words /\ call.n \in Nat
           /\ call.before \in Volumes
           /\ call.before.fat \in Tables /\ call.before.head \in Words
           /\ Reachable(call.before) \in SUBSET Blocks
           /\ Allocated.vol \in Volumes
<1>1. /\ call.op \in {"allocate", "extend", "release"}
      /\ call.op = "allocate" => call.location = NoBlock
      /\ call.location \in Words /\ call.n \in Nat
      /\ call.before \in Volumes
  BY DEF HInv, CalledInv, Volumes, Tables
<1>2. call.before.fat \in Tables /\ call.before.head \in Words
  BY <1>1 DEF Volumes
<1>3. Allocated.vol \in Volumes
  <2>1. CASE call.n > 0
    BY <1>1, <2>1, AllocateType DEF Allocated
  <2>2. CASE call.n <= 0
    BY <1>1, <2>2 DEF Allocated, allocateBlocks
  <2> QED
    BY <1>1, <2>1, <2>2
<1> QED
  BY <1>1, <1>2, <1>3, ReachableBlocks

\* The operator of FatOps for a call does not depend on where the call is.
LEMMA SameCall ==
    ASSUME call' = call
    PROVE  Outcome' = Outcome /\ Allocated' = Allocated /\ Gathered' = Gathered
  BY DEF Outcome, Allocated, Gathered

\* Without faults only a write to what is no block fails.
LEMMA NoFaults ==
    ASSUME Faultless
    PROVE  /\ \A b : ReadResults(b) = {readFATEntry(fat, b)}
           /\ \A b : WriteMayFail(b) <=> b \notin Blocks
           /\ \A h : SaveVCB(h) => head' = h /\ diskHead' = h
           /\ \A b : Shadow(b) = {}
<1>1. Faults = {} /\ TotalBlocks <= FatBlocks * EntriesPerBlock
  BY DEF Faultless
<1>2. /\ \A b : ReadResults(b) = {readFATEntry(fat, b)}
      /\ \A b : WriteMayFail(b) <=> b \notin Blocks
      /\ \A h : SaveVCB(h) => head' = h /\ diskHead' = h
  BY <1>1 DEF ReadResults, WriteMayFail, SaveVCB
<1>3. \A e \in Blocks : ~ (e >= FatBlocks * EntriesPerBlock)
  <2>1. FatBlocks * EntriesPerBlock \in Nat /\ TotalBlocks \in Nat
    BY VolumeAssumption
  <2> QED
    BY <1>1, <2>1 DEF Blocks
<1> QED
  BY <1>2, <1>3 DEF Shadow

\* The scan begins: nothing has been collected.
LEMMA BeginScan ==
    ASSUME TypeOK, NEW n, BeginAllocate(n), UNCHANGED <<fat, head>>, taken = {},
           call'.before = Volume, call'.n = n, n \in Nat, n > 0
    PROVE  CollectInv'
<1>1. /\ pc' = "scan" /\ alloc' = [NoAlloc EXCEPT !.want = n, !.cur = head]
      /\ taken' = {} /\ fat' = fat /\ head' = head
      /\ call'.before.fat = fat /\ call'.before.head = head
  BY DEF BeginAllocate, Volume
<1>2. /\ alloc'.want = n /\ alloc'.cur = head /\ alloc'.got = 0
      /\ alloc'.start = NoBlock /\ alloc'.prev = NoBlock
  BY <1>1 DEF NoAlloc
<1>3. {b \in Reachable(call'.before) : b < head} = {}
  <2>1. ASSUME NEW b \in Reachable(call'.before) PROVE ~ (b < head)
    <3>1. b \in Blocks /\ head \in Blocks /\ b >= head
      BY <1>1 DEF Reachable
    <3> QED
      BY <3>1, FatWords
  <2> QED
    BY <2>1
<1>4. Linked(fat, {}) = fat
  BY FatWords, LinkedFew DEF Tables, TypeOK
<1>5. Cardinality({}) = 0
  BY FS_EmptySet
<1> QED
  BY <1>1, <1>2, <1>3, <1>4, <1>5 DEF CollectInv

\* allocateBlocks is called: the scan starts from the head.
LEMMA CallAllocateStep ==
    ASSUME Faultless, HInv, TypeOK', NEW n \in 1 .. MaxRequest, CallAllocate(n), Record
    PROVE  HInv' /\ Atomic!Next
<1>1. /\ pc = "idle" /\ pc' = "scan" /\ alloc'.want = n
      /\ UNCHANGED <<fat, diskHead, head, ext, owner>> /\ BeginAllocate(n)
  BY DEF CallAllocate, BeginAllocate, NoAlloc
<1>2. /\ call' = [op |-> "allocate", location |-> NoBlock, n |-> n, before |-> Volume]
      /\ answer' = NoAnswer
  BY <1>1 DEF Record, Begun
<1>3. /\ TypeOK /\ diskHead = head /\ ext = NoExt /\ taken = {} /\ n \in Nat /\ n > 0
  BY <1>1, FreeSpaceAssumption DEF HInv, CalledInv
<1>4. CollectInv'
  BY <1>1, <1>2, <1>3, BeginScan
<1>5. CalledInv'
  <2>1. call'.before \in [fat : [Blocks -> Words], head : Words]
    BY <1>2, <1>3 DEF TypeOK, Volume
  <2> QED
    BY <1>1, <1>2, <1>3, <2>1, FatWords DEF CalledInv, NoExt
<1>6. SearchInv' /\ ReleaseInv'
  BY <1>1, <1>2 DEF SearchInv, ReleaseInv
<1>7. Atomic!Next
  BY <1>1, <1>2 DEF Atomic!Next, Atomic!Consume, NoAnswer
<1> QED
  BY <1>4, <1>5, <1>6, <1>7 DEF HInv

\* extendChain is called: the walk starts at the first block of the chain.
LEMMA CallExtendStep ==
    ASSUME Faultless, HInv, TypeOK', NEW c \in Chains, NEW n \in 1 .. MaxRequest,
           CallExtend(c, n), Record
    PROVE  HInv' /\ Atomic!Next
<1>1. /\ pc = "idle" /\ pc' = "walk"
      /\ ext' = [chain |-> c, amount |-> n, last |-> NoBlock, cur |-> c]
      /\ UNCHANGED <<fat, diskHead, head, alloc, rel, owner, taken>>
  BY DEF CallExtend
<1>2. /\ call' = [op |-> "extend", location |-> c, n |-> n, before |-> Volume]
      /\ answer' = NoAnswer
  BY <1>1 DEF Record, Begun
<1>3. /\ TypeOK /\ diskHead = head /\ taken = {} /\ n \in Nat /\ n > 0 /\ c \in Blocks
  BY <1>1, FreeSpaceAssumption DEF HInv, CalledInv, Chains
<1>4. call'.before \in [fat : [Blocks -> Words], head : Words]
  BY <1>2, <1>3 DEF TypeOK, Volume
<1>5. CalledInv'
  BY <1>1, <1>2, <1>3, <1>4, FatWords DEF CalledInv
<1>6. SearchInv' /\ ReleaseInv' /\ CollectInv'
  BY <1>1, <1>2 DEF SearchInv, ReleaseInv, CollectInv, Volume
<1>7. Atomic!Next
  BY <1>1, <1>2 DEF Atomic!Next, Atomic!Consume, NoAnswer
<1> QED
  BY <1>5, <1>6, <1>7 DEF HInv

\* releaseBlocks begins, for the caller or to give back what an allocation took.
LEMMA BeginReleaseStep ==
    ASSUME TypeOK, NEW location \in Words, NEW n \in Nat, BeginRelease(location, n),
           UNCHANGED <<fat, head>>,
           NEW vol \in Volumes, vol = Volume,
           vol = call'.before \/ vol = Allocated'.vol \/
             vol = [call'.before EXCEPT !.fat = Linked(call'.before.fat, Gathered')],
           Outcome' = [vol |-> releaseBlocks(vol, location, n), start |-> NoBlock]
    PROVE  ReleaseInv' /\ CollectInv' /\ SearchInv'
<1>1. /\ pc' = "release" /\ taken' = {} /\ fat' = fat /\ head' = head
      /\ rel' = [location |-> location, max |-> n, cur |-> location, done |-> 0, freeHead |-> head]
  BY DEF BeginRelease
<1>2. ReleaseWalk(vol, location, 0) = [fat |-> fat, cur |-> location, freeHead |-> head]
  BY ReleaseNext DEF Volume
<1>3. vol.head = head /\ vol.fat = fat
  BY DEF Volume
<1>4. ReleaseInv'
  <2>1. ReleaseWalk(vol, rel'.location, rel'.done) =
          [fat |-> fat', cur |-> rel'.cur, freeHead |-> rel'.freeHead]
    BY <1>1, <1>2
  <2>2. /\ Outcome' = [vol |-> releaseBlocks(vol, rel'.location, rel'.max), start |-> NoBlock]
        /\ head' = vol.head /\ rel'.done <= rel'.max
    BY <1>1, <1>3
  <2>3. vol \in {call'.before, Allocated'.vol,
                [call'.before EXCEPT !.fat = Linked(call'.before.fat, Gathered')]}
    OBVIOUS
  <2> QED
    BY <2>1, <2>2, <2>3 DEF ReleaseInv
<1> QED
  BY <1>1, <1>4 DEF CollectInv, SearchInv

\* releaseBlocks is called, with a chain or with a stale location.
LEMMA CallReleaseStep ==
    ASSUME Faultless, HInv, TypeOK', NEW location \in Chains \cup Misused,
           NEW n \in 0 .. MaxRequest, CallRelease(location, n), Record
    PROVE  HInv' /\ Atomic!Next
<1>1. /\ pc = "idle" /\ pc' = "release" /\ BeginRelease(location, n) /\ taken' = {}
      /\ rel'.location = location /\ rel'.max = n
      /\ UNCHANGED <<fat, diskHead, head, ext, owner>>
  BY DEF CallRelease, BeginRelease
<1>2. /\ call' = [op |-> "release", location |-> location, n |-> n, before |-> Volume]
      /\ answer' = NoAnswer
  BY <1>1 DEF Record, Begun
<1>3. /\ TypeOK /\ diskHead = head /\ n \in Nat /\ location \in Words
  BY <1>1, FreeSpaceAssumption, FatWords DEF HInv, CalledInv, Chains
<1>4. Volume \in Volumes
  BY <1>3 DEF TypeOK, Volume, Volumes, Tables
<1>5. Outcome' = [vol |-> releaseBlocks(Volume, location, n), start |-> NoBlock]
  BY <1>2 DEF Outcome
<1>6. PICK vol \in Volumes : vol = Volume
  BY <1>4
<1>7. ReleaseInv' /\ CollectInv' /\ SearchInv'
  <2>1. vol = call'.before
    BY <1>2, <1>6
  <2> QED
    BY <1>1, <1>3, <1>5, <1>6, <2>1, BeginReleaseStep
<1>8. CalledInv'
  <2>1. call'.before \in [fat : [Blocks -> Words], head : Words]
    BY <1>2, <1>3 DEF TypeOK, Volume
  <2> QED
    BY <1>1, <1>2, <1>3, <2>1, FatWords DEF CalledInv
<1>9. Atomic!Next
  BY <1>1, <1>2 DEF Atomic!Next, Atomic!Consume, NoAnswer
<1> QED
  BY <1>7, <1>8, <1>9 DEF HInv

\* extendChain looks for the last block of the chain.
LEMMA WalkChainStep ==
    ASSUME Faultless, HInv, TypeOK', WalkChain, Record
    PROVE  HInv' /\ UNCHANGED Atomic!vars
<1> DEFINE cur == ext.cur
           next == readFATEntry(fat, cur)
<1>1. /\ pc = "walk" /\ UNCHANGED <<fat, diskHead, head, owner>>
      /\ ext' = [ext EXCEPT !.last = cur, !.cur = next]
      /\ next \notin {BLOCK_RESERVED, cur} => UNCHANGED <<pc, alloc, rel, taken>>
      /\ next \in {BLOCK_RESERVED, cur} => BeginAllocate(ext.amount)
  BY NoFaults DEF WalkChain
<1>2. /\ TypeOK /\ fat \in Tables /\ cur \in Words /\ next \in Words
      /\ diskHead = head /\ taken = {} /\ call.n > 0 /\ call.op = "extend"
      /\ ext.amount = call.n /\ ext.chain = call.location /\ ext.chain # NoBlock
      /\ Volume = call.before /\ call.n \in Nat /\ call.location \in Words
      /\ \A e \in Words : EndsAt(fat, cur, e) => EndsAt(fat, call.location, e)
  <2>1. TypeOK /\ fat \in Tables /\ cur \in Words
    BY DEF HInv, TypeOK, Tables
  <2>2. next \in Words
    BY <2>1, FatWords DEF readFATEntry, Tables
  <2> QED
    BY <1>1, <2>1, <2>2, Called DEF HInv, CalledInv, SearchInv
<1>3. pc' # "idle" /\ taken' = {} /\ pc' \in {"walk", "scan"}
  BY <1>1, <1>2 DEF BeginAllocate
<1>4. call' = call /\ UNCHANGED Atomic!vars
  BY <1>1, <1>3, Unseen
<1>5. /\ ext'.chain = ext.chain /\ ext'.amount = ext.amount
      /\ ext'.last = cur /\ ext'.cur = next
  BY <1>1, <1>2 DEF TypeOK
<1>6. CalledInv'
  <2>1. call \in [op : {"allocate", "extend", "release"}, location : Words, n : Nat,
                  before : [fat : [Blocks -> Words], head : Words]]
    BY <1>1 DEF HInv, CalledInv
  <2> HIDE DEF next, cur
  <2> QED
    BY <1>1, <1>2, <1>3, <1>4, <1>5, <2>1 DEF CalledInv
<1>7. ReleaseInv'
  BY <1>3 DEF ReleaseInv
<1>8. CASE next \notin {BLOCK_RESERVED, cur}
  <2>1. pc' = "walk" /\ fat' = fat
    BY <1>1, <1>8
  <2>2. ASSUME NEW e \in Words, EndsAt(fat, next, e) PROVE EndsAt(fat, cur, e)
    <3>1. LastOfChain(fat, next) = e /\ readFATEntry(fat, e) \in {BLOCK_RESERVED, e}
      BY <2>2 DEF EndsAt
    <3>2. IsLast(fat, LastOfChain(fat, next)) /\ ~IsLast(fat, cur)
      BY <1>8, <3>1 DEF IsLast
    <3>3. LastOfChain(fat, cur) = LastOfChain(fat, next)
      BY <1>2, <3>2, LastOfNext
    <3> QED
      BY <3>1, <3>3 DEF EndsAt
  <2>3. Volume' = Volume
    BY <1>1 DEF Volume
  <2> HIDE DEF next, cur
  <2>4. SearchInv'
    BY <1>2, <1>4, <1>5, <2>1, <2>2, <2>3 DEF SearchInv
  <2>5. CollectInv'
    BY <2>1 DEF CollectInv
  <2> QED
    BY <1>4, <1>6, <1>7, <2>4, <2>5 DEF HInv
<1>9. CASE next \in {BLOCK_RESERVED, cur}
  <2>1. pc' = "scan" /\ BeginAllocate(call.n)
    BY <1>1, <1>2, <1>9 DEF BeginAllocate
  <2>2. LastOfChain(fat, cur) = cur /\ IsLast(fat, cur)
    BY <1>2, <1>9, LastIsLast DEF IsLast
  <2>3. EndsAt(fat, cur, cur)
    BY <1>9, <2>2 DEF EndsAt
  <2>4. LastOfChain(fat, call.location) = cur
    BY <1>2, <2>3 DEF EndsAt
  <2>5. call.before.fat = fat
    BY <1>2 DEF Volume
  <2> HIDE DEF next, cur
  <2>6. SearchInv'
    BY <1>2, <1>4, <1>5, <2>1, <2>4, <2>5 DEF SearchInv
  <2>7. CollectInv'
    <3>1. call'.before = Volume /\ call'.n = call.n
      BY <1>2, <1>4
    <3> QED
      BY <1>1, <1>2, <2>1, <3>1, BeginScan
  <2> QED
    BY <1>4, <1>6, <1>7, <2>6, <2>7 DEF HInv
<1> QED
  BY <1>8, <1>9

\* Where a scan is: what it has collected are the reachable blocks below its
\* cursor.
LEMMA Scan ==
    ASSUME HInv, pc = "scan"
    PROVE  /\ head = call.before.head /\ alloc.want = call.n /\ diskHead = head
           /\ taken = {b \in Reachable(call.before) : b < alloc.cur}
           /\ taken \in SUBSET Blocks /\ IsFiniteSet(taken)
           /\ fat = Linked(call.before.fat, taken)
           /\ alloc.got = Cardinality(taken) /\ alloc.got <= alloc.want
           /\ taken = {} => alloc.start = NoBlock /\ alloc.prev = NoBlock
           /\ taken # {} => /\ alloc.start = Min(taken) /\ alloc.prev = Max(taken)
                            /\ alloc.start \in taken /\ alloc.prev \in taken
                            /\ \A b \in taken : alloc.start <= b /\ b <= alloc.prev
           /\ alloc.got = alloc.want => alloc.cur = alloc.prev + 1
           /\ alloc.cur = head \/ (head \in Blocks /\ head < alloc.cur)
           /\ alloc.cur \in Words /\ alloc.got \in Nat /\ alloc.want \in Nat /\ alloc.want > 0
<1>1. /\ head = call.before.head /\ alloc.want = call.n /\ diskHead = head
      /\ taken = {b \in Reachable(call.before) : b < alloc.cur}
      /\ fat = Linked(call.before.fat, taken)
      /\ alloc.got = Cardinality(taken) /\ alloc.got <= alloc.want
      /\ taken = {} => alloc.start = NoBlock /\ alloc.prev = NoBlock
      /\ taken # {} => alloc.start = Min(taken) /\ alloc.prev = Max(taken)
      /\ alloc.got = alloc.want => alloc.cur = alloc.prev + 1
      /\ alloc.cur = head \/ (head \in Blocks /\ head < alloc.cur)
      /\ call.n > 0
  BY DEF HInv, CollectInv, CalledInv
<1>2. taken \in SUBSET Blocks /\ IsFiniteSet(taken)
  BY FiniteBlocks DEF HInv, TypeOK
<1>3. taken # {} => /\ alloc.start \in taken /\ alloc.prev \in taken
                    /\ \A b \in taken : alloc.start <= b /\ b <= alloc.prev
  BY <1>1, <1>2, MinMaxBlocks
<1>4. alloc.cur \in Words /\ alloc.got \in Nat /\ alloc.want \in Nat
  BY DEF HInv, TypeOK
<1> QED
  BY <1>1, <1>2, <1>3, <1>4

\* A step of the scan that stays in the scan: what it does to the call's frame.
LEMMA StayInCall ==
    ASSUME HInv, pc \in {"scan", "save"}, pc' \in {"scan", "save"}, Record,
           UNCHANGED <<diskHead, head, ext>>
    PROVE  /\ call' = call /\ UNCHANGED Atomic!vars
           /\ CalledInv' /\ SearchInv' /\ ReleaseInv'
<1>1. call' = call /\ UNCHANGED Atomic!vars
  BY Unseen
<1>2. CalledInv'
  BY <1>1 DEF HInv, CalledInv
<1>3. SearchInv' /\ ReleaseInv'
  BY <1>1 DEF HInv, SearchInv, ReleaseInv
<1> QED
  BY <1>1, <1>2, <1>3

\* A block in use is not collected.
LEMMA SkipBlockStep ==
    ASSUME Faultless, HInv, TypeOK', SkipBlock, Record
    PROVE  HInv' /\ UNCHANGED Atomic!vars
<1> DEFINE cur == alloc.cur
           S == Reachable(call.before)
<1>1. /\ pc = "scan" /\ cur \in Blocks /\ fat[cur] # BLOCK_FREE /\ alloc.got < alloc.want
      /\ alloc' = [alloc EXCEPT !.cur = cur + 1]
      /\ UNCHANGED <<fat, diskHead, head, pc, rel, ext, owner, taken>>
  BY NoFaults DEF SkipBlock, ScanOpen, Scanning, readFATEntry
<1>2. /\ call' = call /\ UNCHANGED Atomic!vars
      /\ CalledInv' /\ SearchInv' /\ ReleaseInv'
  BY <1>1, StayInCall
<1>3. /\ alloc'.want = alloc.want /\ alloc'.got = alloc.got /\ alloc'.cur = cur + 1
      /\ alloc'.start = alloc.start /\ alloc'.prev = alloc.prev
  BY <1>1 DEF HInv, TypeOK
<1>4. cur \notin taken /\ S \in SUBSET Blocks /\ Blocks \subseteq Nat
      /\ taken = {b \in S : b < cur} /\ fat = Linked(call.before.fat, taken)
      /\ call.before.fat \in Tables /\ taken \in SUBSET Blocks
  BY <1>1, Scan, Called, FatWords
<1>5. cur \notin S
  <2>1. cur \in Blocks \ taken
    BY <1>1, <1>4
  <2>2. \A b \in Blocks \ taken : fat[b] = call.before.fat[b]
    BY <1>4, LinkedTable
  <2>3. call.before.fat[cur] # BLOCK_FREE
    BY <1>1, <2>1, <2>2
  <2> QED
    BY <2>3 DEF Reachable
<1> HIDE DEF S
<1>6. taken = {b \in S : b < cur + 1}
  <2>1. \A b \in S : b < cur + 1 <=> b < cur
    <3>1. \A b \in S : b \in Nat /\ cur \in Nat /\ b # cur
      BY <1>1, <1>4, <1>5
    <3> HIDE DEF cur
    <3> QED
      BY <3>1
  <2> QED
    BY <1>4, <2>1
<1>7. head = cur \/ (head \in Blocks /\ head < cur)
  BY <1>1, Scan
<1>8. head \in Blocks /\ head < cur + 1
  <2>1. cur \in Nat /\ \A b \in Blocks : b \in Nat
    BY <1>1, <1>4
  <2>2. head \in Blocks
    BY <1>1, <1>7
  <2> HIDE DEF cur
  <2> QED
    BY <1>7, <2>1, <2>2
<1> HIDE DEF cur
<1>9. /\ head = call.before.head /\ alloc.want = call.n
      /\ alloc.got = Cardinality(taken) /\ alloc.got <= alloc.want
      /\ taken = {} => alloc.start = NoBlock /\ alloc.prev = NoBlock
      /\ taken # {} => alloc.start = Min(taken) /\ alloc.prev = Max(taken)
      /\ alloc'.got # alloc'.want
  BY <1>1, <1>3, Scan
<1>10. CollectInv'
  <2>1. pc' = "scan" /\ fat' = fat /\ head' = head /\ taken' = taken
    BY <1>1
  <2> QED
    BY <1>2, <1>3, <1>4, <1>6, <1>8, <1>9, <2>1 DEF CollectInv, S
<1> QED
  BY <1>2, <1>10 DEF HInv

\* A free block is collected, and the one before it linked to it.
LEMMA TakeBlockStep ==
    ASSUME Faultless, HInv, TypeOK', TakeBlock, Record
    PROVE  HInv' /\ UNCHANGED Atomic!vars
<1> DEFINE cur == alloc.cur
           S == Reachable(call.before)
           table == call.before.fat
<1>1. /\ pc = "scan" /\ cur \in Blocks /\ fat[cur] = BLOCK_FREE /\ alloc.got < alloc.want
      /\ IF alloc.prev = NoBlock THEN fat' = fat ELSE fat' = [fat EXCEPT ![alloc.prev] = cur]
      /\ alloc' = [alloc EXCEPT !.start = IF alloc.start = NoBlock THEN cur ELSE alloc.start,
                                !.prev = cur, !.cur = cur + 1, !.got = alloc.got + 1]
      /\ taken' = taken \cup {cur}
      /\ UNCHANGED <<diskHead, head, pc, rel, ext, owner>>
  BY DEF TakeBlock, ScanOpen, Scanning, readFATEntry, WriteEntry, writeFATEntry
<1>2. /\ call' = call /\ UNCHANGED Atomic!vars
      /\ CalledInv' /\ SearchInv' /\ ReleaseInv'
  BY <1>1, StayInCall
<1>3. /\ alloc'.want = alloc.want /\ alloc'.got = alloc.got + 1 /\ alloc'.cur = cur + 1
      /\ alloc'.start = (IF alloc.start = NoBlock THEN cur ELSE alloc.start)
      /\ alloc'.prev = cur
  BY <1>1 DEF HInv, TypeOK
<1>4. /\ cur \notin taken /\ S \in SUBSET Blocks /\ Blocks \subseteq Nat
      /\ taken = {b \in S : b < cur} /\ fat = Linked(table, taken)
      /\ table \in Tables /\ taken \in SUBSET Blocks /\ IsFiniteSet(taken)
  BY <1>1, Scan, Called, FatWords
<1>5. head = cur \/ (head \in Blocks /\ head < cur)
  BY <1>1, Scan
<1>6. cur \in Nat /\ NoBlock \notin Blocks
  BY <1>1, FatWords
<1>7. head \in Blocks /\ head <= cur /\ head < cur + 1
  <2>1. head \in Blocks /\ head \in Nat
    BY <1>1, <1>5, FatWords
  <2> HIDE DEF cur
  <2> QED
    BY <1>5, <1>6, <2>1
<1>8. cur \in S
  <2>1. cur \in Blocks \ taken
    BY <1>1, <1>4
  <2>2. \A b \in Blocks \ taken : fat[b] = table[b]
    BY <1>4, LinkedTable
  <2>3. table[cur] = BLOCK_FREE /\ head = call.before.head
    BY <1>1, <2>1, <2>2, Scan
  <2> QED
    BY <1>1, <1>7, <2>3 DEF Reachable
<1>9. /\ head = call.before.head /\ alloc.want = call.n
      /\ alloc.got = Cardinality(taken) /\ alloc.got \in Nat /\ alloc.want \in Nat
      /\ taken = {} => alloc.start = NoBlock /\ alloc.prev = NoBlock
      /\ taken # {} => /\ alloc.start = Min(taken) /\ alloc.prev = Max(taken)
                       /\ alloc.start # NoBlock /\ alloc.prev # NoBlock
  BY <1>1, <1>4, <1>6, Scan
<1> HIDE DEF S, table
<1>10. taken' = {b \in S : b < cur + 1}
  <2>1. \A b \in S : b < cur + 1 <=> b < cur \/ b = cur
    <3>1. \A b \in S : b \in Nat
      BY <1>4
    <3> HIDE DEF cur
    <3> QED
      BY <1>6, <3>1
  <2> QED
    BY <1>1, <1>4, <1>8, <2>1
<1>11. Cardinality(taken') = alloc.got + 1
  BY <1>1, <1>4, <1>9, FS_AddElement
<1>12. /\ fat' = Linked(table, taken')
       /\ alloc'.start = Min(taken') /\ cur = Max(taken')
  <2>1. CASE taken = {}
    <3>1. taken' = {cur} /\ fat' = fat /\ alloc'.start = cur
      BY <1>1, <1>3, <1>9, <2>1
    <3>2. fat = table /\ Linked(table, {cur}) = table
      BY <1>1, <1>4, <2>1, LinkedFew
    <3>3. Min({cur}) = cur /\ Max({cur}) = cur
      BY <1>1, MinMaxBlocks
    <3> QED
      BY <3>1, <3>2, <3>3
  <2>2. CASE taken # {}
    <3>1. \A c \in taken : c < cur
      BY <1>4
    <3> HIDE DEF cur
    <3>2. /\ Linked(table, taken \cup {cur}) = [Linked(table, taken) EXCEPT ![Max(taken)] = cur]
          /\ Max(taken \cup {cur}) = cur /\ Min(taken \cup {cur}) = Min(taken)
      BY <1>1, <1>4, <2>2, <3>1, LinkedNext
    <3> QED
      BY <1>1, <1>3, <1>4, <1>9, <2>2, <3>2
  <2> QED
    BY <2>1, <2>2
<1>13. alloc.got + 1 <= alloc.want
  BY <1>1, <1>9
<1> HIDE DEF cur
<1>14. CollectInv'
  <2>1. pc' = "scan" /\ head' = head /\ taken' # {}
    BY <1>1
  <2>2. call'.before.fat = table /\ Reachable(call'.before) = S
    BY <1>2 DEF table, S
  <2> QED
    BY <1>2, <1>3, <1>7, <1>9, <1>10, <1>11, <1>12, <1>13, <2>1, <2>2 DEF CollectInv
<1> QED
  BY <1>2, <1>14 DEF HInv

\* A link is written to a block of the volume.
LEMMA NoLinkFails ==
    ASSUME Faultless, HInv, LinkFails \/ SealFails
    PROVE  FALSE
<1>1. pc = "scan" /\ WriteMayFail(alloc.prev)
  BY DEF LinkFails, SealFails, ScanOpen, Scanning
<1>2. alloc.prev \notin Blocks
  BY <1>1, NoFaults
<1>3. taken = {}
  BY <1>1, <1>2, Scan
<1>4. alloc.prev = NoBlock /\ alloc.got = 0
  BY <1>1, <1>3, Scan, FS_EmptySet
<1>5. alloc.got # alloc.want
  BY <1>1, <1>4, Scan
<1> QED
  BY <1>4, <1>5 DEF LinkFails, SealFails

\* A call of extendChain whose allocation fails returns what that leaves.
LEMMA FailedAllocation ==
    ASSUME call.op \in {"allocate", "extend"}, Allocated.start = NoBlock,
           NEW vol, Allocated = [vol |-> vol, start |-> NoBlock]
    PROVE  Outcome = [vol |-> vol, start |-> NoBlock]
<1>1. CASE call.op = "allocate"
  BY <1>1 DEF Outcome, Allocated
<1>2. CASE call.op = "extend"
  BY <1>2 DEF Outcome, Allocated, extendChain
<1> QED
  BY <1>1, <1>2

\* A call that is over leaves nothing behind.
LEMMA FinishStep ==
    ASSUME HInv, TypeOK', FinishCall, Record, diskHead' = head'
    PROVE  HInv'
<1>1. pc' = "idle" /\ ext' = NoExt /\ taken' = {} /\ call' = NoAnswer
  BY DEF FinishCall, Record
<1> QED
  BY <1>1 DEF HInv, CalledInv, SearchInv, CollectInv, ReleaseInv

\* The scan has come to the end of the volume.
LEMMA ScanFailsStep ==
    ASSUME Faultless, HInv, TypeOK', ScanFails, Record
    PROVE  HInv' /\ [Atomic!Next]_(Atomic!vars)
<1> DEFINE cur == alloc.cur
           S == Reachable(call.before)
           table == call.before.fat
<1>1. /\ pc = "scan" /\ alloc.got < alloc.want /\ cur \notin Blocks
      /\ alloc.start = NoBlock => FinishCall
      /\ alloc.start # NoBlock => BeginRelease(alloc.start, alloc.got) /\ UNCHANGED ext
      /\ UNCHANGED <<fat, diskHead, head, owner>>
  BY DEF ScanFails, Scanning
<1>2. /\ S \in SUBSET Blocks /\ taken = {b \in S : b < cur} /\ fat = Linked(table, taken)
      /\ table \in Tables /\ call.before \in Volumes /\ call.n \in Nat /\ call.n > 0
      /\ call.op \in {"allocate", "extend"}
      /\ call.op = "allocate" => call.location = NoBlock
      /\ head = call.before.head /\ diskHead = head /\ cur \in Words /\ head \in Words
      /\ alloc.got = Cardinality(taken) /\ alloc.got \in Nat /\ alloc.got < call.n
      /\ cur = head \/ (head \in Blocks /\ head < cur)
      /\ TypeOK
  BY <1>1, Scan, Called DEF HInv, CalledInv
<1>3. taken = S
  <2>1. ASSUME NEW b \in S PROVE b < cur
    <3>1. b \in Blocks /\ head \in Blocks /\ b \in Nat /\ head \in Nat /\ b < TotalBlocks
          /\ TotalBlocks \in Nat
      BY <1>2, FatWords DEF Reachable
    <3>2. head < cur
      BY <1>1, <1>2, <3>1
    <3>3. cur \in Int /\ (cur \notin 0 .. TotalBlocks - 1)
      BY <1>1, <1>2, FatWords
    <3> HIDE DEF cur
    <3> QED
      BY <3>1, <3>2, <3>3
  <2> QED
    BY <1>2, <2>1
<1>4. Gathered = taken
  <2>1. cur \in Int /\ Cardinality(taken) <= call.n
    BY <1>2, FatWords
  <2> HIDE DEF cur, S
  <2>2. Lowest(S, call.n) = taken
    BY <1>2, <1>3, <2>1, LowestBelow
  <2> QED
    BY <2>2 DEF Gathered, S
<1> DEFINE begun == [call.before EXCEPT !.fat = Linked(table, taken)]
<1>5. begun = Volume /\ begun \in Volumes
  <2>1. begun = [fat |-> fat, head |-> head]
    BY <1>2 DEF Volumes
  <2> HIDE DEF begun
  <2> QED
    BY <1>2, <2>1 DEF Volume, Volumes, TypeOK, Tables
<1>6. \/ /\ taken = {} /\ Allocated = [vol |-> call.before, start |-> NoBlock]
      \/ /\ taken # {}
         /\ Allocated = [vol |-> releaseBlocks(begun, Min(taken), Cardinality(taken)), start |-> NoBlock]
  <2>1. ~(Cardinality(taken) >= call.n)
    BY <1>2
  <2>2. taken = Lowest(S, call.n)
    BY <1>4 DEF Gathered
  <2> HIDE DEF S
  <2> QED
    BY <1>2, <2>1, <2>2, AllocateCases DEF Allocated, S
<1>7. CASE taken = {}
  <2>1. alloc.start = NoBlock /\ FinishCall /\ pc' = "idle"
    BY <1>1, <1>7, Scan DEF FinishCall
  <2>2. HInv'
    BY <1>1, <1>2, <2>1, FinishStep
  <2>3. Linked(table, {}) = table
    BY <1>2, FatWords, LinkedFew
  <2>4. Volume' = call.before
    <3>1. Volume' = Volume
      BY <1>1 DEF Volume
    <3>2. begun = call.before
      BY <1>2, <1>7, <2>3 DEF Volumes
    <3> HIDE DEF begun
    <3> QED
      BY <1>5, <3>1, <3>2
  <2> HIDE DEF begun
  <2>5. Allocated = [vol |-> Volume', start |-> NoBlock] /\ Allocated.start = NoBlock
    BY <1>6, <1>7, <2>4
  <2>6. Outcome = [vol |-> Volume', start |-> NoBlock]
    <3>1. PICK v : v = Volume'
      OBVIOUS
    <3> QED
      BY <1>2, <2>5, <3>1, FailedAllocation
  <2>7. Result = NoBlock
    BY <1>1 DEF Result
  <2>8. Atomic!Next
    BY <1>1, <1>2, <2>1, <2>6, <2>7, Returns
  <2> QED
    BY <2>2, <2>8
<1>8. CASE taken # {}
  <2>1. alloc.start = Min(taken) /\ alloc.start \in Blocks /\ alloc.start # NoBlock
    BY <1>1, <1>8, Scan, FatWords
  <2>2. /\ BeginRelease(alloc.start, alloc.got) /\ UNCHANGED ext /\ pc' = "release"
        /\ taken' = {}
    BY <1>1, <2>1 DEF BeginRelease
  <2>3. call' = call /\ UNCHANGED Atomic!vars
    BY <1>1, <2>2, Unseen
  <2>4. CalledInv'
    BY <1>1, <2>2, <2>3 DEF HInv, CalledInv
  <2>5. Outcome' = [vol |-> releaseBlocks(begun, alloc.start, alloc.got), start |-> NoBlock]
    <3>1. PICK v : v = releaseBlocks(begun, alloc.start, alloc.got)
      OBVIOUS
    <3> HIDE DEF begun
    <3>2. Allocated = [vol |-> v, start |-> NoBlock] /\ Allocated.start = NoBlock
      BY <1>2, <1>6, <1>8, <2>1, <3>1
    <3>3. Outcome = [vol |-> v, start |-> NoBlock]
      BY <1>2, <3>2, FailedAllocation
    <3> QED
      BY <2>3, <3>1, <3>3, SameCall
  <2>6. begun = [call'.before EXCEPT !.fat = Linked(call'.before.fat, Gathered')]
    BY <1>4, <2>3, SameCall
  <2>7. ReleaseInv' /\ CollectInv' /\ SearchInv'
    <3>1. PICK v \in Volumes : v = begun
      BY <1>5
    <3>2. v = Volume
      BY <1>5, <3>1
    <3>3. /\ v = [call'.before EXCEPT !.fat = Linked(call'.before.fat, Gathered')]
          /\ Outcome' = [vol |-> releaseBlocks(v, alloc.start, alloc.got), start |-> NoBlock]
      BY <2>5, <2>6, <3>1
    <3> HIDE DEF begun
    <3>4. alloc.start \in Words /\ alloc.got \in Nat
      BY <1>2, <2>1, FatWords
    <3> QED
      BY <1>1, <1>2, <2>2, <3>2, <3>3, <3>4, BeginReleaseStep
  <2> QED
    BY <2>3, <2>4, <2>7 DEF HInv
<1> QED
  BY <1>7, <1>8

\* The end of the chain is marked: the scan has found all it looked for.
LEMMA SealChainStep ==
    ASSUME Faultless, HInv, TypeOK', SealChain, Record
    PROVE  HInv' /\ UNCHANGED Atomic!vars
<1> DEFINE cur == alloc.cur
           S == Reachable(call.before)
           table == call.before.fat
<1>1. /\ pc = "scan" /\ pc' = "save" /\ alloc.got = alloc.want
      /\ fat' = [fat EXCEPT ![alloc.prev] = BLOCK_RESERVED]
      /\ UNCHANGED <<diskHead, head, alloc, rel, ext, owner, taken>>
  BY DEF SealChain, WriteEntry, writeFATEntry
<1>2. /\ call' = call /\ UNCHANGED Atomic!vars
      /\ CalledInv' /\ SearchInv' /\ ReleaseInv'
  BY <1>1, StayInCall
<1>3. /\ S \in SUBSET Blocks /\ taken = {b \in S : b < cur} /\ fat = Linked(table, taken)
      /\ call.before \in Volumes /\ call.n \in Nat /\ call.n > 0
      /\ Cardinality(taken) = call.n /\ cur \in Int
      /\ taken # {} => /\ alloc.start = Min(taken) /\ alloc.prev = Max(taken)
                       /\ alloc.start \in Blocks
      /\ cur = alloc.prev + 1 /\ head = call.before.head
  <2>1. call.n > 0 /\ call.n \in Nat /\ call.before \in Volumes /\ S \in SUBSET Blocks
    BY <1>1, Called DEF HInv, CalledInv
  <2>2. /\ taken = {b \in S : b < cur} /\ fat = Linked(table, taken) /\ cur \in Words
        /\ alloc.got = Cardinality(taken) /\ alloc.want = call.n /\ taken \in SUBSET Blocks
        /\ taken # {} => /\ alloc.start = Min(taken) /\ alloc.prev = Max(taken)
                         /\ alloc.start \in taken
        /\ cur = alloc.prev + 1 /\ head = call.before.head
    BY <1>1, Scan
  <2>3. cur \in Int
    BY <2>2, FatWords
  <2> HIDE DEF S, cur, table
  <2> QED
    BY <1>1, <2>1, <2>2, <2>3
<1>4. taken # {} /\ Lowest(S, call.n) = taken
  <2> HIDE DEF cur, S
  <2>1. taken # {}
    <3>1. Cardinality({}) = 0
      BY FS_EmptySet
    <3>2. Cardinality(taken) # 0
      BY <1>3
    <3> QED
      BY <3>1, <3>2
  <2> QED
    BY <1>3, <2>1, LowestBelow
<1>5. Allocated = [vol   |-> [fat |-> fat', head |-> cur], start |-> alloc.start]
  <2>1. Cardinality(taken) >= call.n /\ ~(Cardinality(taken) < call.n)
    BY <1>3
  <2> HIDE DEF S, cur
  <2>2. allocateBlocks(call.before, call.n) =
          [vol   |-> [fat  |-> [Linked(table, taken) EXCEPT ![Max(taken)] = BLOCK_RESERVED],
                      head |-> Max(taken) + 1],
           start |-> Min(taken)]
    BY <1>3, <1>4, <2>1, AllocateCases DEF S
  <2> QED
    BY <1>1, <1>3, <1>4, <2>2 DEF Allocated
<1>6. alloc.start # NoBlock
  BY <1>3, <1>4, FatWords
<1>7. CollectInv'
  <2>1. Allocated' = Allocated
    BY <1>2, SameCall
  <2> QED
    BY <1>1, <1>2, <1>3, <1>5, <1>6, <2>1 DEF CollectInv
<1> QED
  BY <1>2, <1>7 DEF HInv

\* The head is saved: allocateBlocks returns.
LEMMA SaveHeadStep ==
    ASSUME Faultless, HInv, TypeOK', SaveHead, Record
    PROVE  HInv' /\ [Atomic!Next]_(Atomic!vars)
<1>1. /\ pc = "save" /\ head' = alloc.cur /\ diskHead' = alloc.cur /\ fat' = fat
      /\ ext.chain = NoBlock => FinishCall
      /\ ext.chain # NoBlock => pc' = "link" /\ UNCHANGED <<alloc, rel, ext, owner, taken>>
  BY NoFaults DEF SaveHead
<1>2. Allocated = [vol |-> Volume', start |-> alloc.start] /\ alloc.start # NoBlock
  BY <1>1 DEF HInv, CollectInv, Volume
<1>3. CASE ext.chain = NoBlock
  <2>1. FinishCall /\ pc' = "idle"
    BY <1>1, <1>3 DEF FinishCall
  <2>2. call.op = "allocate" /\ call.location = NoBlock
    BY <1>1, <1>3, Called DEF HInv, CalledInv
  <2>3. Outcome = [vol |-> Volume', start |-> Result]
    <3>1. Outcome = Allocated
      BY <2>2 DEF Outcome, Allocated
    <3>2. Result = alloc.start
      BY <1>1 DEF Result
    <3> QED
      BY <1>2, <3>1, <3>2
  <2>4. Atomic!Next
    BY <1>1, <2>1, <2>2, <2>3, Returns
  <2> QED
    BY <1>1, <2>1, <2>4, FinishStep
<1>4. CASE ext.chain # NoBlock
  <2>1. pc' = "link" /\ UNCHANGED <<alloc, rel, ext, owner, taken>>
    BY <1>1, <1>4
  <2>2. call' = call /\ UNCHANGED Atomic!vars
    BY <1>1, <2>1, Unseen
  <2>3. CalledInv'
    <3>1. call.op = "extend"
      BY <1>1, <1>4 DEF HInv, CalledInv, NoExt
    <3> QED
      BY <1>1, <2>1, <2>2, <3>1 DEF HInv, CalledInv, NoExt
  <2>4. SearchInv' /\ ReleaseInv'
    BY <1>1, <2>1, <2>2 DEF HInv, SearchInv, ReleaseInv
  <2>5. CollectInv'
    BY <1>2, <2>1, <2>2, SameCall DEF CollectInv
  <2> QED
    BY <2>2, <2>3, <2>4, <2>5 DEF HInv
<1> QED
  BY <1>3, <1>4

\* extendChain hangs the new chain on the last block.
LEMMA LinkChainStep ==
    ASSUME Faultless, HInv, TypeOK', LinkChain, Record
    PROVE  HInv' /\ Atomic!Next
<1>1. /\ pc = "link" /\ pc' = "idle" /\ FinishCall /\ ext.last \in Blocks
      /\ fat' = [fat EXCEPT ![ext.last] = alloc.start]
      /\ head' = head /\ diskHead' = diskHead
  BY DEF LinkChain, WriteEntry, writeFATEntry, FinishCall
<1>2. /\ Allocated = [vol |-> Volume, start |-> alloc.start] /\ alloc.start # NoBlock
      /\ call.op = "extend" /\ ext.chain = call.location /\ diskHead = head
      /\ ext.last = LastOfChain(call.before.fat, call.location)
  BY <1>1 DEF HInv, CollectInv, CalledInv, SearchInv
<1>3. Outcome = [vol |-> Volume', start |-> Result]
  <2>1. Result = call.location
    BY <1>1, <1>2 DEF Result
  <2>2. Outcome = extendChain(call.before, call.location, call.n)
    BY <1>2 DEF Outcome
  <2>3. [Volume EXCEPT !.fat[ext.last] = alloc.start] = Volume'
    BY <1>1 DEF Volume
  <2>4. /\ allocateBlocks(call.before, call.n).start = alloc.start
        /\ allocateBlocks(call.before, call.n).vol = Volume
    BY <1>2 DEF Allocated
  <2>5. extendChain(call.before, call.location, call.n) =
          [vol |-> [Volume EXCEPT !.fat[ext.last] = alloc.start], start |-> call.location]
    BY <1>1, <1>2, <2>4 DEF extendChain
  <2> QED
    BY <2>1, <2>2, <2>3, <2>5
<1>4. Atomic!Next
  BY <1>1, <1>2, <1>3, Returns
<1> QED
  BY <1>1, <1>2, <1>4, FinishStep

\* The last block is none: the new chain goes back.
LEMMA LinkChainFailsStep ==
    ASSUME Faultless, HInv, TypeOK', LinkChainFails, Record
    PROVE  HInv' /\ UNCHANGED Atomic!vars
<1>1. /\ pc = "link" /\ pc' = "release" /\ ext.last \notin Blocks /\ taken' = {}
      /\ BeginRelease(alloc.start, ext.amount)
      /\ UNCHANGED <<fat, diskHead, head, ext, owner>>
  BY NoFaults DEF LinkChainFails, BeginRelease
<1>2. /\ Allocated = [vol |-> Volume, start |-> alloc.start] /\ alloc.start # NoBlock
      /\ call.op = "extend" /\ ext.amount = call.n /\ TypeOK
      /\ ext.last = LastOfChain(call.before.fat, call.location)
      /\ alloc.start \in Words /\ call.n \in Nat /\ Volume \in Volumes
  BY <1>1, Called DEF HInv, CollectInv, CalledInv, SearchInv, TypeOK
<1>3. call' = call /\ UNCHANGED Atomic!vars
  BY <1>1, Unseen
<1>4. CalledInv'
  BY <1>1, <1>3 DEF HInv, CalledInv
<1>5. PICK vol \in Volumes : vol = Volume
  BY <1>2
<1>6. Outcome' = [vol |-> releaseBlocks(vol, alloc.start, call.n), start |-> NoBlock]
  <2>1. Outcome = extendChain(call.before, call.location, call.n)
    BY <1>2 DEF Outcome
  <2>2. /\ allocateBlocks(call.before, call.n).start = alloc.start
        /\ allocateBlocks(call.before, call.n).vol = vol
    BY <1>2, <1>5 DEF Allocated
  <2>3. extendChain(call.before, call.location, call.n) =
          [vol |-> releaseBlocks(vol, alloc.start, call.n), start |-> NoBlock]
    BY <1>1, <1>2, <2>2 DEF extendChain
  <2> QED
    BY <1>3, <2>1, <2>3, SameCall
<1>7. vol = Allocated'.vol
  BY <1>2, <1>3, <1>5, SameCall
<1>8. ReleaseInv' /\ CollectInv' /\ SearchInv'
  BY <1>1, <1>2, <1>5, <1>6, <1>7, BeginReleaseStep
<1> QED
  BY <1>3, <1>4, <1>8 DEF HInv

\* How far a release has come.
LEMMA Released ==
    ASSUME HInv, pc = "release"
    PROVE  \E vol \in Volumes :
             /\ vol \in {call.before, Allocated.vol,
                         [call.before EXCEPT !.fat = Linked(call.before.fat, Gathered)]}
             /\ Outcome = [vol |-> releaseBlocks(vol, rel.location, rel.max), start |-> NoBlock]
             /\ head = vol.head /\ rel.done <= rel.max
             /\ ReleaseWalk(vol, rel.location, rel.done) =
                  [fat |-> fat, cur |-> rel.cur, freeHead |-> rel.freeHead]
<1>1. PICK vol \in {call.before, Allocated.vol,
                    [call.before EXCEPT !.fat = Linked(call.before.fat, Gathered)]} :
        /\ Outcome = [vol |-> releaseBlocks(vol, rel.location, rel.max), start |-> NoBlock]
        /\ head = vol.head /\ rel.done <= rel.max
        /\ ReleaseWalk(vol, rel.location, rel.done) =
             [fat |-> fat, cur |-> rel.cur, freeHead |-> rel.freeHead]
  BY DEF HInv, ReleaseInv
<1>2. call.before \in Volumes /\ Allocated.vol \in Volumes
  BY Called
<1>3. [call.before EXCEPT !.fat = Linked(call.before.fat, Gathered)] \in Volumes
  <2>1. Gathered \in SUBSET Blocks
    BY Called DEF Gathered, Lowest
  <2>2. Linked(call.before.fat, Gathered) \in Tables
    BY Called, <2>1, LinkedTable
  <2> QED
    BY <1>2, <2>2 DEF Volumes
<1> QED
  BY <1>1, <1>2, <1>3

\* releaseBlocks moves one block to the free list.
LEMMA ReleaseBlockStep ==
    ASSUME Faultless, HInv, TypeOK', ReleaseBlock, Record
    PROVE  HInv' /\ UNCHANGED Atomic!vars
<1> DEFINE cur == rel.cur
<1>1. /\ pc = "release" /\ pc' = "release" /\ cur \in Blocks /\ rel.done < rel.max
      /\ rel' = [rel EXCEPT !.cur = fat[cur], !.done = rel.done + 1, !.freeHead = cur]
      /\ fat' = [fat EXCEPT ![cur] = rel.freeHead]
      /\ UNCHANGED <<diskHead, head, alloc, ext, owner, taken>>
  <2>1. /\ pc = "release" /\ cur \in Blocks /\ rel.done < rel.max
        /\ UNCHANGED <<diskHead, head, pc, alloc, ext, owner, taken>>
        /\ fat' = [fat EXCEPT ![cur] = rel.freeHead]
    BY DEF ReleaseBlock, Releasing, WriteEntry, writeFATEntry
  <2>2. PICK next \in ReadResults(cur) :
          rel' = [rel EXCEPT !.cur = next, !.done = rel.done + 1, !.freeHead = cur]
    BY DEF ReleaseBlock
  <2>3. next = fat[cur]
    BY <2>1, NoFaults DEF readFATEntry
  <2> HIDE DEF cur
  <2> QED
    BY <2>1, <2>2, <2>3
<1>2. /\ rel'.location = rel.location /\ rel'.max = rel.max /\ rel'.cur = fat[cur]
      /\ rel'.done = rel.done + 1 /\ rel'.freeHead = cur
      /\ rel.done \in Nat /\ rel.max \in Nat /\ rel.location \in Words
  BY <1>1 DEF HInv, TypeOK
<1>3. call' = call /\ UNCHANGED Atomic!vars
  BY <1>1, Unseen
<1>4. CalledInv' /\ SearchInv' /\ CollectInv'
  BY <1>1, <1>3 DEF HInv, CalledInv, SearchInv, CollectInv
<1>5. PICK vol \in Volumes :
        /\ vol \in {call.before, Allocated.vol,
                    [call.before EXCEPT !.fat = Linked(call.before.fat, Gathered)]}
        /\ Outcome = [vol |-> releaseBlocks(vol, rel.location, rel.max), start |-> NoBlock]
        /\ head = vol.head /\ rel.done <= rel.max
        /\ ReleaseWalk(vol, rel.location, rel.done) =
             [fat |-> fat, cur |-> cur, freeHead |-> rel.freeHead]
  BY <1>1, Released
<1>6. ReleaseWalk(vol, rel.location, rel.done + 1) =
        [fat |-> fat', cur |-> rel'.cur, freeHead |-> rel'.freeHead]
  <2>1. ReleaseWalk(vol, rel.location, rel.done + 1) =
          WalkStep(ReleaseWalk(vol, rel.location, rel.done))
    BY <1>2, ReleaseNext
  <2>2. WalkStep([fat |-> fat, cur |-> cur, freeHead |-> rel.freeHead]) =
          [fat |-> [fat EXCEPT ![cur] = rel.freeHead], cur |-> fat[cur], freeHead |-> cur]
    BY <1>1 DEF WalkStep
  <2> QED
    BY <1>1, <1>2, <1>5, <2>1, <2>2
<1>7. ReleaseInv'
  <2>1. vol \in {call'.before, Allocated'.vol,
                [call'.before EXCEPT !.fat = Linked(call'.before.fat, Gathered')]}
    BY <1>3, <1>5, SameCall
  <2>2. Outcome' = [vol |-> releaseBlocks(vol, rel'.location, rel'.max), start |-> NoBlock]
    BY <1>2, <1>3, <1>5, SameCall
  <2>3. head' = vol.head /\ rel'.done <= rel'.max
    BY <1>1, <1>2, <1>5
  <2>4. ReleaseWalk(vol, rel'.location, rel'.done) =
          [fat |-> fat', cur |-> rel'.cur, freeHead |-> rel'.freeHead]
    BY <1>2, <1>6
  <2> QED
    BY <2>1, <2>2, <2>3, <2>4 DEF ReleaseInv
<1> QED
  BY <1>3, <1>4, <1>7 DEF HInv

\* releaseBlocks returns: the rest of the walk would change nothing.
LEMMA ReleaseReturnsStep ==
    ASSUME Faultless, HInv, TypeOK', ReleaseReturns, Record
    PROVE  HInv' /\ Atomic!Next
<1>1. /\ pc = "release" /\ pc' = "idle" /\ FinishCall /\ fat' = fat
      /\ Releasing => rel.cur \notin Blocks
      /\ head' = rel.location /\ diskHead' = rel.location
  BY NoFaults DEF ReleaseReturns, FinishCall
<1>2. PICK vol \in Volumes :
        /\ Outcome = [vol |-> releaseBlocks(vol, rel.location, rel.max), start |-> NoBlock]
        /\ rel.done <= rel.max
        /\ ReleaseWalk(vol, rel.location, rel.done) =
             [fat |-> fat, cur |-> rel.cur, freeHead |-> rel.freeHead]
  BY <1>1, Released
<1>3. rel.done \in Nat /\ rel.max \in Nat /\ rel.location \in Words
  BY DEF HInv, TypeOK
<1>4. rel.done = rel.max \/ rel.cur \notin Blocks
  BY <1>1, <1>2, <1>3, FatWords DEF Releasing
<1>5. ReleaseWalk(vol, rel.location, rel.max) = ReleaseWalk(vol, rel.location, rel.done)
  <2>1. ReleaseWalk(vol, rel.location, rel.done).cur = rel.cur
    BY <1>2
  <2> QED
    BY <1>2, <1>3, <1>4, <2>1, ReleaseStays
<1>6. releaseBlocks(vol, rel.location, rel.max) = Volume'
  BY <1>1, <1>2, <1>5 DEF releaseBlocks, Volume
<1>7. Result = NoBlock
  BY <1>1 DEF Result
<1>8. Outcome = [vol |-> Volume', start |-> Result]
  BY <1>2, <1>6, <1>7
<1>9. Atomic!Next
  BY <1>1, <1>8, Called, Returns
<1> QED
  BY <1>1, <1>9, FinishStep

\* A new mount between two calls reads back the head that was saved.
LEMMA RestartStep ==
    ASSUME Faultless, HInv, TypeOK', Restart, Record
    PROVE  HInv' /\ UNCHANGED Atomic!vars
<1>1. /\ pc = "idle" /\ pc' = "idle" /\ FinishCall
      /\ fat' = fat /\ diskHead' = diskHead /\ head' = diskHead
  BY DEF Restart, FinishCall, Faultless
<1>2. diskHead = head
  BY DEF HInv, CalledInv
<1>3. Volume' = Volume
  BY <1>1, <1>2 DEF Volume
<1> QED
  BY <1>1, <1>3, Between, FinishStep

\* No entry of the table lies in a data block.
LEMMA WriteDataStep ==
    ASSUME Faultless, HInv, TypeOK', NEW b \in Blocks, WriteData(b), Record
    PROVE  HInv' /\ UNCHANGED Atomic!vars
<1>1. /\ pc = "idle" /\ pc' = "idle"
      /\ fat' = [e \in Blocks |-> IF e \in Shadow(b) THEN BLOCK_FREE ELSE fat[e]]
      /\ UNCHANGED <<diskHead, head, alloc, rel, ext, owner, taken>>
  BY DEF WriteData
<1>2. fat' = fat
  <2>1. fat = [e \in Blocks |-> fat[e]]
    BY DEF HInv, TypeOK
  <2>2. fat' = [e \in Blocks |-> fat[e]]
    BY <1>1, NoFaults
  <2> QED
    BY <2>1, <2>2
<1>3. Volume' = Volume
  BY <1>1, <1>2 DEF Volume
<1>4. call' = call /\ UNCHANGED Atomic!vars
  BY <1>1, <1>3, Between
<1>5. CalledInv' /\ SearchInv' /\ CollectInv' /\ ReleaseInv'
  BY <1>1, <1>4 DEF HInv, CalledInv, SearchInv, CollectInv, ReleaseInv
<1> QED
  BY <1>4, <1>5 DEF HInv

\* Nothing has been called on a formatted volume.
LEMMA InitHInv == HInit => HInv /\ Atomic!Init
<1> SUFFICES ASSUME HInit PROVE HInv /\ Atomic!Init
  OBVIOUS
<1>1. /\ pc = "idle" /\ ext = NoExt /\ taken = {} /\ call = NoAnswer /\ answer = NoAnswer
      /\ diskHead = head /\ fat = initFreeSpace.fat /\ head = initFreeSpace.head /\ TypeOK
  BY InitType DEF HInit, Init
<1>2. HInv
  BY <1>1 DEF HInv, CalledInv, SearchInv, CollectInv, ReleaseInv
<1>3. Atomic!initFreeSpace = initFreeSpace
  BY DEF Atomic!initFreeSpace, initFreeSpace, Atomic!Blocks, Blocks,
         Atomic!FirstFreeBlock, FirstFreeBlock, Atomic!FatStart, FatStart,
         Atomic!BLOCK_RESERVED, BLOCK_RESERVED, Atomic!BLOCK_FREE, BLOCK_FREE
<1>4. Volume = initFreeSpace
  BY <1>1 DEF Volume, initFreeSpace
<1> QED
  BY <1>1, <1>2, <1>3, <1>4 DEF Atomic!Init, NoAnswer

\* One action of the program at a time.
LEMMA NextHInv ==
    ASSUME Faultless
    PROVE  HInv /\ [HNext]_hvars => HInv' /\ [Atomic!Next]_(Atomic!vars)
<1> SUFFICES ASSUME HInv, [HNext]_hvars PROVE HInv' /\ [Atomic!Next]_(Atomic!vars)
  OBVIOUS
<1>1. CASE UNCHANGED hvars
  <2>1. /\ UNCHANGED <<fat, diskHead, head, pc, alloc, rel, ext, owner, taken>>
        /\ UNCHANGED <<call, answer>>
    BY <1>1 DEF hvars, vars
  <2>2. TypeOK' /\ CalledInv' /\ SearchInv'
    BY <2>1 DEF HInv, TypeOK, CalledInv, SearchInv, Volume
  <2>3. CollectInv' /\ ReleaseInv'
    BY <2>1, SameCall DEF HInv, CollectInv, ReleaseInv, Volume
  <2>4. UNCHANGED Atomic!vars
    BY <2>1 DEF Atomic!vars, Volume
  <2> QED
    BY <2>2, <2>3, <2>4 DEF HInv
<1>2. CASE Next /\ Record
  <2> USE <1>2
  <2>1. TypeOK'
    BY NextType DEF HInv
  <2>2. CASE Call
    <3>1. ASSUME NEW n \in 1 .. MaxRequest, CallAllocate(n)
          PROVE  HInv' /\ [Atomic!Next]_(Atomic!vars)
      BY <2>1, <3>1, CallAllocateStep
    <3>2. ASSUME NEW c \in Chains, NEW n \in 1 .. MaxRequest, CallExtend(c, n)
          PROVE  HInv' /\ [Atomic!Next]_(Atomic!vars)
      BY <2>1, <3>2, CallExtendStep
    <3>3. ASSUME NEW location \in Chains \cup Misused, NEW n \in 0 .. MaxRequest,
                 CallRelease(location, n)
          PROVE  HInv' /\ [Atomic!Next]_(Atomic!vars)
      BY <2>1, <3>3, CallReleaseStep
    <3> QED
      BY <2>2, <3>1, <3>2, <3>3 DEF Call
  <2>3. CASE CodeStep
    <3>1. CASE WalkChain
      BY <2>1, <3>1, WalkChainStep
    <3>2. CASE SkipBlock
      BY <2>1, <3>2, SkipBlockStep
    <3>3. CASE TakeBlock
      BY <2>1, <3>3, TakeBlockStep
    <3>4. CASE LinkFails \/ SealFails
      BY <3>4, NoLinkFails
    <3>5. CASE ScanFails
      BY <2>1, <3>5, ScanFailsStep
    <3>6. CASE SealChain
      BY <2>1, <3>6, SealChainStep
    <3>7. CASE SaveHead
      BY <2>1, <3>7, SaveHeadStep
    <3>8. CASE LinkChain
      BY <2>1, <3>8, LinkChainStep
    <3>9. CASE LinkChainFails
      BY <2>1, <3>9, LinkChainFailsStep
    <3>10. CASE ReleaseBlock
      BY <2>1, <3>10, ReleaseBlockStep
    <3>11. CASE ReleaseReturns
      BY <2>1, <3>11, ReleaseReturnsStep
    <3> QED
      BY <2>3, <3>1, <3>2, <3>3, <3>4, <3>5, <3>6, <3>7, <3>8, <3>9, <3>10, <3>11 DEF CodeStep
  <2>4. CASE Restart
    BY <2>1, <2>4, RestartStep
  <2>5. ASSUME NEW b \in Blocks, WriteData(b)
        PROVE  HInv' /\ [Atomic!Next]_(Atomic!vars)
    BY <2>1, <2>5, WriteDataStep
  <2> QED
    BY <2>2, <2>3, <2>4, <2>5 DEF Next
<1> QED
  BY <1>1, <1>2 DEF HNext

\* Every loop of the allocator, at every step of every call, has done a
\* definite part of what the operator of FatOps for the call does.
THEOREM HistoryIsKept ==
    ASSUME Faultless
    PROVE  HSpec => []HInv
<1>1. HInv /\ [HNext]_hvars => HInv'
  BY NextHInv
<1> QED
  BY <1>1, InitHInv, PTL DEF HSpec

\* Without faults each call of allocateBlocks, extendChain and releaseBlocks
\* changes table and head, and returns, as its operator of FatOps says: the
\* single steps in which the directory layer uses the allocator are what its
\* loops do.
THEOREM CallsImplementOperators ==
    ASSUME Faultless
    PROVE  HSpec => CallsAreAtomic
<1>1. HInv /\ [HNext]_hvars => HInv' /\ [Atomic!Next]_(Atomic!vars)
  BY NextHInv
<1> QED
  BY <1>1, InitHInv, PTL DEF HSpec, CallsAreAtomic, Atomic!Spec
=============================================================================
