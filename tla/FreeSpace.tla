------------------------------ MODULE FreeSpace ------------------------------
(***************************************************************************)
(* The allocator of freeSpace.c at the grain of its disk writes.  Every    *)
(* LBAwrite is synchronous (the driver flushes it before it returns), so a *)
(* crash falls between two writes; each iteration of a loop of the code is *)
(* one action and issues at most one write.  The program is single         *)
(* threaded: one call is in progress at a time, and pc says where it is.   *)
(*                                                                         *)
(* Two ghost variables record what the callers believe: owner says which   *)
(* chain (named by its start block) each block was granted to, and taken   *)
(* holds the blocks collected by the allocation in progress.               *)
(*                                                                         *)
(* A request for no blocks is refused before anything is written; calls    *)
(* with such an argument are left out.                                     *)
(***************************************************************************)
EXTENDS FatOps

CONSTANTS
    Operations,  \* the entry points the program calls
    MaxRequest,  \* bound on the number of blocks of one call
    Faults,      \* subset of {"read", "write", "crash"}
    Misused      \* locations released without owning them: stale references

ASSUME FreeSpaceAssumption ==
    /\ Operations \subseteq {"allocate", "extend", "release"}
    /\ MaxRequest \in Nat
    /\ Faults \subseteq {"read", "write", "crash"}
    /\ Misused \subseteq Blocks \cup {NoBlock}

VARIABLES
    fat,       \* the table on disk
    diskHead,  \* freeSpaceHead in the VCB on disk
    head,      \* freeSpaceHead in the VCB in memory
    pc,        \* "idle" or the part of the code in progress
    alloc,     \* locals of allocateBlocks
    rel,       \* locals of releaseBlocks
    ext,       \* locals of extendChain
    owner,     \* ghost
    taken      \* ghost

vars == <<fat, diskHead, head, pc, alloc, rel, ext, owner, taken>>

NoAlloc == [want |-> 0, start |-> NoBlock, prev |-> NoBlock, cur |-> NoBlock, got |-> 0]
NoRel   == [location |-> NoBlock, max |-> 0, cur |-> NoBlock, done |-> 0, freeHead |-> NoBlock]
NoExt   == [chain |-> NoBlock, amount |-> 0, last |-> NoBlock, cur |-> NoBlock]

Init ==
    /\ fat = initFreeSpace.fat
    /\ head = initFreeSpace.head
    /\ diskHead = head
    /\ pc = "idle"
    /\ alloc = NoAlloc
    /\ rel = NoRel
    /\ ext = NoExt
    /\ owner = [b \in Blocks |-> NoBlock]
    /\ taken = {}

-----------------------------------------------------------------------------
(* What the disk does to a call.                                           *)

\* A failed read makes readFATEntry answer BLOCK_RESERVED.
ReadResults(b) ==
    {readFATEntry(fat, b)} \cup (IF "read" \in Faults THEN {BLOCK_RESERVED} ELSE {})

\* writeFATEntry reads the block of the table before it writes it back, and
\* refuses an invalid block number.
WriteMayFail(b) == b \notin Blocks \/ Faults \cap {"read", "write"} # {}

WriteEntry(b, entry) == b \in Blocks /\ fat' = writeFATEntry(fat, b, entry)

\* Writing the VCB: a failure is reported at most, and ignored.
SaveVCB(h) ==
    /\ head' = h
    /\ \/ diskHead' = h
       \/ "write" \in Faults /\ UNCHANGED diskHead

-----------------------------------------------------------------------------
(* Calls and returns.                                                      *)

Chains == {c \in Blocks : owner[c] = c}

BeginAllocate(n) ==
    /\ pc' = "scan"
    /\ alloc' = [NoAlloc EXCEPT !.want = n, !.cur = head]
    /\ UNCHANGED <<rel, taken>>

BeginRelease(location, n) ==
    /\ pc' = "release"
    /\ rel' = [location |-> location, max |-> n, cur |-> location, done |-> 0,
               freeHead |-> head]
    /\ alloc' = NoAlloc
    /\ taken' = {}

FinishCall ==
    /\ pc' = "idle"
    /\ alloc' = NoAlloc
    /\ rel' = NoRel
    /\ ext' = NoExt
    /\ taken' = {}

CallAllocate(n) ==
    /\ pc = "idle" /\ "allocate" \in Operations
    /\ BeginAllocate(n)
    /\ UNCHANGED <<fat, diskHead, head, ext, owner>>

CallRelease(location, n) ==
    /\ pc = "idle" /\ "release" \in Operations
    /\ BeginRelease(location, n)
    /\ UNCHANGED <<fat, diskHead, head, ext, owner>>

CallExtend(c, n) ==
    /\ pc = "idle" /\ "extend" \in Operations
    /\ pc' = "walk"
    /\ ext' = [chain |-> c, amount |-> n, last |-> NoBlock, cur |-> c]
    /\ UNCHANGED <<fat, diskHead, head, alloc, rel, owner, taken>>

-----------------------------------------------------------------------------
(* extendChain, first part: find the last block of the chain.              *)

\* Mutant: remembers the first block of the chain, not the last.
WalkChainKeepsHead ==
    /\ pc = "walk"
    /\ \E next \in ReadResults(ext.cur) :
         /\ ext' = [ext EXCEPT !.last = ext.chain, !.cur = next]
         /\ IF next \notin {BLOCK_RESERVED, ext.cur}
            THEN UNCHANGED <<pc, alloc, rel, taken>>
            ELSE BeginAllocate(ext.amount)
    /\ UNCHANGED <<fat, diskHead, head, owner>>

\* The walk ends at BLOCK_RESERVED, or at an entry that names itself.
WalkChain ==
    /\ pc = "walk"
    /\ \E next \in ReadResults(ext.cur) :
         /\ ext' = [ext EXCEPT !.last = ext.cur, !.cur = next]
         /\ IF next \notin {BLOCK_RESERVED, ext.cur}
            THEN UNCHANGED <<pc, alloc, rel, taken>>
            ELSE BeginAllocate(ext.amount)
    /\ UNCHANGED <<fat, diskHead, head, owner>>

-----------------------------------------------------------------------------
(* allocateBlocks.                                                         *)

Scanning == pc = "scan" /\ alloc.got < alloc.want
\* Mutant: "currentBlock <= vcb->totalBlocks".
ScanOpenOffByOne == Scanning /\ alloc.cur \in 0 .. TotalBlocks
ScanOpen == Scanning /\ alloc.cur \in Blocks

\* Mutant: currentBlock++ only when the block was taken.
SkipBlockStuck ==
    /\ ScanOpen
    /\ \E entry \in ReadResults(alloc.cur) : entry # BLOCK_FREE
    /\ UNCHANGED vars

\* The block is in use, or its entry cannot be read.
SkipBlock ==
    /\ ScanOpen
    /\ \E entry \in ReadResults(alloc.cur) : entry # BLOCK_FREE
    /\ alloc' = [alloc EXCEPT !.cur = @ + 1]
    /\ UNCHANGED <<fat, diskHead, head, pc, rel, ext, owner, taken>>

\* Mutant: takes every block that is not reserved.
TakeBlockUnreserved ==
    /\ ScanOpen
    /\ readFATEntry(fat, alloc.cur) # BLOCK_RESERVED
    /\ IF alloc.prev = NoBlock THEN UNCHANGED fat ELSE WriteEntry(alloc.prev, alloc.cur)
    /\ alloc' = [alloc EXCEPT !.start = IF @ = NoBlock THEN alloc.cur ELSE @,
                              !.prev = alloc.cur, !.cur = @ + 1, !.got = @ + 1]
    /\ taken' = taken \cup {alloc.cur}
    /\ UNCHANGED <<diskHead, head, pc, rel, ext, owner>>

\* Mutant: links the first block, not the previous one.
TakeBlockLinksStart ==
    /\ ScanOpen
    /\ readFATEntry(fat, alloc.cur) = BLOCK_FREE
    /\ IF alloc.prev = NoBlock THEN UNCHANGED fat ELSE WriteEntry(alloc.start, alloc.cur)
    /\ alloc' = [alloc EXCEPT !.start = IF @ = NoBlock THEN alloc.cur ELSE @,
                              !.prev = alloc.cur, !.cur = @ + 1, !.got = @ + 1]
    /\ taken' = taken \cup {alloc.cur}
    /\ UNCHANGED <<diskHead, head, pc, rel, ext, owner>>

\* A free block: link the previous one to it.
TakeBlock ==
    /\ ScanOpen
    /\ readFATEntry(fat, alloc.cur) = BLOCK_FREE
    /\ IF alloc.prev = NoBlock THEN UNCHANGED fat ELSE WriteEntry(alloc.prev, alloc.cur)
    /\ alloc' = [alloc EXCEPT !.start = IF @ = NoBlock THEN alloc.cur ELSE @,
                              !.prev = alloc.cur, !.cur = @ + 1, !.got = @ + 1]
    /\ taken' = taken \cup {alloc.cur}
    /\ UNCHANGED <<diskHead, head, pc, rel, ext, owner>>

\* The link cannot be written: release what was collected and fail.
LinkFails ==
    /\ ScanOpen
    /\ readFATEntry(fat, alloc.cur) = BLOCK_FREE
    /\ alloc.prev # NoBlock /\ WriteMayFail(alloc.prev)
    /\ BeginRelease(alloc.start, alloc.got)
    /\ UNCHANGED <<fat, diskHead, head, ext, owner>>

\* The end of the volume came first.
ScanFails ==
    /\ Scanning
    /\ alloc.cur \notin Blocks
    /\ IF alloc.start = NoBlock THEN FinishCall
       ELSE BeginRelease(alloc.start, alloc.got) /\ UNCHANGED ext
    /\ UNCHANGED <<fat, diskHead, head, owner>>

\* Mutant: the end of the chain is never marked.
SealChainSkipped ==
    /\ pc = "scan" /\ alloc.got = alloc.want
    /\ pc' = "save"
    /\ UNCHANGED <<fat, diskHead, head, alloc, rel, ext, owner, taken>>

\* Mark the end of the chain.
SealChain ==
    /\ pc = "scan" /\ alloc.got = alloc.want
    /\ WriteEntry(alloc.prev, BLOCK_RESERVED)
    /\ pc' = "save"
    /\ UNCHANGED <<diskHead, head, alloc, rel, ext, owner, taken>>

SealFails ==
    /\ pc = "scan" /\ alloc.got = alloc.want
    /\ WriteMayFail(alloc.prev)
    /\ BeginRelease(alloc.start, alloc.got)
    /\ UNCHANGED <<fat, diskHead, head, ext, owner>>

Grant(c) == owner' = [b \in Blocks |-> IF b \in taken THEN c ELSE owner[b]]

\* Mutant: the head skips the block after the chain.
SaveHeadTooFar ==
    /\ pc = "save"
    /\ SaveVCB(alloc.cur + 1)
    /\ IF ext.chain = NoBlock
       THEN Grant(alloc.start) /\ FinishCall
       ELSE pc' = "link" /\ UNCHANGED <<alloc, rel, ext, owner, taken>>
    /\ UNCHANGED fat

\* Advance the head and return: to the caller, who now owns the chain, or to
\* extendChain.
SaveHead ==
    /\ pc = "save"
    /\ SaveVCB(alloc.cur)
    /\ IF ext.chain = NoBlock
       THEN Grant(alloc.start) /\ FinishCall
       ELSE pc' = "link" /\ UNCHANGED <<alloc, rel, ext, owner, taken>>
    /\ UNCHANGED fat

-----------------------------------------------------------------------------
(* extendChain, second part.                                               *)

LinkChain ==
    /\ pc = "link"
    /\ WriteEntry(ext.last, alloc.start)
    /\ Grant(ext.chain)
    /\ FinishCall
    /\ UNCHANGED <<diskHead, head>>

LinkChainFails ==
    /\ pc = "link"
    /\ WriteMayFail(ext.last)
    /\ BeginRelease(alloc.start, ext.amount)
    /\ UNCHANGED <<fat, diskHead, head, ext, owner>>

-----------------------------------------------------------------------------
(* releaseBlocks.                                                          *)

Releasing == pc = "release" /\ rel.cur # BLOCK_RESERVED /\ rel.done < rel.max

\* Mutant: frees the entry instead of threading it on the free list.
ReleaseBlockFrees ==
    /\ Releasing
    /\ \E next \in ReadResults(rel.cur) :
         rel' = [rel EXCEPT !.cur = next, !.done = @ + 1, !.freeHead = rel.cur]
    /\ WriteEntry(rel.cur, BLOCK_FREE)
    /\ UNCHANGED <<diskHead, head, pc, alloc, ext, owner, taken>>

ReleaseBlock ==
    /\ Releasing
    /\ \E next \in ReadResults(rel.cur) :
         rel' = [rel EXCEPT !.cur = next, !.done = @ + 1, !.freeHead = rel.cur]
    /\ WriteEntry(rel.cur, rel.freeHead)
    /\ UNCHANGED <<diskHead, head, pc, alloc, ext, owner, taken>>

\* Mutant: the head becomes the last block released.
ReleaseReturnsLast ==
    /\ pc = "release"
    /\ Releasing => WriteMayFail(rel.cur)
    /\ SaveVCB(rel.freeHead)
    /\ owner' = [b \in Blocks |-> IF owner[b] = rel.location THEN NoBlock ELSE owner[b]]
    /\ FinishCall
    /\ UNCHANGED fat

\* Returns early when an entry cannot be written; either way the head moves
\* to the start of the chain, and the caller forgets the chain.
ReleaseReturns ==
    /\ pc = "release"
    /\ Releasing => WriteMayFail(rel.cur)
    /\ SaveVCB(rel.location)
    /\ owner' = [b \in Blocks |-> IF owner[b] = rel.location THEN NoBlock ELSE owner[b]]
    /\ FinishCall
    /\ UNCHANGED fat

-----------------------------------------------------------------------------
(* The environment.                                                        *)

\* A crash, or a clean exit and a new mount: the VCB is read back from disk.
Restart ==
    /\ pc = "idle" \/ "crash" \in Faults
    /\ head' = diskHead
    /\ FinishCall
    /\ UNCHANGED <<fat, diskHead, owner>>

\* An owner writes its block.  Entries beyond the table lie in data blocks,
\* and a fresh directory is mostly zeros.
WriteData(b) ==
    /\ pc = "idle"
    /\ owner[b] # NoBlock
    /\ fat' = [e \in Blocks |-> IF e \in Shadow(b) THEN BLOCK_FREE ELSE fat[e]]
    /\ UNCHANGED <<diskHead, head, pc, alloc, rel, ext, owner, taken>>

Call ==
    \/ \E n \in 1 .. MaxRequest : CallAllocate(n)
    \/ \E c \in Chains, n \in 1 .. MaxRequest : CallExtend(c, n)
    \/ \E location \in Chains \cup Misused, n \in 0 .. MaxRequest : CallRelease(location, n)

CodeStep ==
    \/ WalkChain
    \/ SkipBlock \/ TakeBlock \/ LinkFails \/ ScanFails
    \/ SealChain \/ SealFails \/ SaveHead
    \/ LinkChain \/ LinkChainFails
    \/ ReleaseBlock \/ ReleaseReturns

Next == Call \/ CodeStep \/ Restart \/ (\E b \in Blocks : WriteData(b))

Spec     == Init /\ [][Next]_vars
FairSpec == Spec /\ WF_vars(CodeStep)
-----------------------------------------------------------------------------
(* Properties.                                                             *)

TypeOK ==
    /\ fat \in [Blocks -> Words]
    /\ head \in Words /\ diskHead \in Words
    /\ pc \in {"idle", "walk", "scan", "save", "link", "release"}
    /\ alloc \in [want : Nat, start : Words, prev : Words, cur : Words, got : Nat]
    /\ rel \in [location : Words, max : Nat, cur : Words, done : Nat, freeHead : Words]
    /\ ext \in [chain : Words, amount : Nat, last : Words, cur : Words]
    /\ owner \in [Blocks -> Words]
    /\ taken \subseteq Blocks

ChainBlocks(c) == {b \in Blocks : owner[b] = c}

\* A chain no call is taking apart.
Settled == Chains \ {rel.location}

\* The table never shows a block of a live chain as free, so allocateBlocks
\* (freeSpace.c:96) cannot pick it up for somebody else.
OwnedNotFree == \A b \in Blocks : owner[b] # NoBlock => fat[b] # BLOCK_FREE

\* allocateBlocks never hands out a block that a live chain holds: through
\* failed calls, crashes between any two writes, and releases of locations
\* that are no longer anyone's (fs_delete and fs_rmdir after a crash, or
\* through a stale directory entry).
NoDoubleGrant ==
    [][\A b \in Blocks : owner'[b] # owner[b] => NoBlock \in {owner[b], owner'[b]}]_vars

\* Free space is one run of blocks at the end of the volume, and neither copy
\* of the head has moved past its first block: the scan of allocateBlocks,
\* which starts at the head and only moves up, misses no free block, and what
\* it finds is contiguous.
FreeSpaceIsTail ==
    \A b \in Blocks : fat[b] = BLOCK_FREE =>
        /\ diskHead <= b /\ head <= b
        /\ \A c \in Blocks : b < c => fat[c] = BLOCK_FREE

\* Every chain is a run of consecutive blocks, linked in order and sealed.
\* createDirectory, loadDir and the writers of parent directories rely on it:
\* they read and write a directory with one multi-block LBAread or LBAwrite
\* from its first block (createDirectory.c:85, mfs.c:673).
ChainsContiguous ==
    \A c \in Settled : \A b \in ChainBlocks(c) :
        /\ c .. b \subseteq ChainBlocks(c)
        /\ fat[b] = IF b + 1 \in ChainBlocks(c) THEN b + 1 ELSE BLOCK_RESERVED

\* Following the table from the first block of a chain visits exactly the
\* blocks granted to it and ends: what the walk of extendChain relies on.
Walked(c) ==
    LET walk[k \in 0 .. TotalBlocks] ==
          IF k = 0 THEN c ELSE readFATEntry(fat, walk[k - 1])
    IN  {walk[k] : k \in 0 .. TotalBlocks}

ChainsComplete == \A c \in Settled : Walked(c) = ChainBlocks(c) \cup {BLOCK_RESERVED}

\* Every call returns, under fairness of the one thread that runs it.
CallsReturn == pc # "idle" ~> pc = "idle"

\* README.md:52 "Dynamic block allocation and deallocation": between calls, a
\* block no chain holds can be allocated.
NoLostBlocks ==
    pc = "idle" => \A b \in DataBlocks :
        owner[b] = NoBlock => fat[b] = BLOCK_FREE /\ head <= b

\* The calls, at the grain of their disk writes and with every fault, are a
\* pool that hands each block out at most once.
Pool == INSTANCE BlockPool WITH
    Block <- Blocks, None <- NoBlock,
    pool  <- {b \in Blocks : fat[b] = BLOCK_FREE} \cup taken

PoolSpec == Pool!Spec

-----------------------------------------------------------------------------
(* The inductive invariant behind OwnedNotFree, NoDoubleGrant and PoolSpec *)
(* when block 0 is never released, extendChain is never called and the     *)
(* table has an entry for every block.  The hard part is block 0, the VCB: *)
(* a release that walks through a free block reads its entry, 0, as the    *)
(* next block of the chain, goes on through block 0 and then writes 0,     *)
(* that is BLOCK_FREE, into the block the entry of block 0 names.          *)

\* Block 0 is never given out: nothing the scan starts from is 0.
ZeroUnused ==
    /\ head # 0 /\ diskHead # 0
    /\ \A b \in Blocks : owner[b] # 0
    /\ pc \in {"idle", "scan", "save", "release"}
    /\ ext.chain = NoBlock

\* What the entry of block 0 names is a lost block.
Lost(b) == owner[b] = NoBlock /\ fat[b] # BLOCK_FREE /\ b # 0

ZeroEntry ==
    /\ fat[0] # BLOCK_FREE
    /\ fat[0] \in Blocks => Lost(fat[0]) /\ fat[0] \notin taken

\* The blocks an allocation has collected are nobody's, and all but the last
\* are linked.
AllocInv ==
    /\ \A b \in taken : owner[b] = NoBlock
    /\ \A b \in taken : fat[b] = BLOCK_FREE => pc = "scan" /\ b = alloc.prev
    /\ pc \notin {"scan", "save"} => taken = {}
    /\ pc \in {"scan", "save"} =>
         /\ alloc.cur # 0 /\ alloc.want > 0
         /\ 0 \notin taken
         /\ alloc.prev \in taken \cup {NoBlock}
         /\ alloc.start \in taken \cup {NoBlock}
         /\ alloc.got > 0 => alloc.start \in taken
    /\ pc = "save" => alloc.start \in taken

\* A release that has come to block 0, or has just left it, handles lost
\* blocks only.
RelInv ==
    pc = "release" =>
        /\ rel.location \in (Blocks \ {0}) \cup {NoBlock}
        /\ rel.freeHead = 0 /\ rel.cur \in Blocks => Lost(rel.cur) /\ rel.cur # fat[0]
        /\ rel.cur = 0 => /\ rel.freeHead \in Blocks
                          /\ Lost(rel.freeHead) /\ rel.freeHead # fat[0]

IInv == TypeOK /\ OwnedNotFree /\ ZeroUnused /\ ZeroEntry /\ AllocInv /\ RelInv
=============================================================================
