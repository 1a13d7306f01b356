------------------------------- MODULE FatOps -------------------------------
(***************************************************************************)
(* The file allocation table of freeSpace.c: its entries, and each entry   *)
(* point of the allocator as one function of the pair (table, free head).  *)
(* FreeSpace models the same calls one disk write at a time, and           *)
(* FreeSpaceHistory shows that it implements these operators; the          *)
(* directory layer uses them as single steps.                              *)
(*                                                                         *)
(* Block numbers are C ints and table entries uint32_t.  The code mixes    *)
(* the two freely, so an entry is represented by the int it converts to:   *)
(* 0xFFFFFFFE is -2 and 0xFFFFFFFF, a failed allocation, is -1.            *)
(***************************************************************************)
EXTENDS Integers, FiniteSets, FiniteSetsExt

CONSTANTS
    TotalBlocks,      \* vcb->totalBlocks
    FatBlocks,        \* vcb->freeSpaceSize (blocksNeeded of initFreeSpace)
    EntriesPerBlock   \* blockSize / sizeof(FATEntry)

\* The volume has at least one block behind the VCB and the table.
ASSUME VolumeAssumption ==
    /\ FatBlocks \in Nat \ {0}
    /\ EntriesPerBlock \in Nat \ {0}
    /\ TotalBlocks \in Nat
    /\ FatBlocks + 1 < TotalBlocks

BLOCK_FREE     == 0
BLOCK_RESERVED == -2
NoBlock        == -1
FatStart       == 1                       \* vcb->freeSpaceStartBlock
FirstFreeBlock == FatStart + FatBlocks
Blocks         == 0 .. TotalBlocks - 1
DataBlocks     == FirstFreeBlock .. TotalBlocks - 1

\* What an entry or the head can hold.
Words == BLOCK_RESERVED .. TotalBlocks

\* getFATEntryPos: the disk block that holds the entry of block b.
EntryBlock(b) == FatStart + (b \div EntriesPerBlock)

\* The entries that lie beyond the table: their position is inside data
\* block b, so they share its bytes.
Shadow(b) == {e \in Blocks : e >= FatBlocks * EntriesPerBlock /\ EntryBlock(e) = b}

\* The table has an entry for every block, so no entry lies in a data block.
Covered == TotalBlocks <= FatBlocks * EntriesPerBlock

-----------------------------------------------------------------------------
\* The entries the table has.  Of those behind it FreeSpace says what they
\* read as and what a write to them does; Directory and Mount are about
\* volumes without any.
readFATEntry(fat, b) == IF b \in Blocks THEN fat[b] ELSE BLOCK_RESERVED

\* An invalid block number makes the write fail and leaves the table alone.
writeFATEntry(fat, b, entry) ==
    IF b \in Blocks THEN [fat EXCEPT ![b] = entry] ELSE fat

isBlockFree(fat, b) == b \in Blocks \ {0} /\ readFATEntry(fat, b) = BLOCK_FREE

\* Table and head after formatting.
initFreeSpace ==
    [fat  |-> [b \in Blocks |-> IF b < FirstFreeBlock THEN BLOCK_RESERVED ELSE BLOCK_FREE],
     head |-> FirstFreeBlock]

\* The loop of releaseBlocks after k iterations: it follows the chain from
\* location and overwrites every entry with the block visited before.
ReleaseWalk(vol, location, n) ==
    LET walk[k \in 0 .. n] ==
          IF k = 0 THEN [fat |-> vol.fat, cur |-> location, freeHead |-> vol.head]
          ELSE LET w == walk[k - 1]
               IN  IF w.cur \in Blocks
                   THEN [fat      |-> [w.fat EXCEPT ![w.cur] = w.freeHead],
                         cur      |-> w.fat[w.cur],
                         freeHead |-> w.cur]
                   ELSE w
    IN  walk[n]

\* The head becomes the first block of the chain, whatever the loop did.
releaseBlocks(vol, location, n) ==
    [fat |-> ReleaseWalk(vol, location, n).fat, head |-> location]

-----------------------------------------------------------------------------
\* The free blocks the scan can reach: it only moves up from the head.
Reachable(vol) ==
    {b \in Blocks : vol.head \in Blocks /\ b >= vol.head /\ vol.fat[b] = BLOCK_FREE}

\* The n lowest elements of S, or all of them.
Lowest(S, n) == {b \in S : Cardinality({c \in S : c < b}) < n}

\* Every block of S points to the next one up; the last keeps its entry.
Linked(fat, S) ==
    [b \in Blocks |-> IF b \in S /\ \E c \in S : c > b
                      THEN Min({c \in S : c > b}) ELSE fat[b]]

\* allocateBlocks: the volume it leaves and the block it returns.  A request
\* that cannot be met links what it found and hands that to releaseBlocks.
allocateBlocks(vol, n) ==
    LET taken  == Lowest(Reachable(vol), n)
        linked == Linked(vol.fat, taken)
    IN  CASE n <= 0 \/ taken = {} ->
               [vol |-> vol, start |-> NoBlock]
          [] n > 0 /\ taken # {} /\ Cardinality(taken) < n ->
               [vol   |-> releaseBlocks([vol EXCEPT !.fat = linked],
                                        Min(taken), Cardinality(taken)),
                start |-> NoBlock]
          [] OTHER ->
               [vol   |-> [fat  |-> [linked EXCEPT ![Max(taken)] = BLOCK_RESERVED],
                           head |-> Max(taken) + 1],
                start |-> Min(taken)]

\* The last block the walk of extendChain visits: the walk stops at
\* BLOCK_RESERVED or at an entry that names itself.
LastOfChain(fat, c) ==
    LET walk[k \in 0 .. TotalBlocks] ==
          IF k = 0 THEN c
          ELSE LET next == readFATEntry(fat, walk[k - 1])
               IN  IF next = BLOCK_RESERVED THEN walk[k - 1] ELSE next
    IN  walk[TotalBlocks]

\* extendChain: allocate, then hang the new chain on the last block.
extendChain(vol, c, n) ==
    LET last  == LastOfChain(vol.fat, c)
        alloc == allocateBlocks(vol, n)
    IN  CASE alloc.start = NoBlock -> [vol |-> alloc.vol, start |-> NoBlock]
          [] alloc.start # NoBlock /\ last \in Blocks ->
               [vol |-> [alloc.vol EXCEPT !.fat[last] = alloc.start], start |-> c]
          [] OTHER -> [vol |-> releaseBlocks(alloc.vol, alloc.start, n), start |-> NoBlock]
=============================================================================
