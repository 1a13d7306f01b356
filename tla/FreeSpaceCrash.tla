--------------------------- MODULE FreeSpaceCrash ---------------------------
(***************************************************************************)
(* FreeSpace with a history variable: whether a crash has ever cut off the *)
(* release of a chain.  The entry of the file or directory then still      *)
(* names the chain, whose first block already points into free space.      *)
(***************************************************************************)
EXTENDS FreeSpace

VARIABLE torn

CInit == Init /\ torn = FALSE
CNext == Next /\ torn' = (torn \/ (Restart /\ pc = "release" /\ rel.location \in Chains))
CSpec == CInit /\ [][CNext]_<<vars, torn>>

\* Free space is one run at the end of the volume until a chain is torn.
\* Released twice more, a torn chain leads the walk of releaseBlocks through
\* block 0 to a block that was lost before, and makes it free again.
TailUntilTorn == torn \/ FreeSpaceIsTail

\* Every chain is a run of consecutive blocks, whatever writes have failed,
\* until a chain is torn: createDirectory and loadDir read and write chains as
\* runs.
ContiguousUntilTorn == torn \/ ChainsContiguous

-----------------------------------------------------------------------------
(* The inductive invariant behind the two, with IInv of FreeSpace.         *)

\* A chain is named by its lowest block.
OwnersInv == \A b \in Blocks : owner[b] # NoBlock => owner[b] \in Chains /\ owner[b] <= b

\* What a scan has collected is a run that ends just below its cursor, and
\* the only free block below the cursor is the last one collected.
ScanInv ==
    pc \in {"scan", "save"} =>
        /\ taken = {} => alloc.start = NoBlock /\ alloc.prev = NoBlock /\ alloc.got = 0
        /\ taken # {} => /\ taken = alloc.start .. alloc.prev
                         /\ alloc.cur = alloc.prev + 1
                         /\ alloc.got = alloc.cur - alloc.start
        /\ \A b \in taken \ {alloc.prev} : fat[b] = b + 1
        /\ alloc.prev \in taken =>
             fat[alloc.prev] = IF pc = "scan" THEN BLOCK_FREE ELSE BLOCK_RESERVED
        /\ \A f \in Blocks : fat[f] = BLOCK_FREE => f = alloc.prev \/ alloc.cur <= f

\* A release walks up a run that is no settled chain's.  The run is sealed, or
\* it was collected by an allocation that failed, and then its last block is
\* the lowest free one and the last to be released.
WalkInv ==
    /\ pc # "release" => rel.location = NoBlock
    /\ pc = "release" => \A f \in Blocks : fat[f] = BLOCK_FREE => rel.location <= f
    /\ Releasing /\ rel.cur \in Blocks =>
         /\ 0 \notin {rel.cur, rel.freeHead}
         /\ \E last \in Blocks :
              /\ rel.cur <= last
              /\ \A b \in rel.cur .. last : owner[b] \in {NoBlock, rel.location}
              /\ \A b \in rel.cur .. last - 1 : fat[b] = b + 1
              /\ \/ fat[last] = BLOCK_RESERVED
                 \/ /\ last - rel.cur + 1 = rel.max - rel.done
                    /\ fat[last] = BLOCK_FREE
                    /\ \A f \in Blocks : fat[f] = BLOCK_FREE => last <= f

RunInv == FreeSpaceIsTail /\ ChainsContiguous /\ OwnersInv /\ ScanInv /\ WalkInv
CInv   == IInv /\ (torn \/ RunInv)
=============================================================================
