-------------------------------- MODULE Mount --------------------------------
(***************************************************************************)
(* initFileSystem: formatting a new volume and mounting a formatted one,   *)
(* and the allocations of the root and of later files, one disk write at   *)
(* a time, with writes that fail and crashes between any two of them.      *)
(***************************************************************************)
EXTENDS FatOps

CONSTANTS
    RootBlocks,  \* blocks of the root directory
    Faults       \* subset of {"table", "write", "crash"}; "table": the writes
                 \* of initFreeSpace to the table, "write": all others

ASSUME MountAssumption ==
    /\ RootBlocks \in Nat \ {0}
    /\ Faults \subseteq {"table", "write", "crash"}
    /\ Covered

VARIABLES
    pc,      \* "off", "run", "lost", or the part of the code in progress
    vcb,     \* the VCB in memory
    vcbDisk, \* block 0
    fat,     \* the table on disk
    data,    \* ghost: which block of the root a block has the content of, or 0
    whole,   \* ghost: the last format of the table was not given up
    user,    \* the allocation is for a file, not for the root
    cur,     \* the loops' currentBlock, fatBlockIndex of initFreeSpace
    start,   \* startBlock
    prev,    \* prevBlock; currentFreeSpaceHead of releaseBlocks
    got,     \* blocksAllocated; numOfBlocks of releaseBlocks
    done     \* blocks released, or blocks of the root written

locals == <<user, cur, start, prev, got, done>>
vars   == <<pc, vcb, vcbDisk, fat, data, whole, locals>>

\* The fields that are set at different times; zero on a new volume.
ZeroVCB == [signed |-> FALSE, rootDirBlock |-> 0, freeSpaceHead |-> 0]

Init ==
    /\ pc = "off"
    /\ vcb = ZeroVCB /\ vcbDisk = ZeroVCB
    /\ fat = [b \in Blocks |-> 0]
    /\ data = [b \in Blocks |-> 0]
    /\ whole = FALSE
    /\ user = FALSE /\ cur = 0 /\ start = NoBlock /\ prev = NoBlock /\ got = 0 /\ done = 0

\* Back at the prompt or out of the program, the local variables are gone.
Return(place) ==
    /\ pc' = place
    /\ user' = FALSE /\ cur' = 0 /\ start' = NoBlock /\ prev' = NoBlock /\ got' = 0 /\ done' = 0

Fails == "write" \in Faults

\* A write of the VCB whose result nobody looks at.
SaveVCB == vcbDisk' = vcb' \/ (Fails /\ UNCHANGED vcbDisk)

\* Mutant: the signature is not looked at.
FormattedIgnored(v) == FALSE
Formatted(v) == v.signed

\* The program starts and reads block 0.
ReadVCB ==
    /\ pc = "off"
    /\ vcb' = [vcbDisk EXCEPT !.signed = TRUE]
    /\ IF Formatted(vcbDisk) THEN pc' = "load" /\ UNCHANGED whole
                             ELSE pc' = "table" /\ whole' = FALSE
    /\ cur' = FatStart
    /\ UNCHANGED <<vcbDisk, fat, data, user, start, prev, got, done>>

-----------------------------------------------------------------------------
(* allocateBlocks and releaseBlocks, for the root and for later files.     *)

Want == IF user THEN 1 ELSE RootBlocks

\* The call begins: the scan starts at the head in memory.
BeginAllocate(forUser) ==
    /\ pc' = "scan" /\ user' = forUser
    /\ cur' = vcb'.freeSpaceHead
    /\ start' = NoBlock /\ prev' = NoBlock /\ got' = 0 /\ done' = 0

\* -1 is no error to createDirectory, but LBAwrite refuses that block, and
\* the start fails; a file gets it as its first block, and the program goes on.
Refused == Return(IF user THEN "run" ELSE "off")

BeginRelease ==
    /\ pc' = "release"
    /\ cur' = start /\ prev' = vcb.freeSpaceHead /\ done' = 0
    /\ UNCHANGED <<vcb, vcbDisk, fat, data, whole, user, start, got>>

ScanOpen == pc = "scan" /\ got < Want /\ cur < TotalBlocks

\* Mutant: currentBlock is not moved on from a block in use.
NextBlockStuck == cur' = cur
NextBlock == cur' = cur + 1

SkipBlock ==
    /\ ScanOpen /\ readFATEntry(fat, cur) # BLOCK_FREE
    /\ NextBlock
    /\ UNCHANGED <<pc, vcb, vcbDisk, fat, data, whole, user, start, prev, got, done>>

\* A free block is taken; the one before it is linked to it.
TakeBlock ==
    /\ ScanOpen /\ readFATEntry(fat, cur) = BLOCK_FREE
    /\ fat' = IF prev = NoBlock THEN fat ELSE writeFATEntry(fat, prev, cur)
    /\ start' = IF start = NoBlock THEN cur ELSE start
    /\ prev' = cur /\ got' = got + 1 /\ cur' = cur + 1
    /\ UNCHANGED <<pc, vcb, vcbDisk, data, whole, user, done>>

LinkFails ==
    /\ Fails
    /\ ScanOpen /\ readFATEntry(fat, cur) = BLOCK_FREE /\ prev # NoBlock
    /\ BeginRelease

\* The volume has not enough free blocks behind the head.
ScanFails ==
    /\ pc = "scan" /\ ~ScanOpen /\ got < Want
    /\ \/ start # NoBlock /\ BeginRelease
       \/ start = NoBlock /\ Refused
          /\ UNCHANGED <<vcb, vcbDisk, fat, data, whole>>

SealChain ==
    /\ pc = "scan" /\ got = Want
    /\ fat' = writeFATEntry(fat, prev, BLOCK_RESERVED)
    /\ vcb' = [vcb EXCEPT !.freeSpaceHead = cur]
    /\ pc' = "save"
    /\ UNCHANGED <<vcbDisk, data, whole, locals>>

SealFails == Fails /\ pc = "scan" /\ got = Want /\ BeginRelease

\* The call returns startBlock; createDirectory refuses block 0.
SaveHead ==
    /\ pc = "save"
    /\ UNCHANGED <<vcb, fat, data, whole>>
    /\ SaveVCB
    /\ IF ~user /\ start = 0
       THEN Return("off")
       ELSE pc' = (IF user THEN "file" ELSE "write") /\ UNCHANGED locals

Releasing == pc = "release" /\ cur # BLOCK_RESERVED /\ done < got

ReleaseBlock ==
    /\ Releasing /\ cur \in Blocks
    /\ fat' = writeFATEntry(fat, cur, prev)
    /\ cur' = readFATEntry(fat, cur) /\ prev' = cur /\ done' = done + 1
    /\ UNCHANGED <<pc, vcb, vcbDisk, data, whole, user, start, got>>

\* The loop is over, or a write of it fails: the head is set all the same.
ReleaseReturns ==
    /\ pc = "release" /\ (~Releasing \/ Fails \/ cur \notin Blocks)
    /\ vcb' = [vcb EXCEPT !.freeSpaceHead = start]
    /\ SaveVCB
    /\ Refused
    /\ UNCHANGED <<fat, data, whole>>

-----------------------------------------------------------------------------
(* initFreeSpace.                                                          *)

\* Mutant: only as many entries are reserved as the table has blocks.
TableEntryShort(b) == IF b < FatBlocks THEN BLOCK_RESERVED ELSE BLOCK_FREE
TableEntry(b) == IF b < FirstFreeBlock THEN BLOCK_RESERVED ELSE BLOCK_FREE

WriteTableBlock ==
    /\ pc = "table" /\ cur < FirstFreeBlock
    /\ fat' = [b \in Blocks |-> IF EntryBlock(b) = cur THEN TableEntry(b) ELSE fat[b]]
    /\ cur' = cur + 1
    /\ UNCHANGED <<pc, vcb, vcbDisk, data, whole, user, start, prev, got, done>>

\* initFreeSpace gives up; its caller cannot see it and goes on, with the
\* head that was read from the disk.
WriteTableFails ==
    /\ "table" \in Faults
    /\ pc = "table" /\ cur < FirstFreeBlock
    /\ UNCHANGED <<vcb, vcbDisk, fat, data, whole>>
    /\ BeginAllocate(FALSE)

\* The head is set, the VCB written with the signature, and createDirectory
\* asks for the blocks of the root.
WriteHead ==
    /\ pc = "table" /\ cur = FirstFreeBlock
    /\ vcb' = [vcb EXCEPT !.freeSpaceHead = FirstFreeBlock]
    /\ SaveVCB
    /\ whole' = TRUE
    /\ UNCHANGED <<fat, data>>
    /\ BeginAllocate(FALSE)

-----------------------------------------------------------------------------
(* createDirectory(50, NULL) and the end of the format.                    *)

\* Content is written to block b: over the VCB or the table, what the disk
\* holds from then on is not followed.
Over(b, place) == IF b \in DataBlocks THEN place ELSE "lost"

\* The one write of the whole directory, whose result nobody looks at: of a
\* write that fails the first k blocks are on the disk.
WriteRun ==
    /\ pc = "write"
    /\ \E k \in 0 .. RootBlocks :
         /\ k = RootBlocks \/ Fails \/ start + RootBlocks > TotalBlocks
         /\ data' = [b \in Blocks |-> IF b \in start .. start + k - 1
                                      THEN b - start + 1 ELSE data[b]]
    /\ pc' = Over(start, "chain")
    /\ cur' = start /\ done' = 0
    /\ UNCHANGED <<vcb, vcbDisk, fat, whole, user, start, prev, got>>

\* The loop over the chain.
WriteRootBlock ==
    /\ pc = "chain" /\ cur # BLOCK_RESERVED /\ done < RootBlocks
    /\ cur \in Blocks
    /\ data' = [data EXCEPT ![cur] = done + 1]
    /\ pc' = Over(cur, "chain")
    /\ cur' = readFATEntry(fat, cur) /\ done' = done + 1
    /\ UNCHANGED <<vcb, vcbDisk, fat, whole, user, start, prev, got>>

WriteRootFails ==
    /\ pc = "chain" /\ cur # BLOCK_RESERVED /\ done < RootBlocks
    /\ Fails \/ cur \notin Blocks
    /\ Return("off")
    /\ UNCHANGED <<vcb, vcbDisk, fat, data, whole>>

\* Mutant: the VCB names the root before its blocks are written.
RootWrittenEarly == TRUE
RootWritten == cur = BLOCK_RESERVED \/ done = RootBlocks

WriteVCB ==
    /\ pc = "chain" /\ RootWritten
    /\ vcb' = [vcb EXCEPT !.rootDirBlock = start]
    /\ \/ vcbDisk' = vcb' /\ Return("load")
       \/ Fails /\ UNCHANGED vcbDisk /\ Return("off")
    /\ UNCHANGED <<fat, data, whole>>

-----------------------------------------------------------------------------
(* Mounted.                                                                *)

\* Whatever block the VCB names becomes the root directory.
LoadRoot ==
    /\ pc = "load"
    /\ Return("run")
    /\ UNCHANGED <<vcb, vcbDisk, fat, data, whole>>

\* The user creates a file, which takes a block.
UseBlock ==
    /\ pc = "run"
    /\ UNCHANGED <<vcb, vcbDisk, fat, data, whole>>
    /\ BeginAllocate(TRUE)

\* The file's content goes to the block.
WriteFile ==
    /\ pc = "file"
    /\ data' = [data EXCEPT ![start] = 0]
    /\ Return(Over(start, "run"))
    /\ UNCHANGED <<vcb, vcbDisk, fat, whole>>

\* The program exits, or crashes on the way.
Stop ==
    /\ pc = "run" \/ (pc \notin {"off", "lost"} /\ "crash" \in Faults)
    /\ Return("off")
    /\ vcb' = ZeroVCB
    /\ UNCHANGED <<vcbDisk, fat, data, whole>>

\* Content has been written over the VCB or the table.
Lost == pc = "lost" /\ UNCHANGED vars

CodeStep ==
    \/ SkipBlock \/ TakeBlock \/ ScanFails \/ SealChain \/ SaveHead
    \/ ReleaseBlock \/ ReleaseReturns
    \/ WriteTableBlock \/ WriteHead
    \/ WriteRun \/ WriteRootBlock \/ WriteVCB
    \/ LoadRoot \/ WriteFile

Next ==
    \/ ReadVCB \/ UseBlock \/ CodeStep \/ Stop \/ Lost
    \/ WriteTableFails \/ LinkFails \/ SealFails \/ WriteRootFails

\* The one thread keeps running: no failure is needed for progress.
Spec     == Init /\ [][Next]_vars
FairSpec == Spec /\ WF_vars(CodeStep)

-----------------------------------------------------------------------------
VCBs == [signed : BOOLEAN, rootDirBlock : Words, freeSpaceHead : Words]

Allocating == pc \in {"scan", "save", "release"}
Rooting    == pc \in {"write", "chain"}

TypeOK ==
    /\ pc \in {"off", "table", "scan", "save", "release", "write", "chain", "load",
               "run", "file", "lost"}
    /\ vcb \in VCBs /\ vcbDisk \in VCBs
    /\ fat \in [Blocks -> Words] /\ data \in [Blocks -> 0 .. RootBlocks]
    /\ whole \in BOOLEAN /\ user \in BOOLEAN
    /\ cur \in Words /\ start \in Words /\ prev \in Words
    /\ got \in 0 .. Want /\ done \in 0 .. RootBlocks

\* The blocks from r on hold the first n blocks of the root, in order.
Holds(r, n) == \A i \in 0 .. n - 1 : r + i \in Blocks /\ data[r + i] = i + 1

\* A root that the VCB names is complete, in consecutive blocks as it is read
\* and saved, and no later allocation has overwritten it: the final write of
\* the VCB (fsInit.c:62) comes last.  After a format of the table that was
\* given up, of which the caller is not told (fsInit.c:48), nothing is said.
RootIntact ==
    whole /\ vcbDisk.rootDirBlock # 0 => Holds(vcbDisk.rootDirBlock, RootBlocks)

\* README.md:66 "Prevents re-initialization of formatted volumes": once the
\* VCB names a root, no start of the program moves it or frees a block.
FormatOnce ==
    [][vcbDisk.rootDirBlock # 0 =>
         /\ vcbDisk'.rootDirBlock = vcbDisk.rootDirBlock
         /\ \A b \in Blocks : fat[b] # BLOCK_FREE => fat'[b] # BLOCK_FREE]_vars

\* Every start of the program ends, mounted or not, and every allocation of a
\* mounted one returns.
MountEnds == []<>(pc \in {"run", "off", "lost"})

\* fsInit.c:72 "Whether new or existing volume, load the root directory into
\* memory": once mounted, the root is a directory.
RootLoaded == pc = "run" => Holds(vcb.rootDirBlock, RootBlocks)

\* freeSpace.c:50 "System blocks are reserved": the VCB and the table are
\* never available for allocation on a mounted volume.
SystemReserved == pc = "run" => \A b \in 0 .. FirstFreeBlock - 1 : fat[b] # BLOCK_FREE

\* vcb.h's layout: the root and the files come behind the VCB and the table.
SystemKept == pc # "lost"

-----------------------------------------------------------------------------
(* The inductive invariant behind RootIntact and FormatOnce.               *)

\* A root is named in a VCB that is signed, and while the volume is formatted
\* none is named yet.
FormatInv ==
    /\ vcbDisk.rootDirBlock # 0 => vcbDisk.signed
    /\ pc # "off" => vcb.signed /\ vcb.rootDirBlock = vcbDisk.rootDirBlock
    /\ pc = "table" \/ Rooting \/ (Allocating /\ ~user) => vcbDisk.rootDirBlock = 0
    /\ pc = "file" => user
    /\ Rooting => ~user

\* The blocks of the table before cur are written.
TableInv ==
    pc = "table" =>
        /\ ~whole /\ cur \in FatStart .. FirstFreeBlock
        /\ \A b \in Blocks : EntryBlock(b) < cur => fat[b] = TableEntry(b)

\* The blocks of the root once they are allocated: behind a table that has
\* just been written they are the first ones.
RootRun == FirstFreeBlock .. FirstFreeBlock + RootBlocks - 1

\* The scan for the root has taken every block behind the table, so far.
RootScan ==
    /\ vcb.freeSpaceHead = FirstFreeBlock /\ cur = FirstFreeBlock + got
    /\ start = (IF got = 0 THEN NoBlock ELSE FirstFreeBlock)
    /\ prev = (IF got = 0 THEN NoBlock ELSE cur - 1)
    /\ \A b \in Blocks : fat[b] = CASE b < FirstFreeBlock -> BLOCK_RESERVED
                                   [] b \in FirstFreeBlock .. cur - 2 -> b + 1
                                   [] OTHER -> BLOCK_FREE

\* A failed allocation of the root: its blocks are released in their order.
RootRelease ==
    /\ start = FirstFreeBlock /\ got > 0 /\ start + got - 1 \in Blocks
    /\ done < got =>
         /\ cur = start + done
         /\ \A b \in cur .. start + got - 2 : fat[b] = b + 1

\* The root is allocated, and its first blocks are written.
RootChain ==
    /\ start = FirstFreeBlock /\ RootRun \subseteq Blocks
    /\ \A b \in RootRun :
         fat[b] = IF b = start + RootBlocks - 1 THEN BLOCK_RESERVED ELSE b + 1
    /\ pc = "chain" =>
         /\ cur = IF done = RootBlocks THEN BLOCK_RESERVED ELSE start + done
         /\ Holds(start, done)

RootingInv ==
    whole =>
        /\ pc = "scan" /\ ~user => RootScan
        /\ pc = "release" /\ ~user => RootRelease
        /\ (pc = "save" /\ ~user) \/ Rooting => RootChain

\* A file's block was free when it was taken, so it is none of the root.
FileInv ==
    user =>
        /\ pc = "scan" =>
             IF got = 0 THEN start = NoBlock /\ prev = NoBlock
             ELSE start = prev /\ start \in Blocks /\ fat[start] = BLOCK_FREE
        /\ pc = "release" =>
             /\ got = 1 /\ start \in Blocks
             /\ done = 0 => cur = start /\ fat[start] = BLOCK_FREE
        /\ pc \in {"save", "file"} =>
             /\ start \in Blocks
             /\ whole => start \in DataBlocks
             /\ whole /\ vcbDisk.rootDirBlock # 0 => start \notin RootRun

\* Behind a table that was written nothing is allocated below FirstFreeBlock.
SystemInv ==
    whole => SystemKept /\ \A b \in 0 .. FirstFreeBlock - 1 : fat[b] # BLOCK_FREE

\* A root that is named is whole and none of its blocks is free.
RootInv ==
    whole /\ vcbDisk.rootDirBlock # 0 =>
        /\ vcbDisk.rootDirBlock = FirstFreeBlock
        /\ Holds(FirstFreeBlock, RootBlocks)
        /\ \A b \in RootRun : fat[b] # BLOCK_FREE

IInv == /\ TypeOK /\ FormatInv /\ TableInv /\ RootingInv
        /\ FileInv /\ SystemInv /\ RootInv
=============================================================================
