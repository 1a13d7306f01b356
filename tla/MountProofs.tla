----------------------------- MODULE MountProofs -----------------------------
(***************************************************************************)
(* Proofs about Mount: for every volume, every size of the root and any    *)
(* failing writes and crashes, a root that the VCB names is whole, unless  *)
(* the format of the table was given up, and it is never formatted away.   *)
(***************************************************************************)
EXTENDS Mount, FatOpsProofs

\* Constants of the mount.
LEMMA RootWords ==
    /\ RootBlocks \in Nat /\ RootBlocks > 0
    /\ 0 \in Words /\ 0 \in Blocks /\ FatStart = 1
    /\ \A b \in Blocks : b + 1 \in Words
    /\ NoBlock \in Words /\ BLOCK_RESERVED \in Words /\ BLOCK_FREE \in Words
    /\ DataBlocks = FirstFreeBlock .. TotalBlocks - 1
  BY FatWords, MountAssumption DEF FatStart, DataBlocks

\* The table has an entry for every block.
LEMMA EntryInTable ==
    \A b \in Blocks : EntryBlock(b) \in FatStart .. FirstFreeBlock - 1
<1> DEFINE m == EntriesPerBlock
<1>1. /\ m \in Nat /\ m > 0 /\ FatBlocks \in Nat /\ TotalBlocks \in Nat
      /\ TotalBlocks <= FatBlocks * m
  BY VolumeAssumption, MountAssumption DEF Covered
<1> HIDE DEF m
<1>2. ASSUME NEW b \in Blocks PROVE EntryBlock(b) \in FatStart .. FirstFreeBlock - 1
  <2>1. b \in Nat /\ b < TotalBlocks
    BY FatWords
  <2>2. /\ b = m * (b \div m) + (b % m) /\ b \div m \in Nat /\ b % m \in 0 .. m - 1
    BY <1>1, <2>1
  <2>3. b \div m < FatBlocks
    <3> SUFFICES ASSUME b \div m >= FatBlocks PROVE FALSE
      BY <1>1, <2>2
    <3>1. m * (b \div m) >= m * FatBlocks
      BY <1>1, <2>2
    <3>2. m * FatBlocks = FatBlocks * m
      BY <1>1
    <3> QED
      BY <1>1, <2>1, <2>2, <3>1, <3>2
  <2> QED
    BY <1>1, <2>2, <2>3 DEF EntryBlock, FatStart, FirstFreeBlock, m
<1> QED
  BY <1>2

\* What the table reads as, and what a write of an entry makes of it.
LEMMA Entries ==
    ASSUME fat \in [Blocks -> Words]
    PROVE  /\ \A b \in Words : readFATEntry(fat, b) \in Words
           /\ \A b \in Words : readFATEntry(fat, b) = BLOCK_FREE => b \in Blocks
           /\ \A b \in Blocks : readFATEntry(fat, b) = fat[b]
           /\ \A b, w \in Words : writeFATEntry(fat, b, w) \in [Blocks -> Words]
           /\ \A b, c \in Blocks, w \in Words :
                writeFATEntry(fat, b, w)[c] = IF c = b THEN w ELSE fat[c]
  BY FatWords DEF readFATEntry, writeFATEntry

\* The VCB, if its write succeeds, names the root it named before.
LEMMA Saved ==
    ASSUME IInv, pc # "off", SaveVCB,
           vcb' \in VCBs, vcb'.signed, vcb'.rootDirBlock = vcb.rootDirBlock
    PROVE  /\ vcbDisk' \in VCBs /\ vcbDisk'.rootDirBlock = vcbDisk.rootDirBlock
           /\ vcbDisk'.rootDirBlock # 0 => vcbDisk'.signed
           /\ vcb'.rootDirBlock = vcbDisk'.rootDirBlock
  BY DEF IInv, TypeOK, FormatInv, SaveVCB

\* The head in memory is set to a block number.
LEMMA HeadSet ==
    ASSUME TypeOK, NEW h \in Words, vcb' = [vcb EXCEPT !.freeSpaceHead = h]
    PROVE  /\ vcb' \in VCBs /\ vcb'.signed = vcb.signed
           /\ vcb'.rootDirBlock = vcb.rootDirBlock /\ vcb'.freeSpaceHead = h
  BY DEF TypeOK, VCBs

\* A call returns to the prompt, or the program ends.
LEMMA ReturnIInv ==
    ASSUME IInv, NEW place \in {"off", "run", "load"}, Return(place),
           vcb' \in VCBs, vcbDisk' \in VCBs,
           vcbDisk'.rootDirBlock = vcbDisk.rootDirBlock,
           vcbDisk'.rootDirBlock # 0 => vcbDisk'.signed,
           place # "off" => vcb'.signed /\ vcb'.rootDirBlock = vcbDisk'.rootDirBlock,
           UNCHANGED <<fat, data, whole>>
    PROVE  IInv'
<1> USE DEF IInv
<1>1. /\ pc' = place /\ user' = FALSE /\ cur' = 0 /\ start' = NoBlock /\ prev' = NoBlock
      /\ got' = 0 /\ done' = 0
  BY DEF Return
<1>2. TypeOK'
  <2>1. got' \in 0 .. Want' /\ done' \in 0 .. RootBlocks
    BY <1>1, RootWords DEF Want
  <2> QED
    BY <1>1, <2>1, RootWords DEF TypeOK
<1>3. FormatInv' /\ TableInv' /\ RootingInv' /\ FileInv'
  BY <1>1 DEF FormatInv, TableInv, RootingInv, FileInv, Allocating, Rooting
<1>4. SystemInv' /\ RootInv'
  BY <1>1 DEF SystemInv, SystemKept, RootInv, Holds
<1> QED
  BY <1>2, <1>3, <1>4

\* The invariant holds on an empty volume.
LEMMA InitIInv == Init => IInv
<1> SUFFICES ASSUME Init PROVE IInv
  OBVIOUS
<1>1. TypeOK
  <2>1. got \in 0 .. Want /\ done \in 0 .. RootBlocks /\ 0 \in 0 .. RootBlocks
    BY RootWords DEF Init, Want
  <2> QED
    BY <2>1, RootWords DEF Init, TypeOK, ZeroVCB, VCBs
<1>2. FormatInv /\ TableInv /\ RootingInv /\ FileInv /\ SystemInv /\ RootInv
  BY DEF Init, ZeroVCB, FormatInv, TableInv, RootingInv, FileInv, SystemInv, RootInv,
         Allocating, Rooting
<1> QED
  BY <1>1, <1>2 DEF IInv

\* The VCB is read.
LEMMA ReadVCBIInv ==
    ASSUME IInv, ReadVCB
    PROVE  IInv'
<1> USE DEF IInv
<1>1. /\ pc = "off" /\ vcb' = [vcbDisk EXCEPT !.signed = TRUE] /\ cur' = FatStart
      /\ \/ vcbDisk.signed /\ pc' = "load" /\ whole' = whole
         \/ ~ vcbDisk.signed /\ pc' = "table" /\ whole' = FALSE
      /\ UNCHANGED <<vcbDisk, fat, data, user, start, prev, got, done>>
  BY DEF ReadVCB, Formatted
<1>2. /\ vcb' \in VCBs /\ vcb'.signed /\ vcb'.rootDirBlock = vcbDisk.rootDirBlock
  BY <1>1 DEF TypeOK, VCBs
<1>3. TypeOK'
  <2>1. cur' \in Words
    BY <1>1, RootWords, FatWords
  <2>2. got' \in 0 .. Want'
    BY <1>1 DEF TypeOK, Want
  <2>3. whole' \in BOOLEAN
    BY <1>1 DEF TypeOK
  <2> QED
    BY <1>1, <1>2, <2>1, <2>2, <2>3 DEF TypeOK
<1>4. FormatInv' /\ FileInv'
  BY <1>1, <1>2 DEF FormatInv, FileInv, Allocating, Rooting
<1>5. TableInv'
  <2>1. \A b \in Blocks : ~ (EntryBlock(b) < FatStart)
    BY EntryInTable, RootWords, FatWords
  <2> QED
    BY <1>1, <2>1, RootWords, FatWords DEF TableInv
<1>6. RootingInv' /\ SystemInv' /\ RootInv'
  BY <1>1 DEF RootingInv, Rooting, SystemInv, SystemKept, RootInv, Holds
<1> QED
  BY <1>3, <1>4, <1>5, <1>6

\* One block of the table.
LEMMA WriteTableBlockIInv ==
    ASSUME IInv, WriteTableBlock
    PROVE  IInv'
<1> USE DEF IInv
<1>1. /\ pc = "table" /\ cur < FirstFreeBlock /\ cur' = cur + 1
      /\ UNCHANGED <<pc, vcb, vcbDisk, data, whole, user, start, prev, got, done>>
      /\ fat' = [b \in Blocks |-> IF EntryBlock(b) = cur THEN TableEntry(b) ELSE fat[b]]
  BY DEF WriteTableBlock
<1>2. ~ whole /\ cur \in FatStart .. FirstFreeBlock
      /\ \A b \in Blocks : EntryBlock(b) < cur => fat[b] = TableEntry(b)
  BY <1>1 DEF TableInv
<1>3. cur' \in FatStart .. FirstFreeBlock /\ cur' \in Words
  BY <1>1, <1>2, FatWords, RootWords
<1>4. \A b \in Blocks : TableEntry(b) \in Words
  BY RootWords DEF TableEntry
<1>5. TypeOK'
  BY <1>1, <1>3, <1>4 DEF TypeOK, Want
<1>6. TableInv'
  <2>1. ASSUME NEW b \in Blocks, EntryBlock(b) < cur' PROVE fat'[b] = TableEntry(b)
    <3>1. EntryBlock(b) \in Int /\ cur \in Int
      BY <1>2, EntryInTable, FatWords, RootWords
    <3> QED
      BY <1>1, <1>2, <2>1, <3>1
  <2> QED
    BY <1>1, <1>2, <1>3, <2>1 DEF TableInv
<1>7. FormatInv' /\ RootingInv' /\ FileInv' /\ SystemInv' /\ RootInv'
  BY <1>1, <1>2 DEF FormatInv, RootingInv, FileInv, SystemInv, RootInv, Allocating, Rooting
<1> QED
  BY <1>5, <1>6, <1>7

\* The scan begins, for the root or for a file: nothing is taken yet.
LEMMA BeginAllocateType ==
    ASSUME IInv, NEW u \in BOOLEAN, BeginAllocate(u), vcb' \in VCBs, vcbDisk' \in VCBs,
           whole' \in BOOLEAN, UNCHANGED <<fat, data>>
    PROVE  /\ TypeOK' /\ TableInv' /\ FileInv'
           /\ pc' = "scan" /\ user' = u /\ cur' = vcb'.freeSpaceHead
           /\ start' = NoBlock /\ prev' = NoBlock /\ got' = 0
<1>1. /\ pc' = "scan" /\ user' = u /\ cur' = vcb'.freeSpaceHead
      /\ start' = NoBlock /\ prev' = NoBlock /\ got' = 0 /\ done' = 0
  BY DEF BeginAllocate
<1>2. got' \in 0 .. Want' /\ done' \in 0 .. RootBlocks
  BY <1>1, RootWords DEF Want
<1>3. TypeOK'
  BY <1>1, <1>2, RootWords DEF IInv, TypeOK, VCBs
<1> QED
  BY <1>1, <1>3 DEF TableInv, FileInv

\* initFreeSpace ends, and the whole table is new.
LEMMA WriteHeadIInv ==
    ASSUME IInv, WriteHead
    PROVE  IInv'
<1> USE DEF IInv
<1>1. /\ pc = "table" /\ cur = FirstFreeBlock
      /\ vcb' = [vcb EXCEPT !.freeSpaceHead = FirstFreeBlock]
      /\ SaveVCB /\ whole' = TRUE /\ UNCHANGED <<fat, data>> /\ BeginAllocate(FALSE)
  BY DEF WriteHead
<1>2. FirstFreeBlock \in Words
  BY FatWords
<1>3. /\ vcb' \in VCBs /\ vcb'.signed = vcb.signed
      /\ vcb'.rootDirBlock = vcb.rootDirBlock /\ vcb'.freeSpaceHead = FirstFreeBlock
  BY <1>1, <1>2, HeadSet
<1>4. vcb.signed /\ vcb.rootDirBlock = vcbDisk.rootDirBlock /\ vcbDisk.rootDirBlock = 0
  BY <1>1 DEF FormatInv
<1>5. vcbDisk' \in VCBs /\ vcbDisk'.rootDirBlock = 0
  BY <1>1, <1>3, <1>4, Saved
<1>6. /\ TypeOK' /\ TableInv' /\ FileInv'
      /\ pc' = "scan" /\ user' = FALSE /\ cur' = vcb'.freeSpaceHead
      /\ start' = NoBlock /\ prev' = NoBlock /\ got' = 0
  BY <1>1, <1>3, <1>5, BeginAllocateType
<1>7. \A b \in Blocks : fat[b] = IF b < FirstFreeBlock THEN BLOCK_RESERVED ELSE BLOCK_FREE
  <2>1. \A b \in Blocks : EntryBlock(b) < cur
    BY <1>1, EntryInTable, FatWords, RootWords
  <2> QED
    BY <1>1, <2>1 DEF TableInv, TableEntry
<1>8. FormatInv' /\ RootInv'
  BY <1>3, <1>4, <1>5, <1>6 DEF FormatInv, RootInv, Allocating, Rooting
<1>9. RootingInv'
  <2>1. cur' = FirstFreeBlock + got'
    BY <1>3, <1>6, FatWords
  <2>2. ASSUME NEW b \in Blocks
        PROVE  fat'[b] = CASE b < FirstFreeBlock -> BLOCK_RESERVED
                           [] b \in FirstFreeBlock .. cur' - 2 -> b + 1
                           [] OTHER -> BLOCK_FREE
    <3>1. b \notin FirstFreeBlock .. cur' - 2
      BY <1>6, <2>1, FatWords
    <3> QED
      BY <1>1, <1>7, <3>1
  <2>3. RootScan'
    BY <1>3, <1>6, <2>1, <2>2 DEF RootScan
  <2> QED
    BY <1>6, <2>3 DEF RootingInv, Rooting
<1>10. SystemInv'
  <2>1. \A b \in 0 .. FirstFreeBlock - 1 : b \in Blocks /\ b < FirstFreeBlock
    BY FatWords
  <2> QED
    BY <1>1, <1>6, <1>7, <2>1, FatWords DEF SystemInv, SystemKept
<1> QED
  BY <1>6, <1>8, <1>9, <1>10

\* initFreeSpace gives up: of such a volume nothing more is said.
LEMMA WriteTableFailsIInv ==
    ASSUME IInv, WriteTableFails
    PROVE  IInv'
<1> USE DEF IInv
<1>1. pc = "table" /\ UNCHANGED <<vcb, vcbDisk, fat, data, whole>> /\ BeginAllocate(FALSE)
  BY DEF WriteTableFails
<1>2. ~ whole' /\ vcbDisk'.rootDirBlock = 0 /\ vcb'.signed /\ vcb'.rootDirBlock = 0
  BY <1>1 DEF TableInv, FormatInv
<1>3. vcb' \in VCBs /\ vcbDisk' \in VCBs /\ whole' \in BOOLEAN
  BY <1>1 DEF TypeOK
<1>4. /\ TypeOK' /\ TableInv' /\ FileInv'
      /\ pc' = "scan" /\ user' = FALSE
  BY <1>1, <1>3, BeginAllocateType
<1>5. FormatInv' /\ RootingInv' /\ SystemInv' /\ RootInv'
  BY <1>1, <1>2, <1>4 DEF FormatInv, RootingInv, SystemInv, RootInv, Allocating, Rooting
<1> QED
  BY <1>4, <1>5

\* A file is created on the mounted volume.
LEMMA UseBlockIInv ==
    ASSUME IInv, UseBlock
    PROVE  IInv'
<1> USE DEF IInv
<1>1. pc = "run" /\ UNCHANGED <<vcb, vcbDisk, fat, data, whole>> /\ BeginAllocate(TRUE)
  BY DEF UseBlock
<1>2. vcb' \in VCBs /\ vcbDisk' \in VCBs /\ whole' \in BOOLEAN
  BY <1>1 DEF TypeOK
<1>3. /\ TypeOK' /\ TableInv' /\ FileInv'
      /\ pc' = "scan" /\ user' = TRUE
  BY <1>1, <1>2, BeginAllocateType
<1>4. FormatInv' /\ RootingInv' /\ SystemInv' /\ RootInv'
  BY <1>1, <1>3
  DEF FormatInv, RootingInv, SystemInv, SystemKept, RootInv, Holds, Allocating, Rooting
<1> QED
  BY <1>3, <1>4

\* A block in use is passed over: behind a new table there is none.
LEMMA SkipBlockIInv ==
    ASSUME IInv, SkipBlock
    PROVE  IInv'
<1> USE DEF IInv
<1>1. /\ pc = "scan" /\ got < Want /\ cur < TotalBlocks /\ cur' = cur + 1
      /\ readFATEntry(fat, cur) # BLOCK_FREE
      /\ UNCHANGED <<pc, vcb, vcbDisk, fat, data, whole, user, start, prev, got, done>>
  BY DEF SkipBlock, ScanOpen, NextBlock
<1>2. TypeOK'
  <2>1. cur' \in Words
    BY <1>1, FatWords DEF TypeOK
  <2>2. got' \in 0 .. Want'
    BY <1>1 DEF TypeOK, Want
  <2> QED
    BY <1>1, <2>1, <2>2 DEF TypeOK
<1>3. RootingInv'
  <2> SUFFICES ASSUME whole, ~ user PROVE FALSE
    BY <1>1 DEF RootingInv, Rooting
  <2>1. RootScan
    BY <1>1 DEF RootingInv
  <2>2. cur = FirstFreeBlock + got /\ got \in Nat
    BY <2>1, RootWords DEF RootScan, TypeOK, Want
  <2>3. cur \in Blocks /\ ~ (cur < FirstFreeBlock) /\ cur \notin FirstFreeBlock .. cur - 2
    BY <1>1, <2>2, FatWords
  <2>4. fat[cur] = BLOCK_FREE
    BY <2>1, <2>3 DEF RootScan
  <2> QED
    BY <1>1, <2>3, <2>4, Entries DEF TypeOK
<1>4. FormatInv' /\ TableInv' /\ FileInv' /\ SystemInv' /\ RootInv'
  BY <1>1 DEF FormatInv, TableInv, FileInv, SystemInv, SystemKept, RootInv, Holds,
              Allocating, Rooting
<1> QED
  BY <1>2, <1>3, <1>4

\* A free block is taken; the scan for the root takes one after the other.
LEMMA TakeBlockIInv ==
    ASSUME IInv, TakeBlock
    PROVE  IInv'
<1> USE DEF IInv
<1>1. /\ pc = "scan" /\ got < Want /\ cur < TotalBlocks
      /\ readFATEntry(fat, cur) = BLOCK_FREE
      /\ fat' = IF prev = NoBlock THEN fat ELSE writeFATEntry(fat, prev, cur)
      /\ start' = IF start = NoBlock THEN cur ELSE start
      /\ prev' = cur /\ got' = got + 1 /\ cur' = cur + 1
      /\ UNCHANGED <<pc, vcb, vcbDisk, data, whole, user, done>>
  BY DEF TakeBlock, ScanOpen
<1>2. /\ fat \in [Blocks -> Words] /\ cur \in Words /\ prev \in Words /\ start \in Words
      /\ got \in Nat /\ Want \in Nat /\ user \in BOOLEAN
  BY RootWords DEF TypeOK, Want
<1>3. cur \in Blocks /\ fat[cur] = BLOCK_FREE /\ cur \in Nat
  BY <1>1, <1>2, Entries, FatWords
<1>4. TypeOK'
  <2>1. fat' \in [Blocks -> Words]
    BY <1>1, <1>2, Entries
  <2>2. got' \in 0 .. Want'
    <3>1. Want' = Want
      BY <1>1 DEF Want
    <3> QED
      BY <1>1, <1>2, <3>1
  <2>3. cur' \in Words /\ prev' \in Words /\ start' \in Words
    BY <1>1, <1>2, <1>3, RootWords, FatWords
  <2> QED
    BY <1>1, <2>1, <2>2, <2>3 DEF TypeOK
<1>5. FormatInv' /\ TableInv'
  BY <1>1 DEF FormatInv, TableInv, Allocating, Rooting
<1>6. ASSUME user PROVE got = 0 /\ start = NoBlock /\ prev = NoBlock
  BY <1>1, <1>2, <1>6 DEF FileInv, Want
<1>7. FileInv'
  <2> SUFFICES ASSUME user PROVE FileInv'
    BY <1>1 DEF FileInv
  <2>1. fat' = fat /\ start' = cur /\ prev' = cur /\ got' = 1
    BY <1>1, <1>6
  <2> QED
    BY <1>1, <1>3, <2>1 DEF FileInv
<1>8. ASSUME whole, ~ user
      PROVE  RootScan' /\ \A b \in Blocks : b < FirstFreeBlock => fat'[b] = fat[b]
  <2>1. RootScan
    BY <1>1, <1>8 DEF RootingInv
  <2>2. FirstFreeBlock \in Nat /\ cur = FirstFreeBlock + got
    BY <2>1, FatWords DEF RootScan
  <2>3. /\ prev = (IF got = 0 THEN NoBlock ELSE cur - 1)
        /\ start = (IF got = 0 THEN NoBlock ELSE FirstFreeBlock)
        /\ vcb.freeSpaceHead = FirstFreeBlock
    BY <2>1 DEF RootScan
  <2>4. \A b \in Blocks : fat[b] = CASE b < FirstFreeBlock -> BLOCK_RESERVED
                                    [] b \in FirstFreeBlock .. cur - 2 -> b + 1
                                    [] OTHER -> BLOCK_FREE
    BY <2>1 DEF RootScan
  <2>5. cur' = FirstFreeBlock + got' /\ got' # 0
    BY <1>1, <1>2, <2>2
  <2>6. start' = FirstFreeBlock /\ prev' = cur' - 1
    BY <1>1, <1>2, <1>3, <2>2, <2>3, FatWords
  <2>7. ASSUME NEW b \in Blocks
        PROVE  /\ fat'[b] = CASE b < FirstFreeBlock -> BLOCK_RESERVED
                               [] b \in FirstFreeBlock .. cur' - 2 -> b + 1
                               [] OTHER -> BLOCK_FREE
               /\ b < FirstFreeBlock => fat'[b] = fat[b]
    <3>1. b \in Nat
      BY FatWords
    <3>2. CASE got = 0
      <4>1. fat' = fat /\ cur' - 2 < FirstFreeBlock /\ cur - 2 < FirstFreeBlock
        BY <1>1, <2>2, <2>3, <3>2
      <4> QED
        BY <2>2, <2>4, <3>1, <4>1, <1>1, <1>3
    <3>3. CASE got # 0
      <4>1. prev = cur - 1 /\ prev \in Blocks /\ prev # NoBlock /\ prev >= FirstFreeBlock
        BY <1>2, <1>3, <2>2, <2>3, <3>3, FatWords
      <4>2. fat'[b] = IF b = prev THEN cur ELSE fat[b]
        BY <1>1, <1>2, <4>1, Entries
      <4> QED
        BY <1>1, <1>3, <2>2, <2>4, <3>1, <4>1, <4>2
    <3> QED
      BY <3>2, <3>3
  <2> QED
    BY <1>1, <2>3, <2>5, <2>6, <2>7 DEF RootScan
<1>9. RootingInv'
  BY <1>1, <1>8 DEF RootingInv, Rooting
<1>10. SystemInv' /\ RootInv'
  <2>1. ASSUME whole PROVE \A b \in 0 .. FirstFreeBlock - 1 : fat'[b] # BLOCK_FREE
    <3>1. \A b \in 0 .. FirstFreeBlock - 1 : b \in Blocks /\ b < FirstFreeBlock
      BY FatWords
    <3>2. \A b \in 0 .. FirstFreeBlock - 1 : fat[b] # BLOCK_FREE
      BY <2>1 DEF SystemInv
    <3> QED
      BY <1>1, <1>6, <1>8, <2>1, <3>1, <3>2
  <2>2. CASE user
    BY <1>1, <1>6, <2>1, <2>2 DEF SystemInv, SystemKept, RootInv, Holds
  <2>3. CASE ~ user
    <3>1. vcbDisk'.rootDirBlock = 0
      BY <1>1, <2>3 DEF FormatInv, Allocating
    <3> QED
      BY <1>1, <2>1, <3>1 DEF SystemInv, SystemKept, RootInv
  <2> QED
    BY <2>2, <2>3
<1> QED
  BY <1>4, <1>5, <1>7, <1>9, <1>10

\* What was collected is released.
LEMMA BeginReleaseIInv ==
    ASSUME IInv, pc = "scan", BeginRelease, whole \/ user => start # NoBlock
    PROVE  IInv'
<1> USE DEF IInv
<1>1. /\ pc' = "release" /\ cur' = start /\ prev' = vcb.freeSpaceHead /\ done' = 0
      /\ UNCHANGED <<vcb, vcbDisk, fat, data, whole, user, start, got>>
  BY DEF BeginRelease
<1>2. /\ got \in Nat /\ Want \in Nat /\ got <= Want /\ user \in BOOLEAN /\ cur \in Words
  BY RootWords DEF TypeOK, Want
<1>3. TypeOK'
  <2>1. got' \in 0 .. Want'
    BY <1>1 DEF TypeOK, Want
  <2>2. prev' \in Words
    BY <1>1 DEF TypeOK, VCBs
  <2> QED
    BY <1>1, <2>1, <2>2, RootWords DEF TypeOK
<1>4. FormatInv' /\ TableInv' /\ SystemInv' /\ RootInv'
  BY <1>1 DEF FormatInv, TableInv, SystemInv, SystemKept, RootInv, Holds, Allocating, Rooting
<1>5. FileInv'
  <2> SUFFICES ASSUME user PROVE FileInv'
    BY <1>1 DEF FileInv
  <2>1. got # 0 /\ start \in Blocks /\ fat[start] = BLOCK_FREE
    BY DEF FileInv
  <2>2. got = 1
    BY <1>2, <2>1 DEF Want
  <2> QED
    BY <1>1, <2>1, <2>2 DEF FileInv
<1>6. RootingInv'
  <2> SUFFICES ASSUME whole, ~ user PROVE RootRelease'
    BY <1>1 DEF RootingInv, Rooting
  <2>1. RootScan
    BY DEF RootingInv
  <2>2. got > 0 /\ start = FirstFreeBlock /\ cur = start + got
    BY <1>2, <2>1 DEF RootScan
  <2>3. start + got - 1 \in Blocks
    BY <1>2, <2>2, FatWords
  <2>4. ASSUME NEW b \in start .. start + got - 2 PROVE fat[b] = b + 1
    <3>1. b \in Blocks /\ ~ (b < FirstFreeBlock) /\ b \in FirstFreeBlock .. cur - 2
      BY <1>2, <2>2, <2>3, FatWords
    <3> QED
      BY <2>1, <3>1 DEF RootScan
  <2>5. start + 0 = start
    BY <2>2, FatWords
  <2> QED
    BY <1>1, <2>2, <2>3, <2>4, <2>5 DEF RootRelease
<1> QED
  BY <1>3, <1>4, <1>5, <1>6

\* The three ways an allocation fails.
LEMMA AllocateFailsIInv ==
    ASSUME IInv, LinkFails \/ ScanFails \/ SealFails
    PROVE  IInv'
<1> USE DEF IInv
<1>1. /\ pc = "scan" /\ got \in Nat /\ Want \in Nat /\ Want > 0
  BY RootWords DEF LinkFails, ScanFails, SealFails, ScanOpen, TypeOK, Want
<1>2. /\ (prev # NoBlock \/ got # 0) /\ (whole \/ user) => start # NoBlock
  <2>1. FirstFreeBlock # NoBlock /\ \A b \in Blocks : b # NoBlock
    BY FatWords
  <2>2. CASE user
    BY <1>1, <2>1, <2>2 DEF FileInv
  <2>3. CASE ~ user
    BY <1>1, <2>1, <2>3 DEF RootingInv, RootScan
  <2> QED
    BY <2>2, <2>3
<1>3. CASE LinkFails
  BY <1>1, <1>2, <1>3, BeginReleaseIInv DEF LinkFails
<1>4. CASE SealFails
  BY <1>1, <1>2, <1>4, BeginReleaseIInv DEF SealFails
<1>5. CASE ScanFails
  <2>1. CASE start # NoBlock /\ BeginRelease
    BY <1>1, <2>1, BeginReleaseIInv
  <2>2. CASE Refused /\ UNCHANGED <<vcb, vcbDisk, fat, data, whole>>
    <3>1. PICK place \in {"off", "run", "load"} : Return(place)
      BY <2>2 DEF Refused
    <3>2. /\ vcb' \in VCBs /\ vcbDisk' \in VCBs /\ vcb'.signed
          /\ vcb'.rootDirBlock = vcbDisk'.rootDirBlock
          /\ vcbDisk'.rootDirBlock # 0 => vcbDisk'.signed
      BY <1>1, <2>2 DEF TypeOK, FormatInv
    <3> QED
      BY <2>2, <3>1, <3>2, ReturnIInv
  <2> QED
    BY <1>5, <2>1, <2>2 DEF ScanFails
<1> QED
  BY <1>3, <1>4, <1>5

\* The last block is marked: the root is one run, and a file's block is none
\* of it.
LEMMA SealChainIInv ==
    ASSUME IInv, SealChain
    PROVE  IInv'
<1> USE DEF IInv
<1>1. /\ pc = "scan" /\ got = Want /\ pc' = "save"
      /\ fat' = writeFATEntry(fat, prev, BLOCK_RESERVED)
      /\ vcb' = [vcb EXCEPT !.freeSpaceHead = cur]
      /\ UNCHANGED <<vcbDisk, data, whole, user, cur, start, prev, got, done>>
  BY DEF SealChain, locals
<1>2. /\ fat \in [Blocks -> Words] /\ cur \in Words /\ prev \in Words
      /\ got \in Nat /\ Want > 0 /\ user \in BOOLEAN
  BY RootWords DEF TypeOK, Want
<1>3. /\ vcb' \in VCBs /\ vcb'.signed = vcb.signed
      /\ vcb'.rootDirBlock = vcb.rootDirBlock
  BY <1>1, <1>2, HeadSet
<1>4. fat' \in [Blocks -> Words]
  BY <1>1, <1>2, Entries, RootWords
<1>5. TypeOK'
  <2>1. got' \in 0 .. Want'
    BY <1>1 DEF TypeOK, Want
  <2> QED
    BY <1>1, <1>3, <1>4, <2>1 DEF TypeOK
<1>6. FormatInv' /\ TableInv'
  BY <1>1, <1>3 DEF FormatInv, TableInv, Allocating, Rooting
<1>7. \A b \in Blocks : fat'[b] = fat[b] \/ (b = prev /\ fat'[b] = BLOCK_RESERVED)
  <2>1. CASE prev \in Blocks
    <3>1. BLOCK_RESERVED \in Words
      BY RootWords
    <3>2. \A b \in Blocks : fat'[b] = IF b = prev THEN BLOCK_RESERVED ELSE fat[b]
      BY <1>1, <1>2, <2>1, <3>1, Entries
    <3> QED
      BY <3>2
  <2>2. CASE prev \notin Blocks
    BY <1>1, <2>2 DEF writeFATEntry
  <2> QED
    BY <2>1, <2>2
<1>8. SystemInv' /\ RootInv'
  <2>1. \A b \in Blocks : fat[b] # BLOCK_FREE => fat'[b] # BLOCK_FREE
    BY <1>7, FatWords
  <2>2. \A b \in 0 .. FirstFreeBlock - 1 : b \in Blocks
    BY FatWords
  <2>3. SystemInv'
    BY <1>1, <2>1, <2>2 DEF SystemInv, SystemKept
  <2>4. RootInv'
    <3> SUFFICES ASSUME whole, vcbDisk.rootDirBlock # 0 PROVE RootInv'
      BY <1>1 DEF RootInv
    <3>1. \A b \in RootRun : b \in Blocks
      <4>1. \A b \in RootRun : b - FirstFreeBlock \in 0 .. RootBlocks - 1
                             /\ FirstFreeBlock + (b - FirstFreeBlock) = b
        BY RootWords, FatWords DEF RootRun
      <4> QED
        BY <4>1 DEF RootInv, Holds
    <3> QED
      BY <1>1, <2>1, <3>1 DEF RootInv, Holds
  <2> QED
    BY <2>3, <2>4
<1>9. FileInv'
  <2> SUFFICES ASSUME user PROVE FileInv'
    BY <1>1 DEF FileInv
  <2>1. start \in Blocks /\ fat[start] = BLOCK_FREE
    BY <1>1, <1>2 DEF FileInv
  <2>2. ASSUME whole PROVE start \in DataBlocks
    BY <2>1, <2>2, RootWords, FatWords DEF SystemInv
  <2>3. ASSUME whole, vcbDisk.rootDirBlock # 0 PROVE start \notin RootRun
    BY <2>1, <2>3 DEF RootInv
  <2> QED
    BY <1>1, <2>1, <2>2, <2>3 DEF FileInv
<1>10. RootingInv'
  <2> SUFFICES ASSUME whole, ~ user PROVE RootChain'
    BY <1>1 DEF RootingInv, Rooting
  <2>1. RootScan
    BY <1>1 DEF RootingInv
  <2>2. /\ got = RootBlocks /\ start = FirstFreeBlock /\ cur = FirstFreeBlock + RootBlocks
        /\ prev = FirstFreeBlock + RootBlocks - 1
    <3>1. got = RootBlocks /\ got # 0
      BY <1>1, RootWords DEF Want
    <3>2. start = FirstFreeBlock /\ cur = FirstFreeBlock + got /\ prev = cur - 1
      BY <2>1, <3>1 DEF RootScan
    <3> QED
      BY <3>1, <3>2, RootWords, FatWords
  <2>3. /\ prev \in Blocks /\ RootRun = FirstFreeBlock .. prev /\ RootRun \subseteq Blocks
    BY <1>2, <2>2, RootWords, FatWords DEF RootRun
  <2>4. ASSUME NEW b \in RootRun
        PROVE  fat'[b] = IF b = prev THEN BLOCK_RESERVED ELSE b + 1
    <3>1. CASE b = prev
      BY <1>1, <1>2, <2>3, <3>1, Entries, RootWords
    <3>2. CASE b # prev
      <4>1. ~ (b < FirstFreeBlock) /\ b \in FirstFreeBlock .. cur - 2 /\ b \in Blocks
        BY <2>2, <2>3, <3>2, RootWords, FatWords
      <4>2. fat[b] = b + 1
        BY <2>1, <4>1 DEF RootScan
      <4> QED
        BY <1>7, <3>2, <4>1, <4>2
    <3> QED
      BY <3>1, <3>2
  <2>5. RootRun' = RootRun
    BY DEF RootRun
  <2> QED
    BY <1>1, <2>2, <2>3, <2>4, <2>5 DEF RootChain
<1> QED
  BY <1>5, <1>6, <1>8, <1>9, <1>10

\* The allocation returns its first block.
LEMMA SaveHeadIInv ==
    ASSUME IInv, SaveHead
    PROVE  IInv'
<1> USE DEF IInv
<1>1. /\ pc = "save" /\ SaveVCB /\ UNCHANGED <<vcb, fat, data, whole>>
      /\ \/ ~ user /\ Return("off")
         \/ user /\ pc' = "file" /\ UNCHANGED locals
         \/ ~ user /\ pc' = "write" /\ UNCHANGED locals
  BY DEF SaveHead
<1>2. vcb \in VCBs /\ vcb.signed /\ user \in BOOLEAN
  BY <1>1 DEF TypeOK, FormatInv
<1>3. /\ vcbDisk' \in VCBs /\ vcbDisk'.rootDirBlock = vcbDisk.rootDirBlock
      /\ vcbDisk'.rootDirBlock # 0 => vcbDisk'.signed
      /\ vcb'.rootDirBlock = vcbDisk'.rootDirBlock
  BY <1>1, <1>2, Saved
<1>4. CASE Return("off")
  <2>1. vcb' \in VCBs
    BY <1>1, <1>2
  <2> QED
    BY <1>1, <1>3, <1>4, <2>1, ReturnIInv
<1>5. CASE /\ UNCHANGED locals
           /\ (user /\ pc' = "file") \/ (~ user /\ pc' = "write")
  <2>1. UNCHANGED <<user, cur, start, prev, got, done>>
    BY <1>5 DEF locals
  <2>2. TypeOK'
    <3>1. got' \in 0 .. Want'
      BY <2>1 DEF TypeOK, Want
    <3> QED
      BY <1>1, <1>2, <1>3, <1>5, <2>1, <3>1 DEF TypeOK
  <2>3. FormatInv' /\ TableInv'
    BY <1>1, <1>2, <1>3, <1>5, <2>1 DEF FormatInv, TableInv, Allocating, Rooting
  <2>4. RootingInv'
    BY <1>1, <1>5, <2>1 DEF RootingInv, RootChain, Rooting
  <2>5. FileInv' /\ SystemInv' /\ RootInv'
    BY <1>1, <1>3, <1>5, <2>1 DEF FileInv, SystemInv, SystemKept, RootInv, Holds
  <2> QED
    BY <2>2, <2>3, <2>4, <2>5
<1> QED
  BY <1>1, <1>4, <1>5

\* One block of a failed allocation is released.
LEMMA ReleaseBlockIInv ==
    ASSUME IInv, ReleaseBlock
    PROVE  IInv'
<1> USE DEF IInv
<1>1. /\ pc = "release" /\ done < got /\ cur \in Blocks
      /\ fat' = writeFATEntry(fat, cur, prev)
      /\ cur' = readFATEntry(fat, cur) /\ prev' = cur /\ done' = done + 1
      /\ UNCHANGED <<pc, vcb, vcbDisk, data, whole, user, start, got>>
  BY DEF ReleaseBlock, Releasing
<1>2. /\ fat \in [Blocks -> Words] /\ cur \in Words /\ prev \in Words
      /\ got \in Nat /\ done \in Nat /\ Want \in Nat /\ got <= Want /\ Want <= RootBlocks
      /\ user \in BOOLEAN
  BY RootWords DEF TypeOK, Want
<1>3. /\ fat' \in [Blocks -> Words] /\ cur' = fat[cur] /\ cur' \in Words
      /\ \A b \in Blocks : fat'[b] = IF b = cur THEN prev ELSE fat[b]
  BY <1>1, <1>2, Entries
<1>4. TypeOK'
  <2>1. got' \in 0 .. Want'
    BY <1>1 DEF TypeOK, Want
  <2>2. done' \in 0 .. RootBlocks
    BY <1>1, <1>2, RootWords
  <2> QED
    BY <1>1, <1>2, <1>3, <2>1, <2>2 DEF TypeOK
<1>5. FormatInv' /\ TableInv'
  BY <1>1 DEF FormatInv, TableInv, Allocating, Rooting
<1>6. FileInv'
  <2> SUFFICES ASSUME user PROVE FileInv'
    BY <1>1 DEF FileInv
  <2>1. got = 1 /\ start \in Blocks /\ done' # 0
    BY <1>1, <1>2 DEF FileInv
  <2> QED
    BY <1>1, <2>1 DEF FileInv
<1>7. ASSUME whole, ~ user PROVE cur \notin 0 .. FirstFreeBlock - 1 /\ RootRelease'
  <2>1. RootRelease
    BY <1>1, <1>7 DEF RootingInv
  <2>2. /\ start = FirstFreeBlock /\ got > 0 /\ start + got - 1 \in Blocks
        /\ cur = start + done /\ \A b \in cur .. start + got - 2 : fat[b] = b + 1
    BY <1>1, <2>1 DEF RootRelease
  <2>3. ASSUME done' < got
        PROVE  /\ cur' = start + done'
               /\ \A b \in cur' .. start + got - 2 : fat'[b] = b + 1
    <3>1. cur \in cur .. start + got - 2
      BY <1>1, <1>2, <2>2, <2>3, FatWords
    <3>2. cur' = cur + 1 /\ cur + 1 = start + done'
      BY <1>1, <1>2, <1>3, <2>2, <3>1, FatWords
    <3>3. ASSUME NEW b \in cur' .. start + got - 2 PROVE fat'[b] = b + 1
      <4>1. b \in Blocks /\ b # cur /\ b \in cur .. start + got - 2
        BY <1>2, <2>2, <3>2, FatWords
      <4> QED
        BY <1>3, <2>2, <4>1
    <3> QED
      BY <3>2, <3>3
  <2>4. cur \notin 0 .. FirstFreeBlock - 1
    BY <1>2, <2>2, FatWords
  <2> QED
    BY <1>1, <2>2, <2>3, <2>4 DEF RootRelease
<1>8. RootingInv'
  BY <1>1, <1>7 DEF RootingInv, Rooting
<1>9. \A b \in 0 .. FirstFreeBlock - 1 : b \in Blocks
  BY FatWords
<1>10. CASE user
  <2>1. fat[cur] = BLOCK_FREE
    BY <1>1, <1>2, <1>10 DEF FileInv
  <2>2. \A b \in Blocks : fat[b] # BLOCK_FREE => fat'[b] # BLOCK_FREE
    BY <1>3, <2>1
  <2>3. SystemInv'
    BY <1>1, <1>9, <2>2 DEF SystemInv, SystemKept
  <2>4. ASSUME whole, vcbDisk.rootDirBlock # 0 PROVE RootRun \subseteq Blocks
    <3>1. \A b \in RootRun : b - FirstFreeBlock \in 0 .. RootBlocks - 1
                           /\ FirstFreeBlock + (b - FirstFreeBlock) = b
      BY RootWords, FatWords DEF RootRun
    <3> QED
      BY <2>4, <3>1 DEF RootInv, Holds
  <2>5. RootInv'
    BY <1>1, <2>2, <2>4 DEF RootInv, Holds
  <2> QED
    BY <1>4, <1>5, <1>6, <1>8, <2>3, <2>5
<1>11. CASE ~ user
  <2>1. vcbDisk'.rootDirBlock = 0
    BY <1>1, <1>11 DEF FormatInv, Allocating
  <2>2. RootInv'
    BY <2>1 DEF RootInv
  <2>3. SystemInv'
    BY <1>1, <1>3, <1>7, <1>9, <1>11 DEF SystemInv, SystemKept
  <2> QED
    BY <1>4, <1>5, <1>6, <1>8, <2>2, <2>3
<1> QED
  BY <1>2, <1>10, <1>11

\* The release ends, or a write of it fails.
LEMMA ReleaseReturnsIInv ==
    ASSUME IInv, ReleaseReturns
    PROVE  IInv'
<1>1. /\ pc = "release" /\ vcb' = [vcb EXCEPT !.freeSpaceHead = start] /\ SaveVCB /\ Refused
      /\ UNCHANGED <<fat, data, whole>>
  BY DEF ReleaseReturns
<1>2. PICK place \in {"off", "run", "load"} : Return(place)
  BY <1>1 DEF Refused
<1>3. start \in Words /\ TypeOK
  BY DEF IInv, TypeOK
<1>4. /\ vcb' \in VCBs /\ vcb'.signed = vcb.signed /\ vcb'.rootDirBlock = vcb.rootDirBlock
  BY <1>1, <1>3, HeadSet
<1>5. vcb'.signed
  BY <1>1, <1>4 DEF IInv, FormatInv
<1>6. /\ vcbDisk' \in VCBs /\ vcbDisk'.rootDirBlock = vcbDisk.rootDirBlock
      /\ vcbDisk'.rootDirBlock # 0 => vcbDisk'.signed
      /\ vcb'.rootDirBlock = vcbDisk'.rootDirBlock
  BY <1>1, <1>4, <1>5, Saved
<1> QED
  BY <1>1, <1>2, <1>4, <1>5, <1>6, ReturnIInv

\* The whole directory is written, or a beginning of it.
LEMMA WriteRunIInv ==
    ASSUME IInv, WriteRun
    PROVE  IInv'
<1> USE DEF IInv
<1>1. /\ pc = "write" /\ pc' = Over(start, "chain") /\ cur' = start /\ done' = 0
      /\ UNCHANGED <<vcb, vcbDisk, fat, whole, user, start, prev, got>>
  BY DEF WriteRun
<1>2. PICK k \in 0 .. RootBlocks :
        data' = [b \in Blocks |-> IF b \in start .. start + k - 1
                                  THEN b - start + 1 ELSE data[b]]
  BY DEF WriteRun
<1>3. start \in Words /\ start \in Int /\ data \in [Blocks -> 0 .. RootBlocks]
  BY FatWords DEF TypeOK
<1>4. TypeOK'
  <2>1. ASSUME NEW b \in Blocks, b \in start .. start + k - 1
        PROVE  b - start + 1 \in 0 .. RootBlocks
    BY <1>2, <1>3, <2>1, RootWords
  <2>2. data' \in [Blocks -> 0 .. RootBlocks]
    BY <1>2, <1>3, <2>1
  <2>3. got' \in 0 .. Want' /\ done' \in 0 .. RootBlocks
    BY <1>1, RootWords DEF TypeOK, Want
  <2> QED
    BY <1>1, <1>3, <2>2, <2>3 DEF TypeOK, Over
<1>5. ~ user /\ vcbDisk.rootDirBlock = 0 /\ pc' \in {"chain", "lost"}
  BY <1>1 DEF FormatInv, Rooting, Over
<1>6. FormatInv' /\ TableInv' /\ FileInv' /\ RootInv'
  BY <1>1, <1>5 DEF FormatInv, TableInv, FileInv, RootInv, Allocating, Rooting
<1>7. ASSUME whole PROVE RootChain' /\ pc' = "chain"
  <2>1. RootChain
    BY <1>1, <1>7 DEF RootingInv, Rooting
  <2>2. start = FirstFreeBlock /\ RootRun' = RootRun
    BY <2>1 DEF RootChain, RootRun
  <2>3. start \in DataBlocks /\ start + 0 = start /\ 0 # RootBlocks
    <3>1. start \in RootRun
      BY <2>2, RootWords, FatWords DEF RootRun
    <3> QED
      BY <2>1, <2>2, <3>1, RootWords, FatWords DEF RootChain
  <2>4. Holds(start, 0)'
    BY <1>3 DEF Holds
  <2> QED
    BY <1>1, <2>1, <2>2, <2>3, <2>4 DEF RootChain, Over, Holds
<1>8. RootingInv' /\ SystemInv'
  BY <1>1, <1>5, <1>7 DEF RootingInv, Rooting, SystemInv, SystemKept
<1> QED
  BY <1>4, <1>6, <1>8

\* The next block of the chain is written.
LEMMA WriteRootBlockIInv ==
    ASSUME IInv, WriteRootBlock
    PROVE  IInv'
<1> USE DEF IInv
<1>1. /\ pc = "chain" /\ cur # BLOCK_RESERVED /\ done < RootBlocks /\ cur \in Blocks
      /\ data' = [data EXCEPT ![cur] = done + 1] /\ pc' = Over(cur, "chain")
      /\ cur' = readFATEntry(fat, cur) /\ done' = done + 1
      /\ UNCHANGED <<vcb, vcbDisk, fat, whole, user, start, prev, got>>
  BY DEF WriteRootBlock
<1>2. /\ fat \in [Blocks -> Words] /\ cur \in Nat /\ done \in Nat
      /\ data \in [Blocks -> 0 .. RootBlocks]
  BY <1>1, RootWords, FatWords DEF TypeOK
<1>3. cur' = fat[cur] /\ cur' \in Words
  BY <1>1, <1>2, Entries
<1>4. TypeOK'
  <2>1. got' \in 0 .. Want' /\ done' \in 0 .. RootBlocks
    BY <1>1, <1>2, RootWords DEF TypeOK, Want
  <2>2. data' \in [Blocks -> 0 .. RootBlocks]
    BY <1>1, <1>2, <2>1
  <2> QED
    BY <1>1, <1>3, <2>1, <2>2 DEF TypeOK, Over
<1>5. ~ user /\ vcbDisk.rootDirBlock = 0 /\ pc' \in {"chain", "lost"}
  BY <1>1 DEF FormatInv, Rooting, Over
<1>6. FormatInv' /\ TableInv' /\ FileInv' /\ RootInv'
  BY <1>1, <1>5 DEF FormatInv, TableInv, FileInv, RootInv, Allocating, Rooting
<1>7. ASSUME whole PROVE RootChain' /\ pc' = "chain"
  <2>1. RootChain
    BY <1>1, <1>7 DEF RootingInv, Rooting
  <2>2. /\ start = FirstFreeBlock /\ RootRun \subseteq Blocks
        /\ \A b \in RootRun :
             fat[b] = IF b = start + RootBlocks - 1 THEN BLOCK_RESERVED ELSE b + 1
        /\ cur = start + done /\ Holds(start, done)
    BY <1>1, <1>2, <2>1 DEF RootChain
  <2>3. /\ start \in Nat /\ cur \in RootRun /\ cur \in DataBlocks
        /\ RootRun = start .. start + RootBlocks - 1
    BY <1>1, <1>2, <2>2, RootWords, FatWords DEF RootRun
  <2>4. cur' = IF done' = RootBlocks THEN BLOCK_RESERVED ELSE start + done'
    BY <1>1, <1>2, <1>3, <2>2, <2>3, RootWords
  <2>6. ASSUME NEW i \in 0 .. done' - 1
        PROVE  start + i \in Blocks /\ data'[start + i] = i + 1
    <3>1. CASE i = done
      BY <1>1, <1>2, <2>2, <3>1
    <3>2. CASE i # done
      <4>1. i \in 0 .. done - 1 /\ start + i # cur
        BY <1>1, <1>2, <2>2, <2>3, <3>2
      <4>2. start + i \in Blocks /\ data[start + i] = i + 1
        BY <2>2, <4>1 DEF Holds
      <4> QED
        BY <1>1, <1>2, <4>1, <4>2
    <3> QED
      BY <3>1, <3>2
  <2>7. RootRun' = RootRun
    BY DEF RootRun
  <2>8. \A i \in 0 .. done' - 1 : start' + i \in Blocks /\ data'[start' + i] = i + 1
    BY <1>1, <2>6
  <2> HIDE DEF IInv
  <2> QED
    BY <1>1, <2>2, <2>3, <2>4, <2>7, <2>8 DEF RootChain, Over, Holds
<1>8. RootingInv' /\ SystemInv'
  BY <1>1, <1>5, <1>7 DEF RootingInv, Rooting, SystemInv, SystemKept
<1> QED
  BY <1>4, <1>6, <1>8

\* The VCB names the root: all of its blocks have been written.
LEMMA WriteVCBIInv ==
    ASSUME IInv, WriteVCB
    PROVE  IInv'
<1> USE DEF IInv
<1>1. /\ pc = "chain" /\ (cur = BLOCK_RESERVED \/ done = RootBlocks)
      /\ vcb' = [vcb EXCEPT !.rootDirBlock = start]
      /\ \/ vcbDisk' = vcb' /\ Return("load")
         \/ UNCHANGED vcbDisk /\ Return("off")
      /\ UNCHANGED <<fat, data, whole>>
  BY DEF WriteVCB, RootWritten
<1>2. vcb.signed /\ vcbDisk.rootDirBlock = 0 /\ start \in Words
  BY <1>1 DEF FormatInv, Rooting, TypeOK
<1>3. vcb'.signed /\ vcb'.rootDirBlock = start /\ vcb' \in VCBs
  BY <1>1, <1>2 DEF TypeOK, VCBs
<1>4. CASE UNCHANGED vcbDisk /\ Return("off")
  <2>1. vcbDisk' \in VCBs
    BY <1>4 DEF TypeOK
  <2> QED
    BY <1>1, <1>2, <1>3, <1>4, <2>1, ReturnIInv
<1>5. CASE vcbDisk' = vcb' /\ Return("load")
  <2>1. /\ pc' = "load" /\ user' = FALSE /\ cur' = 0 /\ start' = NoBlock /\ prev' = NoBlock
        /\ got' = 0 /\ done' = 0
    BY <1>5 DEF Return
  <2>2. TypeOK'
    <3>1. got' \in 0 .. Want' /\ done' \in 0 .. RootBlocks
      BY <2>1, RootWords DEF Want
    <3> QED
      BY <1>1, <1>3, <1>5, <2>1, <3>1, RootWords DEF TypeOK
  <2>3. FormatInv' /\ TableInv' /\ RootingInv' /\ FileInv'
    BY <1>3, <1>5, <2>1 DEF FormatInv, TableInv, RootingInv, FileInv, Allocating, Rooting
  <2>4. SystemInv'
    BY <1>1, <2>1 DEF SystemInv, SystemKept
  <2>5. RootInv'
    <3> SUFFICES ASSUME whole PROVE RootInv'
      BY <1>1 DEF RootInv
    <3>1. RootChain
      BY <1>1 DEF RootingInv, Rooting
    <3>2. /\ start = FirstFreeBlock /\ RootRun \subseteq Blocks
          /\ \A b \in RootRun :
               fat[b] = IF b = start + RootBlocks - 1 THEN BLOCK_RESERVED ELSE b + 1
      BY <3>1 DEF RootChain
    <3>3. /\ cur = IF done = RootBlocks THEN BLOCK_RESERVED ELSE start + done
          /\ Holds(start, done)
      BY <1>1, <3>1 DEF RootChain
    <3>4. done = RootBlocks
      BY <1>1, <3>2, <3>3, FatWords DEF TypeOK
    <3>5. \A b \in RootRun : fat[b] # BLOCK_FREE
      BY <3>2, FatWords
    <3>6. Holds(FirstFreeBlock, RootBlocks)
      BY <3>2, <3>3, <3>4
    <3> QED
      BY <1>1, <1>3, <1>5, <3>2, <3>5, <3>6 DEF RootInv, Holds
  <2> QED
    BY <2>2, <2>3, <2>4, <2>5
<1> QED
  BY <1>1, <1>4, <1>5

\* The content of a file goes to a block that is none of the root.
LEMMA WriteFileIInv ==
    ASSUME IInv, WriteFile
    PROVE  IInv'
<1> USE DEF IInv
<1>1. /\ pc = "file" /\ data' = [data EXCEPT ![start] = 0] /\ Return(Over(start, "run"))
      /\ UNCHANGED <<vcb, vcbDisk, fat, whole>>
  BY DEF WriteFile
<1>2. /\ pc' = Over(start, "run") /\ user' = FALSE /\ cur' = 0 /\ start' = NoBlock
      /\ prev' = NoBlock /\ got' = 0 /\ done' = 0
  BY <1>1 DEF Return
<1>3. /\ start \in Blocks
      /\ whole => start \in DataBlocks
  BY <1>1 DEF FormatInv, FileInv
<1>4. TypeOK'
  <2>1. got' \in 0 .. Want' /\ done' \in 0 .. RootBlocks /\ 0 \in 0 .. RootBlocks
    BY <1>2, RootWords DEF Want
  <2>2. data' \in [Blocks -> 0 .. RootBlocks]
    BY <1>1, <2>1 DEF TypeOK
  <2> QED
    BY <1>1, <1>2, <2>1, <2>2, RootWords DEF TypeOK, Over
<1>5. FormatInv' /\ TableInv' /\ RootingInv' /\ FileInv'
  BY <1>1, <1>2 DEF FormatInv, TableInv, RootingInv, FileInv, Allocating, Rooting, Over
<1>6. SystemInv'
  <2> SUFFICES ASSUME whole PROVE SystemInv'
    BY <1>1 DEF SystemInv
  <2>1. pc' = "run"
    BY <1>2, <1>3 DEF Over
  <2>2. \A b \in 0 .. FirstFreeBlock - 1 : fat'[b] # BLOCK_FREE
    BY <1>1 DEF SystemInv
  <2> QED
    BY <2>1, <2>2 DEF SystemInv, SystemKept
<1>7. RootInv'
  <2> SUFFICES ASSUME whole, vcbDisk.rootDirBlock # 0 PROVE RootInv'
    BY <1>1 DEF RootInv
  <2>1. start \notin RootRun
    BY <1>1 DEF FormatInv, FileInv
  <2>2. \A i \in 0 .. RootBlocks - 1 : FirstFreeBlock + i \in RootRun
    BY RootWords, FatWords DEF RootRun
  <2>3. Holds(FirstFreeBlock, RootBlocks)
    BY DEF RootInv
  <2>4. \A i \in 0 .. RootBlocks - 1 :
          FirstFreeBlock + i \in Blocks /\ data'[FirstFreeBlock + i] = i + 1
    BY <1>1, <2>1, <2>2, <2>3 DEF Holds, TypeOK
  <2> QED
    BY <1>1, <2>4 DEF RootInv, Holds
<1> QED
  BY <1>4, <1>5, <1>6, <1>7

\* The steps that write nothing.
LEMMA QuietIInv ==
    ASSUME IInv, WriteRootFails \/ LoadRoot \/ Stop \/ Lost \/ UNCHANGED vars
    PROVE  IInv'
<1> USE DEF IInv
<1>1. vcb \in VCBs /\ vcbDisk \in VCBs /\ ZeroVCB \in VCBs
  BY RootWords DEF TypeOK, VCBs, ZeroVCB
<1>2. vcbDisk.rootDirBlock # 0 => vcbDisk.signed
  BY DEF FormatInv
<1>3. CASE WriteRootFails
  BY <1>1, <1>2, <1>3, ReturnIInv DEF WriteRootFails
<1>4. CASE LoadRoot
  <2>1. /\ vcb.signed /\ vcb.rootDirBlock = vcbDisk.rootDirBlock
        /\ Return("run") /\ UNCHANGED <<vcb, vcbDisk, fat, data, whole>>
    BY <1>4 DEF LoadRoot, FormatInv
  <2> QED
    BY <1>1, <1>2, <2>1, ReturnIInv
<1>5. CASE Stop
  BY <1>1, <1>2, <1>5, ReturnIInv DEF Stop
<1>6. CASE Lost \/ UNCHANGED vars
  <2>1. /\ UNCHANGED <<pc, vcb, vcbDisk, fat, data, whole>>
        /\ UNCHANGED <<user, cur, start, prev, got, done>>
    BY <1>6 DEF Lost, vars, locals
  <2>2. TypeOK'
    <3>1. got' \in 0 .. Want'
      BY <2>1 DEF TypeOK, Want
    <3> QED
      BY <2>1, <3>1 DEF TypeOK
  <2>3. FormatInv' /\ TableInv'
    BY <2>1 DEF FormatInv, TableInv, Allocating, Rooting
  <2>4. RootingInv'
    BY <2>1 DEF RootingInv, RootScan, RootRelease, RootChain, Rooting, Holds, RootRun
  <2>5. FileInv' /\ SystemInv' /\ RootInv'
    BY <2>1 DEF FileInv, SystemInv, SystemKept, RootInv, Holds
  <2> QED
    BY <2>2, <2>3, <2>4, <2>5
<1> QED
  BY <1>3, <1>4, <1>5, <1>6

\* Every step keeps the invariant.
LEMMA NextIInv == IInv /\ [Next]_vars => IInv'
  BY ReadVCBIInv, WriteTableBlockIInv, WriteTableFailsIInv, WriteHeadIInv, UseBlockIInv,
     SkipBlockIInv, TakeBlockIInv, AllocateFailsIInv, SealChainIInv, SaveHeadIInv,
     ReleaseBlockIInv, ReleaseReturnsIInv, WriteRunIInv, WriteRootBlockIInv, WriteVCBIInv,
     WriteFileIInv, QuietIInv
  DEF Next, CodeStep

\* Formatting and mounting keep the inductive invariant.
THEOREM Inductive == Spec => []IInv
  BY InitIInv, NextIInv, PTL DEF Spec

\* The state of fsInit.c stays well typed.
THEOREM TypeCorrect == Spec => []TypeOK
<1>1. IInv => TypeOK
  BY DEF IInv
<1> QED
  BY <1>1, Inductive, PTL

\* A root that the VCB names is a complete directory in consecutive blocks,
\* whatever write fails, those of the allocation included, and wherever the
\* program dies, unless the format of the table itself was given up.
THEOREM RootStaysIntact == Spec => []RootIntact
<1>1. IInv => RootIntact
  BY DEF IInv, RootInv, RootIntact
<1> QED
  BY <1>1, Inductive, PTL

\* Unless the format of the table was given up, nothing is ever written over
\* the VCB or the table, and no allocation is offered one of their blocks.
THEOREM SystemStaysKept == Spec => [](whole => SystemKept /\ SystemReserved)
<1>1. IInv => (whole => SystemKept /\ SystemReserved)
  BY DEF IInv, SystemInv, SystemReserved
<1> QED
  BY <1>1, Inductive, PTL

\* Once the VCB names a root, no start of the program formats the volume
\* again: the root stays where it is and no block in use becomes free.
THEOREM FormattedOnce == Spec => FormatOnce
<1> DEFINE Kept ==
      vcbDisk.rootDirBlock # 0 =>
        /\ vcbDisk'.rootDirBlock = vcbDisk.rootDirBlock
        /\ \A b \in Blocks : fat[b] # BLOCK_FREE => fat'[b] # BLOCK_FREE
<1>1. IInv /\ [Next]_vars => [Kept]_vars
  <2> SUFFICES ASSUME IInv, Next, vcbDisk.rootDirBlock # 0
               PROVE  /\ vcbDisk'.rootDirBlock = vcbDisk.rootDirBlock
                      /\ \A b \in Blocks : fat[b] # BLOCK_FREE => fat'[b] # BLOCK_FREE
    OBVIOUS
  <2> USE DEF IInv
  <2>1. pc # "table" /\ ~ Rooting /\ (Allocating => user)
    BY DEF FormatInv
  <2>2. TypeOK /\ fat \in [Blocks -> Words] /\ start \in Words /\ prev \in Words /\ cur \in Words
        /\ got \in Nat /\ done \in Nat
    BY RootWords DEF TypeOK, Want
  <2>3. ASSUME pc # "off" PROVE vcb.rootDirBlock = vcbDisk.rootDirBlock
    BY <2>3 DEF FormatInv
  <2>4. CASE TakeBlock
    <3>1. got = 0
      BY <2>1, <2>2, <2>4, RootWords DEF TakeBlock, ScanOpen, Allocating, Want
    <3>2. prev = NoBlock
      BY <2>1, <2>4, <3>1 DEF TakeBlock, ScanOpen, Allocating, FileInv
    <3> QED
      BY <2>4, <3>2 DEF TakeBlock
  <2>5. CASE SealChain
    <3>1. user /\ prev \in Blocks
      BY <2>1, <2>5 DEF SealChain, Allocating, FileInv, Want
    <3>2. BLOCK_RESERVED \in Words /\ BLOCK_RESERVED # BLOCK_FREE
      BY FatWords, RootWords
    <3>3. \A b \in Blocks : fat'[b] = IF b = prev THEN BLOCK_RESERVED ELSE fat[b]
      BY <2>2, <2>5, <3>1, <3>2, Entries DEF SealChain
    <3> QED
      BY <2>5, <3>2, <3>3 DEF SealChain
  <2>6. CASE ReleaseBlock
    <3>1. user /\ got = 1 /\ cur \in Blocks /\ done < got /\ fat' = writeFATEntry(fat, cur, prev)
      BY <2>1, <2>6 DEF ReleaseBlock, Releasing, Allocating, FileInv
    <3>2. done = 0
      BY <2>2, <3>1
    <3>3. fat[cur] = BLOCK_FREE
      BY <2>6, <3>1, <3>2 DEF ReleaseBlock, Releasing, FileInv
    <3>4. \A b \in Blocks : fat'[b] = IF b = cur THEN prev ELSE fat[b]
      BY <2>2, <3>1, Entries
    <3> QED
      BY <2>6, <3>3, <3>4 DEF ReleaseBlock
  <2>7. CASE SaveHead
    BY <2>3, <2>7 DEF SaveHead, SaveVCB
  <2>8. CASE ReleaseReturns
    <3>1. vcb'.rootDirBlock = vcb.rootDirBlock
      BY <2>2, <2>8, HeadSet DEF ReleaseReturns
    <3> QED
      BY <2>3, <2>8, <3>1 DEF ReleaseReturns, SaveVCB
  <2>9. CASE ScanFails
    BY <2>9 DEF ScanFails, BeginRelease
  <2> QED
    BY <2>1, <2>4, <2>5, <2>6, <2>7, <2>8, <2>9
    DEF Next, CodeStep, ReadVCB, UseBlock, WriteTableBlock, WriteTableFails, WriteHead,
        SkipBlock, LinkFails, SealFails, BeginRelease, WriteRun, WriteRootBlock,
        WriteRootFails, WriteVCB, LoadRoot, WriteFile, Stop, Lost, vars, Rooting
<1> QED
  BY <1>1, Inductive, PTL DEF Spec, FormatOnce
=============================================================================
