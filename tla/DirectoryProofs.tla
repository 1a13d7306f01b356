--------------------------- MODULE DirectoryProofs ---------------------------
(***************************************************************************)
(* Proofs about Directory under SafeUse, on volumes the table covers: the  *)
(* cached directories are the ones on the disk, no two names share blocks, *)
(* a name keeps its blocks, and the links of a directory agree with the    *)
(* tree; the tree changes as NameSpace says, and pwd and ls agree with it. *)
(* Without Crashes directories and tables have any size and all operations *)
(* occur. With Crashes every disk a torn write can leave is covered, but   *)
(* SafeUse then allows no moves, and removals only of directories of one   *)
(* block.                                                                  *)
(***************************************************************************)
EXTENDS DirectoryTree, FatOpsProofs, SequenceTheorems, TLAPS

-----------------------------------------------------------------------------
(* Constants, entries and tables.                                          *)

\* The names of slots not in use.
NoNames  == {"", "NULL"}
DotNames == {".", ".."}

\* Disk d with entry e in slot i of the table at block b.
Put(d, b, i, e) == [d EXCEPT ![b] = [d[b] EXCEPT ![i] = e]]

\* Its table there, and the write of that table.
Changed(d, b, i, e)      == [d[b] EXCEPT ![i] = e]
ChangedWrite(d, b, i, e) == [at |-> b, table |-> Changed(d, b, i, e)]

\* The sizes of the volume: the root has the first data blocks.
LEMMA Sizes ==
    /\ MaxEntries \in Nat /\ Slots = 0 .. MaxEntries - 1 /\ 0 \in Slots /\ 1 \in Slots
    /\ RootBlocks \in Nat \ {0} /\ DirBlocks \in Nat \ {0}
    /\ rootStart \in Blocks /\ rootStart > 1 /\ RootRun \subseteq Blocks /\ rootStart \in RootRun
    /\ Crashes \in BOOLEAN
<1>1. /\ MaxEntries \in Nat /\ MaxEntries > 1 /\ RootBlocks \in Nat \ {0} /\ DirBlocks \in Nat \ {0}
      /\ FirstFreeBlock + RootBlocks <= TotalBlocks /\ Crashes \in BOOLEAN
  BY DirectoryAssumption
<1>2. rootStart = FirstFreeBlock
  BY DEF rootStart
<1>3. Slots = 0 .. MaxEntries - 1 /\ 0 \in Slots /\ 1 \in Slots
  BY <1>1 DEF Slots
<1> QED
  BY <1>1, <1>2, <1>3, FatWords DEF RootRun

\* The allocation of initFileSystem returns the start of the root.
LEMMA RootAllocated == allocateBlocks(initFreeSpace, RootBlocks).start = rootStart
  BY FirstAllocation, DirectoryAssumption DEF rootStart

\* Empty entries and tables are of the right type.
LEMMA ZeroTypes ==
    /\ ZeroEntry \in DirEntries /\ ZeroTable \in DirTables
    /\ [ZeroEntry EXCEPT !.name = "NULL"] \in DirEntries
    /\ \A i \in Slots : ZeroTable[i] = ZeroEntry /\ ZeroTable[i].inUse = FALSE
<1>1. ZeroEntry \in DirEntries
  BY FatWords DEF ZeroEntry, DirEntries, Texts
<1>2. [ZeroEntry EXCEPT !.name = "NULL"] \in DirEntries
  BY <1>1 DEF DirEntries, Texts
<1>3. ZeroEntry.inUse = FALSE
  BY DEF ZeroEntry
<1> QED
  BY <1>1, <1>2, <1>3 DEF ZeroTable, DirTables

\* Entries that name a directory or a file are of the right type.
LEMMA EntryTypes ==
    ASSUME NEW name \in Texts, NEW size \in Nat, NEW start \in Blocks
    PROVE  DirEntry(name, size, start) \in DirEntries /\ FileEntry(name, size, start) \in DirEntries
  BY FatWords DEF DirEntry, FileEntry, DirEntries

\* The fields of an entry.
LEMMA EntryFields ==
    ASSUME NEW e \in DirEntries
    PROVE  /\ e.name \in Texts /\ e.isDir \in BOOLEAN /\ e.size \in Nat /\ e.start \in Words
           /\ e.inUse \in BOOLEAN /\ e.start \in Int /\ LastOf(e) \in Int /\ e.start <= LastOf(e)
           /\ e.start \in Run(e)
<1>1. e.name \in Texts /\ e.isDir \in BOOLEAN /\ e.size \in Nat /\ e.start \in Words /\ e.inUse \in BOOLEAN
  BY DEF DirEntries
<1>2. e.start \in Int
  BY <1>1, FatWords
<1>3. LastOf(e) \in Int /\ e.start <= LastOf(e)
  BY <1>1, <1>2 DEF LastOf
<1> QED
  BY <1>1, <1>2, <1>3 DEF Run

\* One slot of one table changes.
LEMMA PutTable ==
    ASSUME NEW d \in [Blocks -> DirTables], NEW b \in Blocks, NEW i \in Slots, NEW e \in DirEntries
    PROVE  /\ Put(d, b, i, e) \in [Blocks -> DirTables]
           /\ \A c \in Blocks : c # b => Put(d, b, i, e)[c] = d[c]
           /\ Put(d, b, i, e)[b] = [d[b] EXCEPT ![i] = e]
           /\ [d[b] EXCEPT ![i] = e] \in DirTables
           /\ \A c \in Blocks, j \in Slots :
                Put(d, b, i, e)[c][j] = IF c = b /\ j = i THEN e ELSE d[c][j]
  BY DEF Put, DirTables

\* A write of a whole table.
LEMMA WrittenWhole ==
    ASSUME NEW d \in [Blocks -> DirTables], NEW w \in Writes
    PROVE  Written(d, w, MaxEntries) = [d EXCEPT ![w.at] = w.table]
<1>1. w.at \in Blocks /\ w.table \in DirTables
  BY DEF Writes
<1>2. [i \in Slots |-> IF i < MaxEntries THEN w.table[i] ELSE d[w.at][i]] = w.table
  BY <1>1, Sizes DEF DirTables
<1> QED
  BY <1>1, <1>2, Zenon DEF Written

\* A write of a table that differs from the one on the disk in one slot: it
\* changes that slot or, cut before it, nothing.
LEMMA WrittenSlot ==
    ASSUME NEW d \in [Blocks -> DirTables], NEW b \in Blocks, NEW i \in Slots, NEW e \in DirEntries,
           NEW k \in 0 .. MaxEntries, NEW w, w = [at |-> b, table |-> [d[b] EXCEPT ![i] = e]]
    PROVE  /\ Written(d, w, k) = IF i < k THEN Put(d, b, i, e) ELSE d
           /\ Written(d, w, MaxEntries) = Put(d, b, i, e)
<1>1. d[b] \in DirTables
  OBVIOUS
<1>2. ASSUME NEW m \in 0 .. MaxEntries
      PROVE  Written(d, w, m) = IF i < m THEN Put(d, b, i, e) ELSE d
  <2> DEFINE cut == [j \in Slots |-> IF j < m THEN w.table[j] ELSE d[b][j]]
  <2>1. Written(d, w, m) = [d EXCEPT ![b] = cut]
    <3>1. w.at = b /\ w.table = [d[b] EXCEPT ![i] = e]
      OBVIOUS
    <3>2. Written(d, w, m) =
            [d EXCEPT ![w.at] = [j \in Slots |-> IF j < m THEN w.table[j] ELSE d[w.at][j]]]
      BY DEF Written
    <3> QED
      BY <3>1, <3>2
  <2>2. ASSUME NEW j \in Slots PROVE cut[j] = IF i < m /\ j = i THEN e ELSE d[b][j]
    BY <1>1 DEF DirTables
  <2>3. CASE i < m
    <3>1. cut = [d[b] EXCEPT ![i] = e]
      <4> DEFINE t == [d[b] EXCEPT ![i] = e]
      <4>1. \A j \in Slots : t[j] = IF j = i THEN e ELSE d[b][j]
        BY <1>1 DEF DirTables
      <4>2. cut = [j \in Slots |-> cut[j]] /\ t = [j \in Slots |-> t[j]]
        BY <1>1 DEF DirTables
      <4>3. \A j \in Slots : cut[j] = t[j]
        BY <2>2, <2>3, <4>1
      <4> HIDE DEF cut, t
      <4>4. cut = t
        BY <4>2, <4>3, Zenon
      <4> QED
        BY <4>4 DEF t
    <3> QED
      BY <2>1, <2>3, <3>1 DEF Put
  <2>4. CASE ~(i < m)
    <3>1. cut = d[b]
      <4>1. cut = [j \in Slots |-> cut[j]] /\ d[b] = [j \in Slots |-> d[b][j]]
        BY <1>1 DEF DirTables
      <4>2. \A j \in Slots : cut[j] = d[b][j]
        BY <2>2, <2>4
      <4> HIDE DEF cut
      <4> QED
        BY <4>1, <4>2, Zenon
    <3> QED
      BY <2>1, <2>4, <3>1
  <2> QED
    BY <2>3, <2>4
<1>3. MaxEntries \in 0 .. MaxEntries /\ i < MaxEntries
  BY Sizes
<1> QED
  BY <1>2, <1>3

-----------------------------------------------------------------------------
(* The invariant of a disk, and the changes that keep it.                  *)

\* A slot of a directory that does not hold its dots.
LEMMA PutDirectory ==
    ASSUME NEW d \in [Blocks -> DirTables], NEW b \in Blocks, NEW i \in Slots \ {0, 1},
           NEW e \in DirEntries
    PROVE  /\ \A c \in Blocks : Put(d, b, i, e)[c][0] = d[c][0] /\ Put(d, b, i, e)[c][1] = d[c][1]
           /\ \A c \in Blocks : IsDirectory(Put(d, b, i, e), c) <=> IsDirectory(d, c)
<1>1. \A c \in Blocks : Put(d, b, i, e)[c][0] = d[c][0] /\ Put(d, b, i, e)[c][1] = d[c][1]
  <2>1. i \in Slots /\ i # 0 /\ i # 1
    OBVIOUS
  <2> QED
    BY <2>1, Sizes DEF Put, DirTables
<1> QED
  BY <1>1 DEF IsDirectory

\* What names something in the table after the change.
LEMMA PutNamed ==
    ASSUME NEW d \in [Blocks -> DirTables], NEW b \in Blocks, NEW i \in Slots, NEW e \in DirEntries
    PROVE  /\ \A x \in Places : Entry(Put(d, b, i, e), x) = IF x = <<b, i>> THEN e ELSE Entry(d, x)
           /\ \A x \in Named(Put(d, b, i, e)) : IF x = <<b, i>> THEN Names(e) ELSE x \in Named(d)
<1>1. ASSUME NEW x \in Places
      PROVE  Entry(Put(d, b, i, e), x) = IF x = <<b, i>> THEN e ELSE Entry(d, x)
  <2>1. x[1] \in Blocks /\ x[2] \in Slots /\ x = <<x[1], x[2]>>
    BY DEF Places
  <2>2. x = <<b, i>> <=> x[1] = b /\ x[2] = i
    BY <2>1
  <2>3. Put(d, b, i, e)[x[1]][x[2]] = IF x[1] = b /\ x[2] = i THEN e ELSE d[x[1]][x[2]]
    BY <2>1 DEF Put, DirTables
  <2> QED
    BY <2>2, <2>3 DEF Entry
<1>2. ASSUME NEW x \in Named(Put(d, b, i, e)) PROVE IF x = <<b, i>> THEN Names(e) ELSE x \in Named(d)
  <2>1. x \in Places /\ Names(Entry(Put(d, b, i, e), x))
    BY DEF Named
  <2>2. Entry(Put(d, b, i, e), x) = IF x = <<b, i>> THEN e ELSE Entry(d, x)
    BY <1>1, <2>1
  <2> QED
    BY <2>1, <2>2 DEF Named
<1> QED
  BY <1>1, <1>2

\* Entries keep what they may name as long as directories stay directories,
\* dots stay, and blocks that are not free stay so.
LEMMA MayNameKept ==
    ASSUME NEW d \in [Blocks -> DirTables], NEW D \in [Blocks -> DirTables], NEW fat, NEW fat2,
           \A b \in Blocks : fat[b] # BLOCK_FREE => fat2[b] # BLOCK_FREE,
           \A b \in Blocks : IsDirectory(d, b) => IsDirectory(D, b) /\ D[b][1] = d[b][1],
           NEW b \in Blocks, NEW e \in DirEntries, MayName(fat, d, b, e)
    PROVE  MayName(fat2, D, b, e)
<1>1. e.start \in Blocks
  BY EntryFields DEF MayName
<1> QED
  BY <1>1 DEF MayName

\* A slot behind the dots of a directory gets an entry that is not in use, or
\* one that may be named there and shares no block with another.
LEMMA PutInv ==
    ASSUME NEW fat, NEW d, DiskInv(fat, d), NEW b \in Blocks, IsDirectory(d, b),
           NEW i \in Slots \ {0, 1}, NEW e \in DirEntries,
           \/ ~e.inUse /\ e.name \in NoNames
           \/ /\ e.inUse /\ e.name \notin NoNames \cup DotNames
              /\ MayName(fat, d, b, e)
              /\ \A x \in Named(d) : x # <<b, i>> => Run(Entry(d, x)) \cap Run(e) = {}
    PROVE  DiskInv(fat, Put(d, b, i, e))
<1> DEFINE D == Put(d, b, i, e)
<1>1. d \in [Blocks -> DirTables] /\ i \in Slots
  BY DEF DiskInv, TablesInv
<1>2. D \in [Blocks -> DirTables]
  BY <1>1, PutTable
<1>3. \A c \in Blocks : c # b => D[c] = d[c]
  BY <1>1 DEF Put
<1>4. \A c \in Blocks : D[c][0] = d[c][0] /\ D[c][1] = d[c][1] /\ (IsDirectory(D, c) <=> IsDirectory(d, c))
  BY <1>1, PutDirectory
<1>5. \A x \in Places : Entry(D, x) = IF x = <<b, i>> THEN e ELSE Entry(d, x)
  BY <1>1, PutNamed
<1>6. \A x \in Named(D) : IF x = <<b, i>> THEN Names(e) ELSE x \in Named(d)
  BY <1>1, PutNamed
<1>7. e.name \notin DotNames /\ (~e.inUse <=> e.name \in NoNames)
  BY DEF NoNames, DotNames
<1>8. Names(e) => /\ MayName(fat, d, b, e)
                  /\ \A x \in Named(d) : x # <<b, i>> => Run(Entry(d, x)) \cap Run(e) = {}
  BY DEF Names
<1> HIDE DEF D
<1>9. TablesInv(fat, D)
  <2>1. ASSUME NEW c \in Blocks, fat[c] = BLOCK_FREE PROVE D[c] = ZeroTable
    <3>1. d[c] = ZeroTable
      BY <2>1 DEF DiskInv, TablesInv
    <3>2. d[b][0].inUse = TRUE
      BY DEF IsDirectory, DirEntry
    <3>3. c # b
      <4>1. ZeroTable[0].inUse = FALSE
        BY ZeroTypes, Sizes
      <4> QED
        BY <3>1, <3>2, <4>1
    <3> QED
      BY <1>3, <3>1, <3>3
  <2>2. ASSUME NEW x \in Places PROVE ~Entry(D, x).inUse <=> Entry(D, x).name \in {"", "NULL"}
    BY <1>5, <1>7, <2>2 DEF DiskInv, TablesInv, NoNames
  <2>3. ASSUME NEW x \in Places, Entry(D, x).name \in {".", ".."}
        PROVE  x[2] \in {0, 1} /\ Entry(D, x).isDir
    <3>1. Entry(D, x) = Entry(d, x)
      BY <1>5, <1>7, <2>3 DEF DotNames
    <3> QED
      BY <2>3, <3>1 DEF DiskInv, TablesInv
  <2> QED
    BY <1>2, <2>1, <2>2, <2>3 DEF TablesInv
<1>10. DirectoriesInv(D)
  BY <1>4, Sizes DEF DiskInv, DirectoriesInv
<1>11. NamedInv(fat, D)
  <2>1. ASSUME NEW x \in Named(D) PROVE MayName(fat, D, x[1], Entry(D, x))
    <3>1. x \in Places /\ x[1] \in Blocks /\ x[2] \in Slots
      BY DEF Named, Places
    <3>2. Entry(D, x) \in DirEntries
      BY <1>2, <3>1 DEF Entry, DirTables
    <3>3. MayName(fat, d, x[1], Entry(D, x))
      <4>1. CASE x = <<b, i>>
        BY <1>5, <1>6, <1>8, <3>1, <4>1
      <4>2. CASE x # <<b, i>>
        BY <1>5, <1>6, <3>1, <4>2 DEF DiskInv, NamedInv
      <4> QED
        BY <4>1, <4>2
    <3> QED
      BY <1>1, <1>2, <1>4, <3>1, <3>2, <3>3, MayNameKept
  <2>2. ASSUME NEW x \in Named(D), NEW y \in Named(D), x # y
        PROVE  Run(Entry(D, x)) \cap Run(Entry(D, y)) = {}
    <3>1. x \in Places /\ y \in Places
      BY DEF Named
    <3>2. CASE x = <<b, i>>
      <4>1. Entry(D, x) = e /\ Entry(D, y) = Entry(d, y) /\ y \in Named(d) /\ Names(e)
        BY <1>5, <1>6, <2>2, <3>1, <3>2
      <4> QED
        BY <1>8, <2>2, <3>2, <4>1
    <3>3. CASE y = <<b, i>>
      <4>1. Entry(D, y) = e /\ Entry(D, x) = Entry(d, x) /\ x \in Named(d) /\ Names(e)
        BY <1>5, <1>6, <2>2, <3>1, <3>3
      <4> QED
        BY <1>8, <2>2, <3>3, <4>1
    <3>4. CASE x # <<b, i>> /\ y # <<b, i>>
      BY <1>5, <1>6, <2>2, <3>1, <3>4 DEF DiskInv, NamedInv
    <3> QED
      BY <3>2, <3>3, <3>4
  <2> QED
    BY <2>1, <2>2 DEF NamedInv
<1> QED
  BY <1>9, <1>10, <1>11 DEF DiskInv, D

\* Blocks that stop being free disturb nothing on the disk.
LEMMA FatGrows ==
    ASSUME NEW fat, NEW fat2, NEW d, DiskInv(fat, d),
           \A b \in Blocks : fat[b] # BLOCK_FREE => fat2[b] # BLOCK_FREE
    PROVE  DiskInv(fat2, d)
<1>1. d \in [Blocks -> DirTables]
  BY DEF DiskInv, TablesInv
<1>2. TablesInv(fat2, d)
  BY DEF DiskInv, TablesInv
<1>3. NamedInv(fat2, d)
  <2>1. ASSUME NEW x \in Named(d) PROVE MayName(fat2, d, x[1], Entry(d, x))
    <3>1. x[1] \in Blocks /\ Entry(d, x) \in DirEntries
      BY <1>1 DEF Named, Places, Entry, DirTables
    <3>2. MayName(fat, d, x[1], Entry(d, x))
      BY DEF DiskInv, NamedInv
    <3> QED
      BY <1>1, <3>1, <3>2, MayNameKept
  <2> QED
    BY <2>1 DEF DiskInv, NamedInv
<1> QED
  BY <1>2, <1>3 DEF DiskInv

IsDotDot(e, size, parent) ==
    /\ e.name = ".." /\ e.isDir = TRUE /\ e.inUse = TRUE
    /\ e.size = size /\ e.start = parent

\* The table of a new directory: "." is itself, ".." the directory b.
LEMMA NewDirectoryTable ==
    ASSUME NEW d \in [Blocks -> DirTables], NEW b \in Blocks, IsDirectory(d, b), NEW a \in Blocks,
           NEW t, t = newDirectory(a, DirBlocks, d[b][0])
    PROVE  /\ t \in DirTables
           /\ t[0] = DirEntry(".", DirBlocks, a)
           /\ IsDotDot(t[1], d[b][0].size, b)
           /\ \A j \in Slots \ {0, 1} : t[j] = ZeroEntry
<1> DEFINE up == [d[b][0] EXCEPT !.name = "..", !.inUse = TRUE]
<1>1. d[b][0] = DirEntry(".", IF b = rootStart THEN RootBlocks ELSE DirBlocks, b)
  BY DEF IsDirectory
<1>2. d[b][0] \in DirEntries /\ d[b][0].start = b /\ d[b][0].isDir = TRUE
  BY <1>1, Sizes DEF DirTables, DirEntry
<1>3. up \in DirEntries /\ IsDotDot(up, d[b][0].size, b)
  BY <1>2 DEF DirEntries, Texts, IsDotDot
<1>4. DirEntry(".", DirBlocks, a) \in DirEntries
  BY Sizes, EntryTypes DEF Texts
<1>5. t = [ZeroTable EXCEPT ![0] = DirEntry(".", DirBlocks, a), ![1] = up]
  BY DEF newDirectory
<1> HIDE DEF up
<1>6. \A j \in Slots : t[j] = IF j = 0 THEN DirEntry(".", DirBlocks, a) ELSE IF j = 1 THEN up ELSE ZeroEntry
  BY <1>5, ZeroTypes, Sizes DEF DirTables
<1>7. t \in DirTables
  BY <1>3, <1>4, <1>5, ZeroTypes DEF DirTables
<1> QED
  BY <1>3, <1>6, <1>7, Sizes

\* The table of a new directory may be written to an empty block, and cut
\* anywhere: nothing names it yet.
LEMMA NewDirectoryInv ==
    ASSUME NEW fat, NEW d, DiskInv(fat, d), NEW b \in Blocks, IsDirectory(d, b),
           NEW a \in Blocks, d[a] = ZeroTable, fat[a] # BLOCK_FREE, a # rootStart,
           NEW w, w = [at |-> a, table |-> newDirectory(a, DirBlocks, d[b][0])],
           NEW k \in 0 .. MaxEntries, NEW D, D = Written(d, w, k)
    PROVE  /\ DiskInv(fat, D)
           /\ a # b /\ \A c \in Blocks : c # a => D[c] = d[c]
           /\ \A c \in Blocks : IsDirectory(d, c) => IsDirectory(D, c) /\ D[c][1] = d[c][1]
           /\ \A x \in Named(D) : x \in Named(d) /\ Entry(D, x) = Entry(d, x)
           /\ k = MaxEntries => D[a] = w.table
<1>1. d \in [Blocks -> DirTables]
  BY DEF DiskInv, TablesInv
<1> DEFINE t == newDirectory(a, DirBlocks, d[b][0])
<1>2. /\ t \in DirTables
      /\ t[0] = DirEntry(".", DirBlocks, a)
      /\ IsDotDot(t[1], d[b][0].size, b)
      /\ \A j \in Slots \ {0, 1} : t[j] = ZeroEntry
  BY <1>1, NewDirectoryTable
<1> HIDE DEF t
<1>3. w.at = a /\ w.table = t
  BY DEF t
<1> DEFINE cut == [j \in Slots |-> IF j < k THEN t[j] ELSE d[a][j]]
<1>4. D = [d EXCEPT ![a] = cut]
  <2>1. D = [d EXCEPT ![w.at] = [j \in Slots |-> IF j < k THEN w.table[j] ELSE d[w.at][j]]]
    BY DEF Written
  <2> QED
    BY <1>3, <2>1
<1>5. /\ cut \in DirTables
      /\ \A j \in Slots : cut[j] = IF j < k THEN t[j] ELSE ZeroEntry
  BY <1>2, ZeroTypes DEF DirTables
<1>6. k = MaxEntries => cut = t
  <2>1. t = [j \in Slots |-> t[j]]
    BY <1>2 DEF DirTables
  <2>2. k = MaxEntries => \A j \in Slots : j < k
    BY Sizes
  <2> QED
    BY <2>1, <2>2
<1> HIDE DEF cut
<1>7. D \in [Blocks -> DirTables] /\ D[a] = cut /\ \A c \in Blocks : c # a => D[c] = d[c]
  BY <1>1, <1>4, <1>5
<1>8. \A c \in Blocks : IsDirectory(d, c) => c # a
  <2>1. \A c \in Blocks : IsDirectory(d, c) => d[c][0].inUse = TRUE
    BY DEF IsDirectory, DirEntry
  <2>2. d[a][0].inUse = FALSE
    BY ZeroTypes, Sizes
  <2> QED
    BY <2>1, <2>2
<1>9. \A c \in Blocks : IsDirectory(d, c) => IsDirectory(D, c) /\ D[c] = d[c]
  BY <1>7, <1>8 DEF IsDirectory
<1>10. \A j \in Slots : \/ cut[j] = ZeroEntry
                        \/ j = 0 /\ cut[j] = DirEntry(".", DirBlocks, a)
                        \/ j = 1 /\ IsDotDot(cut[j], d[b][0].size, b)
  BY <1>2, <1>5
<1>11. /\ ZeroEntry.inUse = FALSE /\ ZeroEntry.name = ""
       /\ \A s : /\ DirEntry(".", s, a).name = "." /\ DirEntry(".", s, a).isDir = TRUE
                 /\ DirEntry(".", s, a).inUse = TRUE
  BY DEF ZeroEntry, DirEntry
<1>12. ASSUME NEW j \in Slots
       PROVE  /\ ~Names(cut[j])
              /\ ~cut[j].inUse <=> cut[j].name \in {"", "NULL"}
              /\ cut[j].name \in {".", ".."} => j \in {0, 1} /\ cut[j].isDir
  <2>1. CASE cut[j] = ZeroEntry
    BY <1>11, <2>1 DEF Names
  <2>2. CASE j = 0 /\ cut[j] = DirEntry(".", DirBlocks, a)
    BY <1>11, <2>2 DEF Names
  <2>3. CASE j = 1 /\ IsDotDot(cut[j], d[b][0].size, b)
    BY <2>3 DEF Names, IsDotDot
  <2> QED
    BY <1>10, <2>1, <2>2, <2>3
<1>13. \A x \in Places : IF x[1] = a THEN Entry(D, x) = cut[x[2]] /\ x[2] \in Slots ELSE Entry(D, x) = Entry(d, x)
  BY <1>7 DEF Places, Entry
<1>14. \A x \in Named(D) : x \in Named(d) /\ Entry(D, x) = Entry(d, x)
  BY <1>12, <1>13 DEF Named
<1>15. TablesInv(fat, D)
  <2>1. \A c \in Blocks : fat[c] = BLOCK_FREE => D[c] = ZeroTable
    BY <1>7 DEF DiskInv, TablesInv
  <2>2. ASSUME NEW x \in Places
        PROVE  /\ ~Entry(D, x).inUse <=> Entry(D, x).name \in {"", "NULL"}
               /\ Entry(D, x).name \in {".", ".."} => x[2] \in {0, 1} /\ Entry(D, x).isDir
    <3>1. CASE x[1] = a
      BY <1>12, <1>13, <3>1
    <3>2. CASE x[1] # a
      BY <1>13, <3>2 DEF DiskInv, TablesInv
    <3> QED
      BY <3>1, <3>2
  <2> QED
    BY <1>7, <2>1, <2>2 DEF TablesInv
<1>16. DirectoriesInv(D)
  <2>1. IsDirectory(D, rootStart)
    BY <1>9, Sizes DEF DiskInv, DirectoriesInv
  <2>2. ASSUME NEW c \in Blocks, IsDirectory(D, c)
        PROVE  /\ D[c][1].start \in Blocks /\ IsDirectory(D, D[c][1].start)
               /\ D[c][1].size = D[D[c][1].start][0].size
    <3>1. CASE c = a
      <4>1. cut[1].name = ".."
        BY <1>7, <2>2, <3>1 DEF IsDirectory
      <4>2. cut[1] # ZeroEntry
        BY <1>11, <4>1
      <4>3. D[a][1].start = b /\ D[a][1].size = d[b][0].size
        BY <1>7, <1>10, <4>2, Sizes DEF IsDotDot
      <4> QED
        BY <1>9, <3>1, <4>3
    <3>2. CASE c # a
      <4>1. IsDirectory(d, c) /\ D[c] = d[c]
        BY <1>7, <2>2, <3>2 DEF IsDirectory
      <4>2. /\ d[c][1].start \in Blocks /\ IsDirectory(d, d[c][1].start)
            /\ d[c][1].size = d[d[c][1].start][0].size
        BY <4>1 DEF DiskInv, DirectoriesInv
      <4> QED
        BY <1>9, <4>1, <4>2
    <3> QED
      BY <3>1, <3>2
  <2> QED
    BY <2>1, <2>2 DEF DirectoriesInv
<1>17. NamedInv(fat, D)
  <2>1. ASSUME NEW x \in Named(D) PROVE MayName(fat, D, x[1], Entry(D, x))
    <3>1. x \in Named(d) /\ Entry(D, x) = Entry(d, x) /\ x[1] \in Blocks /\ Entry(d, x) \in DirEntries
      BY <1>1, <1>14 DEF Named, Places, Entry, DirTables
    <3>2. MayName(fat, d, x[1], Entry(d, x))
      BY <3>1 DEF DiskInv, NamedInv
    <3> QED
      BY <1>1, <1>7, <1>9, <3>1, <3>2, MayNameKept
  <2> QED
    BY <1>14, <2>1 DEF DiskInv, NamedInv
<1> QED
  BY <1>3, <1>6, <1>7, <1>8, <1>9, <1>14, <1>15, <1>16, <1>17 DEF DiskInv

-----------------------------------------------------------------------------
(* Searching a table, and walking a path.                                  *)

\* The slot of a name, and the first slot not in use.
LEMMA Search ==
    ASSUME NEW table, NEW name
    PROVE  /\ \/ findInDirectory(table, name) = -1 /\ \A i \in Slots : table[i].name # name
              \/ findInDirectory(table, name) \in Slots /\ table[findInDirectory(table, name)].name = name
           /\ \/ FreeSlot(table) = -1
              \/ FreeSlot(table) \in Slots /\ ~table[FreeSlot(table)].inUse
<1> DEFINE hits == {i \in Slots : table[i].name = name}
           free == {i \in Slots : ~table[i].inUse}
<1>1. hits \subseteq Nat /\ free \subseteq Nat
  BY Sizes
<1>2. hits # {} => Min(hits) \in hits
  BY <1>1, MinNat
<1>3. free # {} => Min(free) \in free
  BY <1>1, MinNat
<1> QED
  BY <1>2, <1>3 DEF findInDirectory, FreeSlot

\* What directory entries with a name of a path may be.
LEMMA NamedSlot ==
    ASSUME NEW fat, NEW d, DiskInv(fat, d), NEW b \in Blocks, IsDirectory(d, b),
           NEW i \in Slots, d[b][i].name \notin NoNames
    PROVE  /\ d[b][i] \in DirEntries /\ d[b][i].inUse
           /\ d[b][i].name = "." => d[b][i].start = b
           /\ d[b][i].name \notin DotNames => i \notin {0, 1} /\ <<b, i>> \in Named(d) /\ Entry(d, <<b, i>>) = d[b][i]
           /\ d[b][i].isDir => d[b][i].start \in Blocks /\ IsDirectory(d, d[b][i].start)
           /\ ~d[b][i].isDir => d[b][i].name \notin DotNames
<1>1. d \in [Blocks -> DirTables] /\ d[b][i] \in DirEntries
  BY DEF DiskInv, TablesInv, DirTables
<1>2. <<b, i>> \in Places /\ Entry(d, <<b, i>>) = d[b][i]
  BY DEF Places, Entry
<1>3. d[b][i].inUse
  BY <1>2 DEF DiskInv, TablesInv, NoNames
<1>4. d[b][i].name \in DotNames => d[b][i].isDir
  BY <1>2 DEF DiskInv, TablesInv, DotNames
<1>5. d[b][0].name = "." /\ d[b][0].start = b /\ d[b][1].name = ".."
  BY DEF IsDirectory, DirEntry
<1>6. d[b][i].name \in DotNames => i \in {0, 1}
  <2>1. d[b][i].name \in DotNames => <<b, i>>[2] \in {0, 1}
    BY <1>2 DEF DiskInv, TablesInv, DotNames
  <2> QED
    BY <2>1
<1>7. d[b][i].name = "." => i = 0
  BY <1>5, <1>6 DEF DotNames
<1>8. d[b][i].name = ".." => i = 1
  BY <1>5, <1>6 DEF DotNames
<1>9. d[b][i].name \notin DotNames => i \notin {0, 1} /\ <<b, i>> \in Named(d)
  BY <1>2, <1>3, <1>5 DEF Named, Names, DotNames
<1>10. ASSUME d[b][i].isDir PROVE d[b][i].start \in Blocks /\ IsDirectory(d, d[b][i].start)
  <2>1. CASE d[b][i].name = "."
    BY <1>5, <1>7, <2>1
  <2>2. CASE d[b][i].name = ".."
    BY <1>8, <2>2 DEF DiskInv, DirectoriesInv
  <2>3. CASE d[b][i].name \notin DotNames
    <3>1. MayName(fat, d, b, d[b][i])
      <4>1. MayName(fat, d, <<b, i>>[1], Entry(d, <<b, i>>))
        BY <1>9, <2>3 DEF DiskInv, NamedInv
      <4> QED
        BY <1>2, <4>1
    <3>2. d[b][i].start \in Run(d[b][i])
      BY <1>1, EntryFields
    <3> QED
      BY <1>10, <3>1, <3>2 DEF MayName
  <2> QED
    BY <2>1, <2>2, <2>3 DEF DotNames
<1> QED
  BY <1>1, <1>2, <1>3, <1>4, <1>5, <1>7, <1>9, <1>10

\* A directory on the disk is not empty: its dots are in use.
LEMMA FreeSlotBehindDots ==
    ASSUME NEW d, NEW b, IsDirectory(d, b), FreeSlot(d[b]) # -1
    PROVE  FreeSlot(d[b]) \in Slots \ {0, 1} /\ ~d[b][FreeSlot(d[b])].inUse
<1>1. d[b][0].inUse /\ d[b][1].inUse
  BY DEF IsDirectory, DirEntry
<1>2. FreeSlot(d[b]) \in Slots /\ ~d[b][FreeSlot(d[b])].inUse
  BY Search
<1> QED
  BY <1>1, <1>2

\* What the program keeps in memory of a disk.
CachesOn(d, rt, cw, isRoot) ==
    /\ rt = d[rootStart]
    /\ isRoot \in BOOLEAN
    /\ isRoot => cw = ZeroTable
    /\ ~isRoot => /\ cw[0].start \in Blocks \ {rootStart}
                  /\ IsDirectory(d, cw[0].start) /\ cw = d[cw[0].start]

\* Between two operations.
Ready ==
    /\ pending = <<>>
    /\ DiskInv(vol.fat, disk)
    /\ CachesOn(disk, root, cwd, cwdIsRoot)
    /\ cwdPath \in Seq(PathNames \ DotNames)

\* A table found on the way is that of the directory at block b.
Opened(ref, table, b) ==
    /\ b \in Blocks /\ IsDirectory(disk, b) /\ table = disk[b]
    /\ ref = "root" => b = rootStart
    /\ ref = "cwd" => ~cwdIsRoot /\ b = cwd[0].start
    /\ ref \in {"root", "cwd", "copy"}

Stops == {at \in [code : {0, -1, -2}, ref : {"root", "cwd", "copy"}, table : DirTables] :
            at.code = 0 => \E b \in Blocks : Opened(at.ref, at.table, b)}

\* A path starts at a table in use.
LEMMA FirstStop ==
    ASSUME Ready, NEW p
    PROVE  FirstTable(p) \in Stops /\ FirstTable(p).code = 0
<1>1. disk \in [Blocks -> DirTables] /\ IsDirectory(disk, rootStart)
  BY DEF Ready, DiskInv, TablesInv, DirectoriesInv
<1>2. root \in DirTables /\ Opened("root", root, rootStart)
  BY <1>1, Sizes DEF Ready, CachesOn, Opened
<1>3. ~cwdIsRoot => cwd \in DirTables /\ Opened("cwd", cwd, cwd[0].start)
  BY <1>1 DEF Ready, CachesOn, Opened
<1>4. CASE p.abs \/ cwdIsRoot
  <2>1. FirstTable(p) = [code |-> 0, ref |-> "root", table |-> root]
    BY <1>4 DEF FirstTable
  <2> QED
    BY <1>2, <2>1, Sizes DEF Stops
<1>5. CASE ~(p.abs \/ cwdIsRoot)
  <2>1. FirstTable(p) = [code |-> 0, ref |-> "cwd", table |-> cwd]
    BY <1>5 DEF FirstTable
  <2>2. cwd[0].start \in Blocks /\ Opened("cwd", cwd, cwd[0].start)
    BY <1>3, <1>5 DEF Opened
  <2> QED
    BY <1>3, <1>5, <2>1, <2>2 DEF Stops
<1> QED
  BY <1>4, <1>5

\* A step along a path leads to a table on the disk, or says that there is none.
LEMMA NextStop ==
    ASSUME Ready, NEW at \in Stops, NEW name, name \notin NoNames
    PROVE  EnterTable(at, name) \in Stops
<1> DEFINE i == findInDirectory(at.table, name)
<1>1. ZeroTable \in DirTables /\ disk \in [Blocks -> DirTables]
  BY ZeroTypes DEF Ready, DiskInv, TablesInv
<1>2. CASE at.code # 0
  BY <1>2 DEF EnterTable
<1>3. CASE at.code = 0 /\ i = -1
  BY <1>1, <1>3 DEF EnterTable, Stops
<1>4. CASE at.code = 0 /\ i # -1 /\ ~at.table[i].isDir
  BY <1>1, <1>4 DEF EnterTable, Stops
<1>5. CASE at.code = 0 /\ i # -1 /\ at.table[i].isDir
  <2>1. PICK b \in Blocks : Opened(at.ref, at.table, b)
    BY <1>5 DEF Stops
  <2>2. i \in Slots /\ at.table[i].name = name
    BY <1>5, Search
  <2> DEFINE c == at.table[i].start
  <2>3. c \in Blocks /\ IsDirectory(disk, c)
    <3>1. at.table = disk[b] /\ IsDirectory(disk, b) /\ DiskInv(vol.fat, disk)
      BY <2>1 DEF Opened, Ready
    <3> HIDE DEF i
    <3>2. i \in Slots /\ disk[b][i].name \notin NoNames /\ disk[b][i].isDir /\ c = disk[b][i].start
      BY <1>5, <2>2, <3>1
    <3>3. disk[b][i].isDir => disk[b][i].start \in Blocks /\ IsDirectory(disk, disk[b][i].start)
      BY <3>1, <3>2, NamedSlot
    <3> QED
      BY <3>2, <3>3
  <2>4. EnterTable(at, name) = [code |-> 0, ref |-> "copy", table |-> disk[c]]
    BY <1>5 DEF EnterTable
  <2> HIDE DEF c, i
  <2>5. Opened("copy", disk[c], c) /\ disk[c] \in DirTables
    BY <1>1, <2>3 DEF Opened
  <2> QED
    BY <2>3, <2>4, <2>5 DEF Stops
<1> QED
  BY <1>2, <1>3, <1>4, <1>5 DEF Stops

\* The path names that the lemmas below take.
Walkable(p) == p.names \in Seq(PathNames) /\ PathNames \cap NoNames = {}

\* parsePath, one table after the other.
ParsesBy(p, r, at) ==
    LET n == Len(p.names) - 1
    IN  /\ n \in Nat /\ (\A k \in 1 .. n : p.names[k] \in PathNames) /\ Last(p.names) \in PathNames
        /\ at[0] = FirstTable(p) /\ \A k \in 0 .. n - 1 : at[k + 1] = EnterTable(at[k], p.names[k + 1])
        /\ \A k \in 0 .. n : at[k] \in Stops
        /\ r.code = at[n].code /\ r.ref = at[n].ref /\ r.table = at[n].table
        /\ r.index = findInDirectory(at[n].table, Last(p.names)) /\ r.name = Last(p.names)

\* It is well defined.
LEMMA ParsedBy ==
    ASSUME Ready, NEW p, Walkable(p), NEW r, r = parsePath(p), p.names # <<>>
    PROVE  \E at : ParsesBy(p, r, at)
<1> DEFINE n == Len(p.names) - 1
           F(w) == [k \in 0 .. n |-> IF k = 0 THEN FirstTable(p) ELSE EnterTable(w[k - 1], p.names[k])]
           at == CHOOSE w : w = F(w)
           step == [k \in 1 .. n |-> [s \in Stops |-> EnterTable(s, p.names[k])]]
<1>2. n \in Nat /\ (\A k \in 1 .. n : p.names[k] \in PathNames) /\ Last(p.names) \in PathNames
  <2>1. Len(p.names) \in Nat \ {0} /\ \A k \in 1 .. Len(p.names) : p.names[k] \in PathNames
    BY DEF Walkable
  <2> QED
    BY <2>1 DEF Last
<1>3. FirstTable(p) \in Stops /\ step \in [1 .. n -> [Stops -> Stops]]
  <2>1. ASSUME NEW k \in 1 .. n, NEW s \in Stops PROVE EnterTable(s, p.names[k]) \in Stops
    <3>1. p.names[k] \notin NoNames
      BY <1>2 DEF Walkable
    <3> QED
      BY <3>1, NextStop
  <2> QED
    BY <2>1, FirstStop
<1>4. PICK v \in [0 .. n -> Stops] : v[0] = FirstTable(p) /\ \A k \in 1 .. n : v[k] = step[k][v[k - 1]]
  <2> DEFINE S == Stops
             base == FirstTable(p)
  <2>1. n \in Nat /\ base \in S /\ step \in [1 .. n -> [S -> S]]
    BY <1>2, <1>3
  <2> HIDE DEF n, step, S, base
  <2>2. \E v \in [0 .. n -> S] : v[0] = base /\ \A k \in 1 .. n : v[k] = step[k][v[k - 1]]
    BY <2>1, Iteration
  <2> QED
    BY <2>2 DEF S, base
<1>5. v = F(v)
  <2>1. \A k \in 1 .. n : v[k - 1] \in Stops
    OBVIOUS
  <2>2. \A k \in 1 .. n : v[k] = EnterTable(v[k - 1], p.names[k])
    BY <1>4, <2>1
  <2> HIDE DEF n, step
  <2>3. ASSUME NEW k \in 0 .. n
        PROVE  v[k] = IF k = 0 THEN FirstTable(p) ELSE EnterTable(v[k - 1], p.names[k])
    <3>1. k # 0 => k \in 1 .. n
      BY <1>2
    <3> QED
      BY <1>4, <2>2, <3>1
  <2>4. v = [k \in 0 .. n |-> v[k]]
    OBVIOUS
  <2> QED
    BY <2>3, <2>4, Zenon
<1>6. at = F(at)
  <2> HIDE DEF F
  <2> QED
    BY <1>5
<1>7. at[0] = FirstTable(p) /\ \A k \in 0 .. n - 1 : at[k + 1] = EnterTable(at[k], p.names[k + 1])
  <2> HIDE DEF at, n
  <2> QED
    BY <1>2, <1>6
<1>10. \A k \in 0 .. n : at[k] \in Stops
  <2> HIDE DEF n, at
  <2> DEFINE P == {k \in 0 .. n : at[k] \in Stops}
  <2>2. ASSUME NEW k \in 0 .. n - 1, k \in P PROVE k + 1 \in P
    <3>1. k + 1 \in 1 .. n /\ at[k] \in Stops
      BY <1>2, <2>2
    <3>2. p.names[k + 1] \notin NoNames
      BY <1>2, <3>1 DEF Walkable
    <3> QED
      BY <1>7, <3>1, <3>2, NextStop
  <2>3. 0 \in P
    BY <1>2, <1>3, <1>7
  <2> HIDE DEF P
  <2>4. 0 .. n \subseteq P
    BY <1>2, <2>2, <2>3, BoundedInduction
  <2> QED
    BY <2>4 DEF P
<1>8. r = [code |-> at[n].code, ref |-> at[n].ref, table |-> at[n].table,
           index |-> findInDirectory(at[n].table, Last(p.names)), name |-> Last(p.names)]
  BY DEF parsePath
<1> HIDE DEF at, n
<1>9. /\ r.code = at[n].code /\ r.ref = at[n].ref /\ r.table = at[n].table
      /\ r.index = findInDirectory(at[n].table, Last(p.names)) /\ r.name = Last(p.names)
  BY <1>8
<1>11. n = Len(p.names) - 1
  BY DEF n
<1> QED
  BY <1>2, <1>7, <1>9, <1>10, <1>11 DEF ParsesBy

\* parsePath ends in a directory of the disk, at the slot of the last name.
LEMMA ParsedPath ==
    ASSUME Ready, NEW p, Walkable(p), NEW r, r = parsePath(p), r.code = 0, r.index # -2
    PROVE  \E b \in Blocks :
             /\ Opened(r.ref, r.table, b)
             /\ r.name \in PathNames
             /\ \/ r.index = -1 /\ \A i \in Slots : disk[b][i].name # r.name
                \/ r.index \in Slots /\ disk[b][r.index].name = r.name
<1>5. p.names # <<>>
  <2>1. p.names = <<>> => r.index = -2
    BY DEF parsePath
  <2> QED
    BY <2>1
<1>1. PICK at : ParsesBy(p, r, at)
  BY <1>5, ParsedBy
<1> DEFINE n == Len(p.names) - 1
<1>2. /\ Last(p.names) \in PathNames /\ at[n] \in Stops
      /\ r.code = at[n].code /\ r.ref = at[n].ref /\ r.table = at[n].table
      /\ r.index = findInDirectory(at[n].table, Last(p.names)) /\ r.name = Last(p.names)
  BY <1>1 DEF ParsesBy
<1> HIDE DEF n
<1>3. PICK b \in Blocks : Opened(r.ref, r.table, b)
  BY <1>2 DEF Stops
<1>4. r.table = disk[b]
  BY <1>3 DEF Opened
<1> QED
  BY <1>2, <1>3, <1>4, Search

\* normalizePathname leaves names that are no dots.
LEMMA ResolvedName ==
    ASSUME NEW names \in Seq(PathNames \ DotNames), NEW token \in PathNames
    PROVE  Resolve(names, token) \in Seq(PathNames \ DotNames)
<1> DEFINE S == PathNames \ DotNames
<1>1. CASE token = "."
  BY <1>1 DEF Resolve
<1>2. CASE token = ".."
  <2>1. CASE names = <<>>
    BY <1>2, <2>1 DEF Resolve
  <2>2. CASE names # <<>>
    <3>1. Front(names) \in Seq(S)
      <4> HIDE DEF S
      <4>1. names \in Seq(S) /\ Len(names) \in Nat /\ Len(names) > 0
        BY <2>2 DEF S
      <4>2. \A k \in 1 .. Len(names) - 1 : names[k] \in S
        BY <4>1
      <4>3. Front(names) = SubSeq(names, 1, Len(names) - 1)
        BY DEF Front
      <4> QED
        BY <4>1, <4>2, <4>3
    <3> QED
      BY <1>2, <2>2, <3>1 DEF Resolve
  <2> QED
    BY <2>1, <2>2
<1>3. CASE token \notin DotNames
  <2>1. Append(names, token) \in Seq(S)
    BY <1>3
  <2> QED
    BY <1>3, <2>1 DEF Resolve, DotNames
<1> QED
  BY <1>1, <1>2, <1>3 DEF DotNames

\* normalizePathname leaves no dots.
LEMMA NormalizedPath ==
    ASSUME Ready, NEW p, Walkable(p)
    PROVE  normalizePathname(p) \in Seq(PathNames \ DotNames)
<1> DEFINE n == Len(p.names)
           S == Seq(PathNames \ DotNames)
           base == IF p.abs THEN <<>> ELSE cwdPath
           F(w) == [k \in 0 .. n |-> IF k = 0 THEN base ELSE Resolve(w[k - 1], p.names[k])]
           done == CHOOSE w : w = F(w)
           step == [k \in 1 .. n |-> [s \in S |-> Resolve(s, p.names[k])]]
<1>1. n \in Nat /\ \A k \in 1 .. n : p.names[k] \in PathNames
  BY DEF Walkable
<1>2. base \in S /\ step \in [1 .. n -> [S -> S]]
  <2>1. ASSUME NEW k \in 1 .. n, NEW s \in S PROVE Resolve(s, p.names[k]) \in S
    BY <1>1, ResolvedName
  <2>2. base \in S
    BY DEF Ready
  <2> QED
    BY <2>1, <2>2
<1>3. PICK v \in [0 .. n -> S] : v[0] = base /\ \A k \in 1 .. n : v[k] = step[k][v[k - 1]]
  <2>1. n \in Nat /\ base \in S /\ step \in [1 .. n -> [S -> S]]
    BY <1>1, <1>2
  <2> HIDE DEF n, step, S, base
  <2>2. \E v \in [0 .. n -> S] : v[0] = base /\ \A k \in 1 .. n : v[k] = step[k][v[k - 1]]
    BY <2>1, Iteration
  <2> QED
    BY <2>2
<1>4. v = F(v)
  <2>1. \A k \in 1 .. n : v[k - 1] \in S
    OBVIOUS
  <2>2. \A k \in 1 .. n : v[k] = Resolve(v[k - 1], p.names[k])
    BY <1>3, <2>1
  <2> HIDE DEF n, step, base, S
  <2>3. ASSUME NEW k \in 0 .. n
        PROVE  v[k] = IF k = 0 THEN base ELSE Resolve(v[k - 1], p.names[k])
    <3>1. k # 0 => k \in 1 .. n
      BY <1>1
    <3> QED
      BY <1>3, <2>2, <3>1
  <2>4. v = [k \in 0 .. n |-> v[k]]
    OBVIOUS
  <2> QED
    BY <2>3, <2>4, Zenon
<1>5. done = F(done)
  <2> HIDE DEF F
  <2> QED
    BY <1>4
<1>6. done[n] \in S
  <2> HIDE DEF n, S, base
  <2>1. done[0] = base /\ \A k \in 0 .. n - 1 : done[k + 1] = Resolve(done[k], p.names[k + 1])
    <3> HIDE DEF done
    <3> QED
      BY <1>1, <1>5
  <2> DEFINE P == {k \in 0 .. n : done[k] \in S}
  <2>2. ASSUME NEW k \in 0 .. n - 1, k \in P PROVE k + 1 \in P
    <3>1. k + 1 \in 0 .. n /\ p.names[k + 1] \in PathNames /\ done[k] \in S
      BY <1>1, <2>2
    <3> HIDE DEF done
    <3>2. Resolve(done[k], p.names[k + 1]) \in S
      BY <3>1, ResolvedName DEF S
    <3> QED
      BY <2>1, <3>1, <3>2
  <2>3. 0 \in P
    <3> HIDE DEF done
    <3> QED
      BY <1>1, <1>2, <2>1
  <2> HIDE DEF P
  <2>4. 0 .. n \subseteq P
    BY <1>1, <2>2, <2>3, BoundedInduction
  <2> QED
    BY <1>1, <2>4 DEF P
<1>7. normalizePathname(p) = done[n]
  BY DEF normalizePathname
<1> QED
  BY <1>6, <1>7

-----------------------------------------------------------------------------
(* The queue of writes, and what the program keeps.                        *)

QueueInv(fat, d, q) ==
    /\ DiskInv(fat, d)
    /\ q \in Seq(Writes) /\ Len(q) <= 2
    /\ \A k \in 1 .. Len(q) : SafeWrite(fat, DiskAfter(d, q, k - 1), q[k])

\* Entry e is a finished chain, and has the size of its content.
Holds(fat, e, st) == ChainInv(fat, e) /\ (e.start \in st => e.size > 0)

\* The invariant after a step, part by part: how the proofs about the
\* operations establish it.
LEMMA Established ==
    ASSUME NEW D, D = DiskAfter(disk', pending', Len(pending')),
           Tidy(vol'), \A b \in RootRun : vol'.fat[b] # BLOCK_FREE,
           QueueInv(vol'.fat, disk', pending'),
           ~Crashes => \A x \in Named(D) : Holds(vol'.fat, Entry(D, x), stored'),
           \A s \in stored' : s \in Blocks /\ vol'.fat[s] # BLOCK_FREE,
           CachesOn(D, root', cwd', cwdIsRoot'),
           cwdIsRoot' => cwdPath' = <<>>,
           cwdPath' \in Seq(PathNames \ DotNames)
    PROVE  IInv'
<1>1. VolumeInv'
  <2>1. /\ vol' \in [fat : [Blocks -> Words], head : Words] /\ vol'.head > 0
        /\ \A b, c \in Blocks : vol'.fat[b] = BLOCK_FREE /\ b < c => vol'.fat[c] = BLOCK_FREE
        /\ \A b \in Blocks : vol'.fat[b] = BLOCK_FREE => vol'.head <= b /\ b # 0
    BY DEF Tidy, TailFree, Volumes, Tables
  <2>2. \A b \in Blocks : vol'.fat[b] = BLOCK_FREE => vol'.head <= b /\ b \notin {0} \cup RootRun
    BY <2>1
  <2> QED
    BY <2>1, <2>2 DEF VolumeInv
<1>2. PendingInv'
  BY DEF PendingInv, QueueInv
<1>3. Settled' = D
  BY DEF Settled
<1>4. ChainsInv'
  BY <1>3 DEF ChainsInv, Holds
<1>5. StoredInv'
  BY DEF StoredInv
<1>6. CachesInv'
  BY <1>3 DEF CachesInv, CachesOn, DotNames
<1> QED
  BY <1>1, <1>2, <1>4, <1>5, <1>6 DEF IInv

\* What the invariant says between two operations.
LEMMA BetweenOperations ==
    ASSUME IInv, pending = <<>>
    PROVE  /\ Ready /\ Settled = disk
           /\ Tidy(vol) /\ \A b \in RootRun : vol.fat[b] # BLOCK_FREE
           /\ ~Crashes => \A x \in Named(disk) : Holds(vol.fat, Entry(disk, x), stored)
           /\ \A s \in stored : s \in Blocks /\ vol.fat[s] # BLOCK_FREE
           /\ cwdIsRoot => cwdPath = <<>>
<1>1. Settled = disk
  BY DEF Settled, DiskAfter
<1>2. Tidy(vol) /\ \A b \in RootRun : vol.fat[b] # BLOCK_FREE
  BY Sizes DEF IInv, VolumeInv, Tidy, TailFree, Volumes, Tables
<1>3. Ready
  BY <1>1 DEF Ready, IInv, PendingInv, CachesInv, CachesOn, DotNames
<1> QED
  BY <1>1, <1>2, <1>3 DEF IInv, ChainsInv, Holds, StoredInv, CachesInv

\* No write is queued,
LEMMA EmptyQueue ==
    ASSUME NEW fat, NEW d, DiskInv(fat, d)
    PROVE  QueueInv(fat, d, <<>>) /\ DiskAfter(d, <<>>, Len(<<>>)) = d
  BY DEF QueueInv, DiskAfter

\* one write,
LEMMA OneWrite ==
    ASSUME NEW fat, NEW d, DiskInv(fat, d), NEW w, SafeWrite(fat, d, w)
    PROVE  /\ QueueInv(fat, d, <<w>>)
           /\ DiskAfter(d, <<w>>, Len(<<w>>)) = Written(d, w, MaxEntries)
<1>1. Len(<<w>>) = 1 /\ <<w>>[1] = w
  OBVIOUS
<1>2. DiskAfter(d, <<w>>, 0) = d /\ DiskAfter(d, <<w>>, 1) = Written(d, w, MaxEntries)
  BY DEF DiskAfter
<1>3. \A k \in 1 .. Len(<<w>>) : k = 1 /\ k - 1 = 0
  BY <1>1
<1>4. <<w>> \in Seq(Writes)
  BY DEF SafeWrite
<1> QED
  BY <1>1, <1>2, <1>3, <1>4 DEF QueueInv

\* or two, each safe on the disk the one before it leaves.
LEMMA TwoWrites ==
    ASSUME NEW fat, NEW d, DiskInv(fat, d), NEW w, SafeWrite(fat, d, w),
           NEW w2, SafeWrite(fat, Written(d, w, MaxEntries), w2)
    PROVE  /\ QueueInv(fat, d, <<w>> \o <<w2>>)
           /\ DiskAfter(d, <<w>> \o <<w2>>, Len(<<w>> \o <<w2>>))
                = Written(Written(d, w, MaxEntries), w2, MaxEntries)
<1> DEFINE q == <<w>> \o <<w2>>
<1>1. q \in Seq(Writes) /\ Len(q) = 2 /\ q[1] = w /\ q[2] = w2
  <2>1. <<w>> \in Seq(Writes) /\ <<w2>> \in Seq(Writes) /\ Len(<<w>>) = 1 /\ Len(<<w2>>) = 1
    BY DEF SafeWrite
  <2>2. q \in Seq(Writes) /\ Len(q) = 2 /\ \A k \in 1 .. 2 : q[k] = IF k <= 1 THEN <<w>>[k] ELSE <<w2>>[k - 1]
    BY <2>1, ConcatProperties
  <2> HIDE DEF q
  <2> QED
    BY <2>2
<1> HIDE DEF q
<1>2. /\ DiskAfter(d, q, 0) = d
      /\ DiskAfter(d, q, 1) = Written(d, w, MaxEntries)
      /\ DiskAfter(d, q, 2) = Written(Written(d, w, MaxEntries), w2, MaxEntries)
  BY <1>1 DEF DiskAfter
<1>3. \A k \in 1 .. Len(q) : (k = 1 /\ k - 1 = 0) \/ (k = 2 /\ k - 1 = 1)
  BY <1>1
<1>4. \A k \in 1 .. Len(q) : SafeWrite(fat, DiskAfter(d, q, k - 1), q[k])
  BY <1>1, <1>2, <1>3
<1> QED
  BY <1>1, <1>2, <1>4 DEF QueueInv, q

\* The write of a directory that differs from the disk in one slot.
LEMMA SlotWrite ==
    ASSUME NEW fat, NEW d, DiskInv(fat, d), NEW b \in Blocks, IsDirectory(d, b),
           NEW i \in Slots \ {0, 1}, NEW e \in DirEntries, DiskInv(fat, Put(d, b, i, e))
    PROVE  /\ SafeWrite(fat, d, ChangedWrite(d, b, i, e))
           /\ Written(d, ChangedWrite(d, b, i, e), MaxEntries) = Put(d, b, i, e)
           /\ Save(Changed(d, b, i, e)) = <<ChangedWrite(d, b, i, e)>>
<1> DEFINE t == [d[b] EXCEPT ![i] = e]
           w == [at |-> b, table |-> t]
<1>1. d \in [Blocks -> DirTables] /\ i \in Slots /\ d[b] \in DirTables
  BY DEF DiskInv, TablesInv
<1>2. t \in DirTables /\ t[0] = d[b][0]
  BY <1>1, Sizes DEF DirTables
<1>3. w \in Writes
  BY <1>2 DEF Writes
<1>4. \A k \in 0 .. MaxEntries : /\ Written(d, w, k) = IF i < k THEN Put(d, b, i, e) ELSE d
                                 /\ Written(d, w, MaxEntries) = Put(d, b, i, e)
  BY <1>1, WrittenSlot
<1>5. Cuts \subseteq 0 .. MaxEntries /\ MaxEntries \in 0 .. MaxEntries
  BY Sizes DEF Cuts
<1>6. SafeWrite(fat, d, w)
  BY <1>3, <1>4, <1>5 DEF SafeWrite
<1>7. t[0].size # 0 /\ t[0].start = b
  BY <1>2, Sizes DEF IsDirectory, DirEntry
<1>8. Save(t) = <<w>>
  BY <1>7 DEF Save
<1>9. t = Changed(d, b, i, e) /\ w = ChangedWrite(d, b, i, e)
  BY DEF Changed, ChangedWrite
<1> HIDE DEF t, w
<1> QED
  BY <1>4, <1>5, <1>6, <1>8, <1>9

\* The caches after the table at block b has changed behind its dots.
LEMMA Remembered ==
    ASSUME NEW d \in [Blocks -> DirTables], NEW rt, NEW cw, NEW isRoot, CachesOn(d, rt, cw, isRoot),
           NEW b \in Blocks, IsDirectory(d, b), IsDirectory(d, rootStart),
           NEW i \in Slots \ {0, 1}, NEW e \in DirEntries, NEW t, t = Changed(d, b, i, e),
           NEW ref, ref = "root" => b = rootStart,
           ref = "cwd" => ~isRoot /\ b = cw[0].start,
           ref \notin {"root", "cwd"} => b # rootStart /\ (~isRoot => b # cw[0].start)
    PROVE  CachesOn(Put(d, b, i, e), IF ref = "root" THEN t ELSE rt, IF ref = "cwd" THEN t ELSE cw, isRoot)
<1> DEFINE D == Put(d, b, i, e)
<1>1. i \in Slots /\ \A c \in Blocks : D[c] = IF c = b THEN t ELSE d[c]
  BY DEF Put, Changed
<1>2. \A c \in Blocks : IsDirectory(D, c) <=> IsDirectory(d, c)
  BY PutDirectory
<1>3. t[0] = d[b][0] /\ d[b][0].start = b
  BY Sizes DEF DirTables, IsDirectory, DirEntry, Changed
<1> HIDE DEF D
<1>4. (IF ref = "root" THEN t ELSE rt) = D[rootStart]
  BY <1>1, Sizes DEF CachesOn
<1>5. ASSUME ~isRoot
      PROVE  LET c == (IF ref = "cwd" THEN t ELSE cw)[0].start
             IN  /\ c \in Blocks \ {rootStart} /\ IsDirectory(D, c)
                 /\ (IF ref = "cwd" THEN t ELSE cw) = D[c]
  <2>1. cw[0].start \in Blocks \ {rootStart} /\ IsDirectory(d, cw[0].start) /\ cw = d[cw[0].start]
    BY <1>5 DEF CachesOn
  <2>2. CASE ref = "cwd"
    BY <1>1, <1>2, <1>3, <1>5, <2>1, <2>2
  <2>3. CASE ref # "cwd"
    BY <1>1, <1>2, <1>5, <2>1, <2>3
  <2> QED
    BY <2>2, <2>3
<1>6. isRoot => (IF ref = "cwd" THEN t ELSE cw) = ZeroTable
  BY DEF CachesOn
<1> QED
  BY <1>4, <1>5, <1>6 DEF CachesOn, D

-----------------------------------------------------------------------------
(* The steps that are not operations on a directory.                       *)

\* The first write of the queue is done.
LEMMA QueueAdvances ==
    ASSUME NEW fat, NEW d, NEW q, QueueInv(fat, d, q), q # <<>>, NEW D, D = Written(d, q[1], MaxEntries)
    PROVE  QueueInv(fat, D, Tail(q)) /\ DiskAfter(D, Tail(q), Len(Tail(q))) = DiskAfter(d, q, Len(q))
<1> DEFINE s == Tail(q)
<1>1. q \in Seq(Writes) /\ Len(q) <= 2
  BY DEF QueueInv
<1>2. Len(q) \in {1, 2} /\ Len(s) = Len(q) - 1 /\ s \in Seq(Writes) /\ \A k \in 1 .. Len(s) : s[k] = q[k + 1]
  <2>1. Len(q) \in Nat \ {0}
    BY <1>1, EmptySeq
  <2>2. Len(s) = Len(q) - 1 /\ s \in Seq(Writes) /\ \A k \in 1 .. Len(s) : s[k] = q[k + 1]
    BY <1>1, HeadTailProperties
  <2> QED
    BY <1>1, <2>1, <2>2
<1> HIDE DEF s
<1>3. DiskInv(fat, D)
  <2>1. SafeWrite(fat, DiskAfter(d, q, 0), q[1])
    <3>1. 1 \in 1 .. Len(q) /\ 1 - 1 = 0
      BY <1>2
    <3> QED
      BY <3>1 DEF QueueInv
  <2>2. DiskAfter(d, q, 0) = d /\ MaxEntries \in Cuts
    BY Sizes DEF DiskAfter, Cuts
  <2> QED
    BY <2>1, <2>2 DEF SafeWrite
<1>4. DiskAfter(D, s, 0) = D /\ DiskAfter(d, q, 1) = D
  BY DEF DiskAfter
<1>5. CASE Len(q) = 1
  <2>1. Len(s) = 0
    BY <1>2, <1>5
  <2>2. QueueInv(fat, D, s)
    <3>1. \A k \in 1 .. Len(s) : FALSE
      BY <2>1
    <3>2. Len(s) <= 2
      BY <2>1
    <3> QED
      BY <1>2, <1>3, <3>1, <3>2 DEF QueueInv
  <2> QED
    BY <1>4, <1>5, <2>1, <2>2 DEF s
<1>6. CASE Len(q) = 2
  <2>1. Len(s) = 1 /\ s[1] = q[2]
    BY <1>2, <1>6
  <2>2. DiskAfter(D, s, 1) = DiskAfter(d, q, 2)
    <3>1. DiskAfter(D, s, 1) = Written(D, s[1], MaxEntries)
      BY DEF DiskAfter
    <3>2. DiskAfter(d, q, 2) = Written(Written(d, q[1], MaxEntries), q[2], MaxEntries)
      BY DEF DiskAfter
    <3> QED
      BY <2>1, <3>1, <3>2
  <2>3. SafeWrite(fat, D, q[2])
    <3>1. 2 \in 1 .. Len(q) /\ 2 - 1 = 1
      BY <1>6
    <3> QED
      BY <1>4, <3>1 DEF QueueInv
  <2>4. \A k \in 1 .. Len(s) : k = 1 /\ k - 1 = 0
    BY <2>1
  <2>5. \A k \in 1 .. Len(s) : SafeWrite(fat, DiskAfter(D, s, k - 1), s[k])
    BY <1>4, <2>1, <2>3, <2>4
  <2>6. QueueInv(fat, D, s)
    BY <1>2, <1>3, <2>1, <2>5 DEF QueueInv
  <2> QED
    BY <1>6, <2>1, <2>2, <2>6 DEF s
<1> QED
  BY <1>2, <1>5, <1>6

\* A queued write is done.
LEMMA FlushKeeps ==
    ASSUME IInv, Flush
    PROVE  IInv'
<1>1. /\ pending # <<>> /\ disk' = Written(disk, pending[1], MaxEntries) /\ pending' = Tail(pending)
      /\ UNCHANGED <<vol, root, cwd, cwdIsRoot, cwdPath, stored>>
  <2>1. pending # <<>> => Head(pending) = pending[1]
    BY DEF IInv, PendingInv
  <2> QED
    BY <2>1 DEF Flush
<1>2. QueueInv(vol.fat, disk, pending)
  BY DEF IInv, PendingInv, QueueInv
<1>3. QueueInv(vol'.fat, disk', pending') /\ Settled' = Settled
  BY <1>1, <1>2, QueueAdvances DEF Settled
<1>4. VolumeInv' /\ StoredInv'
  BY <1>1 DEF IInv, VolumeInv, StoredInv
<1>5. PendingInv'
  BY <1>3 DEF PendingInv, QueueInv
<1>6. ChainsInv' /\ CachesInv'
  BY <1>1, <1>3 DEF IInv, ChainsInv, CachesInv
<1> QED
  BY <1>4, <1>5, <1>6 DEF IInv

\* Also after a crash: whatever part of a write has reached the disk.
LEMMA RestartKeeps ==
    ASSUME IInv, Restart
    PROVE  IInv'
<1>1. /\ root' = disk'[rootStart] /\ cwd' = ZeroTable /\ cwdIsRoot' = TRUE /\ cwdPath' = <<>>
      /\ pending' = <<>> /\ UNCHANGED <<vol, stored>>
  BY DEF Restart, LoadRoot
<1>2. DiskInv(vol.fat, disk') /\ (~Crashes => disk' = disk /\ pending = <<>>)
  <2>1. CASE pending = <<>> /\ UNCHANGED disk
    BY <2>1 DEF IInv, PendingInv
  <2>2. CASE /\ pending # <<>> /\ Crashes
             /\ \E k \in 0 .. MaxEntries : disk' = Written(disk, Head(pending), k)
    <3>1. Head(pending) = pending[1] /\ 1 \in 1 .. Len(pending)
      BY <2>2 DEF IInv, PendingInv
    <3>2. SafeWrite(vol.fat, DiskAfter(disk, pending, 0), pending[1])
      <4>1. 1 - 1 = 0
        OBVIOUS
      <4> QED
        BY <3>1, <4>1 DEF IInv, PendingInv
    <3>3. DiskAfter(disk, pending, 0) = disk
      BY DEF DiskAfter
    <3> QED
      BY <2>2, <3>1, <3>2, <3>3 DEF SafeWrite, Cuts
  <2> QED
    BY <2>1, <2>2 DEF Restart
<1>3. DiskAfter(disk', pending', Len(pending')) = disk' /\ QueueInv(vol'.fat, disk', pending')
  BY <1>1, <1>2, EmptyQueue
<1>4. CachesOn(disk', root', cwd', cwdIsRoot')
  BY <1>1 DEF CachesOn
<1>5. ASSUME ~Crashes, NEW x \in Named(disk') PROVE Holds(vol'.fat, Entry(disk', x), stored')
  BY <1>1, <1>2, <1>5, BetweenOperations
<1>6. /\ Tidy(vol) /\ \A b \in RootRun : vol.fat[b] # BLOCK_FREE
      /\ \A s \in stored : s \in Blocks /\ vol.fat[s] # BLOCK_FREE
  BY Sizes DEF IInv, VolumeInv, StoredInv, Tidy, TailFree, Volumes, Tables
<1>7. cwdPath' \in Seq(PathNames \ DotNames)
  BY <1>1
<1> QED
  BY <1>1, <1>3, <1>4, <1>5, <1>6, <1>7, Established

\* The formatted volume.
LEMMA InitHolds ==
    ASSUME Init
    PROVE  IInv
<1> DEFINE r == allocateBlocks(initFreeSpace, RootBlocks)
<1>1. Tidy(r.vol) /\ \A b \in Blocks : r.vol.fat[b] = BLOCK_FREE => r.start + RootBlocks <= b
  BY FirstAllocation, Sizes, DirectoryAssumption
<1> HIDE DEF r
<1>2. r.start = rootStart /\ vol = r.vol
  BY RootAllocated DEF r, Init
<1>3. \A b \in RootRun : vol.fat[b] # BLOCK_FREE
  BY <1>1, <1>2, Sizes, FatWords DEF RootRun
<1>4. /\ root = newDirectory(rootStart, RootBlocks, DirEntry("", RootBlocks, rootStart))
      /\ disk = [b \in Blocks |-> IF b = rootStart THEN root ELSE ZeroTable]
      /\ cwd = ZeroTable /\ cwdIsRoot = TRUE /\ cwdPath = <<>> /\ pending = <<>> /\ stored = {}
  BY DEF Init
<1> DEFINE up == [DirEntry("", RootBlocks, rootStart) EXCEPT !.name = "..", !.inUse = TRUE]
<1>5. /\ root \in DirTables
      /\ root[0] = DirEntry(".", RootBlocks, rootStart)
      /\ IsDotDot(root[1], RootBlocks, rootStart)
      /\ \A j \in Slots \ {0, 1} : root[j] = ZeroEntry
  <2>1. DirEntry("", RootBlocks, rootStart) \in DirEntries
    BY Sizes, EntryTypes DEF Texts
  <2>2. up \in DirEntries /\ IsDotDot(up, RootBlocks, rootStart)
    <3>1. /\ DirEntry("", RootBlocks, rootStart).isDir = TRUE
          /\ DirEntry("", RootBlocks, rootStart).size = RootBlocks
          /\ DirEntry("", RootBlocks, rootStart).start = rootStart
      BY DEF DirEntry
    <3> QED
      BY <2>1, <3>1 DEF DirEntries, Texts, IsDotDot
  <2>3. DirEntry(".", RootBlocks, rootStart) \in DirEntries
    BY Sizes, EntryTypes DEF Texts
  <2>4. root = [ZeroTable EXCEPT ![0] = DirEntry(".", RootBlocks, rootStart), ![1] = up]
    BY <1>4 DEF newDirectory
  <2> HIDE DEF up
  <2>5. \A j \in Slots : root[j] = IF j = 0 THEN DirEntry(".", RootBlocks, rootStart)
                                   ELSE IF j = 1 THEN up ELSE ZeroEntry
    BY <2>4, ZeroTypes, Sizes DEF DirTables
  <2>6. root \in DirTables
    BY <2>2, <2>3, <2>4, ZeroTypes DEF DirTables
  <2> QED
    BY <2>2, <2>5, <2>6, Sizes
<1>6. disk \in [Blocks -> DirTables] /\ disk[rootStart] = root
      /\ \A c \in Blocks : c # rootStart => disk[c] = ZeroTable
  BY <1>4, <1>5, ZeroTypes, Sizes
<1>7. IsDirectory(disk, rootStart) /\ \A c \in Blocks : IsDirectory(disk, c) => c = rootStart
  <2>1. IsDirectory(disk, rootStart)
    BY <1>5, <1>6 DEF IsDirectory, IsDotDot
  <2>2. ASSUME NEW c \in Blocks, IsDirectory(disk, c), c # rootStart PROVE FALSE
    <3>1. disk[c][0].inUse = TRUE
      BY <2>2 DEF IsDirectory, DirEntry
    <3>2. ZeroTable[0].inUse = FALSE
      BY ZeroTypes, Sizes
    <3> QED
      BY <1>6, <2>2, <3>1, <3>2
  <2> QED
    BY <2>1, <2>2
<1>8. DirEntry(".", RootBlocks, rootStart).size = RootBlocks
  BY DEF DirEntry
<1>9. DirectoriesInv(disk)
  BY <1>5, <1>6, <1>7, <1>8, Sizes DEF DirectoriesInv, IsDotDot
<1>10. /\ ZeroEntry.inUse = FALSE /\ ZeroEntry.name = ""
       /\ DirEntry(".", RootBlocks, rootStart).name = "." /\ DirEntry(".", RootBlocks, rootStart).isDir = TRUE
       /\ DirEntry(".", RootBlocks, rootStart).inUse = TRUE
  BY DEF ZeroEntry, DirEntry
<1>11. ASSUME NEW x \in Places
       PROVE  /\ ~Names(Entry(disk, x))
              /\ ~Entry(disk, x).inUse <=> Entry(disk, x).name \in {"", "NULL"}
              /\ Entry(disk, x).name \in {".", ".."} => x[2] \in {0, 1} /\ Entry(disk, x).isDir
  <2>1. x[1] \in Blocks /\ x[2] \in Slots
    BY DEF Places
  <2>2. CASE Entry(disk, x) = ZeroEntry
    BY <1>10, <2>2 DEF Names
  <2>3. CASE x[2] = 0 /\ Entry(disk, x) = DirEntry(".", RootBlocks, rootStart)
    BY <1>10, <2>3 DEF Names
  <2>4. CASE x[2] = 1 /\ IsDotDot(Entry(disk, x), RootBlocks, rootStart)
    BY <2>4 DEF Names, IsDotDot
  <2>5. \/ Entry(disk, x) = ZeroEntry
        \/ x[2] = 0 /\ Entry(disk, x) = DirEntry(".", RootBlocks, rootStart)
        \/ x[2] = 1 /\ IsDotDot(Entry(disk, x), RootBlocks, rootStart)
    <3>1. CASE x[1] = rootStart
      BY <1>5, <1>6, <2>1, <3>1 DEF Entry
    <3>2. CASE x[1] # rootStart
      BY <1>6, <2>1, <3>2, ZeroTypes DEF Entry
    <3> QED
      BY <3>1, <3>2
  <2> QED
    BY <2>2, <2>3, <2>4, <2>5
<1>12. Named(disk) = {}
  BY <1>11 DEF Named
<1>13. DiskInv(vol.fat, disk)
  <2>1. \A b \in Blocks : vol.fat[b] = BLOCK_FREE => disk[b] = ZeroTable
    BY <1>3, <1>6, Sizes
  <2>2. TablesInv(vol.fat, disk)
    BY <1>6, <1>11, <2>1 DEF TablesInv
  <2> QED
    BY <1>9, <1>12, <2>2 DEF DiskInv, NamedInv
<1>14. PendingInv /\ Settled = disk
  <2>1. QueueInv(vol.fat, disk, <<>>) /\ DiskAfter(disk, <<>>, Len(<<>>)) = disk
    BY <1>13, EmptyQueue
  <2> QED
    BY <1>4, <2>1 DEF PendingInv, Settled, QueueInv
<1>15. VolumeInv
  BY <1>1, <1>2, <1>3 DEF VolumeInv, Tidy, TailFree, Volumes, Tables
<1>16. ChainsInv /\ StoredInv
  BY <1>4, <1>12, <1>14 DEF ChainsInv, StoredInv
<1>17. CachesInv
  <2>1. <<>> \in Seq(PathNames \ {".", ".."})
    OBVIOUS
  <2> QED
    BY <1>4, <1>6, <1>14, <2>1 DEF CachesInv
<1> QED
  BY <1>14, <1>15, <1>16, <1>17 DEF IInv

\* fs_setcwd: the table of a directory of the disk, or the root.
LEMMA SetcwdKeeps ==
    ASSUME SafeUse, IInv, NEW p \in Paths, Setcwd(p)
    PROVE  IInv'
<1> DEFINE n == normalizePathname(p)
           q == [abs |-> TRUE, names |-> n]
           r == parsePath(q)
<1>1. /\ pending = <<>> /\ r.code = 0
      /\ \/ r.index = -2 /\ cwdIsRoot' = TRUE /\ cwd' = ZeroTable
         \/ /\ r.index >= 0 /\ r.table[r.index].isDir
            /\ cwdIsRoot' = FALSE
            /\ cwd' = disk[r.table[r.index].start]
      /\ cwdPath' = n
      /\ UNCHANGED <<vol, disk, root, pending, stored>>
  BY DEF Setcwd, NewPath
<1>2. /\ Ready /\ Settled = disk
      /\ Tidy(vol) /\ \A b \in RootRun : vol.fat[b] # BLOCK_FREE
      /\ ~Crashes => \A x \in Named(disk) : Holds(vol.fat, Entry(disk, x), stored)
      /\ \A s \in stored : s \in Blocks /\ vol.fat[s] # BLOCK_FREE
  BY <1>1, BetweenOperations
<1>3. n \in Seq(PathNames \ DotNames)
  <2>1. Walkable(p)
    BY DEF SafeUse, Walkable, NoNames
  <2> QED
    BY <1>2, <2>1, NormalizedPath
<1>4. Walkable(q)
  <2>1. PathNames \cap NoNames = {}
    BY DEF SafeUse, NoNames
  <2>2. n \in Seq(PathNames)
    <3> HIDE DEF n
    <3>1. Len(n) \in Nat /\ n \in [1 .. Len(n) -> PathNames]
      BY <1>3
    <3> QED
      BY <3>1
  <2> HIDE DEF n
  <2> QED
    BY <2>1, <2>2 DEF Walkable
<1>5. n = <<>> <=> r.index = -2
  <2>1. n = <<>> => r.index = -2
    BY DEF parsePath
  <2>2. ASSUME n # <<>> PROVE r.index # -2
    <3>1. \E t : r.index = findInDirectory(t, Last(n))
      <4> HIDE DEF n
      <4> QED
        BY <2>2 DEF parsePath
    <3>2. PICK t : r.index = findInDirectory(t, Last(n))
      BY <3>1
    <3>3. r.index = -1 \/ r.index \in Slots
      <4> HIDE DEF r, n
      <4>1. findInDirectory(t, Last(n)) = -1 \/ findInDirectory(t, Last(n)) \in Slots
        BY Search
      <4> QED
        BY <3>2, <4>1
    <3> HIDE DEF r
    <3> QED
      BY <3>3, Sizes
  <2> HIDE DEF r, n
  <2> QED
    BY <2>1, <2>2
<1>6. r = parsePath(q)
  OBVIOUS
<1> HIDE DEF r, q, n
<1>7. CachesOn(disk, root, cwd', cwdIsRoot')
  <2>1. CASE r.index = -2 /\ cwdIsRoot' = TRUE /\ cwd' = ZeroTable
    BY <1>2, <2>1 DEF Ready, CachesOn
  <2>2. CASE /\ r.index >= 0 /\ r.table[r.index].isDir
             /\ cwdIsRoot' = FALSE
             /\ cwd' = disk[r.table[r.index].start]
    <3>1. PICK b \in Blocks :
            /\ Opened(r.ref, r.table, b)
            /\ r.name \in PathNames
            /\ \/ r.index = -1 /\ \A i \in Slots : disk[b][i].name # r.name
               \/ r.index \in Slots /\ disk[b][r.index].name = r.name
      <4>1. r.index # -2
        BY <2>2
      <4>2. \E b \in Blocks :
              /\ Opened(r.ref, r.table, b)
              /\ r.name \in PathNames
              /\ \/ r.index = -1 /\ \A i \in Slots : disk[b][i].name # r.name
                 \/ r.index \in Slots /\ disk[b][r.index].name = r.name
        BY <1>1, <1>2, <1>4, <1>6, <4>1, ParsedPath
      <4> QED
        BY <4>2
    <3>2. r.name = Last(n) /\ n # <<>>
      <4>1. n # <<>>
        BY <1>5, <2>2
      <4>2. q.names = n
        BY DEF q
      <4> QED
        BY <1>6, <4>1, <4>2 DEF parsePath
    <3>3. r.name \notin DotNames /\ r.name \notin NoNames
      <4>1. Len(n) \in 1 .. Len(n)
        BY <1>3, <3>2
      <4>2. n[Len(n)] \in PathNames \ DotNames
        BY <1>3, <4>1
      <4> QED
        BY <3>1, <3>2, <4>2 DEF Last, SafeUse, NoNames
    <3>4. /\ r.index \in Slots /\ disk[b][r.index].name = r.name /\ r.table = disk[b]
          /\ IsDirectory(disk, b) /\ DiskInv(vol.fat, disk)
      BY <1>2, <2>2, <3>1 DEF Opened, Ready
    <3> DEFINE c == disk[b][r.index].start
    <3>5. /\ c \in Blocks /\ IsDirectory(disk, c) /\ <<b, r.index>> \in Named(disk)
          /\ Entry(disk, <<b, r.index>>) = disk[b][r.index] /\ disk[b][r.index] \in DirEntries
      <4>1. /\ disk[b][r.index].isDir => c \in Blocks /\ IsDirectory(disk, c)
            /\ disk[b][r.index].name \notin DotNames =>
                 r.index \notin {0, 1} /\ <<b, r.index>> \in Named(disk) /\ Entry(disk, <<b, r.index>>) = disk[b][r.index]
            /\ disk[b][r.index] \in DirEntries
        BY <3>3, <3>4, NamedSlot
      <4> QED
        BY <2>2, <3>3, <3>4, <4>1
    <3>6. c # rootStart
      <4>1. \A s \in Run(disk[b][r.index]) : s \notin RootRun
        BY <3>4, <3>5 DEF DiskInv, NamedInv, MayName
      <4>2. c \in Run(disk[b][r.index])
        BY <3>5, EntryFields
      <4> QED
        BY <4>1, <4>2, Sizes
    <3>7. disk[c][0].start = c
      BY <3>5 DEF IsDirectory, DirEntry
    <3>8. cwd' = disk[c]
      BY <2>2, <3>4
    <3> HIDE DEF c
    <3> QED
      BY <1>2, <2>2, <3>5, <3>6, <3>7, <3>8 DEF Ready, CachesOn
  <2> QED
    BY <1>1, <2>1, <2>2
<1>8. QueueInv(vol'.fat, disk', pending') /\ DiskAfter(disk', pending', Len(pending')) = disk
  BY <1>1, <1>2, EmptyQueue DEF Ready
<1>9. cwdIsRoot' => cwdPath' = <<>>
  BY <1>1, <1>5
<1> QED
  BY <1>1, <1>2, <1>3, <1>7, <1>8, <1>9, Established

-----------------------------------------------------------------------------
(* The operations on a directory.                                          *)

\* What a directory operation has found when it starts to change something.
Found(r, b) ==
    /\ Opened(r.ref, r.table, b)
    /\ r.name \in PathNames /\ r.name \notin NoNames
    /\ \/ r.index = -1 /\ r.name \notin DotNames
       \/ r.index \in Slots /\ disk[b][r.index].name = r.name
    /\ r.ref \notin {"root", "cwd"} => b # rootStart /\ (~cwdIsRoot => b # cwd[0].start)

\* The table an operation works on is an open one, with a place on the disk.
LEMMA Target ==
    ASSUME SafeUse, IInv, NEW p \in Paths, NEW r, r = parsePath(p), Reaches(r), r.index # -2
    PROVE  Ready /\ \E b \in Blocks : Found(r, b)
<1>1. Ready /\ r.code = 0
  BY BetweenOperations DEF Reaches
<1>2. Walkable(p)
  BY DEF SafeUse, Walkable, NoNames
<1>3. PICK b \in Blocks :
        /\ Opened(r.ref, r.table, b)
        /\ r.name \in PathNames
        /\ \/ r.index = -1 /\ \A i \in Slots : disk[b][i].name # r.name
           \/ r.index \in Slots /\ disk[b][r.index].name = r.name
  <2>1. \E b \in Blocks :
          /\ Opened(r.ref, r.table, b)
          /\ r.name \in PathNames
          /\ \/ r.index = -1 /\ \A i \in Slots : disk[b][i].name # r.name
             \/ r.index \in Slots /\ disk[b][r.index].name = r.name
    BY <1>1, <1>2, ParsedPath
  <2> QED
    BY <2>1
<1>4. r.name \notin NoNames
  BY <1>3 DEF SafeUse, NoNames
<1>5. r.index = -1 => r.name \notin DotNames \/ r.index \in Slots
  <2>1. disk[b][0].name = "." /\ disk[b][1].name = ".."
    BY <1>3 DEF Opened, IsDirectory, DirEntry
  <2> QED
    BY <1>3, <2>1, Sizes DEF DotNames
<1>6. r.ref \notin {"root", "cwd"} => b # rootStart /\ (~cwdIsRoot => b # cwd[0].start)
  <2>1. r.ref \notin {"root", "cwd"} => r.ref = "copy"
    BY <1>3 DEF Opened
  <2>2. r.table[0].start = b
    BY <1>3 DEF Opened, IsDirectory, DirEntry
  <2>3. root[0].start = rootStart
    BY <1>1, Sizes DEF Ready, CachesOn, DiskInv, DirectoriesInv, IsDirectory, DirEntry
  <2>4. r.ref = "copy" => b \notin {root[0].start, cwdTable[0].start}
    BY <2>2 DEF Reaches, Cached, SafeUse
  <2> QED
    BY <2>1, <2>3, <2>4 DEF cwdTable
<1> QED
  BY <1>1, <1>3, <1>4, <1>5, <1>6, Sizes DEF Found

\* An operation that changes one slot, and writes the table once.
LEMMA OneSlotStep ==
    ASSUME IInv, Ready, NEW b \in Blocks, NEW r, Found(r, b),
           NEW i \in Slots \ {0, 1}, NEW e \in DirEntries, NEW t, t = Changed(disk, b, i, e),
           NEW D, D = Put(disk, b, i, e),
           Tidy(vol'), \A c \in Blocks : vol.fat[c] # BLOCK_FREE => vol'.fat[c] # BLOCK_FREE,
           DiskInv(vol'.fat, D),
           pending' = Save(t), Remember(r.ref, t), UNCHANGED <<disk, cwdIsRoot, cwdPath>>,
           ~Crashes => \A x \in Named(D) : Holds(vol'.fat, Entry(D, x), stored'),
           stored' = stored
    PROVE  IInv'
<1>1. /\ IsDirectory(disk, b) /\ r.table = disk[b]
      /\ r.ref = "root" => b = rootStart
      /\ r.ref = "cwd" => ~cwdIsRoot /\ b = cwd[0].start
      /\ r.ref \notin {"root", "cwd"} => b # rootStart /\ (~cwdIsRoot => b # cwd[0].start)
  BY DEF Found, Opened
<1>2. /\ DiskInv(vol.fat, disk) /\ CachesOn(disk, root, cwd, cwdIsRoot)
      /\ cwdPath \in Seq(PathNames \ DotNames) /\ disk \in [Blocks -> DirTables] /\ IsDirectory(disk, rootStart)
  BY DEF Ready, DiskInv, TablesInv, DirectoriesInv
<1>3. DiskInv(vol'.fat, disk)
  BY <1>2, FatGrows
<1> DEFINE w == ChangedWrite(disk, b, i, e)
<1>4. SafeWrite(vol'.fat, disk, w) /\ Written(disk, w, MaxEntries) = D /\ Save(t) = <<w>>
  BY <1>1, <1>3, SlotWrite
<1> HIDE DEF w
<1>5. QueueInv(vol'.fat, disk', pending') /\ DiskAfter(disk', pending', Len(pending')) = D
  BY <1>3, <1>4, OneWrite
<1>6. CachesOn(D, root', cwd', cwdIsRoot')
  <2>1. CachesOn(D, IF r.ref = "root" THEN t ELSE root, IF r.ref = "cwd" THEN t ELSE cwd, cwdIsRoot)
    BY <1>1, <1>2, Remembered
  <2> QED
    BY <2>1 DEF Remember
<1>7. /\ \A c \in RootRun : vol'.fat[c] # BLOCK_FREE
      /\ \A s \in stored' : s \in Blocks /\ vol'.fat[s] # BLOCK_FREE
      /\ cwdIsRoot' => cwdPath' = <<>>
  BY BetweenOperations, Sizes DEF Ready
<1> QED
  BY <1>2, <1>5, <1>6, <1>7, Established

\* A slot that is changed twice.
LEMMA PutTwice ==
    ASSUME NEW d \in [Blocks -> DirTables], NEW b \in Blocks,
           NEW i \in Slots, NEW e \in DirEntries, NEW g \in DirEntries
    PROVE  /\ Changed(Put(d, b, i, e), b, i, g) = Changed(d, b, i, g)
           /\ ChangedWrite(Put(d, b, i, e), b, i, g) = ChangedWrite(d, b, i, g)
           /\ Put(Put(d, b, i, e), b, i, g) = Put(d, b, i, g)
<1> DEFINE M == Put(d, b, i, e)
           t == [d[b] EXCEPT ![i] = e]
           u == [d[b] EXCEPT ![i] = g]
           s == [t EXCEPT ![i] = g]
<1>1. M[b] = t
  BY DEF Put
<1>2. t \in DirTables /\ u \in DirTables /\ s \in DirTables
  BY DEF DirTables
<1>3. u = s
  <2>1. \A j \in Slots : u[j] = IF j = i THEN g ELSE d[b][j]
    BY DEF DirTables
  <2>2. \A j \in Slots : t[j] = IF j = i THEN e ELSE d[b][j]
    BY DEF DirTables
  <2>3. \A j \in Slots : s[j] = IF j = i THEN g ELSE t[j]
    BY <1>2 DEF DirTables
  <2>4. u = [j \in Slots |-> u[j]] /\ s = [j \in Slots |-> s[j]]
    BY <1>2 DEF DirTables
  <2>5. \A j \in Slots : u[j] = s[j]
    BY <2>1, <2>2, <2>3
  <2> HIDE DEF s, u
  <2> QED
    BY <2>4, <2>5, Zenon
<1>4. Changed(M, b, i, g) = Changed(d, b, i, g)
  BY <1>1, <1>3 DEF Changed
<1>5. Put(M, b, i, g) = [M EXCEPT ![b] = u]
  BY <1>1, <1>3 DEF Put
<1>6. [M EXCEPT ![b] = u] = [d EXCEPT ![b] = u]
  BY DEF Put
<1>7. Put(d, b, i, g) = [d EXCEPT ![b] = u]
  BY DEF Put
<1> QED
  BY <1>4, <1>5, <1>6, <1>7 DEF ChangedWrite

\* The queue of two writes.
SaveBoth(t, u) == Save(t) \o Save(u)

\* A slot that is written twice.
LEMMA SlotWrittenTwice ==
    ASSUME NEW fat, NEW d, DiskInv(fat, d), NEW b \in Blocks, IsDirectory(d, b),
           NEW i \in Slots \ {0, 1}, NEW e \in DirEntries, NEW g \in DirEntries,
           DiskInv(fat, Put(d, b, i, e)), DiskInv(fat, Put(d, b, i, g)),
           NEW q, q = SaveBoth(Changed(d, b, i, e), Changed(d, b, i, g))
    PROVE  QueueInv(fat, d, q) /\ DiskAfter(d, q, Len(q)) = Put(d, b, i, g)
<1> DEFINE w == ChangedWrite(d, b, i, e)
           v == ChangedWrite(d, b, i, g)
           M == Put(d, b, i, e)
           D == Put(d, b, i, g)
<1>1. d \in [Blocks -> DirTables] /\ i \in Slots
  BY DEF DiskInv, TablesInv
<1>2. SafeWrite(fat, d, w) /\ Written(d, w, MaxEntries) = M /\ Save(Changed(d, b, i, e)) = <<w>>
  BY SlotWrite
<1>3. IsDirectory(M, b)
  BY <1>1, PutDirectory
<1>4. Put(M, b, i, g) = D /\ ChangedWrite(M, b, i, g) = v /\ Changed(M, b, i, g) = Changed(d, b, i, g)
  BY <1>1, PutTwice
<1>5. DiskInv(fat, M) /\ DiskInv(fat, Put(M, b, i, g))
  BY <1>4
<1> HIDE DEF w, v, M, D
<1>6. /\ SafeWrite(fat, M, ChangedWrite(M, b, i, g))
      /\ Written(M, ChangedWrite(M, b, i, g), MaxEntries) = Put(M, b, i, g)
      /\ Save(Changed(M, b, i, g)) = <<ChangedWrite(M, b, i, g)>>
  BY <1>3, <1>5, SlotWrite
<1>7. SafeWrite(fat, M, v) /\ Written(M, v, MaxEntries) = D /\ Save(Changed(d, b, i, g)) = <<v>>
  BY <1>4, <1>6
<1>8. /\ QueueInv(fat, d, <<w>> \o <<v>>)
      /\ DiskAfter(d, <<w>> \o <<v>>, Len(<<w>> \o <<v>>)) = Written(Written(d, w, MaxEntries), v, MaxEntries)
  BY <1>2, <1>7, TwoWrites
<1> QED
  BY <1>2, <1>7, <1>8 DEF D, SaveBoth

\* An operation that writes a changed slot twice: first e, then g.
LEMMA TwiceWrittenStep ==
    ASSUME IInv, Ready, NEW b \in Blocks, NEW r, Found(r, b),
           NEW i \in Slots \ {0, 1}, NEW e \in DirEntries, NEW g \in DirEntries,
           NEW t, t = Changed(disk, b, i, e), NEW u, u = Changed(disk, b, i, g),
           NEW D, D = Put(disk, b, i, g),
           Tidy(vol'), \A c \in Blocks : vol.fat[c] # BLOCK_FREE => vol'.fat[c] # BLOCK_FREE,
           DiskInv(vol'.fat, Put(disk, b, i, e)), DiskInv(vol'.fat, D),
           pending' = SaveBoth(t, u), Remember(r.ref, u), UNCHANGED <<disk, cwdIsRoot, cwdPath>>,
           ~Crashes => \A x \in Named(D) : Holds(vol'.fat, Entry(D, x), stored'),
           \A s \in stored' : s \in Blocks /\ vol'.fat[s] # BLOCK_FREE
    PROVE  IInv'
<1>1. /\ IsDirectory(disk, b) /\ r.table = disk[b]
      /\ r.ref = "root" => b = rootStart
      /\ r.ref = "cwd" => ~cwdIsRoot /\ b = cwd[0].start
      /\ r.ref \notin {"root", "cwd"} => b # rootStart /\ (~cwdIsRoot => b # cwd[0].start)
  BY DEF Found, Opened
<1>2. /\ DiskInv(vol.fat, disk) /\ CachesOn(disk, root, cwd, cwdIsRoot)
      /\ cwdPath \in Seq(PathNames \ DotNames) /\ disk \in [Blocks -> DirTables] /\ IsDirectory(disk, rootStart)
  BY DEF Ready, DiskInv, TablesInv, DirectoriesInv
<1>3. DiskInv(vol'.fat, disk)
  BY <1>2, FatGrows
<1>4. QueueInv(vol'.fat, disk', pending') /\ DiskAfter(disk', pending', Len(pending')) = D
  <2> DEFINE q == SaveBoth(Changed(disk, b, i, e), Changed(disk, b, i, g))
  <2>1. pending' = q /\ disk' = disk
    OBVIOUS
  <2>2. ASSUME NEW fat, DiskInv(fat, disk), DiskInv(fat, Put(disk, b, i, e)), DiskInv(fat, Put(disk, b, i, g))
        PROVE  QueueInv(fat, disk, q) /\ DiskAfter(disk, q, Len(q)) = Put(disk, b, i, g)
    BY <1>1, <2>2, SlotWrittenTwice
  <2>3. DiskInv(vol'.fat, Put(disk, b, i, g))
    OBVIOUS
  <2> HIDE DEF q
  <2> QED
    BY <1>3, <2>1, <2>2, <2>3
<1>5. CachesOn(D, root', cwd', cwdIsRoot')
  <2>1. CachesOn(D, IF r.ref = "root" THEN u ELSE root, IF r.ref = "cwd" THEN u ELSE cwd, cwdIsRoot)
    BY <1>1, <1>2, Remembered
  <2> QED
    BY <2>1 DEF Remember
<1>6. /\ \A c \in RootRun : vol'.fat[c] # BLOCK_FREE
      /\ cwdIsRoot' => cwdPath' = <<>>
  BY BetweenOperations, Sizes DEF Ready
<1> QED
  BY <1>2, <1>4, <1>5, <1>6, Established

\* A chain is read from the entries of its own blocks.
LEMMA HoldsKept ==
    ASSUME NEW e \in DirEntries, NEW fat, NEW fat2, NEW st, Holds(fat, e, st),
           \A c \in Run(e) : fat2[c] = fat[c]
    PROVE  Holds(fat2, e, st)
<1>1. e.start \in Int /\ LastOf(e) \in Int /\ e.start <= LastOf(e)
  BY EntryFields
<1>2. \A c \in e.start .. LastOf(e) - 1 : c \in Run(e)
  BY <1>1 DEF Run
<1>3. LastOf(e) \in Run(e)
  BY <1>1 DEF Run
<1> QED
  BY <1>2, <1>3 DEF Holds, ChainInv

\* fs_rmdir and fs_delete: the blocks named are released, the slot is cleared.
LEMMA RemoveKeeps ==
    ASSUME SafeUse, "rm" \in Operations, IInv, NEW p \in Paths, NEW r, r = parsePath(p),
           NEW left \in DirEntries, ~left.inUse, left.name \in NoNames,
           RemoveEntry(r, left), r.table[r.index].name \notin DotNames
    PROVE  IInv'
<1>1. /\ Reaches(r) /\ r.index >= 0
      /\ vol' = releaseBlocks(vol, r.table[r.index].start, r.table[r.index].size)
      /\ pending' = Save([r.table EXCEPT ![r.index] = left])
      /\ Remember(r.ref, [r.table EXCEPT ![r.index] = left])
      /\ UNCHANGED <<disk, cwdIsRoot, cwdPath, stored>>
  BY DEF RemoveEntry, Storage, WriteParent
<1>2. Ready
  <2>1. r.index # -2
    BY <1>1
  <2> QED
    BY <1>1, <2>1, Target
<1>3. PICK b \in Blocks : Found(r, b)
  <2>1. r.index # -2
    BY <1>1
  <2> QED
    BY <1>1, <2>1, Target
<1> DEFINE i == r.index
           e == disk[b][i]
           x == <<b, i>>
           D == Put(disk, b, i, left)
<1>4. i \in Slots /\ r.table = disk[b] /\ IsDirectory(disk, b) /\ e.name \notin NoNames /\ e.name \notin DotNames
  BY <1>1, <1>3 DEF Found, Opened
<1>5. DiskInv(vol.fat, disk) /\ disk \in [Blocks -> DirTables]
  BY <1>2 DEF Ready, DiskInv, TablesInv
<1>6. i \in Slots \ {0, 1} /\ x \in Named(disk) /\ Entry(disk, x) = e /\ e \in DirEntries
  <2>1. /\ e \in DirEntries
        /\ e.name \notin DotNames => i \notin {0, 1} /\ x \in Named(disk) /\ Entry(disk, x) = e
    BY <1>4, <1>5, NamedSlot
  <2> QED
    BY <1>4, <2>1
<1>7. MayName(vol.fat, disk, b, e)
  <2>1. MayName(vol.fat, disk, x[1], Entry(disk, x))
    BY <1>5, <1>6 DEF DiskInv, NamedInv
  <2> QED
    BY <1>6, <2>1
<1>8. vol' = releaseBlocks(vol, e.start, e.size)
  BY <1>1, <1>4
<1>9. [r.table EXCEPT ![r.index] = left] = Changed(disk, b, i, left)
  BY <1>4 DEF Changed
<1> HIDE DEF i, e, x
<1>10. e.start \in Int /\ e.size \in Nat /\ LastOf(e) = e.start + (IF e.size = 0 THEN 1 ELSE e.size) - 1
  BY <1>6, EntryFields DEF LastOf
<1>11. e.start \in Blocks /\ e.start > 0 /\ vol.fat[e.start] # BLOCK_FREE /\ e.start + e.size <= TotalBlocks
  <2>1. e.start \in Run(e) /\ LastOf(e) \in Run(e)
    BY <1>10 DEF Run
  <2>2. e.start \in Blocks /\ LastOf(e) \in Blocks /\ vol.fat[e.start] # BLOCK_FREE /\ e.start # 0
    BY <1>7, <2>1 DEF MayName
  <2> QED
    BY <1>10, <2>2, FatWords
<1>12. e.start .. e.start + e.size - 1 \subseteq Run(e)
  BY <1>10 DEF Run
<1>13. \A c \in e.start .. e.start + e.size - 2 : vol.fat[c] = c + 1
  <2>1. CASE Crashes
    <3>1. e.size <= 1
      <4>1. DirBlocks = 1
        BY <2>1 DEF SafeUse
      <4>2. (e.isDir => e.size = DirBlocks) /\ (~e.isDir => e.size <= 1)
        BY <1>7 DEF MayName
      <4> QED
        BY <4>1, <4>2
    <3> QED
      BY <1>10, <3>1
  <2>2. CASE ~Crashes
    <3>1. Holds(vol.fat, Entry(disk, x), stored)
      BY <1>1, <1>6, <2>2, BetweenOperations DEF Reaches
    <3>2. \A c \in e.start .. LastOf(e) - 1 : vol.fat[c] = c + 1
      BY <1>6, <3>1 DEF Holds, ChainInv
    <3> QED
      BY <1>10, <3>2
  <2> QED
    BY <2>1, <2>2, Sizes
<1>14. \A c \in e.start .. e.start + e.size - 1 : vol.fat[c] # BLOCK_FREE
  BY <1>7, <1>12 DEF MayName
<1>15. Tidy(vol)
  BY <1>1, BetweenOperations DEF Reaches
<1>16. /\ Tidy(vol')
       /\ \A c \in Blocks : vol'.fat[c] = BLOCK_FREE <=> vol.fat[c] = BLOCK_FREE
       /\ \A c \in Blocks : c \notin e.start .. e.start + e.size - 1 => vol'.fat[c] = vol.fat[c]
  BY <1>8, <1>10, <1>11, <1>13, <1>14, <1>15, ReleaseTidy
<1>17. DiskInv(vol'.fat, D)
  <2>1. DiskInv(vol'.fat, disk)
    BY <1>5, <1>16, FatGrows
  <2> QED
    BY <1>4, <1>6, <2>1, PutInv
<1>18. ASSUME ~Crashes, NEW y \in Named(D) PROVE Holds(vol'.fat, Entry(D, y), stored')
  <2>1. y # x /\ y \in Named(disk) /\ Entry(D, y) = Entry(disk, y) /\ y \in Places
    <3>1. /\ \A z \in Places : Entry(D, z) = IF z = <<b, i>> THEN left ELSE Entry(disk, z)
          /\ \A z \in Named(D) : IF z = <<b, i>> THEN Names(left) ELSE z \in Named(disk)
      BY <1>4, <1>5, PutNamed
    <3>2. y \in Places /\ ~Names(left)
      BY DEF Named, Names
    <3> HIDE DEF D
    <3> QED
      BY <3>1, <3>2 DEF x
  <2>2. Holds(vol.fat, Entry(disk, y), stored)
    BY <1>1, <1>18, <2>1, BetweenOperations DEF Reaches
  <2>3. Run(Entry(disk, y)) \cap Run(e) = {} /\ Run(Entry(disk, y)) \subseteq Blocks
    BY <1>5, <1>6, <2>1 DEF DiskInv, NamedInv, MayName
  <2>4. Entry(disk, y) \in DirEntries
    BY <1>5, <2>1 DEF Places, Entry, DirTables
  <2>5. \A c \in Run(Entry(disk, y)) : vol'.fat[c] = vol.fat[c]
    BY <1>12, <1>16, <2>3
  <2> HIDE DEF D
  <2>6. Holds(vol'.fat, Entry(disk, y), stored)
    BY <2>2, <2>4, <2>5, HoldsKept
  <2> QED
    BY <1>1, <2>1, <2>6
<1> DEFINE t == Changed(disk, b, i, left)
<1>19. pending' = Save(t) /\ Remember(r.ref, t)
  BY <1>1, <1>9
<1>20. \A c \in Blocks : vol.fat[c] # BLOCK_FREE => vol'.fat[c] # BLOCK_FREE
  BY <1>16
<1> HIDE DEF t
<1> QED
  <2>1. UNCHANGED <<disk, cwdIsRoot, cwdPath>> /\ stored' = stored
    BY <1>1
  <2>2. t = Changed(disk, b, i, left)
    BY DEF t
  <2> QED
    BY <1>2, <1>3, <1>6, <1>16, <1>17, <1>18, <1>19, <1>20, <2>1, <2>2, OneSlotStep

\* rm: fs_rmdir refuses the dots, and no file has their names.
LEMMA RmKeeps ==
    ASSUME SafeUse, "rm" \in Operations, IInv, NEW p \in Paths, Rm(p)
    PROVE  IInv'
<1> DEFINE r == parsePath(p)
           null == [ZeroEntry EXCEPT !.name = "NULL"]
<1>1. /\ ZeroEntry \in DirEntries /\ ~ZeroEntry.inUse /\ ZeroEntry.name \in NoNames
      /\ null \in DirEntries /\ ~null.inUse /\ null.name \in NoNames
  BY ZeroTypes DEF ZeroEntry, NoNames
<1>2. \/ RemoveEntry(r, ZeroEntry) /\ Removable(r)
      \/ RemoveEntry(r, null) /\ ~r.table[r.index].isDir
  BY DEF Rm, Rmdir, Delete
<1>3. r = parsePath(p) /\ Reaches(r) /\ r.index >= 0 /\ r.index # -2
  BY <1>2 DEF RemoveEntry
<1> HIDE DEF r, null
<1>4. Ready /\ \E b \in Blocks : Found(r, b)
  BY <1>3, Target
<1>5. PICK b \in Blocks : Found(r, b)
  BY <1>4
<1>6. /\ r.index \in Slots /\ r.table = disk[b] /\ IsDirectory(disk, b) /\ DiskInv(vol.fat, disk)
      /\ disk[b][r.index].name = r.name /\ r.name \notin NoNames
  BY <1>3, <1>4, <1>5 DEF Found, Opened, Ready
<1>7. r.table[r.index].name \notin DotNames
  <2>1. CASE Removable(r)
    BY <1>6, <2>1 DEF Removable, SafeUse, DotNames
  <2>2. CASE ~r.table[r.index].isDir
    <3>1. ~disk[b][r.index].isDir => disk[b][r.index].name \notin DotNames
      BY <1>6, NamedSlot
    <3> QED
      BY <1>6, <2>2, <3>1
  <2> QED
    BY <1>2, <2>1, <2>2
<1>8. CASE RemoveEntry(r, ZeroEntry)
  BY <1>1, <1>3, <1>7, <1>8, RemoveKeeps
<1>9. CASE RemoveEntry(r, null)
  BY <1>1, <1>3, <1>7, <1>9, RemoveKeeps
<1> QED
  BY <1>2, <1>8, <1>9

\* The block of a new file, the slot and the entry it gets.
NewStart         == allocateBlocks(vol, 1).start
NewSlot(b)       == FreeSlot(disk[b])
NewEntry(r, size) == FileEntry(r.name, size, NewStart)
NewStored(size)  == IF size = 0 THEN stored ELSE stored \cup {NewStart}

\* The entry of a new file of one block: it may name that block.
LEMMA NewFileHolds ==
    ASSUME SafeUse, IInv, Ready, NEW b \in Blocks, NEW r, Found(r, b), r.table = disk[b], NewFile(r),
           NEW size \in {0, 1}
    PROVE  /\ NewSlot(b) \in Slots \ {0, 1} /\ NewEntry(r, size) \in DirEntries
           /\ WithNewFile(r, size) = Changed(disk, b, NewSlot(b), NewEntry(r, size))
           /\ Tidy(vol') /\ \A c \in Blocks : vol.fat[c] # BLOCK_FREE => vol'.fat[c] # BLOCK_FREE
           /\ DiskInv(vol'.fat, Put(disk, b, NewSlot(b), NewEntry(r, size)))
           /\ NewStart \in Blocks /\ vol.fat[NewStart] = BLOCK_FREE /\ vol'.fat[NewStart] # BLOCK_FREE
           /\ ~Crashes => \A x \in Named(Put(disk, b, NewSlot(b), NewEntry(r, size))) :
                Holds(vol'.fat, Entry(Put(disk, b, NewSlot(b), NewEntry(r, size)), x), NewStored(size))
<1> DEFINE start == NewStart
           i == NewSlot(b)
           e == NewEntry(r, size)
<1>0. start = allocateBlocks(vol, 1).start /\ i = FreeSlot(disk[b]) /\ e = FileEntry(r.name, size, start)
  BY DEF NewStart, NewSlot, NewEntry
<1> HIDE DEF start, i, e
<1> DEFINE a == allocateBlocks(vol, 1)
           D == Put(disk, b, i, e)
<1>1. /\ pending = <<>> /\ Tidy(vol) /\ vol \in Volumes /\ TailFree(vol.fat)
      /\ ~Crashes => \A x \in Named(disk) : Holds(vol.fat, Entry(disk, x), stored)
      /\ \A s \in stored : s \in Blocks /\ vol.fat[s] # BLOCK_FREE
      /\ \A c \in RootRun : vol.fat[c] # BLOCK_FREE
  BY BetweenOperations DEF Ready, Tidy
<1>2. r.index = -1 /\ FreeSlot(r.table) # -1 /\ a.start # NoBlock /\ vol' = a.vol
  BY DEF NewFile, TakeBlocks, SafeUse
<1>3. IsDirectory(disk, b) /\ DiskInv(vol.fat, disk) /\ disk \in [Blocks -> DirTables]
  BY DEF Found, Opened, Ready, DiskInv, TablesInv
<1>4. i \in Slots \ {0, 1} /\ ~disk[b][i].inUse
  BY <1>0, <1>2, <1>3, FreeSlotBehindDots
<1>5. /\ Tidy(a.vol)
      /\ \A c \in Blocks : vol.fat[c] # BLOCK_FREE => a.vol.fat[c] = vol.fat[c] /\ a.vol.fat[c] # BLOCK_FREE
  BY <1>1, AllocateTidy
<1>6. /\ a.start \in Blocks /\ vol.fat[a.start] = BLOCK_FREE /\ a.vol.fat[a.start] = BLOCK_RESERVED
  <2> DEFINE last == a.start + 1 - 1
  <2>1. /\ a.start \in Blocks /\ last \in Blocks /\ a.start <= last
        /\ \A c \in a.start .. last : vol.fat[c] = BLOCK_FREE
        /\ \A c \in Blocks :
             a.vol.fat[c] = IF c \in a.start .. last
                            THEN IF c = last THEN BLOCK_RESERVED ELSE c + 1
                            ELSE vol.fat[c]
    <3> HIDE DEF a
    <3>1. a = allocateBlocks(vol, 1) /\ 1 \in Nat /\ 1 > 0
      BY DEF a
    <3> QED
      BY <1>1, <1>2, <3>1, AllocateRun
  <2>2. a.start = last /\ a.start \in a.start .. last
    BY <2>1, FatWords
  <2> HIDE DEF last, a
  <2> QED
    BY <2>1, <2>2
<1> HIDE DEF a
<1>7. start = a.start /\ a.vol = vol'
  BY <1>0, <1>2 DEF a
<1>8. r.name \in Texts /\ r.name \notin NoNames \cup DotNames
  <2>1. r.index \notin Slots
    BY <1>2, Sizes
  <2>2. r.name \in PathNames /\ r.name \notin NoNames /\ r.name \notin DotNames
    BY <2>1 DEF Found
  <2> QED
    BY <2>2 DEF Texts
<1>9. e \in DirEntries
  BY <1>0, <1>6, <1>7, <1>8, EntryTypes
<1>10. e.inUse = TRUE /\ e.name = r.name /\ e.isDir = FALSE /\ e.size = size /\ e.start = start
  BY <1>0 DEF FileEntry
<1>11. LastOf(e) = start /\ Run(e) = {start}
  <2>1. LastOf(e) = start
    BY <1>6, <1>7, <1>10, FatWords DEF LastOf
  <2> QED
    BY <1>6, <1>7, <1>10, <2>1, FatWords DEF Run
<1>12. vol'.fat[start] = BLOCK_RESERVED /\ BLOCK_RESERVED # BLOCK_FREE
  BY <1>6, <1>7, FatWords
<1>13. MayName(vol'.fat, disk, b, e)
  <2>1. start \notin {0} \cup RootRun
    <3>1. start # 0
      BY <1>1, <1>6, <1>7 DEF Tidy
    <3> QED
      BY <1>1, <1>6, <1>7, <3>1
  <2> QED
    BY <1>6, <1>7, <1>10, <1>11, <1>12, <2>1 DEF MayName
<1>14. \A x \in Named(disk) : Run(Entry(disk, x)) \cap Run(e) = {}
  <2>1. \A x \in Named(disk) : \A c \in Run(Entry(disk, x)) : vol.fat[c] # BLOCK_FREE
    BY <1>3 DEF DiskInv, NamedInv, MayName
  <2> QED
    BY <1>6, <1>7, <1>11, <2>1
<1>15. DiskInv(vol'.fat, D)
  <2>1. DiskInv(vol'.fat, disk)
    BY <1>3, <1>5, <1>7, FatGrows
  <2> QED
    BY <1>3, <1>4, <1>8, <1>9, <1>10, <1>13, <1>14, <2>1, PutInv
<1> DEFINE st == IF size = 0 THEN stored ELSE stored \cup {start}
<1>16. ASSUME ~Crashes, NEW x \in Named(D) PROVE Holds(vol'.fat, Entry(D, x), st)
  <2>1. /\ x \in Places /\ Entry(D, x) = IF x = <<b, i>> THEN e ELSE Entry(disk, x)
        /\ x # <<b, i>> => x \in Named(disk)
    <3>1. x \in Places
      BY DEF Named
    <3> QED
      BY <1>3, <1>4, <1>9, <3>1, PutNamed
  <2>2. CASE x = <<b, i>>
    <3>1. ChainInv(vol'.fat, e)
      BY <1>6, <1>7, <1>10, <1>11, <1>12, FatWords DEF ChainInv
    <3>2. e.start \in st => e.size > 0
      BY <1>1, <1>6, <1>7, <1>10
    <3> QED
      BY <2>1, <2>2, <3>1, <3>2 DEF Holds
  <2>3. CASE x # <<b, i>>
    <3> DEFINE g == Entry(disk, x)
    <3>1. Holds(vol.fat, g, stored) /\ MayName(vol.fat, disk, x[1], g)
      BY <1>1, <1>3, <1>16, <2>1, <2>3 DEF DiskInv, NamedInv
    <3>2. g \in DirEntries
      BY <1>3, <2>1 DEF Places, Entry, DirTables
    <3> HIDE DEF g
    <3>3. \A c \in Run(g) : c \in Blocks /\ vol'.fat[c] = vol.fat[c] /\ vol.fat[c] # BLOCK_FREE
      BY <1>5, <1>7, <3>1 DEF MayName
    <3>4. Holds(vol'.fat, g, stored)
      BY <3>1, <3>2, <3>3, HoldsKept
    <3>5. g.start # start
      BY <1>6, <1>7, <3>2, <3>3, EntryFields
    <3>6. Holds(vol'.fat, g, st)
      BY <3>4, <3>5 DEF Holds
    <3>7. Entry(D, x) = g
      BY <2>1, <2>3 DEF g
    <3> QED
      BY <3>6, <3>7
  <2> QED
    BY <2>2, <2>3
<1>17. WithNewFile(r, size) = Changed(disk, b, i, e)
  BY <1>0 DEF WithNewFile, Changed
<1> HIDE DEF D
<1>18. \A c \in Blocks : vol.fat[c] # BLOCK_FREE => vol'.fat[c] # BLOCK_FREE
  BY <1>5, <1>7
<1> QED
  BY <1>4, <1>5, <1>6, <1>7, <1>9, <1>12, <1>15, <1>16, <1>17, <1>18
  DEF D, start, i, e, st, NewStored

\* touch.
LEMMA CreateKeeps ==
    ASSUME SafeUse, IInv, NEW p \in Paths, Create(p)
    PROVE  IInv'
<1> DEFINE r == parsePath(p)
<1>1. /\ r = parsePath(p) /\ Reaches(r) /\ NewFile(r) /\ r.index # -2
      /\ pending' = Save(WithNewFile(r, 0)) /\ Remember(r.ref, WithNewFile(r, 0)) /\ stored' = stored
      /\ UNCHANGED <<disk, cwdIsRoot, cwdPath>>
  BY DEF Create, NewFile
<1> HIDE DEF r
<1>2. Ready /\ \E b \in Blocks : Found(r, b)
  BY <1>1, Target
<1>3. PICK b \in Blocks : Found(r, b)
  BY <1>2
<1>4. r.table = disk[b]
  BY <1>3 DEF Found, Opened
<1> DEFINE i == NewSlot(b)
           e == NewEntry(r, 0)
           t == WithNewFile(r, 0)
           D == Put(disk, b, i, e)
<1>5. /\ i \in Slots \ {0, 1} /\ e \in DirEntries
      /\ t = Changed(disk, b, i, e)
      /\ Tidy(vol') /\ \A c \in Blocks : vol.fat[c] # BLOCK_FREE => vol'.fat[c] # BLOCK_FREE
      /\ DiskInv(vol'.fat, D)
      /\ ~Crashes => \A x \in Named(D) : Holds(vol'.fat, Entry(D, x), NewStored(0))
  BY <1>1, <1>2, <1>4, <1>3, NewFileHolds
<1>6. NewStored(0) = stored' /\ pending' = Save(t) /\ Remember(r.ref, t) /\ D = Put(disk, b, i, e)
  BY <1>1 DEF NewStored
<1> HIDE DEF i, e, t, D
<1> QED
  BY <1>1, <1>2, <1>3, <1>5, <1>6, OneSlotStep

\* cp2fs to a new name: the directory is written with both sizes.
LEMMA StoreNewKeeps ==
    ASSUME SafeUse, IInv, NEW p \in Paths, StoreNew(p)
    PROVE  IInv'
<1> DEFINE r == parsePath(p)
<1>1. /\ r = parsePath(p) /\ Reaches(r) /\ NewFile(r) /\ r.index # -2
      /\ r.ref # "copy"
      /\ pending' = Save(WithNewFile(r, 0)) \o Save(WithNewFile(r, 1)) /\ Remember(r.ref, WithNewFile(r, 1))
      /\ stored' = stored \cup {allocateBlocks(vol, 1).start}
      /\ UNCHANGED <<disk, cwdIsRoot, cwdPath>>
  <2>1. /\ r = parsePath(p) /\ Reaches(r) /\ NewFile(r)
        /\ CopyInto(r, WithNewFile(r, 0), WithNewFile(r, 1), allocateBlocks(vol, 1).start)
    BY DEF StoreNew
  <2> HIDE DEF r
  <2>2. r.ref # "copy"
    BY <2>1 DEF CopyInto, SafeUse
  <2>3. r.index = -1 /\ UNCHANGED <<disk, cwdIsRoot, cwdPath>>
    BY <2>1 DEF NewFile
  <2> QED
    BY <2>1, <2>2, <2>3 DEF CopyInto, SaveSize
<1> HIDE DEF r
<1>2. Ready /\ \E b \in Blocks : Found(r, b)
  BY <1>1, Target
<1>3. PICK b \in Blocks : Found(r, b)
  BY <1>2
<1>4. r.table = disk[b]
  BY <1>3 DEF Found, Opened
<1> DEFINE i == NewSlot(b)
           e == NewEntry(r, 0)
           g == NewEntry(r, 1)
           t == WithNewFile(r, 0)
           u == WithNewFile(r, 1)
           D == Put(disk, b, i, g)
<1>5. i \in Slots \ {0, 1} /\ e \in DirEntries /\ t = Changed(disk, b, i, e) /\ DiskInv(vol'.fat, Put(disk, b, i, e))
  BY <1>1, <1>2, <1>4, <1>3, NewFileHolds
<1>6. /\ g \in DirEntries
      /\ u = Changed(disk, b, i, g)
      /\ Tidy(vol') /\ \A c \in Blocks : vol.fat[c] # BLOCK_FREE => vol'.fat[c] # BLOCK_FREE
      /\ DiskInv(vol'.fat, D)
      /\ NewStart \in Blocks /\ vol'.fat[NewStart] # BLOCK_FREE
      /\ ~Crashes => \A x \in Named(D) : Holds(vol'.fat, Entry(D, x), NewStored(1))
  BY <1>1, <1>2, <1>4, <1>3, NewFileHolds
<1>7. NewStored(1) = stored' /\ pending' = SaveBoth(t, u) /\ Remember(r.ref, u) /\ D = Put(disk, b, i, g)
  BY <1>1 DEF NewStored, NewStart, SaveBoth
<1>8. \A s \in stored' : s \in Blocks /\ vol'.fat[s] # BLOCK_FREE
  <2>1. \A s \in stored : s \in Blocks /\ vol.fat[s] # BLOCK_FREE
    BY <1>1, BetweenOperations DEF Reaches
  <2>2. stored' = stored \cup {NewStart}
    BY <1>1 DEF NewStart
  <2> QED
    BY <1>6, <2>1, <2>2
<1> HIDE DEF i, e, g, t, u, D
<1> QED
  BY <1>1, <1>2, <1>3, <1>5, <1>6, <1>7, <1>8, TwiceWrittenStep

\* The entry of a file with another size.
SizedEntry(b, i, size) == [disk[b][i] EXCEPT !.size = size]
FileStored(b, i)       == stored \cup {disk[b][i].start}

\* A file of at most one block may be named with either size.
LEMMA SizedEntryHolds ==
    ASSUME IInv, Ready, NEW b \in Blocks, IsDirectory(disk, b), NEW i \in Slots,
           disk[b][i].name \notin NoNames, ~disk[b][i].isDir, NEW size \in {0, 1}
    PROVE  /\ i \in Slots \ {0, 1} /\ SizedEntry(b, i, size) \in DirEntries
           /\ DiskInv(vol.fat, Put(disk, b, i, SizedEntry(b, i, size)))
           /\ disk[b][i].start \in Blocks /\ vol.fat[disk[b][i].start] # BLOCK_FREE
           /\ ~Crashes /\ size = 1 => \A x \in Named(Put(disk, b, i, SizedEntry(b, i, size))) :
                Holds(vol.fat, Entry(Put(disk, b, i, SizedEntry(b, i, size)), x), FileStored(b, i))
<1> DEFINE f == disk[b][i]
           e == SizedEntry(b, i, size)
           D == Put(disk, b, i, e)
           st == FileStored(b, i)
           at == <<b, i>>
<1>1. DiskInv(vol.fat, disk) /\ disk \in [Blocks -> DirTables] /\ pending = <<>>
  BY DEF Ready, DiskInv, TablesInv
<1>2. /\ f \in DirEntries /\ f.inUse /\ f.name \notin DotNames
      /\ f.name \notin DotNames => i \notin {0, 1} /\ at \in Named(disk) /\ Entry(disk, at) = f
  BY <1>1, NamedSlot
<1>3. MayName(vol.fat, disk, b, f)
  <2>1. MayName(vol.fat, disk, at[1], Entry(disk, at))
    BY <1>1, <1>2 DEF DiskInv, NamedInv
  <2> QED
    BY <1>2, <2>1
<1>4. f.size \in {0, 1} /\ f.start \in Blocks /\ LastOf(f) = f.start /\ Run(f) = {f.start}
  <2>1. f.start \in Run(f) /\ f.size \in Nat
    BY <1>2, EntryFields
  <2>2. f.size \in {0, 1} /\ f.start \in Blocks
    BY <1>3, <2>1 DEF MayName
  <2>3. LastOf(f) = f.start
    BY <2>2, FatWords DEF LastOf
  <2> QED
    BY <2>2, <2>3, FatWords DEF Run
<1>5. /\ e \in DirEntries /\ e.name = f.name /\ e.isDir = f.isDir /\ e.inUse = f.inUse
      /\ e.start = f.start /\ e.size = size
  <2> HIDE DEF f
  <2>1. e = [f EXCEPT !.size = size] /\ size \in Nat /\ f \in DirEntries
    BY <1>2 DEF SizedEntry, f
  <2> HIDE DEF e
  <2>2. e \in DirEntries
    BY <2>1 DEF DirEntries
  <2>3. /\ e.name = f.name /\ e.isDir = f.isDir /\ e.inUse = f.inUse
        /\ e.start = f.start /\ e.size = size
    BY <2>1 DEF DirEntries
  <2> QED
    BY <2>2, <2>3
<1> HIDE DEF f, e
<1>6. LastOf(e) = f.start /\ Run(e) = {f.start}
  <2>1. LastOf(e) = f.start
    BY <1>4, <1>5, FatWords DEF LastOf
  <2> QED
    BY <1>4, <1>5, <2>1, FatWords DEF Run
<1>7. vol.fat[f.start] # BLOCK_FREE /\ f.start \notin {0} \cup RootRun
  BY <1>3, <1>4 DEF MayName
<1>8. ~f.isDir /\ f.name \notin NoNames
  BY DEF f
<1>9. MayName(vol.fat, disk, b, e)
  BY <1>4, <1>5, <1>6, <1>7, <1>8 DEF MayName
<1>10. \A x \in Named(disk) : x # at => Run(Entry(disk, x)) \cap Run(e) = {}
  BY <1>1, <1>2, <1>4, <1>6 DEF DiskInv, NamedInv
<1>11. DiskInv(vol.fat, D)
  BY <1>1, <1>2, <1>5, <1>8, <1>9, <1>10, PutInv
<1>12. ASSUME ~Crashes, size = 1, NEW x \in Named(D) PROVE Holds(vol.fat, Entry(D, x), st)
  <2>1. /\ x \in Places /\ Entry(D, x) = IF x = at THEN e ELSE Entry(disk, x)
        /\ x # at => x \in Named(disk)
    <3>1. x \in Places
      BY DEF Named
    <3> QED
      BY <1>1, <1>5, <3>1, PutNamed
  <2>2. \A y \in Named(disk) : Holds(vol.fat, Entry(disk, y), stored)
    BY <1>1, <1>12, BetweenOperations
  <2>3. CASE x = at
    <3>1. Holds(vol.fat, f, stored)
      BY <1>2, <2>2
    <3>2. ChainInv(vol.fat, e)
      BY <1>4, <1>5, <1>6, <3>1 DEF Holds, ChainInv
    <3>3. e.start \in st => e.size > 0
      BY <1>5, <1>12
    <3> QED
      BY <2>1, <2>3, <3>2, <3>3 DEF Holds
  <2>4. CASE x # at
    <3> DEFINE g == Entry(disk, x)
    <3>1. Holds(vol.fat, g, stored) /\ g \in DirEntries
      BY <1>1, <2>1, <2>2, <2>4 DEF Places, Entry, DirTables
    <3>2. g.start # f.start
      BY <1>6, <1>10, <2>1, <2>4, <3>1, EntryFields
    <3>3. Holds(vol.fat, g, st)
      BY <3>1, <3>2 DEF Holds, FileStored, f
    <3> QED
      BY <2>1, <2>4, <3>3
  <2> QED
    BY <2>3, <2>4
<1> HIDE DEF D
<1> QED
  BY <1>2, <1>4, <1>5, <1>7, <1>11, <1>12 DEF D, e, f, st

\* cp2fs over a file: truncated and written.
LEMMA StoreKeeps ==
    ASSUME SafeUse, IInv, NEW p \in Paths, Store(p)
    PROVE  IInv'
<1> DEFINE r == parsePath(p)
<1>1. /\ r = parsePath(p) /\ Reaches(r) /\ r.index >= 0 /\ ~r.table[r.index].isDir /\ r.index # -2
      /\ pending' = Save([r.table EXCEPT ![r.index].size = 0]) \o Save([r.table EXCEPT ![r.index].size = 1])
      /\ Remember(r.ref, [r.table EXCEPT ![r.index].size = 1])
      /\ stored' = stored \cup {r.table[r.index].start}
      /\ UNCHANGED <<vol, disk, cwdIsRoot, cwdPath>>
  <2>1. /\ r = parsePath(p) /\ Reaches(r) /\ r.index >= 0 /\ ~r.table[r.index].isDir
        /\ CopyInto(r, [r.table EXCEPT ![r.index].size = 0],
                       [r.table EXCEPT ![r.index].size = 1], r.table[r.index].start)
        /\ UNCHANGED <<vol, disk, cwdIsRoot, cwdPath>>
    BY DEF Store
  <2> HIDE DEF r
  <2>2. r.ref # "copy"
    BY <2>1, Zenon DEF CopyInto, SafeUse
  <2>3. r.index # -2
    <3>1. r.index >= 0
      BY <2>1
    <3> QED
      BY <3>1
  <2> QED
    BY <2>1, <2>2, <2>3 DEF CopyInto, SaveSize
<1> HIDE DEF r
<1>2. Ready /\ \E b \in Blocks : Found(r, b)
  BY <1>1, Target
<1>3. PICK b \in Blocks : Found(r, b)
  BY <1>2
<1>4. /\ r.table = disk[b] /\ r.index \in Slots /\ disk[b][r.index].name \notin NoNames
      /\ IsDirectory(disk, b) /\ ~disk[b][r.index].isDir
  BY <1>1, <1>3 DEF Found, Opened
<1> DEFINE i == r.index
           e == SizedEntry(b, i, 0)
           g == SizedEntry(b, i, 1)
           t == Changed(disk, b, i, e)
           u == Changed(disk, b, i, g)
           D == Put(disk, b, i, g)
<1>5. i \in Slots \ {0, 1} /\ e \in DirEntries /\ DiskInv(vol.fat, Put(disk, b, i, e))
  BY <1>2, <1>4, SizedEntryHolds
<1>6. /\ g \in DirEntries /\ DiskInv(vol.fat, D)
      /\ disk[b][i].start \in Blocks /\ vol.fat[disk[b][i].start] # BLOCK_FREE
      /\ ~Crashes => \A x \in Named(D) : Holds(vol.fat, Entry(D, x), FileStored(b, i))
  BY <1>2, <1>4, SizedEntryHolds
<1>7. FileStored(b, i) = stored' /\ pending' = SaveBoth(t, u) /\ Remember(r.ref, u)
  <2>1. /\ t = [r.table EXCEPT ![r.index].size = 0]
        /\ u = [r.table EXCEPT ![r.index].size = 1]
    BY <1>4 DEF Changed, SizedEntry
  <2>2. FileStored(b, i) = stored'
    BY <1>1, <1>4 DEF FileStored
  <2> HIDE DEF t, u
  <2>3. pending' = SaveBoth(t, u)
    BY <1>1, <2>1 DEF SaveBoth
  <2> QED
    BY <1>1, <2>1, <2>2, <2>3
<1>8. /\ Tidy(vol') /\ \A s \in stored' : s \in Blocks /\ vol'.fat[s] # BLOCK_FREE
      /\ \A c \in Blocks : vol.fat[c] # BLOCK_FREE => vol'.fat[c] # BLOCK_FREE
  <2>1. Tidy(vol) /\ \A s \in stored : s \in Blocks /\ vol.fat[s] # BLOCK_FREE
    BY <1>1, BetweenOperations DEF Reaches
  <2> QED
    BY <1>1, <1>4, <1>6, <2>1
<1>9. vol' = vol
  BY <1>1
<1>10. t = Changed(disk, b, i, e) /\ u = Changed(disk, b, i, g) /\ D = Put(disk, b, i, g)
  OBVIOUS
<1> HIDE DEF i, e, g, t, u, D
<1>11. /\ DiskInv(vol'.fat, Put(disk, b, i, e)) /\ DiskInv(vol'.fat, D)
       /\ ~Crashes => \A x \in Named(D) : Holds(vol'.fat, Entry(D, x), stored')
  BY <1>5, <1>6, <1>7, <1>9
<1> QED
  BY <1>1, <1>2, <1>3, <1>5, <1>6, <1>7, <1>8, <1>10, <1>11, TwiceWrittenStep

\* The allocator alone disturbs nothing.
LEMMA AllocationKeeps ==
    ASSUME IInv, Ready, NEW n \in Nat, n > 0, vol' = allocateBlocks(vol, n).vol
    PROVE  /\ Tidy(vol')
           /\ \A c \in Blocks : vol.fat[c] # BLOCK_FREE => vol'.fat[c] = vol.fat[c] /\ vol'.fat[c] # BLOCK_FREE
           /\ DiskInv(vol'.fat, disk)
           /\ \A s \in stored : s \in Blocks /\ vol'.fat[s] # BLOCK_FREE
           /\ ~Crashes => \A x \in Named(disk) : Holds(vol'.fat, Entry(disk, x), stored)
<1>1. /\ Tidy(vol) /\ DiskInv(vol.fat, disk) /\ disk \in [Blocks -> DirTables]
      /\ ~Crashes => \A x \in Named(disk) : Holds(vol.fat, Entry(disk, x), stored)
      /\ \A s \in stored : s \in Blocks /\ vol.fat[s] # BLOCK_FREE
  BY BetweenOperations DEF Ready, DiskInv, TablesInv
<1>2. /\ Tidy(vol')
      /\ \A c \in Blocks : vol.fat[c] # BLOCK_FREE => vol'.fat[c] = vol.fat[c] /\ vol'.fat[c] # BLOCK_FREE
  BY <1>1, AllocateTidy
<1>3. DiskInv(vol'.fat, disk)
  BY <1>1, <1>2, FatGrows
<1>4. ASSUME ~Crashes, NEW x \in Named(disk) PROVE Holds(vol'.fat, Entry(disk, x), stored)
  <2>1. Entry(disk, x) \in DirEntries
    BY <1>1 DEF Named, Places, Entry, DirTables
  <2>2. \A c \in Run(Entry(disk, x)) : vol'.fat[c] = vol.fat[c]
    BY <1>1, <1>2 DEF DiskInv, NamedInv, MayName
  <2> QED
    BY <1>1, <1>4, <2>1, <2>2, HoldsKept
<1> QED
  BY <1>1, <1>2, <1>3, <1>4

\* The blocks of a new directory, its table, the write of it, and the disk
\* with it.
DirStart      == allocateBlocks(vol, DirBlocks).start
NewTable(b)   == newDirectory(DirStart, DirBlocks, disk[b][0])
TableWrite(b) == [at |-> DirStart, table |-> NewTable(b)]
WithTable(b)  == Written(disk, TableWrite(b), MaxEntries)
LinkEntry(r)  == DirEntry(r.name, DirBlocks, DirStart)

\* The blocks of a new directory were free.
LEMMA DirectoryBlocks ==
    ASSUME IInv, Ready, vol' = allocateBlocks(vol, DirBlocks).vol, DirStart # NoBlock
    PROVE  /\ DirStart \in Blocks /\ DirStart # 0 /\ DirStart # rootStart
           /\ disk[DirStart] = ZeroTable
           /\ DirStart + DirBlocks - 1 \in Blocks
           /\ \A c \in DirStart .. DirStart + DirBlocks - 1 :
                /\ c \in Blocks /\ vol.fat[c] = BLOCK_FREE /\ vol'.fat[c] # BLOCK_FREE
                /\ c \notin {0} \cup RootRun
                /\ vol'.fat[c] = IF c = DirStart + DirBlocks - 1 THEN BLOCK_RESERVED ELSE c + 1
<1>1. /\ Tidy(vol) /\ DiskInv(vol.fat, disk) /\ \A c \in RootRun : vol.fat[c] # BLOCK_FREE
  BY BetweenOperations DEF Ready
<1> DEFINE a == allocateBlocks(vol, DirBlocks)
           last == DirStart + DirBlocks - 1
<1>2. a = allocateBlocks(vol, DirBlocks) /\ a.start = DirStart /\ a.vol = vol' /\ last = a.start + DirBlocks - 1
  BY DEF DirStart
<1>3. vol \in Volumes /\ TailFree(vol.fat) /\ DirBlocks \in Nat /\ DirBlocks > 0
  BY <1>1, Sizes DEF Tidy
<1> HIDE DEF a, last
<1>4. /\ a.start \in Blocks /\ last \in Blocks /\ a.start <= last
      /\ \A c \in a.start .. last : vol.fat[c] = BLOCK_FREE
      /\ \A c \in Blocks :
           a.vol.fat[c] = IF c \in a.start .. last
                          THEN IF c = last THEN BLOCK_RESERVED ELSE c + 1
                          ELSE vol.fat[c]
  BY <1>2, <1>3, AllocateRun
<1>5. ASSUME NEW c \in DirStart .. last
      PROVE  /\ c \in Blocks /\ vol.fat[c] = BLOCK_FREE /\ vol'.fat[c] # BLOCK_FREE
             /\ c \notin {0} \cup RootRun
             /\ vol'.fat[c] = IF c = last THEN BLOCK_RESERVED ELSE c + 1
  <2>1. c \in Blocks /\ c \in a.start .. last
    BY <1>2, <1>4, FatWords
  <2>2. vol.fat[c] = BLOCK_FREE /\ vol'.fat[c] = IF c = last THEN BLOCK_RESERVED ELSE c + 1
    BY <1>2, <1>4, <2>1
  <2>3. c # 0 /\ c \notin RootRun
    BY <1>1, <2>1, <2>2 DEF Tidy
  <2> QED
    BY <2>1, <2>2, <2>3, FatWords
<1>6. DirStart \in DirStart .. last
  BY <1>2, <1>4, FatWords
<1>7. disk[DirStart] = ZeroTable
  BY <1>1, <1>5, <1>6 DEF DiskInv, TablesInv
<1> QED
  BY <1>2, <1>4, <1>5, <1>6, <1>7, Sizes DEF last

\* The new table is written before anything names it.
LEMMA DirectoryWritten ==
    ASSUME IInv, Ready, vol' = allocateBlocks(vol, DirBlocks).vol, DirStart # NoBlock,
           NEW b \in Blocks, IsDirectory(disk, b)
    PROVE  /\ SafeWrite(vol'.fat, disk, TableWrite(b)) /\ Save(NewTable(b)) = <<TableWrite(b)>>
           /\ DiskInv(vol'.fat, WithTable(b))
           /\ DirStart # b /\ \A c \in Blocks : c # DirStart => WithTable(b)[c] = disk[c]
           /\ \A c \in Blocks : IsDirectory(disk, c) =>
                IsDirectory(WithTable(b), c) /\ WithTable(b)[c] = disk[c]
           /\ \A x \in Named(WithTable(b)) : x \in Named(disk) /\ Entry(WithTable(b), x) = Entry(disk, x)
           /\ IsDirectory(WithTable(b), DirStart) /\ WithTable(b)[DirStart][1].start = b
<1>1. DiskInv(vol'.fat, disk) /\ disk \in [Blocks -> DirTables]
  <2>1. DirBlocks \in Nat /\ DirBlocks > 0
    BY Sizes
  <2>2. DiskInv(vol'.fat, disk)
    BY <2>1, AllocationKeeps
  <2> QED
    BY <2>2 DEF Ready, DiskInv, TablesInv
<1>2. /\ DirStart \in Blocks /\ DirStart # rootStart /\ disk[DirStart] = ZeroTable
      /\ vol'.fat[DirStart] # BLOCK_FREE
  <2>1. DirStart \in Blocks => DirStart \in DirStart .. DirStart + DirBlocks - 1
    BY Sizes, FatWords
  <2> QED
    BY <2>1, DirectoryBlocks
<1> DEFINE t == NewTable(b)
           w == TableWrite(b)
<1>3. t = newDirectory(DirStart, DirBlocks, disk[b][0]) /\ w = [at |-> DirStart, table |-> t]
  BY DEF NewTable, TableWrite
<1> HIDE DEF t, w
<1>4. /\ t \in DirTables
      /\ t[0] = DirEntry(".", DirBlocks, DirStart)
      /\ IsDotDot(t[1], disk[b][0].size, b)
  BY <1>1, <1>2, <1>3, NewDirectoryTable
<1>5. ASSUME NEW fat, DiskInv(fat, disk), fat[DirStart] # BLOCK_FREE, NEW k \in 0 .. MaxEntries
      PROVE  /\ DiskInv(fat, Written(disk, w, k))
             /\ DirStart # b /\ \A c \in Blocks : c # DirStart => Written(disk, w, k)[c] = disk[c]
             /\ \A x \in Named(Written(disk, w, k)) : x \in Named(disk) /\ Entry(Written(disk, w, k), x) = Entry(disk, x)
             /\ k = MaxEntries => Written(disk, w, k)[DirStart] = t
  <2>1. w = [at |-> DirStart, table |-> newDirectory(DirStart, DirBlocks, disk[b][0])] /\ w.table = t
    BY <1>3
  <2> DEFINE D == Written(disk, w, k)
  <2>2. D = Written(disk, w, k)
    OBVIOUS
  <2> HIDE DEF D
  <2>3. /\ DiskInv(fat, D)
        /\ DirStart # b /\ \A c \in Blocks : c # DirStart => D[c] = disk[c]
        /\ \A c \in Blocks : IsDirectory(disk, c) => IsDirectory(D, c) /\ D[c][1] = disk[c][1]
        /\ \A x \in Named(D) : x \in Named(disk) /\ Entry(D, x) = Entry(disk, x)
        /\ k = MaxEntries => D[DirStart] = w.table
    BY <1>2, <1>5, <2>1, <2>2, NewDirectoryInv
  <2> QED
    BY <2>1, <2>2, <2>3
<1>6. MaxEntries \in 0 .. MaxEntries /\ Cuts \subseteq 0 .. MaxEntries
  BY Sizes DEF Cuts
<1>7. w \in Writes
  BY <1>2, <1>3, <1>4 DEF Writes
<1>8. SafeWrite(vol'.fat, disk, w)
  BY <1>1, <1>2, <1>5, <1>6, <1>7 DEF SafeWrite
<1>9. Save(t) = <<w>>
  <2>1. t[0].size = DirBlocks /\ t[0].start = DirStart
    BY <1>4 DEF DirEntry
  <2> QED
    BY <1>3, <2>1, Sizes DEF Save
<1> DEFINE M == WithTable(b)
<1>10. M = Written(disk, w, MaxEntries)
  BY DEF WithTable, w
<1> HIDE DEF M
<1>11. /\ DiskInv(vol'.fat, M) /\ DirStart # b /\ \A c \in Blocks : c # DirStart => M[c] = disk[c]
       /\ \A x \in Named(M) : x \in Named(disk) /\ Entry(M, x) = Entry(disk, x)
       /\ M[DirStart] = t
  BY <1>1, <1>2, <1>5, <1>6, <1>10
<1>12. IsDirectory(M, DirStart) /\ M[DirStart][1].start = b
  BY <1>2, <1>4, <1>11 DEF IsDirectory, IsDotDot
<1>13. ASSUME NEW c \in Blocks, IsDirectory(disk, c) PROVE IsDirectory(M, c) /\ M[c] = disk[c]
  <2>1. c # DirStart
    <3>1. disk[c][0].inUse = TRUE
      BY <1>13 DEF IsDirectory, DirEntry
    <3> QED
      BY <1>2, <3>1, ZeroTypes, Sizes
  <2> QED
    BY <1>11, <1>13, <2>1 DEF IsDirectory
<1> QED
  BY <1>8, <1>9, <1>11, <1>12, <1>13 DEF M, w, t

\* The entry of the new directory, in the table of the directory above.
LEMMA DirectoryLinked ==
    ASSUME IInv, Ready, vol' = allocateBlocks(vol, DirBlocks).vol, DirStart # NoBlock,
           NEW b \in Blocks, NEW r, Found(r, b), r.index = -1,
           NEW i \in Slots \ {0, 1}, NEW D, D = Put(WithTable(b), b, i, LinkEntry(r))
    PROVE  /\ LinkEntry(r) \in DirEntries
           /\ DiskInv(vol'.fat, D)
           /\ ~Crashes => \A x \in Named(D) : Holds(vol'.fat, Entry(D, x), stored)
<1> DEFINE M == WithTable(b)
           e == LinkEntry(r)
           last == DirStart + DirBlocks - 1
<1>1. IsDirectory(disk, b) /\ DiskInv(vol.fat, disk) /\ disk \in [Blocks -> DirTables]
  BY DEF Found, Opened, Ready, DiskInv, TablesInv
<1>2. /\ DirStart \in Blocks /\ DirStart # 0 /\ DirStart # rootStart
      /\ last \in Blocks
      /\ \A c \in DirStart .. last :
           /\ c \in Blocks /\ vol.fat[c] = BLOCK_FREE /\ vol'.fat[c] # BLOCK_FREE
           /\ c \notin {0} \cup RootRun
           /\ vol'.fat[c] = IF c = last THEN BLOCK_RESERVED ELSE c + 1
  BY DirectoryBlocks
<1>3. /\ DiskInv(vol'.fat, M)
      /\ \A c \in Blocks : IsDirectory(disk, c) => IsDirectory(M, c) /\ M[c] = disk[c]
      /\ \A x \in Named(M) : x \in Named(disk) /\ Entry(M, x) = Entry(disk, x)
      /\ IsDirectory(M, DirStart) /\ M[DirStart][1].start = b
  BY <1>1, DirectoryWritten
<1>4. r.name \in Texts /\ r.name \notin NoNames \cup DotNames
  <2>1. r.index \notin Slots
    BY Sizes
  <2>2. r.name \in PathNames /\ r.name \notin NoNames /\ r.name \notin DotNames
    BY <2>1 DEF Found
  <2> QED
    BY <2>2 DEF Texts
<1>5. /\ e \in DirEntries /\ e.name = r.name /\ e.isDir = TRUE /\ e.inUse = TRUE
      /\ e.size = DirBlocks /\ e.start = DirStart
  <2>1. DirEntry(r.name, DirBlocks, DirStart) \in DirEntries
    BY <1>2, <1>4, Sizes, EntryTypes
  <2> QED
    BY <2>1 DEF LinkEntry, DirEntry
<1> HIDE DEF M, e
<1>6. LastOf(e) = last /\ Run(e) = DirStart .. last
  <2>1. LastOf(e) = last
    BY <1>5, Sizes DEF LastOf
  <2> QED
    BY <1>5, <2>1 DEF Run
<1> HIDE DEF last
<1>7. MayName(vol'.fat, M, b, e)
  BY <1>2, <1>3, <1>5, <1>6 DEF MayName
<1>8. \A x \in Named(M) : Run(Entry(M, x)) \cap Run(e) = {}
  <2>1. \A x \in Named(disk) : \A c \in Run(Entry(disk, x)) : vol.fat[c] # BLOCK_FREE
    BY <1>1 DEF DiskInv, NamedInv, MayName
  <2> QED
    BY <1>2, <1>3, <1>6, <2>1
<1>9. D = Put(M, b, i, e) /\ M \in [Blocks -> DirTables] /\ IsDirectory(M, b)
  BY <1>1, <1>3 DEF M, e, DiskInv, TablesInv
<1>10. DiskInv(vol'.fat, D)
  BY <1>3, <1>4, <1>5, <1>7, <1>8, <1>9, PutInv
<1>11. ASSUME ~Crashes, NEW x \in Named(D) PROVE Holds(vol'.fat, Entry(D, x), stored)
  <2>1. /\ x \in Places /\ Entry(D, x) = IF x = <<b, i>> THEN e ELSE Entry(M, x)
        /\ x # <<b, i>> => x \in Named(M)
    <3>1. x \in Places /\ i \in Slots
      BY DEF Named
    <3> QED
      BY <1>5, <1>9, <3>1, PutNamed
  <2>2. CASE x = <<b, i>>
    <3>1. DirStart <= last
      BY <1>5, <1>6, EntryFields
    <3>2. last \in DirStart .. last /\ \A c \in DirStart .. last - 1 : c \in DirStart .. last /\ c # last
      BY <1>2, <3>1, FatWords
    <3>3. ChainInv(vol'.fat, e)
      BY <1>2, <1>5, <1>6, <3>2 DEF ChainInv
    <3> QED
      BY <1>5, <2>1, <2>2, <3>3, Sizes DEF Holds
  <2>3. CASE x # <<b, i>>
    <3>1. \A y \in Named(disk) : Holds(vol'.fat, Entry(disk, y), stored)
      BY <1>11, Sizes, AllocationKeeps
    <3> QED
      BY <1>3, <2>1, <2>3, <3>1
  <2> QED
    BY <2>2, <2>3
<1> QED
  BY <1>5, <1>10, <1>11 DEF e

\* fs_mkdir, with and without blocks and a slot.
LEMMA MkdirKeeps ==
    ASSUME SafeUse, IInv, NEW p \in Paths, Mkdir(p)
    PROVE  IInv'
<1> DEFINE r == parsePath(p)
           k == FreeSlot(r.table)
           parent == [r.table EXCEPT ![k] = LinkEntry(r)]
           new == newDirectory(DirStart, DirBlocks, r.table[0])
<1>1. /\ r = parsePath(p) /\ Reaches(r) /\ r.index = -1 /\ r.index # -2
      /\ vol' = allocateBlocks(vol, DirBlocks).vol
      /\ \/ DirStart \in {0, NoBlock} /\ UNCHANGED <<root, cwd, pending>>
         \/ /\ DirStart \notin {0, NoBlock} /\ k = -1
            /\ pending' = Save(new) /\ UNCHANGED <<root, cwd>>
         \/ /\ DirStart \notin {0, NoBlock} /\ k # -1
            /\ pending' = Save(new) \o Save(parent) /\ Remember(r.ref, parent)
      /\ UNCHANGED <<disk, cwdIsRoot, cwdPath, stored>>
  <2> DEFINE a == allocateBlocks(vol, DirBlocks)
  <2>1. /\ Reaches(r) /\ r.index = -1
        /\ vol' = a.vol
        /\ \/ a.start \in {0, NoBlock} /\ UNCHANGED <<root, cwd, pending>>
           \/ /\ a.start \notin {0, NoBlock} /\ k = -1
              /\ pending' = Save(newDirectory(a.start, DirBlocks, r.table[0]))
              /\ UNCHANGED <<root, cwd>>
           \/ /\ a.start \notin {0, NoBlock} /\ k # -1
              /\ pending' = Save(newDirectory(a.start, DirBlocks, r.table[0]))
                            \o Save([r.table EXCEPT ![k] = DirEntry(r.name, DirBlocks, a.start)])
              /\ Remember(r.ref, [r.table EXCEPT ![k] = DirEntry(r.name, DirBlocks, a.start)])
        /\ UNCHANGED <<disk, cwdIsRoot, cwdPath, stored>>
    BY Zenon DEF Mkdir, LinkDirectory
  <2>2. a.start = DirStart /\ DirEntry(r.name, DirBlocks, a.start) = LinkEntry(r) /\ r = parsePath(p)
    BY DEF DirStart, LinkEntry
  <2>3. a.vol = allocateBlocks(vol, DirBlocks).vol
    OBVIOUS
  <2> HIDE DEF a, r
  <2>4. r.index # -2
    BY <2>1
  <2> QED
    BY <2>1, <2>2, <2>3, <2>4
<1> HIDE DEF r
<1>2. Ready /\ \E b \in Blocks : Found(r, b)
  BY <1>1, Target
<1>3. PICK b \in Blocks : Found(r, b)
  BY <1>2
<1>4. /\ r.table = disk[b] /\ IsDirectory(disk, b)
      /\ r.ref = "root" => b = rootStart
      /\ r.ref = "cwd" => ~cwdIsRoot /\ b = cwd[0].start
      /\ r.ref \notin {"root", "cwd"} => b # rootStart /\ (~cwdIsRoot => b # cwd[0].start)
  BY <1>3 DEF Found, Opened
<1>5. /\ DiskInv(vol.fat, disk) /\ CachesOn(disk, root, cwd, cwdIsRoot)
      /\ cwdPath \in Seq(PathNames \ DotNames) /\ disk \in [Blocks -> DirTables] /\ IsDirectory(disk, rootStart)
      /\ pending = <<>>
  BY <1>2 DEF Ready, DiskInv, TablesInv, DirectoriesInv
<1>6. /\ Tidy(vol') /\ DiskInv(vol'.fat, disk)
      /\ \A c \in RootRun : vol'.fat[c] # BLOCK_FREE
      /\ \A s \in stored' : s \in Blocks /\ vol'.fat[s] # BLOCK_FREE
      /\ ~Crashes => \A x \in Named(disk) : Holds(vol'.fat, Entry(disk, x), stored')
      /\ cwdIsRoot' => cwdPath' = <<>>
      /\ cwdPath' \in Seq(PathNames \ DotNames)
  <2>1. DirBlocks \in Nat /\ DirBlocks > 0 /\ RootRun \subseteq Blocks /\ stored' = stored
        /\ cwdIsRoot' = cwdIsRoot /\ cwdPath' = cwdPath
    BY <1>1, Sizes
  <2>2. /\ Tidy(vol')
        /\ \A c \in Blocks : vol.fat[c] # BLOCK_FREE => vol'.fat[c] = vol.fat[c] /\ vol'.fat[c] # BLOCK_FREE
        /\ DiskInv(vol'.fat, disk)
        /\ \A s \in stored : s \in Blocks /\ vol'.fat[s] # BLOCK_FREE
        /\ ~Crashes => \A x \in Named(disk) : Holds(vol'.fat, Entry(disk, x), stored)
    BY <1>1, <1>2, <2>1, AllocationKeeps
  <2>3. (\A c \in RootRun : vol.fat[c] # BLOCK_FREE) /\ (cwdIsRoot => cwdPath = <<>>)
    BY <1>5, BetweenOperations
  <2> QED
    BY <1>5, <2>1, <2>2, <2>3
<1> HIDE DEF k, parent, new
<1>7. CASE DirStart \in {0, NoBlock} /\ UNCHANGED <<root, cwd, pending>>
  <2>1. QueueInv(vol'.fat, disk', pending') /\ DiskAfter(disk', pending', Len(pending')) = disk
    BY <1>1, <1>5, <1>6, <1>7, EmptyQueue
  <2>2. CachesOn(disk, root', cwd', cwdIsRoot')
    BY <1>1, <1>5, <1>7
  <2> QED
    BY <1>6, <2>1, <2>2, Established
<1> DEFINE M == WithTable(b)
           w == TableWrite(b)
<1>8. ASSUME DirStart \notin {0, NoBlock}
      PROVE  /\ SafeWrite(vol'.fat, disk, w) /\ Save(new) = <<w>>
             /\ M = Written(disk, w, MaxEntries) /\ DiskInv(vol'.fat, M)
             /\ M \in [Blocks -> DirTables] /\ M[b] = disk[b] /\ IsDirectory(M, b) /\ IsDirectory(M, rootStart)
             /\ \A x \in Named(M) : x \in Named(disk) /\ Entry(M, x) = Entry(disk, x)
             /\ CachesOn(M, root, cwd, cwdIsRoot)
  <2> DEFINE nt == NewTable(b)
  <2>1. new = nt
    BY <1>4 DEF NewTable, new
  <2>2. /\ SafeWrite(vol'.fat, disk, w) /\ Save(nt) = <<w>>
        /\ DiskInv(vol'.fat, M)
        /\ DirStart # b /\ \A c \in Blocks : c # DirStart => M[c] = disk[c]
        /\ \A c \in Blocks : IsDirectory(disk, c) => IsDirectory(M, c) /\ M[c] = disk[c]
        /\ \A x \in Named(M) : x \in Named(disk) /\ Entry(M, x) = Entry(disk, x)
    BY <1>1, <1>2, <1>4, <1>8, DirectoryWritten
  <2>3. M = Written(disk, w, MaxEntries)
    BY DEF WithTable
  <2> HIDE DEF M, w, nt
  <2>4. CachesOn(M, root, cwd, cwdIsRoot)
    BY <1>5, <2>2, Sizes DEF CachesOn
  <2> QED
    BY <1>4, <1>5, <2>1, <2>2, <2>3, <2>4, Sizes DEF DiskInv, TablesInv
<1> HIDE DEF M, w
<1>9. CASE /\ DirStart \notin {0, NoBlock} /\ k = -1
           /\ pending' = Save(new) /\ UNCHANGED <<root, cwd>>
  <2>1. QueueInv(vol'.fat, disk', pending') /\ DiskAfter(disk', pending', Len(pending')) = M
    <3>1. disk' = disk /\ pending' = <<w>>
      BY <1>1, <1>8, <1>9
    <3>2. /\ QueueInv(vol'.fat, disk, <<w>>)
          /\ DiskAfter(disk, <<w>>, Len(<<w>>)) = Written(disk, w, MaxEntries)
      BY <1>6, <1>8, <1>9, OneWrite
    <3> QED
      BY <1>8, <1>9, <3>1, <3>2
  <2>2. CachesOn(M, root', cwd', cwdIsRoot')
    BY <1>1, <1>8, <1>9
  <2>3. ~Crashes => \A x \in Named(M) : Holds(vol'.fat, Entry(M, x), stored')
    BY <1>6, <1>8, <1>9
  <2> QED
    BY <1>6, <2>1, <2>2, <2>3, Established
<1>10. CASE /\ DirStart \notin {0, NoBlock} /\ k # -1
            /\ pending' = Save(new) \o Save(parent) /\ Remember(r.ref, parent)
  <2> DEFINE e == LinkEntry(r)
             D == Put(M, b, k, e)
             u == ChangedWrite(M, b, k, e)
  <2>1. k \in Slots \ {0, 1}
    <3>1. k = FreeSlot(disk[b])
      BY <1>4 DEF k
    <3> QED
      BY <1>4, <1>10, <3>1, FreeSlotBehindDots
  <2>2. /\ e \in DirEntries /\ DiskInv(vol'.fat, D)
        /\ ~Crashes => \A x \in Named(D) : Holds(vol'.fat, Entry(D, x), stored)
    <3>1. DirStart # NoBlock /\ D = Put(WithTable(b), b, k, LinkEntry(r))
      BY <1>10 DEF M
    <3> HIDE DEF D
    <3> QED
      BY <1>1, <1>2, <1>3, <2>1, <3>1, DirectoryLinked
  <2> HIDE DEF e
  <2>3. parent = Changed(M, b, k, e)
    BY <1>4, <1>8, <1>10 DEF parent, Changed, e
  <2>4. /\ SafeWrite(vol'.fat, M, u) /\ Written(M, u, MaxEntries) = D
        /\ Save(Changed(M, b, k, e)) = <<u>>
    <3>1. ASSUME NEW fat, DiskInv(fat, M), DiskInv(fat, Put(M, b, k, e))
          PROVE  /\ SafeWrite(fat, M, ChangedWrite(M, b, k, e))
                 /\ Written(M, ChangedWrite(M, b, k, e), MaxEntries) = Put(M, b, k, e)
                 /\ Save(Changed(M, b, k, e)) = <<ChangedWrite(M, b, k, e)>>
      BY <1>8, <1>10, <2>1, <2>2, <3>1, SlotWrite
    <3> QED
      BY <1>8, <1>10, <2>2, <3>1
  <2> HIDE DEF D, u
  <2>5. QueueInv(vol'.fat, disk', pending') /\ DiskAfter(disk', pending', Len(pending')) = D
    <3>1. disk' = disk /\ pending' = <<w>> \o <<u>>
      BY <1>1, <1>8, <1>10, <2>3, <2>4
    <3>2. SafeWrite(vol'.fat, Written(disk, w, MaxEntries), u) /\ SafeWrite(vol'.fat, disk, w)
      BY <1>8, <1>10, <2>4
    <3>3. /\ QueueInv(vol'.fat, disk, <<w>> \o <<u>>)
          /\ DiskAfter(disk, <<w>> \o <<u>>, Len(<<w>> \o <<u>>))
               = Written(Written(disk, w, MaxEntries), u, MaxEntries)
      BY <1>6, <3>2, TwoWrites
    <3> QED
      BY <1>8, <1>10, <2>4, <3>1, <3>3
  <2>6. CachesOn(D, root', cwd', cwdIsRoot')
    <3>1. CachesOn(D, IF r.ref = "root" THEN parent ELSE root, IF r.ref = "cwd" THEN parent ELSE cwd, cwdIsRoot)
      <4>1. D = Put(M, b, k, e)
        BY DEF D
      <4>2. CachesOn(Put(M, b, k, e), IF r.ref = "root" THEN parent ELSE root,
                     IF r.ref = "cwd" THEN parent ELSE cwd, cwdIsRoot)
        <5>1. /\ M \in [Blocks -> DirTables] /\ CachesOn(M, root, cwd, cwdIsRoot)
              /\ IsDirectory(M, b) /\ IsDirectory(M, rootStart)
          BY <1>8, <1>10
        <5> DEFINE ref == r.ref
        <5>2. /\ ref = "root" => b = rootStart
              /\ ref = "cwd" => ~cwdIsRoot /\ b = cwd[0].start
              /\ ref \notin {"root", "cwd"} => b # rootStart /\ (~cwdIsRoot => b # cwd[0].start)
          BY <1>4
        <5> HIDE DEF ref
        <5>3. CachesOn(Put(M, b, k, e), IF ref = "root" THEN parent ELSE root,
                       IF ref = "cwd" THEN parent ELSE cwd, cwdIsRoot)
          BY <2>1, <2>2, <2>3, <5>1, <5>2, Remembered
        <5> QED
          BY <5>3 DEF ref
      <4> QED
        BY <4>1, <4>2
    <3> QED
      BY <1>1, <1>10, <3>1 DEF Remember
  <2>7. ~Crashes => \A x \in Named(D) : Holds(vol'.fat, Entry(D, x), stored')
    BY <1>1, <2>2
  <2> QED
    BY <1>6, <2>5, <2>6, <2>7, Established
<1> QED
  BY <1>1, <1>7, <1>9, <1>10

\* What fs_mv leaves of an entry, and what it makes of it under another name.
FreedEntry(f)         == [f EXCEPT !.inUse = FALSE, !.name = "NULL"]
RenamedEntry(f, name) == [f EXCEPT !.name = name, !.inUse = TRUE]

\* The entries a move leaves: the freed one, and the renamed one.
LEMMA MovedEntries ==
    ASSUME NEW f \in DirEntries, NEW name \in Texts
    PROVE  /\ FreedEntry(f) \in DirEntries /\ FreedEntry(f).inUse = FALSE /\ FreedEntry(f).name = "NULL"
           /\ RenamedEntry(f, name) \in DirEntries /\ RenamedEntry(f, name).name = name
           /\ RenamedEntry(f, name).inUse = TRUE /\ RenamedEntry(f, name).isDir = f.isDir
           /\ RenamedEntry(f, name).size = f.size /\ RenamedEntry(f, name).start = f.start
<1> DEFINE n == FreedEntry(f)
           e == RenamedEntry(f, name)
<1>1. n = [f EXCEPT !.inUse = FALSE, !.name = "NULL"] /\ e = [f EXCEPT !.name = name, !.inUse = TRUE]
  BY DEF FreedEntry, RenamedEntry
<1> HIDE DEF n, e
<1>2. "NULL" \in Texts
  BY DEF Texts
<1>3. n \in DirEntries /\ n.inUse = FALSE /\ n.name = "NULL"
  BY <1>1, <1>2 DEF DirEntries
<1>4. e \in DirEntries
  BY <1>1 DEF DirEntries
<1>5. e.name = name /\ e.inUse = TRUE /\ e.isDir = f.isDir /\ e.size = f.size /\ e.start = f.start
  BY <1>1 DEF DirEntries
<1> QED
  BY <1>3, <1>4, <1>5 DEF n, e

\* The disk between the two writes of fs_mv, and after them.
Freed(d, b, j)             == Put(d, b, j, FreedEntry(d[b][j]))
Moved(d, b, j, c, i, name) == Put(Freed(d, b, j), c, i, RenamedEntry(d[b][j], name))

\* A file moves from slot j of the directory at b to slot i of the one at c.
LEMMA MovedInv ==
    ASSUME NEW fat, NEW d, DiskInv(fat, d), NEW b \in Blocks, IsDirectory(d, b), NEW c \in Blocks, IsDirectory(d, c),
           NEW j \in Slots, d[b][j].name \notin NoNames, ~d[b][j].isDir,
           NEW i \in Slots \ {0, 1}, ~d[c][i].inUse,
           NEW name \in Texts, name \notin NoNames \cup DotNames,
           NEW st, \A x \in Named(d) : Holds(fat, Entry(d, x), st)
    PROVE  /\ j \notin {0, 1} /\ d[b][j] \in DirEntries /\ <<b, j>> # <<c, i>>
           /\ DiskInv(fat, Freed(d, b, j)) /\ DiskInv(fat, Moved(d, b, j, c, i, name))
           /\ \A x \in Named(Moved(d, b, j, c, i, name)) :
                Holds(fat, Entry(Moved(d, b, j, c, i, name), x), st)
<1> DEFINE f == d[b][j]
           n == FreedEntry(f)
           e == RenamedEntry(f, name)
           M == Put(d, b, j, n)
           D == Put(M, c, i, e)
           at == <<b, j>>
<1>1. M = Freed(d, b, j) /\ D = Moved(d, b, j, c, i, name)
  BY DEF Freed, Moved
<1>2. d \in [Blocks -> DirTables]
  BY DEF DiskInv, TablesInv
<1>3. /\ f \in DirEntries /\ f.inUse /\ f.name \notin DotNames
      /\ f.name \notin DotNames => j \notin {0, 1} /\ at \in Named(d) /\ Entry(d, at) = f
  BY NamedSlot
<1>4. at # <<c, i>>
  BY <1>3
<1>5. /\ n \in DirEntries /\ n.inUse = FALSE /\ n.name = "NULL"
      /\ e \in DirEntries /\ e.name = name /\ e.inUse = TRUE /\ e.isDir = f.isDir /\ e.size = f.size /\ e.start = f.start
  BY <1>3, MovedEntries
<1>6. ~f.isDir /\ MayName(fat, d, b, f) /\ Holds(fat, f, st)
  <2>1. MayName(fat, d, at[1], Entry(d, at)) /\ Holds(fat, Entry(d, at), st)
    BY <1>3 DEF DiskInv, NamedInv
  <2> QED
    BY <1>3, <2>1
<1>7. LastOf(e) = LastOf(f) /\ Run(e) = Run(f)
  <2> HIDE DEF f, e
  <2> QED
    BY <1>5 DEF LastOf, Run
<1>8. DiskInv(fat, M) /\ M \in [Blocks -> DirTables] /\ IsDirectory(M, c)
  <2> HIDE DEF n, f
  <2>1. j \in Slots \ {0, 1} /\ ~n.inUse /\ n.name \in NoNames
    BY <1>3, <1>5 DEF NoNames
  <2> HIDE DEF M
  <2>2. DiskInv(fat, M)
    BY <1>5, <2>1, PutInv DEF M
  <2>3. IsDirectory(M, c)
    BY <1>2, <1>5, <2>1, PutDirectory DEF M
  <2> QED
    BY <2>2, <2>3 DEF DiskInv, TablesInv
<1>9. \A x \in Named(M) : x # at /\ x \in Named(d) /\ Entry(M, x) = Entry(d, x)
  <2> HIDE DEF n, f
  <2>1. /\ \A x \in Places : Entry(M, x) = IF x = <<b, j>> THEN n ELSE Entry(d, x)
        /\ \A x \in Named(M) : IF x = <<b, j>> THEN Names(n) ELSE x \in Named(d)
    BY <1>2, <1>5, PutNamed
  <2>2. ~Names(n)
    BY <1>5 DEF Names
  <2>3. \A x \in Named(M) : x \in Places
    BY DEF Named
  <2> HIDE DEF M
  <2> QED
    BY <2>1, <2>2, <2>3
<1> HIDE DEF M, n
<1>10. DiskInv(fat, D)
  <2> HIDE DEF f, e
  <2>1. MayName(fat, M, c, e)
    BY <1>5, <1>6, <1>7 DEF MayName
  <2>2. \A x \in Named(M) : Run(Entry(M, x)) \cap Run(e) = {}
    BY <1>3, <1>7, <1>9 DEF DiskInv, NamedInv
  <2> HIDE DEF D
  <2> QED
    BY <1>5, <1>8, <2>1, <2>2, PutInv DEF D
<1>11. ASSUME NEW x \in Named(D) PROVE Holds(fat, Entry(D, x), st)
  <2> HIDE DEF f, e
  <2>1. /\ x \in Places /\ Entry(D, x) = IF x = <<c, i>> THEN e ELSE Entry(M, x)
        /\ x # <<c, i>> => x \in Named(M)
    <3>1. x \in Places /\ i \in Slots
      BY DEF Named
    <3> QED
      BY <1>5, <1>8, <3>1, PutNamed
  <2>2. Holds(fat, e, st)
    BY <1>5, <1>6, <1>7 DEF Holds, ChainInv
  <2> HIDE DEF D
  <2> QED
    BY <1>9, <2>1, <2>2
<1> HIDE DEF D
<1> QED
  BY <1>1, <1>3, <1>4, <1>8, <1>10, <1>11

\* The tables fs_mv computes are those of these disks.
LEMMA MovedTables ==
    ASSUME NEW d \in [Blocks -> DirTables], NEW b \in Blocks, NEW c \in Blocks,
           NEW j \in Slots, NEW i \in Slots, <<b, j>> # <<c, i>>,
           NEW e \in DirEntries
    PROVE  /\ FreeSource(d[b], j) = Changed(d, b, j, FreedEntry(d[b][j]))
           /\ b # c => Changed(d, c, i, e) = Changed(Freed(d, b, j), c, i, e)
           /\ b = c => FreeSource(Changed(d, b, i, e), j) = Changed(Freed(d, b, j), b, i, e)
<1> DEFINE n == FreedEntry(d[b][j])
           M == Freed(d, b, j)
           t == [d[b] EXCEPT ![i] = e]
           u == [d[b] EXCEPT ![j] = n]
<1>1. n \in DirEntries
  <2>1. d[b][j] \in DirEntries /\ "NULL" \in Texts
    BY DEF DirTables, Texts
  <2> QED
    BY <2>1, MovedEntries
<1>2. M = [d EXCEPT ![b] = u] /\ M[b] = u /\ \A a \in Blocks : a # b => M[a] = d[a]
  BY DEF Freed, Put
<1>3. FreeSource(d[b], j) = u /\ u = Changed(d, b, j, n)
  BY DEF FreeSource, FreedEntry, Changed
<1>4. b # c => Changed(d, c, i, e) = Changed(M, c, i, e)
  BY <1>2 DEF Changed
<1>5. ASSUME b = c PROVE FreeSource(t, j) = [u EXCEPT ![i] = e]
  <2> DEFINE v == [t EXCEPT ![j] = n]
             w == [u EXCEPT ![i] = e]
  <2>1. i # j
    BY <1>5
  <2>2. d[b] \in DirTables
    OBVIOUS
  <2>3. t \in DirTables /\ u \in DirTables
    BY <1>1, <2>2 DEF DirTables
  <2>4. t[j] = d[b][j]
    BY <2>1, <2>2 DEF DirTables
  <2>5. FreeSource(t, j) = v
    BY <2>4 DEF FreeSource, FreedEntry
  <2>6. \A k \in Slots : t[k] = (IF k = i THEN e ELSE d[b][k]) /\ u[k] = (IF k = j THEN n ELSE d[b][k])
    BY <2>2 DEF DirTables
  <2> HIDE DEF t, u, n
  <2>7. \A k \in Slots : v[k] = (IF k = j THEN n ELSE t[k]) /\ w[k] = (IF k = i THEN e ELSE u[k])
    BY <2>3 DEF DirTables
  <2>8. v = [k \in Slots |-> v[k]] /\ w = [k \in Slots |-> w[k]]
    BY <2>3 DEF DirTables
  <2>9. \A k \in Slots : v[k] = w[k]
    BY <2>1, <2>6, <2>7
  <2> HIDE DEF v, w
  <2>10. v = w
    BY <2>8, <2>9, Zenon
  <2> QED
    BY <2>5, <2>10 DEF v, w
<1>6. b = c => FreeSource(Changed(d, b, i, e), j) = Changed(M, b, i, e)
  BY <1>2, <1>5 DEF Changed
<1> QED
  BY <1>3, <1>4, <1>6

\* The writes of fs_mv between two directories.
LEMMA MovedAcross ==
    ASSUME NEW fat, NEW d, DiskInv(fat, d), NEW b \in Blocks, IsDirectory(d, b), NEW c \in Blocks, IsDirectory(d, c),
           NEW j \in Slots \ {0, 1}, NEW n \in DirEntries, NEW i \in Slots \ {0, 1}, NEW e \in DirEntries,
           NEW M, M = Put(d, b, j, n), DiskInv(fat, M), NEW D, D = Put(M, c, i, e), DiskInv(fat, D),
           NEW q, q = SaveBoth(Changed(d, b, j, n), Changed(M, c, i, e))
    PROVE  QueueInv(fat, d, q) /\ DiskAfter(d, q, Len(q)) = D
<1> DEFINE w == ChangedWrite(d, b, j, n)
           u == ChangedWrite(M, c, i, e)
<1>1. SafeWrite(fat, d, w) /\ Written(d, w, MaxEntries) = M /\ Save(Changed(d, b, j, n)) = <<w>>
  BY SlotWrite
<1>2. IsDirectory(M, c)
  BY PutDirectory DEF DiskInv, TablesInv
<1>3. SafeWrite(fat, M, u) /\ Written(M, u, MaxEntries) = D /\ Save(Changed(M, c, i, e)) = <<u>>
  BY <1>2, SlotWrite
<1> HIDE DEF w, u
<1>4. /\ QueueInv(fat, d, <<w>> \o <<u>>)
      /\ DiskAfter(d, <<w>> \o <<u>>, Len(<<w>> \o <<u>>)) = Written(Written(d, w, MaxEntries), u, MaxEntries)
  BY <1>1, <1>3, TwoWrites
<1> QED
  BY <1>1, <1>3, <1>4 DEF SaveBoth

\* The write of fs_mv within one: it is issued twice.
LEMMA WrittenWithin ==
    ASSUME NEW fat, NEW d, DiskInv(fat, d), NEW b \in Blocks, IsDirectory(d, b),
           NEW j \in Slots \ {0, 1}, NEW n \in DirEntries, NEW i \in Slots \ {0, 1}, NEW e \in DirEntries,
           NEW M, M = Put(d, b, j, n), DiskInv(fat, M), NEW D, D = Put(M, b, i, e), DiskInv(fat, D),
           NEW t, t = Changed(M, b, i, e), NEW w, w = ChangedWrite(M, b, i, e)
    PROVE  /\ w \in Writes /\ Save(t) = <<w>>
           /\ Written(d, w, MaxEntries) = D /\ Written(D, w, MaxEntries) = D
<1>1. d \in [Blocks -> DirTables] /\ M \in [Blocks -> DirTables] /\ D \in [Blocks -> DirTables]
  BY DEF DiskInv, TablesInv
<1>2. IsDirectory(M, b)
  BY <1>1, PutDirectory
<1>3. SafeWrite(fat, M, w) /\ Save(t) = <<w>>
  BY <1>2, SlotWrite
<1>4. w \in Writes /\ w.at = b /\ w.table = t
  BY <1>3 DEF SafeWrite, ChangedWrite
<1>5. t \in DirTables
  BY <1>4 DEF Writes
<1>6. M = [d EXCEPT ![b] = M[b]]
  BY <1>1 DEF Put
<1>7. D = [M EXCEPT ![b] = t]
  BY DEF Put, Changed
<1>8. D = [d EXCEPT ![b] = t]
  <2> DEFINE g == [d EXCEPT ![b] = t]
  <2>1. g \in [Blocks -> DirTables]
    BY <1>1, <1>5
  <2>2. \A a \in Blocks : g[a] = IF a = b THEN t ELSE d[a]
    BY <1>1
  <2>3. \A a \in Blocks : M[a] = IF a = b THEN M[b] ELSE d[a]
    BY <1>1, <1>6
  <2>4. \A a \in Blocks : D[a] = IF a = b THEN t ELSE M[a]
    BY <1>1, <1>7
  <2>5. D = [a \in Blocks |-> D[a]] /\ g = [a \in Blocks |-> g[a]]
    BY <1>1, <2>1
  <2>6. \A a \in Blocks : D[a] = g[a]
    BY <2>2, <2>3, <2>4
  <2> HIDE DEF g
  <2>7. D = g
    BY <2>5, <2>6, Zenon
  <2> QED
    BY <2>7 DEF g
<1>9. Written(d, w, MaxEntries) = D
  BY <1>1, <1>4, <1>8, WrittenWhole
<1>10. Written(D, w, MaxEntries) = D
  <2>1. Written(D, w, MaxEntries) = [D EXCEPT ![b] = t]
    BY <1>1, <1>4, WrittenWhole
  <2>2. [D EXCEPT ![b] = t] = D
    <3>1. D[b] = t
      BY <1>1, <1>7
    <3> QED
      BY <1>1, <3>1
  <2> QED
    BY <2>1, <2>2
<1> QED
  BY <1>3, <1>4, <1>9, <1>10

\* The writes of fs_mv within one: the same table, twice.
LEMMA MovedWithin ==
    ASSUME ~Crashes,
           NEW fat, NEW d, DiskInv(fat, d), NEW b \in Blocks, IsDirectory(d, b),
           NEW j \in Slots \ {0, 1}, NEW n \in DirEntries, NEW i \in Slots \ {0, 1}, NEW e \in DirEntries,
           NEW M, M = Put(d, b, j, n), DiskInv(fat, M), NEW D, D = Put(M, b, i, e), DiskInv(fat, D),
           NEW t, t = Changed(M, b, i, e), NEW q, q = SaveBoth(t, t)
    PROVE  QueueInv(fat, d, q) /\ DiskAfter(d, q, Len(q)) = D
<1> DEFINE w == ChangedWrite(M, b, i, e)
<1>1. /\ w \in Writes /\ Save(t) = <<w>>
      /\ Written(d, w, MaxEntries) = D /\ Written(D, w, MaxEntries) = D
  BY WrittenWithin
<1> HIDE DEF w
<1>2. SafeWrite(fat, d, w) /\ SafeWrite(fat, D, w)
  BY <1>1 DEF SafeWrite, Cuts
<1>3. /\ QueueInv(fat, d, <<w>> \o <<w>>)
      /\ DiskAfter(d, <<w>> \o <<w>>, Len(<<w>> \o <<w>>)) = Written(Written(d, w, MaxEntries), w, MaxEntries)
  BY <1>1, <1>2, TwoWrites
<1> QED
  BY <1>1, <1>3 DEF SaveBoth

\* A cache after fs_mv.
Kept(r, s, ref, source, dest, old) ==
    CASE s.ref = ref -> dest
      [] s.ref # ref /\ r.ref = ref -> source
      [] OTHER -> old

\* What Remember makes of one cache.
NewCache(ref, cache, table, old) == IF ref = cache THEN table ELSE old

\* Remembered, for caches given by name.
LEMMA RememberedAs ==
    ASSUME NEW d \in [Blocks -> DirTables], NEW rt, NEW cw, NEW isRoot, CachesOn(d, rt, cw, isRoot),
           NEW b \in Blocks, IsDirectory(d, b), IsDirectory(d, rootStart),
           NEW i \in Slots \ {0, 1}, NEW e \in DirEntries, NEW t, t = Changed(d, b, i, e),
           NEW ref, ref = "root" => b = rootStart,
           ref = "cwd" => ~isRoot /\ b = cw[0].start,
           ref \notin {"root", "cwd"} => b # rootStart /\ (~isRoot => b # cw[0].start)
    PROVE  CachesOn(Put(d, b, i, e), NewCache(ref, "root", t, rt), NewCache(ref, "cwd", t, cw), isRoot)
  BY Remembered DEF NewCache

\* The caches after both tables have changed.
LEMMA MovedCaches ==
    ASSUME NEW d \in [Blocks -> DirTables], NEW rt, NEW cw, NEW isRoot, CachesOn(d, rt, cw, isRoot),
           IsDirectory(d, rootStart),
           NEW b \in Blocks, IsDirectory(d, b), NEW c \in Blocks, IsDirectory(d, c),
           NEW j \in Slots \ {0, 1}, NEW n \in DirEntries, NEW i \in Slots \ {0, 1}, NEW e \in DirEntries,
           NEW M, M = Put(d, b, j, n), NEW D, D = Put(M, c, i, e),
           NEW r, NEW s,
           r.ref = "root" => b = rootStart,
           r.ref = "cwd" => ~isRoot /\ b = cw[0].start,
           r.ref \notin {"root", "cwd"} => b # rootStart /\ (~isRoot => b # cw[0].start),
           s.ref = "root" => c = rootStart,
           s.ref = "cwd" => ~isRoot /\ c = cw[0].start,
           s.ref \notin {"root", "cwd"} => c # rootStart /\ (~isRoot => c # cw[0].start),
           NEW t, t = Changed(d, b, j, n), NEW u, u = Changed(M, c, i, e)
    PROVE  CachesOn(D, Kept(r, s, "root", t, u, rt), Kept(r, s, "cwd", t, u, cw), isRoot)
<1> DEFINE rt1 == IF r.ref = "root" THEN t ELSE rt
           cw1 == IF r.ref = "cwd" THEN t ELSE cw
           ref == r.ref
           ref2 == s.ref
<1>1. CachesOn(M, rt1, cw1, isRoot)
  <2> DEFINE x == IF ref = "root" THEN t ELSE rt
             y == IF ref = "cwd" THEN t ELSE cw
  <2>1. /\ ref = "root" => b = rootStart
        /\ ref = "cwd" => ~isRoot /\ b = cw[0].start
        /\ ref \notin {"root", "cwd"} => b # rootStart /\ (~isRoot => b # cw[0].start)
    OBVIOUS
  <2>2. x = rt1 /\ y = cw1
    OBVIOUS
  <2> HIDE DEF ref, rt1, cw1
  <2>3. CachesOn(Put(d, b, j, n), x, y, isRoot)
    BY <2>1, Remembered
  <2> QED
    BY <2>2, <2>3
<1>2. M \in [Blocks -> DirTables] /\ \A a \in Blocks : IsDirectory(d, a) => IsDirectory(M, a)
  BY PutTable, PutDirectory
<1>3. IsDirectory(M, c) /\ IsDirectory(M, rootStart)
  BY <1>2, Sizes
<1>4. cw1[0].start = cw[0].start
  <2>1. t[0] = d[b][0]
    BY Sizes DEF Changed, DirTables
  <2>2. d[b][0].start = b
    BY DEF IsDirectory, DirEntry
  <2> QED
    BY <2>1, <2>2
<1>5. /\ ref2 = "root" => c = rootStart
      /\ ref2 = "cwd" => ~isRoot /\ c = cw1[0].start
      /\ ref2 \notin {"root", "cwd"} => c # rootStart /\ (~isRoot => c # cw1[0].start)
  BY <1>4
<1> DEFINE rt2 == IF ref2 = "root" THEN u ELSE rt1
           cw2 == IF ref2 = "cwd" THEN u ELSE cw1
<1>6. CachesOn(D, rt2, cw2, isRoot)
  <2> HIDE DEF ref, ref2, rt1, cw1
  <2>1. ASSUME NEW x, NEW y, CachesOn(M, x, y, isRoot),
               ref2 = "cwd" => ~isRoot /\ c = y[0].start,
               ref2 \notin {"root", "cwd"} => c # rootStart /\ (~isRoot => c # y[0].start)
        PROVE  CachesOn(Put(M, c, i, e), IF ref2 = "root" THEN u ELSE x, IF ref2 = "cwd" THEN u ELSE y, isRoot)
    <3> HIDE DEF rt2, cw2
    <3>1. ref2 = "root" => c = rootStart
      BY <1>5
    <3>2. /\ M \in [Blocks -> DirTables] /\ IsDirectory(M, c) /\ IsDirectory(M, rootStart)
          /\ i \in Slots \ {0, 1} /\ e \in DirEntries /\ c \in Blocks /\ u = Changed(M, c, i, e)
      BY <1>2, <1>3
    <3>3. CachesOn(Put(M, c, i, e), NewCache(ref2, "root", u, x), NewCache(ref2, "cwd", u, y), isRoot)
      <4> HIDE DEF ref2
      <4> QED
        BY <2>1, <3>1, <3>2, RememberedAs
    <3> QED
      BY <3>3 DEF NewCache
  <2> QED
    BY <1>1, <1>5, <2>1
<1>7. rt2 = Kept(r, s, "root", t, u, rt) /\ cw2 = Kept(r, s, "cwd", t, u, cw)
  BY DEF Kept
<1> QED
  BY <1>6, <1>7

\* What fs_mv has found in slot j of the directory at b, the slot i it takes in
\* the one at c, and what it leaves.
MoveOf(r, s, b, c, j, i) ==
    LET t == Changed(disk, b, j, FreedEntry(disk[b][j]))
        u == Changed(Freed(disk, b, j), c, i, RenamedEntry(disk[b][j], s.name))
    IN  /\ IsDirectory(disk, b) /\ IsDirectory(disk, c)
        /\ r.ref = "root" => b = rootStart
        /\ r.ref = "cwd" => ~cwdIsRoot /\ b = cwd[0].start
        /\ r.ref \notin {"root", "cwd"} => b # rootStart /\ (~cwdIsRoot => b # cwd[0].start)
        /\ s.ref = "root" => c = rootStart
        /\ s.ref = "cwd" => ~cwdIsRoot /\ c = cwd[0].start
        /\ s.ref \notin {"root", "cwd"} => c # rootStart /\ (~cwdIsRoot => c # cwd[0].start)
        /\ disk[b][j].name \notin NoNames /\ ~disk[b][j].isDir
        /\ s.name \in Texts /\ s.name \notin NoNames \cup DotNames
        /\ s.table = disk[c] /\ s.index = -1 /\ ~disk[c][i].inUse
        /\ pending' = IF b = c THEN SaveBoth(u, u) ELSE SaveBoth(t, u)
        /\ root' = Kept(r, s, "root", t, u, root)
        /\ cwd' = Kept(r, s, "cwd", t, u, cwd)

\* fs_mv of a file, to another directory or within one that is cached.
LEMMA MoveFound ==
    ASSUME SafeUse, "move" \in Operations, IInv, NEW p \in Paths, NEW q \in Paths, Move(p, q),
           NEW r, r = parsePath(p), NEW s, s = parsePath(q)
    PROVE  /\ ~Crashes /\ Ready
           /\ \E b \in Blocks, c \in Blocks, j \in Slots \ {0, 1}, i \in Slots \ {0, 1} : MoveOf(r, s, b, c, j, i)
           /\ UNCHANGED <<vol, disk, cwdIsRoot, cwdPath, stored>>
<1> DEFINE i == FreeSlot(s.table)
           placed    == [s.table EXCEPT ![i] = RenamedEntry(r.table[r.index], s.name)]
           sameTable == r.ref = s.ref /\ r.ref # "copy"
           source    == FreeSource(IF sameTable THEN placed ELSE r.table, r.index)
           dest      == IF sameTable THEN source ELSE placed
<1>1. /\ Reaches(r) /\ r.index >= 0 /\ ~r.table[r.index].isDir
      /\ Reaches(s) /\ s.index = -1 /\ i # -1
      /\ sameTable \/ r.table[0].start # s.table[0].start
      /\ pending' = SaveBoth(source, dest)
      /\ root' = Kept(r, s, "root", source, dest, root)
      /\ cwd' = Kept(r, s, "cwd", source, dest, cwd)
      /\ UNCHANGED <<vol, disk, cwdIsRoot, cwdPath, stored>>
  <2>1. Misused = {}
    BY DEF SafeUse
  <2> QED
    BY <2>1, Zenon DEF Move, Kept, RenamedEntry, SaveBoth
<1>2. ~Crashes
  BY Sizes DEF SafeUse
<1> HIDE DEF i
<1>3. Ready /\ \E b \in Blocks : Found(r, b)
  <2>1. r.index # -2
    <3>1. r.index >= 0
      BY <1>1
    <3> QED
      BY <3>1
  <2> QED
    BY <1>1, <2>1, Target
<1>4. PICK b \in Blocks : Found(r, b)
  BY <1>3
<1>5. \E c \in Blocks : Found(s, c)
  <2>1. s.index # -2
    <3>1. s.index = -1
      BY <1>1
    <3> QED
      BY <3>1
  <2> QED
    BY <1>1, <2>1, Target
<1>6. PICK c \in Blocks : Found(s, c)
  BY <1>5
<1>7. /\ r.table = disk[b] /\ IsDirectory(disk, b)
      /\ r.ref = "root" => b = rootStart
      /\ r.ref = "cwd" => ~cwdIsRoot /\ b = cwd[0].start
      /\ r.ref \notin {"root", "cwd"} => b # rootStart /\ (~cwdIsRoot => b # cwd[0].start)
      /\ r.ref \in {"root", "cwd", "copy"}
  BY <1>4 DEF Found, Opened
<1>8. /\ s.table = disk[c] /\ IsDirectory(disk, c)
      /\ s.ref = "root" => c = rootStart
      /\ s.ref = "cwd" => ~cwdIsRoot /\ c = cwd[0].start
      /\ s.ref \notin {"root", "cwd"} => c # rootStart /\ (~cwdIsRoot => c # cwd[0].start)
  BY <1>6 DEF Found, Opened
<1> DEFINE j == r.index
<1>9. j \in Slots /\ disk[b][j].name \notin NoNames /\ ~disk[b][j].isDir
  BY <1>1, <1>4, <1>7 DEF Found
<1>10. s.name \in Texts /\ s.name \notin NoNames \cup DotNames
  <2>1. s.index \notin Slots
    <3>1. s.index = -1
      BY <1>1
    <3> QED
      BY <3>1, Sizes
  <2>2. s.name \in PathNames /\ s.name \notin NoNames /\ s.name \notin DotNames
    BY <1>6, <2>1 DEF Found
  <2> QED
    BY <2>2 DEF Texts
<1>11. i \in Slots \ {0, 1} /\ ~disk[c][i].inUse
  <2>1. i = FreeSlot(disk[c])
    BY <1>8 DEF i
  <2> QED
    BY <1>1, <1>8, <2>1, FreeSlotBehindDots
<1>12. /\ DiskInv(vol.fat, disk) /\ CachesOn(disk, root, cwd, cwdIsRoot)
       /\ cwdPath \in Seq(PathNames \ DotNames) /\ disk \in [Blocks -> DirTables] /\ IsDirectory(disk, rootStart)
       /\ pending = <<>>
  BY <1>3 DEF Ready, DiskInv, TablesInv, DirectoriesInv
<1> DEFINE n == FreedEntry(disk[b][j])
           name == s.name
           e == RenamedEntry(disk[b][j], name)
           M == Freed(disk, b, j)
           D == Moved(disk, b, j, c, i, name)
           t == Changed(disk, b, j, n)
           u == Changed(M, c, i, e)
<1>14. name \in Texts /\ name \notin NoNames \cup DotNames
  BY <1>10
<1> HIDE DEF j, n, name, e, M, D, t, u
<1>15. j \notin {0, 1} /\ disk[b][j] \in DirEntries /\ <<b, j>> # <<c, i>>
  <2>1. /\ disk[b][j] \in DirEntries /\ disk[b][j].inUse
        /\ disk[b][j].name \notin DotNames => j \notin {0, 1}
        /\ ~disk[b][j].isDir => disk[b][j].name \notin DotNames
    BY <1>7, <1>9, <1>12, NamedSlot
  <2> QED
    BY <1>9, <1>11, <2>1
<1>16. n \in DirEntries /\ e \in DirEntries
  BY <1>14, <1>15, MovedEntries DEF n, e
<1>17. M = Put(disk, b, j, n) /\ D = Put(M, c, i, e) /\ t = Changed(disk, b, j, n) /\ u = Changed(M, c, i, e)
  BY DEF M, D, n, e, t, u, Freed, Moved
<1>18. /\ FreeSource(disk[b], j) = t
       /\ b # c => Changed(disk, c, i, e) = u
       /\ b = c => FreeSource(Changed(disk, b, i, e), j) = u
  <2>1. /\ FreeSource(disk[b], j) = Changed(disk, b, j, FreedEntry(disk[b][j]))
        /\ b # c => Changed(disk, c, i, e) = Changed(Freed(disk, b, j), c, i, e)
        /\ b = c => FreeSource(Changed(disk, b, i, e), j) = Changed(Freed(disk, b, j), b, i, e)
    BY <1>9, <1>11, <1>12, <1>15, <1>16, MovedTables
  <2> QED
    BY <2>1 DEF t, u, M, n
<1>19. placed = Changed(disk, c, i, e)
  BY <1>7, <1>8 DEF Changed, e, name, j
<1>20. sameTable => b = c
  BY <1>7, <1>8
<1>21. ~sameTable => b # c
  <2>1. r.table[0].start = b /\ s.table[0].start = c
    BY <1>7, <1>8 DEF IsDirectory, DirEntry
  <2> QED
    BY <1>1, <2>1
<1>22. source = (IF sameTable THEN u ELSE t) /\ dest = u
  <2>1. CASE sameTable
    <3>1. source = FreeSource(Changed(disk, b, i, e), j)
      BY <1>19, <1>20, <2>1 DEF j
    <3> QED
      BY <1>18, <1>20, <2>1, <3>1
  <2>2. CASE ~sameTable
    <3>1. source = FreeSource(disk[b], j) /\ dest = placed
      BY <1>7, <2>2 DEF j
    <3> QED
      BY <1>18, <1>19, <1>21, <2>2, <3>1
  <2> QED
    BY <2>1, <2>2
<1> HIDE DEF source, dest
<1>23. Kept(r, s, "root", source, dest, root) = Kept(r, s, "root", t, u, root)
       /\ Kept(r, s, "cwd", source, dest, cwd) = Kept(r, s, "cwd", t, u, cwd)
  BY <1>22 DEF Kept
<1>24. pending' = IF b = c THEN SaveBoth(u, u) ELSE SaveBoth(t, u)
  BY <1>1, <1>20, <1>21, <1>22
<1>25. root' = Kept(r, s, "root", t, u, root) /\ cwd' = Kept(r, s, "cwd", t, u, cwd)
  BY <1>1, <1>23
<1>26. MoveOf(r, s, b, c, j, i)
  <2>1. t = Changed(disk, b, j, FreedEntry(disk[b][j]))
    BY DEF t, n
  <2>2. u = Changed(Freed(disk, b, j), c, i, RenamedEntry(disk[b][j], s.name))
    BY DEF u, M, e, name
  <2> HIDE DEF sameTable
  <2> QED
    BY <1>1, <1>7, <1>8, <1>9, <1>10, <1>11, <1>24, <1>25, <2>1, <2>2 DEF MoveOf
<1>27. j \in Slots \ {0, 1}
  BY <1>9, <1>15
<1>28. UNCHANGED <<vol, disk, cwdIsRoot, cwdPath, stored>>
  BY <1>1
<1> QED
  BY <1>2, <1>3, <1>11, <1>26, <1>27, <1>28

\* What it leaves is in order.
LEMMA MoveKeeps ==
    ASSUME SafeUse, "move" \in Operations, IInv, NEW p \in Paths, NEW q \in Paths, Move(p, q)
    PROVE  IInv'
<1> DEFINE r == parsePath(p)
           s == parsePath(q)
<1>1. /\ ~Crashes /\ Ready
      /\ \E b \in Blocks, c \in Blocks, j \in Slots \ {0, 1}, i \in Slots \ {0, 1} : MoveOf(r, s, b, c, j, i)
      /\ UNCHANGED <<vol, disk, cwdIsRoot, cwdPath, stored>>
  BY MoveFound
<1> HIDE DEF r, s
<1>2. PICK b \in Blocks, c \in Blocks, j \in Slots \ {0, 1}, i \in Slots \ {0, 1} : MoveOf(r, s, b, c, j, i)
  BY <1>1
<1>12. /\ DiskInv(vol.fat, disk) /\ CachesOn(disk, root, cwd, cwdIsRoot)
       /\ cwdPath \in Seq(PathNames \ DotNames) /\ disk \in [Blocks -> DirTables] /\ IsDirectory(disk, rootStart)
       /\ pending = <<>>
  BY <1>1 DEF Ready, DiskInv, TablesInv, DirectoriesInv
<1>13. /\ Tidy(vol) /\ \A a \in RootRun : vol.fat[a] # BLOCK_FREE
       /\ \A x \in Named(disk) : Holds(vol.fat, Entry(disk, x), stored)
       /\ \A a \in stored : a \in Blocks /\ vol.fat[a] # BLOCK_FREE
       /\ cwdIsRoot => cwdPath = <<>>
  BY <1>1, <1>12, BetweenOperations
<1> DEFINE n == FreedEntry(disk[b][j])
           name == s.name
           e == RenamedEntry(disk[b][j], name)
           M == Freed(disk, b, j)
           D == Moved(disk, b, j, c, i, name)
           t == Changed(disk, b, j, n)
           u == Changed(M, c, i, e)
<1>7. /\ IsDirectory(disk, b) /\ IsDirectory(disk, c)
      /\ r.ref = "root" => b = rootStart
      /\ r.ref = "cwd" => ~cwdIsRoot /\ b = cwd[0].start
      /\ r.ref \notin {"root", "cwd"} => b # rootStart /\ (~cwdIsRoot => b # cwd[0].start)
      /\ s.ref = "root" => c = rootStart
      /\ s.ref = "cwd" => ~cwdIsRoot /\ c = cwd[0].start
      /\ s.ref \notin {"root", "cwd"} => c # rootStart /\ (~cwdIsRoot => c # cwd[0].start)
      /\ pending' = IF b = c THEN SaveBoth(u, u) ELSE SaveBoth(t, u)
      /\ root' = Kept(r, s, "root", t, u, root)
      /\ cwd' = Kept(r, s, "cwd", t, u, cwd)
  BY <1>2 DEF MoveOf
<1>9. /\ disk[b][j].name \notin NoNames /\ ~disk[b][j].isDir
      /\ name \in Texts /\ name \notin NoNames \cup DotNames /\ ~disk[c][i].inUse
  BY <1>2 DEF MoveOf
<1>17. M = Put(disk, b, j, n) /\ D = Put(M, c, i, e) /\ t = Changed(disk, b, j, n) /\ u = Changed(M, c, i, e)
  BY DEF Freed, Moved
<1> HIDE DEF n, name, e, M, D, t, u
<1>15. /\ disk[b][j] \in DirEntries /\ DiskInv(vol.fat, M) /\ DiskInv(vol.fat, D)
       /\ \A x \in Named(D) : Holds(vol.fat, Entry(D, x), stored)
  <2>1. /\ j \notin {0, 1} /\ disk[b][j] \in DirEntries /\ <<b, j>> # <<c, i>>
        /\ DiskInv(vol.fat, Freed(disk, b, j)) /\ DiskInv(vol.fat, Moved(disk, b, j, c, i, name))
        /\ \A x \in Named(Moved(disk, b, j, c, i, name)) :
             Holds(vol.fat, Entry(Moved(disk, b, j, c, i, name), x), stored)
    BY <1>7, <1>9, <1>12, <1>13, MovedInv
  <2> QED
    BY <2>1 DEF M, D
<1>16. n \in DirEntries /\ e \in DirEntries
  BY <1>9, <1>15, MovedEntries DEF n, e
<1>23. QueueInv(vol.fat, disk, pending') /\ DiskAfter(disk, pending', Len(pending')) = D
  <2>2. CASE b = c
    <3>1. pending' = SaveBoth(u, u) /\ D = Put(M, b, i, e) /\ u = Changed(M, b, i, e)
      BY <1>7, <1>17, <2>2
    <3> QED
      BY <1>1, <1>7, <1>12, <1>15, <1>16, <1>17, <3>1, MovedWithin
  <2>3. CASE b # c
    <3>1. pending' = SaveBoth(Changed(disk, b, j, n), Changed(M, c, i, e))
      BY <1>7, <1>17, <2>3
    <3> QED
      BY <1>7, <1>12, <1>15, <1>16, <1>17, <3>1, MovedAcross
  <2> QED
    BY <2>2, <2>3
<1>24. CachesOn(D, root', cwd', cwdIsRoot)
  <2>1. CachesOn(D, Kept(r, s, "root", t, u, root), Kept(r, s, "cwd", t, u, cwd), cwdIsRoot)
    BY <1>7, <1>12, <1>16, <1>17, MovedCaches
  <2> QED
    BY <1>7, <2>1
<1>25. /\ vol' = vol /\ disk' = disk /\ cwdIsRoot' = cwdIsRoot /\ cwdPath' = cwdPath /\ stored' = stored
  BY <1>1
<1> QED
  BY <1>12, <1>13, <1>15, <1>23, <1>24, <1>25, Established

-----------------------------------------------------------------------------
(* The invariant, and what it says of the tables that paths reach.         *)

\* Every step keeps the invariant.
LEMMA NextKeeps ==
    ASSUME SafeUse, IInv, [Next]_vars
    PROVE  IInv'
<1>1. CASE UNCHANGED vars
  <2>1. VolumeInv' /\ PendingInv' /\ Settled' = Settled
    BY <1>1 DEF vars, IInv, VolumeInv, PendingInv, Settled
  <2> QED
    BY <1>1, <2>1 DEF vars, IInv, ChainsInv, StoredInv, CachesInv
<1>2. ASSUME "mkdir" \in Operations, NEW p \in Paths, Mkdir(p) PROVE IInv'
  BY <1>2, MkdirKeeps
<1>3. ASSUME "rm" \in Operations, NEW p \in Paths, Rm(p) PROVE IInv'
  BY <1>3, RmKeeps
<1>4. ASSUME "create" \in Operations, NEW p \in Paths, Create(p) PROVE IInv'
  BY <1>4, CreateKeeps
<1>5. ASSUME "store" \in Operations, NEW p \in Paths, StoreNew(p) PROVE IInv'
  BY <1>5, StoreNewKeeps
<1>6. ASSUME "store" \in Operations, NEW p \in Paths, Store(p) PROVE IInv'
  BY <1>6, StoreKeeps
<1>7. ASSUME "move" \in Operations, NEW p \in Paths, NEW q \in Paths, Move(p, q) PROVE IInv'
  BY <1>7, MoveKeeps
<1>8. ASSUME "cd" \in Operations, NEW p \in Paths, Setcwd(p) PROVE IInv'
  BY <1>8, SetcwdKeeps
<1>9. CASE Flush
  BY <1>9, FlushKeeps
<1>10. CASE Restart
  BY <1>10, RestartKeeps
<1> QED
  BY <1>1, <1>2, <1>3, <1>4, <1>5, <1>6, <1>7, <1>8, <1>9, <1>10 DEF Next

\* The inductive invariant: after every step of every operation the disk holds
\* a tree of directories whose entries share no blocks, every queued write
\* leads to such a disk, and the tables in memory are the ones the queue ends
\* in (mfs.c, b_io.c, freeSpace.c).  Crashes are covered as far as SafeUse
\* allows them: without moves, and with removals of directories of one block.
THEOREM Inductive ==
    ASSUME SafeUse
    PROVE  Spec => []IInv
<1>1. Init => IInv
  BY InitHolds
<1>2. IInv /\ [Next]_vars => IInv'
  BY NextKeeps
<1> QED
  BY <1>1, <1>2, PTL DEF Spec

\* The disk a queue ends in is a good one.
LEMMA QueueEnds ==
    ASSUME NEW fat, NEW d, NEW q, QueueInv(fat, d, q)
    PROVE  DiskInv(fat, DiskAfter(d, q, Len(q)))
<1>1. /\ DiskInv(fat, d) /\ q \in Seq(Writes) /\ Len(q) <= 2
      /\ \A k \in 1 .. Len(q) : SafeWrite(fat, DiskAfter(d, q, k - 1), q[k])
  BY DEF QueueInv
<1>2. MaxEntries \in Cuts
  BY Sizes DEF Cuts
<1>3. /\ DiskAfter(d, q, 0) = d
      /\ DiskAfter(d, q, 1) = Written(DiskAfter(d, q, 0), q[1], MaxEntries)
      /\ DiskAfter(d, q, 2) = Written(DiskAfter(d, q, 1), q[2], MaxEntries)
  BY DEF DiskAfter
<1>4. Len(q) \in {0, 1, 2}
  <2>1. q \in Seq(Writes) /\ Len(q) <= 2
    BY <1>1
  <2>2. Len(q) \in Nat
    BY <2>1, LenProperties
  <2>3. \A m \in Nat : m <= 2 => m \in {0, 1, 2}
    OBVIOUS
  <2> QED
    BY <2>1, <2>2, <2>3
<1>5. CASE Len(q) = 0
  BY <1>1, <1>3, <1>5
<1>6. CASE Len(q) = 1
  <2>1. 1 \in 1 .. Len(q) /\ 1 - 1 = 0
    BY <1>6
  <2>2. SafeWrite(fat, DiskAfter(d, q, 0), q[1])
    BY <1>1, <2>1
  <2> QED
    BY <1>2, <1>3, <1>6, <2>2 DEF SafeWrite
<1>7. CASE Len(q) = 2
  <2>1. 2 \in 1 .. Len(q) /\ 2 - 1 = 1
    BY <1>7
  <2>2. SafeWrite(fat, DiskAfter(d, q, 1), q[2])
    BY <1>1, <2>1
  <2> QED
    BY <1>2, <1>3, <1>7, <2>2 DEF SafeWrite
<1> QED
  BY <1>4, <1>5, <1>6, <1>7

\* That of the program is.
LEMMA SettledDisk ==
    ASSUME IInv
    PROVE  DiskInv(vol.fat, Settled)
<1>1. QueueInv(vol.fat, disk, pending)
  BY DEF IInv, PendingInv, QueueInv
<1> QED
  BY <1>1, QueueEnds DEF Settled

\* The variables have their types.
THEOREM Types ==
    ASSUME SafeUse
    PROVE  Spec => []TypeOK
<1>1. ASSUME IInv PROVE TypeOK
  <2>1. /\ vol \in [fat : [Blocks -> Words], head : Words]
        /\ vol.fat[0] # BLOCK_FREE
    BY <1>1, FatWords DEF IInv, VolumeInv
  <2>2. disk \in [Blocks -> DirTables] /\ Settled \in [Blocks -> DirTables]
    BY <1>1, SettledDisk DEF IInv, PendingInv, DiskInv, TablesInv
  <2>3. root \in DirTables /\ cwd \in DirTables /\ cwdIsRoot \in BOOLEAN
        /\ (cwdIsRoot => cwd = ZeroTable /\ cwdPath = <<>>)
    BY <1>1, <2>2, Sizes, ZeroTypes DEF IInv, CachesInv
  <2>4. \A t \in DirTables : DOMAIN t = Slots /\ \A i \in Slots : t[i].start \in Words /\ t[i].size \in Nat
    BY DEF DirTables, DirEntries
  <2>5. \A t \in {root, cwd} \cup {disk[b] : b \in Blocks} : t \in DirTables
    BY <2>2, <2>3
  <2>6. DOMAIN disk = Blocks
    BY <2>2
  <2>7. \A k \in 1 .. Len(pending) : pending[k].at \in Blocks
    <3>1. pending \in Seq(Writes)
      BY <1>1 DEF IInv, PendingInv
    <3>2. \A k \in 1 .. Len(pending) : pending[k] \in Writes
      BY <3>1
    <3> QED
      BY <3>2 DEF Writes
  <2>8. stored \subseteq Words
    BY <1>1, FatWords DEF IInv, StoredInv
  <2> QED
    BY <2>1, <2>3, <2>4, <2>5, <2>6, <2>7, <2>8 DEF TypeOK
<1> QED
  BY <1>1, Inductive, PTL

\* Between operations the root and the current directory in memory are the
\* ones on the disk (mfs.c:22).
THEOREM CachesAgree ==
    ASSUME SafeUse
    PROVE  Spec => []CacheCoherent
<1>1. ASSUME IInv PROVE CacheCoherent
  BY <1>1, BetweenOperations DEF CacheCoherent, Ready, CachesOn
<1> QED
  BY <1>1, Inductive, PTL

\* Entries of directories that name something, and what they may name.
LEMMA ListedEntries ==
    ASSUME NEW fat, NEW d, DiskInv(fat, d), NEW c \in Blocks, NEW e \in Listed(d[c])
    PROVE  \E j \in Slots : /\ e = d[c][j] /\ <<c, j>> \in Named(d) /\ Entry(d, <<c, j>>) = e
                            /\ e \in DirEntries /\ MayName(fat, d, c, e)
<1>1. PICK j \in Slots : e = d[c][j] /\ d[c][j].inUse /\ d[c][j].name \notin {".", ".."}
  BY DEF Listed
<1>2. <<c, j>> \in Named(d) /\ Entry(d, <<c, j>>) = e
  BY <1>1 DEF Named, Places, Entry, Names
<1>3. e \in DirEntries
  BY <1>1 DEF DiskInv, TablesInv, DirTables
<1>4. MayName(fat, d, c, e)
  <2>1. MayName(fat, d, <<c, j>>[1], Entry(d, <<c, j>>))
    BY <1>2 DEF DiskInv, NamedInv
  <2> QED
    BY <1>2, <2>1
<1> QED
  BY <1>1, <1>2, <1>3, <1>4

\* The directories named in those of D, and D with them.
Below(d, D) == UNION {{e.start : e \in {f \in Listed(d[c]) : f.isDir}} : c \in D}
Grown(d, D) == D \cup Below(d, D)

AllDirectories(d) == {c \in Blocks : IsDirectory(d, c)}

\* The levels of the tree, from the root on, as DirsOn goes through them.
Levels(d, within) ==
    /\ within[0] = {rootStart}
    /\ \A k \in 0 .. TotalBlocks - 1 : within[k + 1] = Grown(d, within[k])
    /\ \A k \in 0 .. TotalBlocks : within[k] \subseteq AllDirectories(d)
    /\ DirsOn(d) = within[TotalBlocks]

\* On a disk that is in order they consist of directories.
LEMMA LevelsOn ==
    ASSUME NEW fat, NEW d, DiskInv(fat, d)
    PROVE  \E within : Levels(d, within)
<1> DEFINE All == AllDirectories(d)
           S == SUBSET All
           n == TotalBlocks
           base == {rootStart}
           F(w) == [k \in 0 .. n |-> IF k = 0 THEN base ELSE Grown(d, w[k - 1])]
           within == CHOOSE w : w = F(w)
           step == [k \in 1 .. n |-> [D \in S |-> Grown(d, D)]]
<1>1. n \in Nat /\ base \in S
  BY FatWords, Sizes DEF DiskInv, DirectoriesInv, AllDirectories
<1>2. ASSUME NEW D \in S PROVE Grown(d, D) \in S
  <2>1. ASSUME NEW c \in D, NEW e \in Listed(d[c]), e.isDir PROVE e.start \in All
    <3>1. e \in DirEntries /\ MayName(fat, d, c, e)
      BY ListedEntries DEF AllDirectories
    <3> QED
      BY <2>1, <3>1, EntryFields DEF MayName, AllDirectories
  <2>2. \A b \in Below(d, D) : b \in All
    BY <2>1 DEF Below
  <2> QED
    BY <2>2 DEF Grown
<1>3. step \in [1 .. n -> [S -> S]]
  BY <1>2
<1>4. PICK v \in [0 .. n -> S] : v[0] = base /\ \A k \in 1 .. n : v[k] = step[k][v[k - 1]]
  <2> HIDE DEF n, step, S, base
  <2> QED
    BY <1>1, <1>3, Iteration
<1>5. v = F(v)
  <2>1. \A k \in 1 .. n : v[k - 1] \in S
    <3> HIDE DEF n, S
    <3> QED
      BY <1>1
  <2>2. \A k \in 1 .. n : v[k] = Grown(d, v[k - 1])
    BY <1>4, <2>1
  <2> HIDE DEF n, step, base, S
  <2>3. ASSUME NEW k \in 0 .. n
        PROVE  v[k] = IF k = 0 THEN base ELSE Grown(d, v[k - 1])
    <3>1. k # 0 => k \in 1 .. n
      BY <1>1
    <3> QED
      BY <1>4, <2>2, <3>1
  <2>4. v = [k \in 0 .. n |-> v[k]]
    OBVIOUS
  <2> QED
    BY <2>3, <2>4, Zenon
<1>6. within = F(within)
  <2> HIDE DEF F
  <2> QED
    BY <1>5
<1>7. within[0] = base /\ \A k \in 0 .. n - 1 : within[k + 1] = Grown(d, within[k])
  <2> HIDE DEF n, base, within
  <2> QED
    BY <1>1, <1>6
<1>8. \A k \in 0 .. n : within[k] \in S
  <2> HIDE DEF n, S, base, within
  <2> DEFINE P == {k \in 0 .. n : within[k] \in S}
  <2>1. ASSUME NEW k \in 0 .. n - 1, k \in P PROVE k + 1 \in P
    <3>1. k + 1 \in 0 .. n /\ within[k] \in S
      BY <1>1, <2>1
    <3> QED
      BY <1>2, <1>7, <3>1
  <2>2. 0 \in P
    BY <1>1, <1>7
  <2> HIDE DEF P
  <2>3. 0 .. n \subseteq P
    BY <1>1, <2>1, <2>2, BoundedInduction
  <2> QED
    BY <2>3 DEF P
<1>9. DirsOn(d) = within[n]
  BY DEF DirsOn, Below, Grown
<1> HIDE DEF within
<1>10. Levels(d, within)
  BY <1>7, <1>8, <1>9 DEF Levels
<1> QED
  BY <1>10

\* What a path from the root reaches are directories: the root, those named
\* in a directory that is reached, and no others.
LEMMA ReachedDirectories ==
    ASSUME NEW fat, NEW d, DiskInv(fat, d)
    PROVE  /\ DirsOn(d) \subseteq AllDirectories(d) /\ rootStart \in DirsOn(d)
           /\ \A c \in DirsOn(d) : c \in Blocks /\ IsDirectory(d, c)
           /\ Below(d, DirsOn(d)) \subseteq DirsOn(d)
           /\ \A D : rootStart \in D /\ Below(d, D) \subseteq D => DirsOn(d) \subseteq D
<1> DEFINE n == TotalBlocks
<1>1. PICK within : Levels(d, within)
  BY LevelsOn
<1>2. n \in Nat /\ Blocks = 0 .. n - 1
  BY FatWords
<1>3. /\ within[0] = {rootStart}
      /\ \A k \in 0 .. n - 1 : within[k + 1] = Grown(d, within[k])
      /\ \A k \in 0 .. n : within[k] \subseteq AllDirectories(d)
      /\ DirsOn(d) = within[n]
  BY <1>1 DEF Levels
<1> HIDE DEF n
<1>4. IsFiniteSet(Blocks) /\ Cardinality(Blocks) = n
  <2>1. 0 \in Int /\ n - 1 \in Int
    BY <1>2
  <2>2. IsFiniteSet(0 .. n - 1) /\ Cardinality(0 .. n - 1) = IF 0 > n - 1 THEN 0 ELSE n - 1 - 0 + 1
    BY <2>1, FS_Interval
  <2> QED
    BY <1>2, <2>2
<1>5. \A k \in 0 .. n : IsFiniteSet(within[k]) /\ Cardinality(within[k]) \in Nat /\ Cardinality(within[k]) <= n
  BY <1>3, <1>4, FS_Subset, FS_CardinalityType DEF AllDirectories
<1>6. Below(d, within[n]) \subseteq within[n]
  <2> DEFINE Closed(k) == Below(d, within[k]) \subseteq within[k]
             \* There are not enough blocks for every level to be larger than the one before.
             P == {k \in 0 .. n : Closed(k) \/ Cardinality(within[k]) >= k + 1}
  <2>1. 0 \in P
    <3>1. Cardinality(within[0]) = 1
      BY <1>3, FS_Singleton
    <3>2. 0 \in 0 .. n /\ Cardinality(within[0]) >= 0 + 1
      BY <1>2, <3>1
    <3> HIDE DEF Closed
    <3> QED
      BY <3>2
  <2>2. ASSUME NEW k \in 0 .. n - 1, k \in P PROVE k + 1 \in P
    <3>1. k + 1 \in 0 .. n /\ k \in 0 .. n /\ within[k + 1] = within[k] \cup Below(d, within[k])
      BY <1>2, <1>3 DEF Grown
    <3>2. CASE Closed(k)
      <4>1. within[k + 1] = within[k]
        BY <3>1, <3>2
      <4> QED
        BY <3>1, <3>2, <4>1
    <3>3. CASE ~Closed(k)
      <4>1. PICK x \in within[k + 1] : x \notin within[k]
        BY <3>1, <3>3
      <4>2. IsFiniteSet(within[k]) /\ Cardinality(within[k]) \in Nat /\ Cardinality(within[k]) >= k + 1
        BY <1>5, <2>2, <3>1, <3>3
      <4>3. Cardinality(within[k] \cup {x}) = Cardinality(within[k]) + 1
        BY <4>1, <4>2, FS_AddElement
      <4>4. within[k] \cup {x} \in SUBSET within[k + 1]
        BY <3>1, <4>1
      <4>5. IsFiniteSet(within[k + 1]) /\ Cardinality(within[k + 1]) \in Nat
        BY <1>5, <3>1
      <4>6. Cardinality(within[k] \cup {x}) <= Cardinality(within[k + 1])
        BY <4>4, <4>5, FS_Subset
      <4>7. Cardinality(within[k + 1]) >= (k + 1) + 1
        <5> DEFINE u == Cardinality(within[k])
                   v == Cardinality(within[k + 1])
        <5>1. u \in Nat /\ v \in Nat /\ u >= k + 1 /\ u + 1 <= v /\ k \in Int
          BY <4>2, <4>3, <4>5, <4>6
        <5> HIDE DEF u, v
        <5>2. v >= (k + 1) + 1
          BY <5>1
        <5> QED
          BY <5>2 DEF v
      <4> HIDE DEF Closed
      <4> QED
        BY <3>1, <4>7
    <3> QED
      BY <3>2, <3>3
  <2>3. n \in P
    <3> HIDE DEF P
    <3>1. 0 .. n \subseteq P
      BY <1>2, <2>1, <2>2, BoundedInduction
    <3> QED
      BY <1>2, <3>1
  <2> QED
    BY <1>2, <1>5, <2>3
<1>7. ASSUME NEW D, rootStart \in D, Below(d, D) \subseteq D PROVE within[n] \subseteq D
  <2> DEFINE P == {k \in 0 .. n : within[k] \subseteq D}
  <2>1. 0 \in P
    BY <1>2, <1>3, <1>7
  <2>2. ASSUME NEW k \in 0 .. n - 1, k \in P PROVE k + 1 \in P
    <3>1. k + 1 \in 0 .. n /\ within[k] \subseteq D /\ within[k + 1] = within[k] \cup Below(d, within[k])
      BY <1>2, <1>3, <2>2 DEF Grown
    <3>2. Below(d, within[k]) \subseteq Below(d, D)
      BY <3>1 DEF Below
    <3> QED
      BY <1>7, <3>1, <3>2
  <2> HIDE DEF P
  <2>3. 0 .. n \subseteq P
    BY <1>2, <2>1, <2>2, BoundedInduction
  <2> QED
    BY <1>2, <2>3 DEF P
<1>8. rootStart \in within[n]
  <2> DEFINE P == {k \in 0 .. n : rootStart \in within[k]}
  <2>1. 0 \in P
    BY <1>2, <1>3
  <2>2. ASSUME NEW k \in 0 .. n - 1, k \in P PROVE k + 1 \in P
    BY <1>2, <1>3, <2>2 DEF Grown
  <2> HIDE DEF P
  <2>3. 0 .. n \subseteq P
    BY <1>2, <2>1, <2>2, BoundedInduction
  <2> QED
    BY <1>2, <2>3 DEF P
<1>9. \A c \in within[n] : c \in Blocks /\ IsDirectory(d, c)
  <2>1. within[n] \subseteq AllDirectories(d)
    BY <1>2, <1>3
  <2> QED
    BY <2>1 DEF AllDirectories
<1>10. \A D : rootStart \in D /\ Below(d, D) \subseteq D => within[n] \subseteq D
  BY <1>7
<1>11. DirsOn(d) = within[n] /\ within[n] \subseteq AllDirectories(d)
  BY <1>2, <1>3
<1> QED
  BY <1>6, <1>8, <1>9, <1>10, <1>11

\* No block belongs to two names that paths can reach, nor to one and to the
\* root, first blocks or others: an operation on one file or directory leaves
\* the others alone.  With crashes this is about programs that move nothing
\* and whose directories have one block if they remove any (SafeUse).
THEOREM BlocksUnshared ==
    ASSUME SafeUse
    PROVE  Spec => []NoSharedBlocks
<1>1. ASSUME IInv PROVE NoSharedBlocks
  <2> DEFINE named == {x \in ReachableDirs \X Slots : Names(Entry(disk, x))}
             has(x) == IF Entry(disk, x).start = NoBlock THEN {} ELSE Run(Entry(disk, x))
  <2>1. DiskInv(vol.fat, disk)
    BY <1>1 DEF IInv, PendingInv
  <2>2. named \subseteq Named(disk)
    <3>1. ReachableDirs \subseteq Blocks
      BY <2>1, ReachedDirectories DEF ReachableDirs
    <3> QED
      BY <3>1 DEF Named, Places
  <2>3. \A x \in named : has(x) \subseteq Run(Entry(disk, x))
    OBVIOUS
  <2>4. \A x \in Named(disk) : Run(Entry(disk, x)) \cap RootRun = {}
    BY <2>1 DEF DiskInv, NamedInv, MayName
  <2>5. \A x, y \in Named(disk) : x # y => Run(Entry(disk, x)) \cap Run(Entry(disk, y)) = {}
    BY <2>1 DEF DiskInv, NamedInv
  <2>6. /\ \A x \in named : has(x) \cap RootRun = {}
        /\ \A x, y \in named : x # y => has(x) \cap has(y) = {}
    <3> HIDE DEF named, has
    <3> QED
      BY <2>2, <2>3, <2>4, <2>5
  <2> QED
    BY <2>6 DEF NoSharedBlocks
<1> QED
  BY <1>1, Inductive, PTL

\* "." of a directory a path can reach is itself, ".." the one that names it
\* (createDirectory.c:42): paths through dots go where the tree says.
THEOREM LinksAgree ==
    ASSUME SafeUse
    PROVE  Spec => []ParentLinks
<1>1. ASSUME IInv PROVE ParentLinks
  <2>1. DiskInv(vol.fat, disk)
    BY <1>1 DEF IInv, PendingInv
  <2>2. ASSUME NEW c \in DirsOn(disk), NEW e \in Listed(disk[c]), e.isDir
        PROVE  /\ disk[e.start][0].start = e.start
               /\ disk[e.start][1].name = ".." /\ disk[e.start][1].start = c
    <3>1. c \in Blocks
      BY <2>1, ReachedDirectories
    <3>2. MayName(vol.fat, disk, c, e)
      BY <2>1, <3>1, ListedEntries
    <3>3. IsDirectory(disk, e.start) /\ disk[e.start][1].start = c
      BY <2>2, <3>2 DEF MayName
    <3> QED
      BY <3>3 DEF IsDirectory, DirEntry
  <2> QED
    BY <2>2 DEF ParentLinks, ReachableDirs
<1> QED
  BY <1>1, Inductive, PTL

\* The current directory and private copies of directories, of the root as
\* well, are never saved at a larger size than the buffer they were loaded into
\* has (mfs.c:83, 436, 666).  The cached root is: of it nothing is said here.
THEOREM CopiesLargeEnough ==
    ASSUME SafeUse
    PROVE  Spec => []CopiesFit
<1>1. ASSUME IInv PROVE CopiesFit
  <2>1. DiskInv(vol.fat, disk) /\ disk \in [Blocks -> DirTables]
    BY <1>1 DEF IInv, PendingInv, DiskInv, TablesInv
  <2>2. ASSUME ~cwdIsRoot PROVE cwd[0].size <= CacheRoom
    <3>1. cwd[0].start \in Blocks \ {rootStart} /\ IsDirectory(Settled, cwd[0].start) /\ cwd = Settled[cwd[0].start]
      BY <1>1, <2>2 DEF IInv, CachesInv
    <3>2. cwd[0].size = DirBlocks
      BY <3>1 DEF IsDirectory, DirEntry
    <3> QED
      BY <3>2, Sizes DEF CacheRoom
  <2>3. ASSUME NEW c \in DirsOn(disk), NEW i \in Slots, disk[c][i].inUse, disk[c][i].isDir
        PROVE  disk[disk[c][i].start][0].size <= disk[c][i].size
    <3> DEFINE e == disk[c][i]
    <3>1. c \in Blocks /\ IsDirectory(disk, c)
      BY <2>1, ReachedDirectories
    <3>2. e \in DirEntries /\ e.size \in Nat
      BY <2>1, <3>1 DEF DirTables, DirEntries
    <3>3. e.name \in {".", ".."} => i \in {0, 1}
      <4>1. <<c, i>> \in Places /\ Entry(disk, <<c, i>>) = e /\ <<c, i>>[2] = i
        BY <3>1 DEF Places, Entry
      <4> QED
        BY <2>1, <4>1 DEF DiskInv, TablesInv
    <3>4. disk[disk[c][i].start][0].size = e.size
      <4>1. CASE i = 0
        BY <3>1, <4>1 DEF IsDirectory, DirEntry
      <4>2. CASE i = 1
        BY <2>1, <3>1, <4>2 DEF DiskInv, DirectoriesInv
      <4>3. CASE i \notin {0, 1}
        <5>1. e \in Listed(disk[c])
          BY <2>3, <3>3, <4>3 DEF Listed
        <5>2. MayName(vol.fat, disk, c, e)
          BY <2>1, <3>1, <5>1, ListedEntries
        <5>3. IsDirectory(disk, e.start) /\ e.size = DirBlocks /\ e.start \notin RootRun
          BY <2>3, <3>2, <5>2, EntryFields DEF MayName
        <5>4. e.start # rootStart
          BY <5>3, Sizes
        <5> QED
          BY <5>3, <5>4 DEF IsDirectory, DirEntry
      <4> QED
        BY <4>1, <4>2, <4>3
    <3> QED
      BY <3>2, <3>4
  <2> QED
    BY <2>2, <2>3 DEF CopiesFit, ReachableDirs
<1> QED
  BY <1>1, Inductive, PTL

\* Between operations, and as long as the program does not crash, what a path
\* can reach has its blocks: they are a finished chain of the table, and
\* nothing named has been released (freeSpace.c, mfs.c:65).
THEOREM NamedBlocksHeld ==
    ASSUME SafeUse, ~Crashes
    PROVE  Spec => []EntriesHold
<1>1. ASSUME IInv PROVE EntriesHold
  <2> SUFFICES ASSUME pending = <<>>, NEW e \in ReachableEntries
               PROVE  ChainInv(vol.fat, e)
    BY DEF EntriesHold, ChainInv, LastOf
  <2>1. \A x \in Named(disk) : Holds(vol.fat, Entry(disk, x), stored)
    BY <1>1, BetweenOperations
  <2>2. DiskInv(vol.fat, disk)
    BY <1>1 DEF IInv, PendingInv
  <2>3. PICK c \in DirsOn(disk) : e \in Listed(disk[c])
    BY DEF ReachableEntries, ReachableDirs
  <2>4. c \in Blocks
    BY <2>2, ReachedDirectories
  <2>5. PICK j \in Slots : <<c, j>> \in Named(disk) /\ Entry(disk, <<c, j>>) = e
    <3>1. \E j \in Slots : /\ e = disk[c][j] /\ <<c, j>> \in Named(disk) /\ Entry(disk, <<c, j>>) = e
                           /\ e \in DirEntries /\ MayName(vol.fat, disk, c, e)
      BY <2>3, <2>4, <2>2, ListedEntries
    <3> QED
      BY <3>1
  <2>6. Holds(vol.fat, Entry(disk, <<c, j>>), stored)
    BY <2>1, <2>5
  <2> QED
    BY <2>5, <2>6 DEF Holds
<1> QED
  BY <1>1, Inductive, PTL

\* Content copied into a file keeps the size its entry states as long as the
\* program does not crash (b_io.c:303).
THEOREM SizesRecorded ==
    ASSUME SafeUse, ~Crashes
    PROVE  Spec => []SizesKept
<1>1. ASSUME IInv PROVE SizesKept
  <2> SUFFICES ASSUME pending = <<>>, NEW e \in ReachableEntries, e.start \in stored
               PROVE  e.size > 0
    BY DEF SizesKept
  <2>1. \A x \in Named(disk) : Holds(vol.fat, Entry(disk, x), stored)
    BY <1>1, BetweenOperations
  <2>2. DiskInv(vol.fat, disk)
    BY <1>1 DEF IInv, PendingInv
  <2>3. PICK c \in DirsOn(disk) : e \in Listed(disk[c])
    BY DEF ReachableEntries, ReachableDirs
  <2>4. c \in Blocks
    BY <2>2, ReachedDirectories
  <2>5. PICK j \in Slots : <<c, j>> \in Named(disk) /\ Entry(disk, <<c, j>>) = e
    <3>1. \E j \in Slots : /\ e = disk[c][j] /\ <<c, j>> \in Named(disk) /\ Entry(disk, <<c, j>>) = e
                           /\ e \in DirEntries /\ MayName(vol.fat, disk, c, e)
      BY <2>3, <2>4, <2>2, ListedEntries
    <3> QED
      BY <3>1
  <2>6. Holds(vol.fat, Entry(disk, <<c, j>>), stored)
    BY <2>1, <2>5
  <2> QED
    BY <2>5, <2>6 DEF Holds
<1> QED
  BY <1>1, Inductive, PTL

-----------------------------------------------------------------------------
(* The tree, and how it changes with a table.                              *)

\* What the directory at block c names, as entries of the tree.
Kid(c, e)  == [dir |-> c, name |-> e.name, isDir |-> e.isDir, start |-> e.start]
Kids(d, c) == {Kid(c, e) : e \in Listed(d[c])}

\* The fields of an entry of the tree.
LEMMA KidFields ==
    ASSUME NEW c, NEW e
    PROVE  /\ Kid(c, e).dir = c /\ Kid(c, e).name = e.name
           /\ Kid(c, e).isDir = e.isDir /\ Kid(c, e).start = e.start
  BY DEF Kid

\* The tree consists of what the directories that are reached name.
LEMMA TreeIs ==
    ASSUME NEW d
    PROVE  /\ \A t : t \in TreeOn(d) <=> \E c \in DirsOn(d) : t \in Kids(d, c)
           /\ \A c, t : t \in Kids(d, c) => t.dir = c
           /\ \A t : t \in TreeOn(d) <=> t.dir \in DirsOn(d) /\ t \in Kids(d, t.dir)
<1>1. \A t : t \in TreeOn(d) <=> \E c \in DirsOn(d) : t \in Kids(d, c)
  BY DEF TreeOn, Kids, Kid
<1>2. \A c, t : t \in Kids(d, c) => t.dir = c
  BY DEF Kids, Kid
<1> QED
  BY <1>1, <1>2

\* Different entries, of whatever directories, have different storage, and
\* none has the root's.
LEMMA KidsApart ==
    ASSUME NEW fat, NEW d, DiskInv(fat, d), NEW b \in Blocks, NEW t \in Kids(d, b)
    PROVE  /\ t.start \in Blocks \ {rootStart} /\ t.isDir \in BOOLEAN /\ t.name \in Texts
           /\ \A c \in Blocks : \A u \in Kids(d, c) : u.start = t.start => u = t
<1>1. PICK e \in Listed(d[b]) : t = Kid(b, e)
  BY DEF Kids
<1>2. PICK i \in Slots : /\ <<b, i>> \in Named(d) /\ Entry(d, <<b, i>>) = e
                         /\ e \in DirEntries /\ MayName(fat, d, b, e) /\ e = d[b][i]
  BY ListedEntries
<1>3. t.start = e.start /\ t.isDir = e.isDir /\ t.name = e.name
  BY <1>1 DEF Kid
<1>4. e.start \in Run(e) /\ e.name \in Texts /\ e.isDir \in BOOLEAN
  BY <1>2, EntryFields
<1>5. e.start \in Blocks /\ e.start \notin RootRun /\ rootStart \in RootRun
  BY <1>2, <1>4, Sizes DEF MayName
<1>6. ASSUME NEW c \in Blocks, NEW u \in Kids(d, c), u.start = t.start PROVE u = t
  <2>1. PICK f \in Listed(d[c]) : u = Kid(c, f)
    BY DEF Kids
  <2>2. PICK j \in Slots : /\ <<c, j>> \in Named(d) /\ Entry(d, <<c, j>>) = f
                           /\ f \in DirEntries /\ MayName(fat, d, c, f) /\ f = d[c][j]
    BY ListedEntries
  <2>3. f.start \in Run(f) /\ f.start = e.start
    BY <1>3, <1>6, <2>1, <2>2, EntryFields DEF Kid
  <2>4. <<c, j>> = <<b, i>>
    BY <1>2, <1>4, <2>2, <2>3 DEF DiskInv, NamedInv
  <2>5. c = b /\ j = i
    BY <2>4
  <2> QED
    BY <1>1, <1>2, <2>1, <2>2, <2>5
<1> QED
  BY <1>3, <1>4, <1>5, <1>6

\* ReachedDirectories in terms of the entries of the tree.
LEMMA ReachedKids ==
    ASSUME NEW fat, NEW d, DiskInv(fat, d)
    PROVE  /\ rootStart \in DirsOn(d) /\ DirsOn(d) \subseteq Blocks
           /\ \A c \in DirsOn(d) : \A t \in Kids(d, c) : t.isDir => t.start \in DirsOn(d)
           /\ \A D : rootStart \in D /\ (\A c \in D : \A t \in Kids(d, c) : t.isDir => t.start \in D)
                => DirsOn(d) \subseteq D
<1>1. \A D : Below(d, D) \subseteq D <=> \A c \in D : \A t \in Kids(d, c) : t.isDir => t.start \in D
  <2>1. \A D, x : x \in Below(d, D) <=> \E c \in D : \E e \in Listed(d[c]) : e.isDir /\ x = e.start
    BY DEF Below
  <2>2. ASSUME NEW D
        PROVE  Below(d, D) \subseteq D <=> \A c \in D : \A e \in Listed(d[c]) : e.isDir => e.start \in D
    BY <2>1
  <2>3. ASSUME NEW c, NEW D
        PROVE  (\A e \in Listed(d[c]) : e.isDir => e.start \in D)
                 <=> (\A t \in Kids(d, c) : t.isDir => t.start \in D)
    <3>1. \A t : t \in Kids(d, c) <=> \E e \in Listed(d[c]) : t = Kid(c, e)
      BY DEF Kids
    <3> QED
      BY <3>1, KidFields
  <2> QED
    BY <2>2, <2>3
<1> QED
  BY <1>1, ReachedDirectories

\* The directories of the tree are those that are reached.
LEMMA TreeDirectories ==
    ASSUME NEW fat, NEW d, DiskInv(fat, d)
    PROVE  NS!Directories(TreeOn(d)) = DirsOn(d)
<1> DEFINE D == NS!Directories(TreeOn(d))
<1>1. \A b : b \in D <=> b = rootStart \/ \E t \in TreeOn(d) : t.isDir /\ b = t.start
  BY DEF NS!Directories
<1>2. D \subseteq DirsOn(d)
  BY <1>1, ReachedKids, TreeIs
<1>3. ASSUME NEW c \in D, NEW t \in Kids(d, c), t.isDir PROVE t.start \in D
  BY <1>1, <1>2, <1>3, TreeIs
<1>4. DirsOn(d) \subseteq D
  <2>1. rootStart \in D
    BY <1>1
  <2> HIDE DEF D
  <2> QED
    BY <1>3, <2>1, ReachedKids
<1> QED
  BY <1>2, <1>4

\* No directory that is reached changes what it names.
LEMMA SameTree ==
    ASSUME NEW fat, NEW d, DiskInv(fat, d), NEW fat2, NEW D, DiskInv(fat2, D),
           \A c \in DirsOn(d) : Kids(D, c) = Kids(d, c)
    PROVE  DirsOn(D) = DirsOn(d) /\ TreeOn(D) = TreeOn(d)
<1>1. DirsOn(D) \subseteq DirsOn(d)
  <2>1. rootStart \in DirsOn(d) /\ \A c \in DirsOn(d) : \A t \in Kids(D, c) : t.isDir => t.start \in DirsOn(d)
    BY ReachedKids
  <2> QED
    BY <2>1, ReachedKids
<1>2. DirsOn(d) \subseteq DirsOn(D)
  <2> DEFINE B == DirsOn(d) \cap DirsOn(D)
  <2>1. rootStart \in B
    BY ReachedKids
  <2>2. ASSUME NEW c \in B, NEW t \in Kids(d, c), t.isDir PROVE t.start \in B
    <3>1. t.start \in DirsOn(d) /\ t \in Kids(D, c)
      BY <2>2, ReachedKids
    <3> QED
      BY <2>2, <3>1, ReachedKids
  <2> HIDE DEF B
  <2>3. DirsOn(d) \subseteq B
    BY <2>1, <2>2, ReachedKids
  <2> QED
    BY <2>3 DEF B
<1>3. DirsOn(D) = DirsOn(d)
  BY <1>1, <1>2
<1>4. \A t : t \in TreeOn(D) <=> t \in TreeOn(d)
  BY <1>3, TreeIs
<1> QED
  BY <1>3, <1>4

\* A directory that is reached names one thing more, which names nothing yet.
LEMMA AddedTree ==
    ASSUME NEW fat, NEW d, DiskInv(fat, d), NEW fat2, NEW D, DiskInv(fat2, D),
           NEW b \in DirsOn(d), NEW t, t \notin Kids(d, b), Kids(D, b) = Kids(d, b) \cup {t},
           \A u \in Kids(d, b) : u.name # t.name,
           \A c \in DirsOn(d) \ {b} : Kids(D, c) = Kids(d, c),
           t.isDir => Kids(D, t.start) = {}
    PROVE  /\ TreeOn(D) = TreeOn(d) \cup {t} /\ NS!Step(TreeOn(d), TreeOn(D))
           /\ \A c \in DirsOn(D) : c \in DirsOn(d) \/ (t.isDir /\ c = t.start)
<1>1. t \in Kids(D, b) /\ t.dir = b /\ b \in Blocks
  BY TreeIs, ReachedKids
<1>2. t.start \in Blocks \ {rootStart} /\ t.isDir \in BOOLEAN
  BY <1>1, KidsApart
<1> DEFINE New == DirsOn(d) \cup {c \in {t.start} : t.isDir}
<1>3. \A c \in DirsOn(d) : Kids(d, c) \subseteq Kids(D, c)
  OBVIOUS
<1>4. DirsOn(D) \subseteq New
  <2>1. rootStart \in New
    BY ReachedKids
  <2>2. ASSUME NEW c \in New, NEW u \in Kids(D, c), u.isDir PROVE u.start \in New
    <3>1. CASE c \in DirsOn(d)
      <4>1. u \in Kids(d, c) \/ u = t
        BY <3>1
      <4> QED
        BY <2>2, <3>1, <4>1, ReachedKids
    <3>2. CASE t.isDir /\ c = t.start
      BY <3>2
    <3> QED
      BY <3>1, <3>2
  <2> HIDE DEF New
  <2> QED
    BY <2>1, <2>2, ReachedKids
<1>5. DirsOn(d) \subseteq DirsOn(D)
  <2> DEFINE B == DirsOn(d) \cap DirsOn(D)
  <2>1. rootStart \in B
    BY ReachedKids
  <2>2. ASSUME NEW c \in B, NEW u \in Kids(d, c), u.isDir PROVE u.start \in B
    <3>1. u.start \in DirsOn(d) /\ u \in Kids(D, c)
      BY <1>3, <2>2, ReachedKids
    <3> QED
      BY <2>2, <3>1, ReachedKids
  <2> HIDE DEF B
  <2>3. DirsOn(d) \subseteq B
    BY <2>1, <2>2, ReachedKids
  <2> QED
    BY <2>3 DEF B
<1>6. ASSUME NEW u PROVE u \in TreeOn(D) <=> u \in TreeOn(d) \/ u = t
  <2>1. ASSUME u \in TreeOn(D) PROVE u \in TreeOn(d) \/ u = t
    <3>1. u.dir \in DirsOn(D) /\ u \in Kids(D, u.dir)
      BY <2>1, TreeIs
    <3>2. u.dir \in DirsOn(d) \/ (t.isDir /\ u.dir = t.start)
      BY <1>4, <3>1
    <3>3. u.dir \in DirsOn(d)
      BY <3>1, <3>2
    <3>4. u \in Kids(d, u.dir) \/ u = t
      BY <3>1, <3>3
    <3> QED
      BY <3>3, <3>4, TreeIs
  <2>2. ASSUME u \in TreeOn(d) PROVE u \in TreeOn(D)
    BY <1>3, <1>5, <2>2, TreeIs
  <2>3. t \in TreeOn(D)
    BY <1>1, <1>5, TreeIs
  <2> QED
    BY <2>1, <2>2, <2>3
<1>7. TreeOn(D) = TreeOn(d) \cup {t}
  BY <1>6
<1>8. NS!Step(TreeOn(d), TreeOn(D))
  <2>1. t \notin TreeOn(d)
    BY <1>1, TreeIs
  <2>2. NS!Fresh(TreeOn(d), t)
    <3>1. t.dir \in NS!Directories(TreeOn(d))
      BY <1>1, TreeDirectories
    <3>2. ASSUME NEW u \in TreeOn(d), u.dir = t.dir PROVE u.name # t.name
      BY <1>1, <3>2, TreeIs
    <3>3. t.name \notin NS!Used(TreeOn(d), t.dir)
      BY <3>2 DEF NS!Used
    <3> QED
      BY <3>1, <3>3 DEF NS!Fresh
  <2>3. t.start \notin NS!Storage(TreeOn(d)) \ {NoBlock}
    <3>1. ASSUME NEW u \in TreeOn(d), u.start = t.start PROVE FALSE
      <4>1. u.dir \in DirsOn(d) /\ u \in Kids(d, u.dir)
        BY TreeIs
      <4>2. u \in Kids(D, u.dir) /\ u.dir \in Blocks
        BY <1>3, <4>1, ReachedKids
      <4>3. u = t
        BY <1>1, <3>1, <4>2, KidsApart
      <4> QED
        BY <2>1, <4>3
    <3> QED
      BY <1>2, <3>1 DEF NS!Storage
  <2>4. NS!Added(TreeOn(d), t, TreeOn(D))
    BY <1>7, <2>1, <2>2, <2>3 DEF NS!Added
  <2> QED
    BY <1>7, <2>1, <2>4 DEF NS!Step
<1> QED
  BY <1>4, <1>7, <1>8

\* One names one thing less, which named nothing.
LEMMA RemovedTree ==
    ASSUME NEW fat, NEW d, DiskInv(fat, d), NEW fat2, NEW D, DiskInv(fat2, D),
           NEW b \in DirsOn(d), NEW t \in Kids(d, b), Kids(D, b) = Kids(d, b) \ {t},
           \A c \in DirsOn(d) \ {b} : Kids(D, c) = Kids(d, c),
           t.isDir => Kids(d, t.start) = {}
    PROVE  /\ TreeOn(D) = TreeOn(d) \ {t} /\ NS!Step(TreeOn(d), TreeOn(D))
           /\ DirsOn(D) \subseteq DirsOn(d) /\ (t.isDir => t.start \notin DirsOn(D))
<1>1. t.dir = b /\ b \in Blocks /\ t \in TreeOn(d)
  BY TreeIs, ReachedKids
<1>2. t.start \in Blocks \ {rootStart} /\ t.isDir \in BOOLEAN
  BY <1>1, KidsApart
<1> DEFINE Left == {c \in DirsOn(d) : ~(t.isDir /\ c = t.start)}
<1>3. \A c \in DirsOn(d) : Kids(D, c) \subseteq Kids(d, c)
  OBVIOUS
<1>4. DirsOn(D) \subseteq Left
  <2>1. rootStart \in Left
    BY <1>2, ReachedKids
  <2>2. ASSUME NEW c \in Left, NEW u \in Kids(D, c), u.isDir PROVE u.start \in Left
    <3>1. c \in DirsOn(d) /\ c \in Blocks /\ u \in Kids(d, c)
      BY <1>3, ReachedKids
    <3>2. u.start \in DirsOn(d)
      BY <2>2, <3>1, ReachedKids
    <3>3. u.start = t.start => u = t
      BY <1>1, <3>1, KidsApart
    <3>4. u = t => c = b
      BY <1>1, <3>1, TreeIs
    <3> QED
      BY <3>2, <3>3, <3>4
  <2> HIDE DEF Left
  <2> QED
    BY <2>1, <2>2, ReachedKids
<1>5. Left \subseteq DirsOn(D)
  <2> DEFINE B == {c \in DirsOn(d) : c \in DirsOn(D) \/ (t.isDir /\ c = t.start)}
  <2>1. rootStart \in B
    BY ReachedKids
  <2>2. ASSUME NEW c \in B, NEW u \in Kids(d, c), u.isDir PROVE u.start \in B
    <3>1. u.start \in DirsOn(d)
      BY <2>2, ReachedKids
    <3>2. CASE c \in DirsOn(D)
      <4>1. u \in Kids(D, c) \/ u = t
        OBVIOUS
      <4>2. u \in Kids(D, c) => u.start \in DirsOn(D)
        BY <2>2, <3>2, ReachedKids
      <4> QED
        BY <2>2, <3>1, <4>1, <4>2
    <3>3. CASE t.isDir /\ c = t.start
      BY <3>3
    <3> QED
      BY <3>2, <3>3
  <2> HIDE DEF B
  <2>3. DirsOn(d) \subseteq B
    BY <2>1, <2>2, ReachedKids
  <2> QED
    BY <2>3 DEF B
<1>6. ASSUME NEW u PROVE u \in TreeOn(D) <=> u \in TreeOn(d) /\ u # t
  <2>1. ASSUME u \in TreeOn(D) PROVE u \in TreeOn(d) /\ u # t
    <3>1. u.dir \in DirsOn(D) /\ u \in Kids(D, u.dir)
      BY <2>1, TreeIs
    <3>2. u.dir \in DirsOn(d)
      BY <1>4, <3>1
    <3>3. u \in Kids(d, u.dir) /\ u # t
      BY <1>1, <3>1, <3>2
    <3> QED
      BY <3>2, <3>3, TreeIs
  <2>2. ASSUME u \in TreeOn(d), u # t PROVE u \in TreeOn(D)
    <3>1. u.dir \in DirsOn(d) /\ u \in Kids(d, u.dir)
      BY <2>2, TreeIs
    <3>2. u \in Kids(D, u.dir)
      BY <2>2, <3>1
    <3>3. u.dir \in DirsOn(D)
      BY <1>5, <3>1
    <3> QED
      BY <3>2, <3>3, TreeIs
  <2> QED
    BY <2>1, <2>2
<1>7. TreeOn(D) = TreeOn(d) \ {t}
  BY <1>6
<1>8. NS!Step(TreeOn(d), TreeOn(D))
  <2>1. ASSUME t.isDir PROVE NS!Used(TreeOn(d), t.start) = {}
    BY <2>1, TreeIs DEF NS!Used
  <2>2. NS!Removed(TreeOn(d), t, TreeOn(D))
    BY <1>1, <1>7, <2>1 DEF NS!Removed
  <2> QED
    BY <1>1, <1>7, <2>2 DEF NS!Step
<1> QED
  BY <1>4, <1>7, <1>8

\* A file in one gets another name.
LEMMA RenamedTree ==
    ASSUME NEW fat, NEW d, DiskInv(fat, d), NEW fat2, NEW D, DiskInv(fat2, D),
           NEW b \in DirsOn(d), NEW t \in Kids(d, b), NEW u, Kids(D, b) = (Kids(d, b) \ {t}) \cup {u},
           ~t.isDir, u.isDir = t.isDir, u.start = t.start,
           \A v \in Kids(d, b) : v.name # u.name,
           \A c \in DirsOn(d) \ {b} : Kids(D, c) = Kids(d, c)
    PROVE  /\ TreeOn(D) = (TreeOn(d) \ {t}) \cup {u} /\ NS!Step(TreeOn(d), TreeOn(D))
           /\ DirsOn(D) = DirsOn(d)
<1>1. t.dir = b /\ u.dir = b /\ b \in Blocks /\ t \in TreeOn(d) /\ u \notin Kids(d, b) /\ u # t
  BY TreeIs, ReachedKids
<1>2. DirsOn(D) \subseteq DirsOn(d)
  <2>1. rootStart \in DirsOn(d)
    BY ReachedKids
  <2>2. ASSUME NEW c \in DirsOn(d), NEW v \in Kids(D, c), v.isDir PROVE v.start \in DirsOn(d)
    <3>1. v \in Kids(d, c)
      BY <2>2
    <3> QED
      BY <2>2, <3>1, ReachedKids
  <2> QED
    BY <2>1, <2>2, ReachedKids
<1>3. DirsOn(d) \subseteq DirsOn(D)
  <2> DEFINE B == DirsOn(d) \cap DirsOn(D)
  <2>1. rootStart \in B
    BY ReachedKids
  <2>2. ASSUME NEW c \in B, NEW v \in Kids(d, c), v.isDir PROVE v.start \in B
    <3>1. v.start \in DirsOn(d) /\ v \in Kids(D, c)
      BY <2>2, ReachedKids
    <3> QED
      BY <2>2, <3>1, ReachedKids
  <2> HIDE DEF B
  <2>3. DirsOn(d) \subseteq B
    BY <2>1, <2>2, ReachedKids
  <2> QED
    BY <2>3 DEF B
<1>4. DirsOn(D) = DirsOn(d)
  BY <1>2, <1>3
<1>5. ASSUME NEW v PROVE v \in TreeOn(D) <=> (v \in TreeOn(d) /\ v # t) \/ v = u
  <2>1. CASE v.dir = b
    <3>1. v \in Kids(D, v.dir) <=> (v \in Kids(d, v.dir) /\ v # t) \/ v = u
      BY <2>1
    <3> QED
      BY <1>1, <1>4, <2>1, <3>1, TreeIs
  <2>2. CASE v.dir # b
    <3>1. v # t /\ v # u
      BY <1>1, <2>2
    <3>2. v.dir \in DirsOn(d) => Kids(D, v.dir) = Kids(d, v.dir)
      BY <2>2
    <3> QED
      BY <1>4, <3>1, <3>2, TreeIs
  <2> QED
    BY <2>1, <2>2
<1>6. TreeOn(D) = (TreeOn(d) \ {t}) \cup {u}
  BY <1>5
<1>7. NS!Step(TreeOn(d), TreeOn(D))
  <2>1. u \notin TreeOn(d)
    BY <1>1, TreeIs
  <2>2. u.dir \in NS!Directories(TreeOn(d))
    BY <1>1, TreeDirectories
  <2>3. ASSUME NEW v \in TreeOn(d), v.dir = u.dir PROVE v.name # u.name
    BY <1>1, <2>3, TreeIs
  <2>4. u.name \notin NS!Used(TreeOn(d), u.dir)
    BY <2>3 DEF NS!Used
  <2>5. NS!Renamed(TreeOn(d), t, u, TreeOn(D))
    BY <1>1, <1>6, <2>2, <2>4 DEF NS!Renamed, NS!Fresh
  <2>6. t \in TreeOn(d) \ TreeOn(D) /\ u \in TreeOn(D) \ TreeOn(d)
    BY <1>1, <1>5, <2>1
  <2> QED
    BY <2>5, <2>6 DEF NS!Step
<1> QED
  BY <1>4, <1>6, <1>7

-----------------------------------------------------------------------------
(* The writes of the operations.                                           *)

\* What the table at block b names when one of its slots has changed.
LEMMA PutKids ==
    ASSUME NEW d \in [Blocks -> DirTables], NEW b \in Blocks, NEW i \in Slots, NEW e \in DirEntries
    PROVE  /\ \A c \in Blocks \ {b} : Kids(Put(d, b, i, e), c) = Kids(d, c)
           /\ \A t : t \in Kids(Put(d, b, i, e), b) <=>
                    \/ Names(e) /\ t = Kid(b, e)
                    \/ \E j \in Slots \ {i} : Names(d[b][j]) /\ t = Kid(b, d[b][j])
           /\ \A t : t \in Kids(d, b) <=> \E j \in Slots : Names(d[b][j]) /\ t = Kid(b, d[b][j])
<1> DEFINE D == Put(d, b, i, e)
<1>1. \A table, f : f \in Listed(table) <=> \E j \in Slots : Names(table[j]) /\ f = table[j]
  BY DEF Listed, Names
<1>2. \A h, c, t : t \in Kids(h, c) <=> \E j \in Slots : Names(h[c][j]) /\ t = Kid(c, h[c][j])
  BY <1>1 DEF Kids
<1>3. /\ \A c \in Blocks : c # b => D[c] = d[c]
      /\ \A j \in Slots : D[b][j] = IF j = i THEN e ELSE d[b][j]
  <2>1. /\ \A c \in Blocks : c # b => Put(d, b, i, e)[c] = d[c]
        /\ \A c \in Blocks, j \in Slots :
             Put(d, b, i, e)[c][j] = IF c = b /\ j = i THEN e ELSE d[c][j]
    BY DEF Put, DirTables
  <2> QED
    BY <2>1
<1> HIDE DEF D
<1>4. \A c \in Blocks \ {b} : Kids(D, c) = Kids(d, c)
  BY <1>3 DEF Kids
<1>5. \A t : t \in Kids(D, b) <=> \/ Names(e) /\ t = Kid(b, e)
                                  \/ \E j \in Slots \ {i} : Names(d[b][j]) /\ t = Kid(b, d[b][j])
  BY <1>2, <1>3
<1> QED
  BY <1>2, <1>4, <1>5 DEF D

\* A slot behind the dots of the directory at block b of disk d gets entry e,
\* and both disks are in order.
SlotChange(fat, d, b, i, e) ==
    /\ DiskInv(fat, d) /\ DiskInv(fat, Put(d, b, i, e))
    /\ b \in Blocks /\ i \in Slots \ {0, 1} /\ e \in DirEntries

\* Nothing happens,
LEMMA NoStep ==
    ASSUME NEW d, NEW here
    PROVE  TreeStep(d, d, here)
  BY DEF TreeStep

\* or the slot names the same as before, or nothing as before,
LEMMA SlotKeeps ==
    ASSUME NEW fat, NEW d, NEW b, NEW i, NEW e, SlotChange(fat, d, b, i, e), NEW here,
           \/ ~Names(e) /\ ~Names(d[b][i])
           \/ Names(e) /\ Names(d[b][i]) /\ Kid(b, e) = Kid(b, d[b][i])
    PROVE  TreeStep(d, Put(d, b, i, e), here)
<1> DEFINE D == Put(d, b, i, e)
<1>1. d \in [Blocks -> DirTables] /\ b \in Blocks /\ i \in Slots /\ e \in DirEntries
  BY DEF SlotChange, DiskInv, TablesInv
<1>2. /\ \A c \in Blocks \ {b} : Kids(D, c) = Kids(d, c)
      /\ \A t : t \in Kids(D, b) <=>
               \/ Names(e) /\ t = Kid(b, e)
               \/ \E j \in Slots \ {i} : Names(d[b][j]) /\ t = Kid(b, d[b][j])
      /\ \A t : t \in Kids(d, b) <=> \E j \in Slots : Names(d[b][j]) /\ t = Kid(b, d[b][j])
  BY <1>1, PutKids
<1> HIDE DEF D
<1>3. \A t : t \in Kids(D, b) <=> t \in Kids(d, b)
  BY <1>1, <1>2
<1>4. \A c \in DirsOn(d) : Kids(D, c) = Kids(d, c)
  <2>1. DirsOn(d) \subseteq Blocks
    BY ReachedKids DEF SlotChange
  <2> QED
    BY <1>2, <1>3, <2>1
<1>5. DirsOn(D) = DirsOn(d) /\ TreeOn(D) = TreeOn(d)
  BY <1>4, SameTree DEF SlotChange, D
<1> QED
  BY <1>5 DEF TreeStep, D

\* or it names something new, under a new name,
LEMMA SlotAdds ==
    ASSUME NEW fat, NEW d, NEW b, NEW i, NEW e, SlotChange(fat, d, b, i, e), NEW here,
           Names(e), ~Names(d[b][i]),
           \A j \in Slots : Names(d[b][j]) => d[b][j].name # e.name,
           e.isDir => /\ e.start # b /\ e.start # here
                      /\ \A j \in Slots : ~Names(d[e.start][j])
    PROVE  TreeStep(d, Put(d, b, i, e), here)
<1> DEFINE D == Put(d, b, i, e)
           t == Kid(b, e)
<1>1. d \in [Blocks -> DirTables] /\ b \in Blocks /\ i \in Slots /\ e \in DirEntries
  BY DEF SlotChange, DiskInv, TablesInv
<1>2. /\ \A c \in Blocks \ {b} : Kids(D, c) = Kids(d, c)
      /\ \A u : u \in Kids(D, b) <=>
               \/ Names(e) /\ u = Kid(b, e)
               \/ \E j \in Slots \ {i} : Names(d[b][j]) /\ u = Kid(b, d[b][j])
      /\ \A u : u \in Kids(d, b) <=> \E j \in Slots : Names(d[b][j]) /\ u = Kid(b, d[b][j])
  BY <1>1, PutKids
<1>3. \A c, u : u \in Kids(d, c) <=> \E f \in Listed(d[c]) : u = Kid(c, f)
  BY DEF Kids
<1>4. t.name = e.name /\ t.isDir = e.isDir /\ t.start = e.start
  BY KidFields
<1> HIDE DEF D, t
<1>5. \A u : u \in Kids(D, b) <=> u \in Kids(d, b) \/ u = t
  BY <1>1, <1>2 DEF t
<1>6. \A u \in Kids(d, b) : u.name # t.name
  BY <1>2, <1>4, KidFields
<1>7. Kids(D, b) = Kids(d, b) \cup {t} /\ t \notin Kids(d, b)
  BY <1>5, <1>6
<1>8. DirsOn(d) \subseteq Blocks /\ DiskInv(fat, d) /\ DiskInv(fat, D)
  BY ReachedKids DEF SlotChange, D
<1>9. CASE b \in DirsOn(d)
  <2>1. t.isDir => Kids(D, t.start) = {}
    <3> SUFFICES ASSUME t.isDir PROVE Kids(D, e.start) = {}
      BY <1>4
    <3>1. e.start \in Blocks
      BY <1>1, <1>4, <1>7, <1>8, KidsApart
    <3>2. Kids(D, e.start) = Kids(d, e.start)
      BY <1>2, <1>4, <3>1
    <3>3. Listed(d[e.start]) = {}
      BY <1>4 DEF Listed, Names
    <3> QED
      BY <1>3, <3>2, <3>3
  <2>2. \A c \in DirsOn(d) \ {b} : Kids(D, c) = Kids(d, c)
    BY <1>2, <1>8
  <2>3. /\ TreeOn(D) = TreeOn(d) \cup {t} /\ NS!Step(TreeOn(d), TreeOn(D))
        /\ \A c \in DirsOn(D) : c \in DirsOn(d) \/ (t.isDir /\ c = t.start)
    BY <1>6, <1>7, <1>8, <1>9, <2>1, <2>2, AddedTree
  <2>4. here \in DirsOn(D) => here \in DirsOn(d)
    BY <1>4, <2>3
  <2> QED
    BY <2>3, <2>4 DEF TreeStep, D
<1>10. CASE b \notin DirsOn(d)
  <2>1. \A c \in DirsOn(d) : Kids(D, c) = Kids(d, c)
    BY <1>2, <1>8, <1>10
  <2>2. DirsOn(D) = DirsOn(d) /\ TreeOn(D) = TreeOn(d)
    BY <1>8, <2>1, SameTree
  <2> QED
    BY <2>2 DEF TreeStep, D
<1> QED
  BY <1>9, <1>10

\* or nothing any more, when the directory it named was empty.
LEMMA SlotRemoves ==
    ASSUME NEW fat, NEW d, NEW b, NEW i, NEW e, SlotChange(fat, d, b, i, e), NEW here,
           ~Names(e), Names(d[b][i]),
           d[b][i].isDir => \A j \in Slots : ~Names(d[d[b][i].start][j])
    PROVE  TreeStep(d, Put(d, b, i, e), here)
<1> DEFINE D == Put(d, b, i, e)
           o == d[b][i]
           t == Kid(b, o)
<1>1. d \in [Blocks -> DirTables] /\ b \in Blocks /\ i \in Slots /\ e \in DirEntries
  BY DEF SlotChange, DiskInv, TablesInv
<1>2. /\ \A c \in Blocks \ {b} : Kids(D, c) = Kids(d, c)
      /\ \A u : u \in Kids(D, b) <=>
               \/ Names(e) /\ u = Kid(b, e)
               \/ \E j \in Slots \ {i} : Names(d[b][j]) /\ u = Kid(b, d[b][j])
      /\ \A u : u \in Kids(d, b) <=> \E j \in Slots : Names(d[b][j]) /\ u = Kid(b, d[b][j])
  BY <1>1, PutKids
<1>3. \A c, u : u \in Kids(d, c) <=> \E f \in Listed(d[c]) : u = Kid(c, f)
  BY DEF Kids
<1>4. t.isDir = o.isDir /\ t.start = o.start
  BY KidFields
<1>5. DirsOn(d) \subseteq Blocks /\ DiskInv(fat, d) /\ DiskInv(fat, D)
  BY ReachedKids DEF SlotChange
<1>6. ASSUME NEW j \in Slots \ {i}, Names(d[b][j]) PROVE Kid(b, d[b][j]) # t
  <2>1. <<b, j>> \in Named(d) /\ <<b, i>> \in Named(d) /\ <<b, j>> # <<b, i>>
    BY <1>1, <1>6 DEF Named, Places, Entry
  <2>2. Entry(d, <<b, j>>) = d[b][j] /\ Entry(d, <<b, i>>) = o
    BY DEF Entry
  <2>3. d[b][j].start \in Run(d[b][j]) /\ o.start \in Run(o)
    BY <1>1, EntryFields DEF DirTables
  <2>4. d[b][j].start # o.start
    BY <1>5, <2>1, <2>2, <2>3 DEF DiskInv, NamedInv
  <2> QED
    BY <1>4, <2>4, KidFields
<1> HIDE DEF D, t
<1>7. \A u : u \in Kids(D, b) <=> u \in Kids(d, b) /\ u # t
  BY <1>1, <1>2, <1>6 DEF t
<1>8. Kids(D, b) = Kids(d, b) \ {t} /\ t \in Kids(d, b)
  BY <1>1, <1>2, <1>7 DEF t
<1>9. CASE b \in DirsOn(d)
  <2>1. t.isDir => Kids(d, t.start) = {}
    <3> SUFFICES ASSUME t.isDir PROVE Kids(d, o.start) = {}
      BY <1>4
    <3>1. Listed(d[o.start]) = {}
      BY <1>4 DEF Listed, Names
    <3> QED
      BY <1>3, <3>1
  <2>2. \A c \in DirsOn(d) \ {b} : Kids(D, c) = Kids(d, c)
    BY <1>2, <1>5
  <2>3. /\ TreeOn(D) = TreeOn(d) \ {t} /\ NS!Step(TreeOn(d), TreeOn(D))
        /\ DirsOn(D) \subseteq DirsOn(d) /\ (t.isDir => t.start \notin DirsOn(D))
    BY <1>5, <1>8, <1>9, <2>1, <2>2, RemovedTree
  <2> QED
    BY <2>3 DEF TreeStep, D
<1>10. CASE b \notin DirsOn(d)
  <2>1. \A c \in DirsOn(d) : Kids(D, c) = Kids(d, c)
    BY <1>2, <1>5, <1>10
  <2>2. DirsOn(D) = DirsOn(d) /\ TreeOn(D) = TreeOn(d)
    BY <1>5, <2>1, SameTree
  <2> QED
    BY <2>2 DEF TreeStep, D
<1> QED
  BY <1>9, <1>10

\* What the write w of disk d does to the tree, wherever it is cut, and what
\* the writes of queue q do, one after the other.
WriteSteps(d, w, here) == \A n \in Cuts : TreeStep(d, Written(d, w, n), here)
QueueSteps(d, q, here) == \A k \in 1 .. Len(q) : WriteSteps(DiskAfter(d, q, k - 1), q[k], here)

\* The queue of the program.
LEMMA StepsOfQueue ==
    ASSUME NEW here, here = cwdTable[0].start
    PROVE  StepsInv <=> QueueSteps(disk, pending, here)
  BY DEF StepsInv, QueueSteps, WriteSteps

\* No write is queued,
LEMMA NoSteps ==
    ASSUME NEW d, NEW here
    PROVE  QueueSteps(d, <<>>, here)
  BY DEF QueueSteps

\* one,
LEMMA OneStep ==
    ASSUME NEW d, NEW here, NEW w \in Writes, WriteSteps(d, w, here)
    PROVE  QueueSteps(d, <<w>>, here)
<1>1. Len(<<w>>) = 1 /\ <<w>>[1] = w /\ DiskAfter(d, <<w>>, 0) = d
  BY DEF DiskAfter
<1>2. \A k \in 1 .. Len(<<w>>) : k = 1 /\ k - 1 = 0
  BY <1>1
<1> QED
  BY <1>1, <1>2 DEF QueueSteps

\* Two writes in a row are a queue of two.
LEMMA PairOfWrites ==
    ASSUME NEW d, NEW w \in Writes, NEW w2 \in Writes, NEW q, q = <<w>> \o <<w2>>
    PROVE  /\ q \in Seq(Writes) /\ Len(q) = 2 /\ q[1] = w /\ q[2] = w2
           /\ DiskAfter(d, q, 0) = d /\ DiskAfter(d, q, 1) = Written(d, w, MaxEntries)
<1>1. <<w>> \in Seq(Writes) /\ <<w2>> \in Seq(Writes) /\ Len(<<w>>) = 1 /\ Len(<<w2>>) = 1
  OBVIOUS
<1>2. q \in Seq(Writes) /\ Len(q) = 2 /\ \A k \in 1 .. 2 : q[k] = IF k <= 1 THEN <<w>>[k] ELSE <<w2>>[k - 1]
  BY <1>1, ConcatProperties
<1>3. q[1] = w /\ q[2] = w2
  BY <1>2
<1>4. DiskAfter(d, q, 0) = d /\ DiskAfter(d, q, 1) = Written(d, w, MaxEntries)
  BY <1>3 DEF DiskAfter
<1> QED
  BY <1>2, <1>3, <1>4

\* or two.
LEMMA TwoSteps ==
    ASSUME NEW d, NEW here, NEW w \in Writes, WriteSteps(d, w, here),
           NEW w2 \in Writes, WriteSteps(Written(d, w, MaxEntries), w2, here)
    PROVE  QueueSteps(d, <<w>> \o <<w2>>, here)
<1> DEFINE q == <<w>> \o <<w2>>
<1>1. /\ q \in Seq(Writes) /\ Len(q) = 2 /\ q[1] = w /\ q[2] = w2
      /\ DiskAfter(d, q, 0) = d /\ DiskAfter(d, q, 1) = Written(d, w, MaxEntries)
  BY PairOfWrites
<1> HIDE DEF q
<1>2. \A k \in 1 .. Len(q) : (k = 1 /\ k - 1 = 0) \/ (k = 2 /\ k - 1 = 1)
  BY <1>1
<1>3. \A k \in 1 .. Len(q) : WriteSteps(DiskAfter(d, q, k - 1), q[k], here)
  BY <1>1, <1>2
<1> QED
  BY <1>3 DEF QueueSteps, q

\* The first write of a queue, and the rest of it once that is done.
LEMMA StepsAdvance ==
    ASSUME NEW d, NEW here, NEW q \in Seq(Writes), Len(q) <= 2, q # <<>>, QueueSteps(d, q, here)
    PROVE  /\ WriteSteps(d, q[1], here)
           /\ QueueSteps(Written(d, q[1], MaxEntries), Tail(q), here)
<1> DEFINE s == Tail(q)
           D == Written(d, q[1], MaxEntries)
<1>1. Len(q) \in {1, 2} /\ Len(s) = Len(q) - 1 /\ \A k \in 1 .. Len(s) : s[k] = q[k + 1]
  <2>1. Len(q) \in Nat \ {0}
    BY EmptySeq
  <2>2. Len(s) = Len(q) - 1 /\ s \in Seq(Writes) /\ \A k \in 1 .. Len(s) : s[k] = q[k + 1]
    BY HeadTailProperties
  <2> QED
    BY <2>1, <2>2
<1> HIDE DEF s, D
<1>2. DiskAfter(D, s, 0) = D /\ DiskAfter(d, q, 0) = d /\ DiskAfter(d, q, 1) = D
  BY DEF DiskAfter, D
<1>3. WriteSteps(d, q[1], here)
  <2>1. 1 \in 1 .. Len(q) /\ 1 - 1 = 0
    BY <1>1
  <2> QED
    BY <1>2, <2>1 DEF QueueSteps
<1>4. QueueSteps(D, s, here)
  <2> SUFFICES ASSUME NEW k \in 1 .. Len(s) PROVE WriteSteps(DiskAfter(D, s, k - 1), s[k], here)
    BY DEF QueueSteps
  <2>1. k = 1 /\ k - 1 = 0 /\ 2 \in 1 .. Len(q) /\ 2 - 1 = 1 /\ s[k] = q[2]
    BY <1>1
  <2>2. WriteSteps(DiskAfter(d, q, 1), q[2], here)
    BY <2>1 DEF QueueSteps
  <2> QED
    BY <1>2, <2>1, <2>2
<1> QED
  BY <1>3, <1>4 DEF D, s

\* A write that changes one slot is cut before it or behind it.
LEMMA SlotSteps ==
    ASSUME NEW d \in [Blocks -> DirTables], NEW b \in Blocks, NEW i \in Slots, NEW e \in DirEntries,
           NEW here, TreeStep(d, Put(d, b, i, e), here)
    PROVE  WriteSteps(d, ChangedWrite(d, b, i, e), here)
<1> DEFINE w == ChangedWrite(d, b, i, e)
<1>1. w = [at |-> b, table |-> [d[b] EXCEPT ![i] = e]]
  BY DEF ChangedWrite, Changed
<1> HIDE DEF w
<1> SUFFICES ASSUME NEW n \in Cuts PROVE TreeStep(d, Written(d, w, n), here)
  BY DEF WriteSteps, w
<1>2. n \in 0 .. MaxEntries
  BY Sizes DEF Cuts
<1>3. Written(d, w, n) = IF i < n THEN Put(d, b, i, e) ELSE d
  BY <1>1, <1>2, WrittenSlot
<1> QED
  BY <1>3, NoStep

\* Saving the table of a directory with one slot changed.
LEMMA SaveSlot ==
    ASSUME NEW d \in [Blocks -> DirTables], NEW b \in Blocks, IsDirectory(d, b),
           NEW i \in Slots \ {0, 1}, NEW e \in DirEntries
    PROVE  /\ Save(Changed(d, b, i, e)) = <<ChangedWrite(d, b, i, e)>>
           /\ ChangedWrite(d, b, i, e) \in Writes
           /\ Written(d, ChangedWrite(d, b, i, e), MaxEntries) = Put(d, b, i, e)
<1> DEFINE t == [d[b] EXCEPT ![i] = e]
           w == [at |-> b, table |-> t]
<1>1. i \in Slots /\ d[b] \in DirTables
  OBVIOUS
<1>2. t \in DirTables /\ t[0] = d[b][0]
  BY <1>1, Sizes DEF DirTables
<1>3. w \in Writes
  BY <1>2 DEF Writes
<1>4. MaxEntries \in 0 .. MaxEntries
  BY Sizes
<1>5. Written(d, w, MaxEntries) = Put(d, b, i, e)
  BY <1>1, <1>4, WrittenSlot
<1>6. t[0].size # 0 /\ t[0].start = b
  BY <1>2, Sizes DEF IsDirectory, DirEntry
<1>7. Save(t) = <<w>>
  BY <1>6 DEF Save
<1>8. t = Changed(d, b, i, e) /\ w = ChangedWrite(d, b, i, e)
  BY DEF Changed, ChangedWrite
<1> HIDE DEF t, w
<1> QED
  BY <1>3, <1>5, <1>7, <1>8

\* The disks that a queue of one write leads through,
LEMMA DisksOfOne ==
    ASSUME NEW fat, NEW d, NEW w, QueueInv(fat, d, <<w>>)
    PROVE  DiskInv(fat, d) /\ DiskInv(fat, Written(d, w, MaxEntries))
<1>1. Len(<<w>>) = 1 /\ <<w>>[1] = w /\ DiskAfter(d, <<w>>, 0) = d /\ 1 - 1 = 0 /\ 1 \in 1 .. 1
  BY DEF DiskAfter
<1>2. SafeWrite(fat, d, w)
  BY <1>1 DEF QueueInv
<1>3. MaxEntries \in Cuts
  BY Sizes DEF Cuts
<1> QED
  BY <1>2, <1>3 DEF QueueInv, SafeWrite

\* and one of two.
LEMMA DisksOfTwo ==
    ASSUME NEW fat, NEW d, NEW w \in Writes, NEW w2 \in Writes, QueueInv(fat, d, <<w>> \o <<w2>>)
    PROVE  /\ DiskInv(fat, d) /\ DiskInv(fat, Written(d, w, MaxEntries))
           /\ DiskInv(fat, Written(Written(d, w, MaxEntries), w2, MaxEntries))
<1> DEFINE q == <<w>> \o <<w2>>
<1>1. /\ q \in Seq(Writes) /\ Len(q) = 2 /\ q[1] = w /\ q[2] = w2
      /\ DiskAfter(d, q, 0) = d /\ DiskAfter(d, q, 1) = Written(d, w, MaxEntries)
  BY PairOfWrites
<1>2. QueueInv(fat, d, q)
  OBVIOUS
<1> HIDE DEF q
<1>3. 1 \in 1 .. 2 /\ 2 \in 1 .. 2 /\ 1 - 1 = 0 /\ 2 - 1 = 1
  OBVIOUS
<1>4. SafeWrite(fat, d, w)
  BY <1>1, <1>2, <1>3 DEF QueueInv
<1>5. SafeWrite(fat, Written(d, w, MaxEntries), w2)
  BY <1>1, <1>2, <1>3 DEF QueueInv
<1>6. MaxEntries \in Cuts
  BY Sizes DEF Cuts
<1> QED
  BY <1>2, <1>4, <1>5, <1>6 DEF QueueInv, SafeWrite
-----------------------------------------------------------------------------
(* What the writes of each operation do to the tree.                       *)

\* The queue an operation leaves is in order.
LEMMA QueueLeft ==
    ASSUME IInv', UNCHANGED disk
    PROVE  QueueInv(vol'.fat, disk, pending')
<1>1. DiskInv(vol'.fat, disk') /\ pending' \in Seq(Writes) /\ Len(pending') <= 2
      /\ \A k \in 1 .. Len(pending') : SafeWrite(vol'.fat, DiskAfter(disk', pending', k - 1), pending'[k])
  BY DEF IInv, PendingInv
<1>2. disk' = disk
  OBVIOUS
<1> QED
  BY <1>1, <1>2 DEF QueueInv

\* A slot that is written once,
LEMMA OneSlotSteps ==
    ASSUME NEW fat, NEW d, NEW b \in Blocks, IsDirectory(d, b), NEW i \in Slots \ {0, 1}, NEW e \in DirEntries,
           NEW q, q = Save(Changed(d, b, i, e)), QueueInv(fat, d, q), NEW here,
           SlotChange(fat, d, b, i, e) => TreeStep(d, Put(d, b, i, e), here)
    PROVE  QueueSteps(d, q, here)
<1>1. d \in [Blocks -> DirTables]
  BY DEF QueueInv, DiskInv, TablesInv
<1> DEFINE w == ChangedWrite(d, b, i, e)
<1>2. q = <<w>> /\ w \in Writes /\ Written(d, w, MaxEntries) = Put(d, b, i, e)
  BY <1>1, SaveSlot
<1> HIDE DEF w
<1>3. DiskInv(fat, d) /\ DiskInv(fat, Written(d, w, MaxEntries))
  BY <1>2, DisksOfOne
<1>4. TreeStep(d, Put(d, b, i, e), here)
  BY <1>2, <1>3 DEF SlotChange
<1>5. WriteSteps(d, w, here)
  BY <1>1, <1>4, SlotSteps DEF w
<1> QED
  BY <1>2, <1>5, OneStep

\* and two that are written one after the other.
LEMMA TwoSlotSteps ==
    ASSUME NEW fat, NEW d, NEW b \in Blocks, IsDirectory(d, b), NEW i \in Slots \ {0, 1}, NEW e \in DirEntries,
           NEW M, M = Put(d, b, i, e), M \in [Blocks -> DirTables],
           NEW c \in Blocks, IsDirectory(M, c), NEW j \in Slots \ {0, 1}, NEW g \in DirEntries,
           NEW q, q = SaveBoth(Changed(d, b, i, e), Changed(M, c, j, g)), QueueInv(fat, d, q), NEW here,
           SlotChange(fat, d, b, i, e) => TreeStep(d, M, here),
           SlotChange(fat, M, c, j, g) => TreeStep(M, Put(M, c, j, g), here)
    PROVE  QueueSteps(d, q, here)
<1>1. d \in [Blocks -> DirTables]
  BY DEF QueueInv, DiskInv, TablesInv
<1> DEFINE w == ChangedWrite(d, b, i, e)
           v == ChangedWrite(M, c, j, g)
<1>2. Save(Changed(d, b, i, e)) = <<w>> /\ w \in Writes /\ Written(d, w, MaxEntries) = M
  BY <1>1, SaveSlot
<1>3. Save(Changed(M, c, j, g)) = <<v>> /\ v \in Writes /\ Written(M, v, MaxEntries) = Put(M, c, j, g)
  BY SaveSlot
<1> HIDE DEF w, v
<1>4. q = <<w>> \o <<v>>
  BY <1>2, <1>3 DEF SaveBoth
<1>5. /\ DiskInv(fat, d) /\ DiskInv(fat, Written(d, w, MaxEntries))
      /\ DiskInv(fat, Written(Written(d, w, MaxEntries), v, MaxEntries))
  BY <1>2, <1>3, <1>4, DisksOfTwo
<1>6. TreeStep(d, M, here) /\ TreeStep(M, Put(M, c, j, g), here)
  BY <1>2, <1>3, <1>5 DEF SlotChange
<1>7. WriteSteps(d, w, here)
  BY <1>1, <1>6, SlotSteps DEF w
<1>8. WriteSteps(M, v, here)
  BY <1>6, SlotSteps DEF v
<1> QED
  BY <1>2, <1>3, <1>4, <1>7, <1>8, TwoSteps

\* A name that is not found is not there.
LEMMA Unused ==
    ASSUME NEW p, NEW r, r = parsePath(p), r.index = -1
    PROVE  \A i \in Slots : r.table[i].name # r.name
<1>1. p.names # <<>>
  <2>1. p.names = <<>> => r.index = -2
    BY DEF parsePath
  <2> QED
    BY <2>1
<1>2. \E table : r.table = table /\ r.index = findInDirectory(table, Last(p.names)) /\ r.name = Last(p.names)
  BY <1>1 DEF parsePath
<1>3. r.index = findInDirectory(r.table, r.name)
  BY <1>2
<1> QED
  BY <1>3, Search, Sizes

\* The first write of a new file adds it, the second one keeps its name.
LEMMA NewFileAdds ==
    ASSUME NEW fat, NEW d, NEW b, NEW i, NEW e, SlotChange(fat, d, b, i, e), NEW here,
           e.inUse, e.name \notin DotNames, ~e.isDir, ~d[b][i].inUse, \A j \in Slots : d[b][j].name # e.name
    PROVE  TreeStep(d, Put(d, b, i, e), here)
  BY SlotAdds DEF Names, DotNames

\* What an operation has found, for the lemmas above.
LEMMA NewFileFound ==
    ASSUME SafeUse, IInv, NEW p \in Paths, NEW r, r = parsePath(p), Reaches(r), NewFile(r)
    PROVE  Ready /\ \E b \in Blocks :
             /\ Found(r, b) /\ r.table = disk[b] /\ IsDirectory(disk, b)
             /\ NewSlot(b) \in Slots \ {0, 1} /\ ~disk[b][NewSlot(b)].inUse
             /\ r.name \notin DotNames /\ \A j \in Slots : disk[b][j].name # r.name
<1>1. r.index = -1 /\ r.index # -2 /\ FreeSlot(r.table) # -1
  BY DEF NewFile
<1>2. Ready /\ \E b \in Blocks : Found(r, b)
  BY <1>1, Target
<1>3. PICK b \in Blocks : Found(r, b)
  BY <1>2
<1>4. r.table = disk[b] /\ IsDirectory(disk, b)
  BY <1>3 DEF Found, Opened
<1>5. NewSlot(b) \in Slots \ {0, 1} /\ ~disk[b][NewSlot(b)].inUse
  BY <1>1, <1>4, FreeSlotBehindDots DEF NewSlot
<1>6. r.name \notin DotNames
  <2>1. r.index \notin Slots
    BY <1>1, Sizes
  <2> QED
    BY <1>3, <2>1 DEF Found
<1>7. \A j \in Slots : disk[b][j].name # r.name
  BY <1>1, <1>4, Unused
<1> QED
  BY <1>2, <1>3, <1>4, <1>5, <1>6, <1>7

\* A table keeps its place.
LEMMA PlaceKept ==
    ASSUME NEW d \in [Blocks -> DirTables], NEW b \in Blocks, IsDirectory(d, b), NEW i \in Slots \ {0, 1}, NEW e
    PROVE  Changed(d, b, i, e)[0].start = b
<1>1. Changed(d, b, i, e)[0] = d[b][0]
  BY Sizes DEF Changed, DirTables
<1> QED
  BY <1>1 DEF IsDirectory, DirEntry

\* touch.
LEMMA CreateSteps ==
    ASSUME SafeUse, IInv, IInv', NEW p \in Paths, Create(p), NEW here
    PROVE  QueueSteps(disk, pending', here) /\ cwd'[0].start = cwd[0].start
<1> DEFINE r == parsePath(p)
<1>1. /\ r = parsePath(p) /\ Reaches(r) /\ NewFile(r)
      /\ pending' = Save(WithNewFile(r, 0)) /\ UNCHANGED disk
      /\ cwd' = IF r.ref = "cwd" THEN WithNewFile(r, 0) ELSE cwd
  BY DEF Create, NewFile, Remember
<1> HIDE DEF r
<1>2. PICK b \in Blocks :
        /\ Found(r, b) /\ r.table = disk[b] /\ IsDirectory(disk, b)
        /\ NewSlot(b) \in Slots \ {0, 1} /\ ~disk[b][NewSlot(b)].inUse
        /\ r.name \notin DotNames /\ \A j \in Slots : disk[b][j].name # r.name
  BY <1>1, NewFileFound
<1>3. Ready
  BY <1>1, NewFileFound
<1> DEFINE i == NewSlot(b)
           e == NewEntry(r, 0)
<1>4. i \in Slots \ {0, 1} /\ e \in DirEntries /\ WithNewFile(r, 0) = Changed(disk, b, i, e)
  BY <1>1, <1>2, <1>3, NewFileHolds
<1>5. e.inUse /\ e.name = r.name /\ ~e.isDir
  BY DEF NewEntry, FileEntry
<1> HIDE DEF i, e
<1>6. QueueInv(vol'.fat, disk, pending')
  BY <1>1, QueueLeft
<1>7. ASSUME NEW fat, SlotChange(fat, disk, b, i, e) PROVE TreeStep(disk, Put(disk, b, i, e), here)
  BY <1>2, <1>5, <1>7, NewFileAdds DEF i
<1>8. pending' = Save(Changed(disk, b, i, e))
  BY <1>1, <1>4
<1> DEFINE q == pending'
           fat == vol'.fat
<1>9. q = Save(Changed(disk, b, i, e)) /\ QueueInv(fat, disk, q)
  BY <1>6, <1>8
<1> HIDE DEF q, fat
<1>10. QueueSteps(disk, q, here)
  BY <1>2, <1>4, <1>7, <1>9, OneSlotSteps
<1>11. cwd'[0].start = cwd[0].start
  <2>1. disk \in [Blocks -> DirTables] /\ (r.ref = "cwd" => b = cwd[0].start)
    BY <1>2, <1>3 DEF Ready, DiskInv, TablesInv, Found, Opened
  <2> QED
    BY <1>1, <1>2, <1>4, <2>1, PlaceKept
<1> QED
  BY <1>10, <1>11 DEF q

\* The disk after the first of two writes of a slot.
LEMMA PutAgain ==
    ASSUME NEW d \in [Blocks -> DirTables], NEW b \in Blocks, IsDirectory(d, b),
           NEW i \in Slots \ {0, 1}, NEW e \in DirEntries, NEW g \in DirEntries, NEW M, M = Put(d, b, i, e)
    PROVE  /\ M \in [Blocks -> DirTables] /\ M[b][i] = e /\ IsDirectory(M, b)
           /\ Changed(M, b, i, g) = Changed(d, b, i, g)
<1>1. i \in Slots
  OBVIOUS
<1>2. /\ M \in [Blocks -> DirTables]
      /\ \A c \in Blocks, j \in Slots : M[c][j] = IF c = b /\ j = i THEN e ELSE d[c][j]
  <2>1. /\ Put(d, b, i, e) \in [Blocks -> DirTables]
        /\ \A c \in Blocks, j \in Slots :
             Put(d, b, i, e)[c][j] = IF c = b /\ j = i THEN e ELSE d[c][j]
    BY <1>1 DEF Put, DirTables
  <2> QED
    BY <2>1
<1>3. IsDirectory(M, b)
  BY PutDirectory
<1>4. Changed(M, b, i, g) = Changed(d, b, i, g)
  <2>1. Changed(Put(d, b, i, e), b, i, g) = Changed(d, b, i, g)
    BY <1>1, PutTwice
  <2> QED
    BY <2>1
<1> QED
  BY <1>1, <1>2, <1>3, <1>4

\* cp2fs to a new name: with the size the entry keeps its name.
LEMMA StoreNewSteps ==
    ASSUME SafeUse, IInv, IInv', NEW p \in Paths, StoreNew(p), NEW here
    PROVE  QueueSteps(disk, pending', here) /\ cwd'[0].start = cwd[0].start
<1> DEFINE r == parsePath(p)
<1>1. /\ r = parsePath(p) /\ Reaches(r) /\ NewFile(r)
      /\ pending' = SaveBoth(WithNewFile(r, 0), WithNewFile(r, 1)) /\ UNCHANGED disk
      /\ cwd' = IF r.ref = "cwd" THEN WithNewFile(r, 1) ELSE cwd
  <2>1. /\ r = parsePath(p) /\ Reaches(r) /\ NewFile(r)
        /\ CopyInto(r, WithNewFile(r, 0), WithNewFile(r, 1), allocateBlocks(vol, 1).start)
    BY DEF StoreNew
  <2> HIDE DEF r
  <2>2. r.ref # "copy"
    BY <2>1 DEF CopyInto, SafeUse
  <2>3. UNCHANGED disk
    BY <2>1 DEF NewFile
  <2> QED
    BY <2>1, <2>2, <2>3 DEF CopyInto, SaveSize, SaveBoth, Remember
<1> HIDE DEF r
<1>2. PICK b \in Blocks :
        /\ Found(r, b) /\ r.table = disk[b] /\ IsDirectory(disk, b)
        /\ NewSlot(b) \in Slots \ {0, 1} /\ ~disk[b][NewSlot(b)].inUse
        /\ r.name \notin DotNames /\ \A j \in Slots : disk[b][j].name # r.name
  BY <1>1, NewFileFound
<1>3. Ready /\ disk \in [Blocks -> DirTables]
  BY <1>1, NewFileFound DEF Ready, DiskInv, TablesInv
<1> DEFINE i == NewSlot(b)
           e == NewEntry(r, 0)
           g == NewEntry(r, 1)
           M == Put(disk, b, i, e)
<1>4. i \in Slots \ {0, 1} /\ e \in DirEntries /\ WithNewFile(r, 0) = Changed(disk, b, i, e)
  BY <1>1, <1>2, <1>3, NewFileHolds
<1>5. g \in DirEntries /\ WithNewFile(r, 1) = Changed(disk, b, i, g)
  BY <1>1, <1>2, <1>3, NewFileHolds
<1>6. e.inUse /\ e.name = r.name /\ ~e.isDir /\ g.inUse /\ Kid(b, g) = Kid(b, e)
  BY DEF NewEntry, FileEntry, Kid
<1>6a. g.name = r.name
  BY DEF NewEntry, FileEntry
<1> HIDE DEF i, e, g
<1>7. /\ M \in [Blocks -> DirTables] /\ M[b][i] = e /\ IsDirectory(M, b)
      /\ Changed(M, b, i, g) = Changed(disk, b, i, g)
  BY <1>2, <1>3, <1>4, <1>5, PutAgain
<1>8. M = Put(disk, b, i, e)
  OBVIOUS
<1> HIDE DEF M
<1>9. ASSUME NEW fat, SlotChange(fat, disk, b, i, e) PROVE TreeStep(disk, M, here)
  BY <1>2, <1>6, <1>8, <1>9, NewFileAdds DEF i
<1>10. ASSUME NEW fat, SlotChange(fat, M, b, i, g) PROVE TreeStep(M, Put(M, b, i, g), here)
  <2>1. Names(g) /\ Names(M[b][i]) /\ Kid(b, g) = Kid(b, M[b][i])
    BY <1>2, <1>6, <1>6a, <1>7 DEF Names, DotNames
  <2> QED
    BY <1>10, <2>1, SlotKeeps
<1> DEFINE q == pending'
           fat == vol'.fat
<1>11. q = SaveBoth(Changed(disk, b, i, e), Changed(M, b, i, g)) /\ QueueInv(fat, disk, q)
  BY <1>1, <1>4, <1>5, <1>7, QueueLeft
<1> HIDE DEF q, fat
<1>12. QueueSteps(disk, q, here)
  BY <1>2, <1>4, <1>5, <1>7, <1>8, <1>9, <1>10, <1>11, TwoSlotSteps
<1>13. cwd'[0].start = cwd[0].start
  <2>1. r.ref = "cwd" => b = cwd[0].start
    BY <1>2 DEF Found, Opened
  <2> QED
    BY <1>1, <1>2, <1>3, <1>4, <1>5, <2>1, PlaceKept
<1> QED
  BY <1>12, <1>13 DEF q

\* cp2fs over a file: neither write changes a name.
LEMMA StoreSteps ==
    ASSUME SafeUse, IInv, IInv', NEW p \in Paths, Store(p), NEW here
    PROVE  QueueSteps(disk, pending', here) /\ cwd'[0].start = cwd[0].start
<1> DEFINE r == parsePath(p)
<1>1. /\ r = parsePath(p) /\ Reaches(r) /\ r.index >= 0 /\ ~r.table[r.index].isDir /\ r.index # -2
      /\ pending' = SaveBoth([r.table EXCEPT ![r.index].size = 0], [r.table EXCEPT ![r.index].size = 1])
      /\ UNCHANGED disk
      /\ cwd' = IF r.ref = "cwd" THEN [r.table EXCEPT ![r.index].size = 1] ELSE cwd
  <2>1. /\ r = parsePath(p) /\ Reaches(r) /\ r.index >= 0 /\ ~r.table[r.index].isDir
        /\ CopyInto(r, [r.table EXCEPT ![r.index].size = 0],
                       [r.table EXCEPT ![r.index].size = 1], r.table[r.index].start)
        /\ UNCHANGED <<vol, disk, cwdIsRoot, cwdPath>>
    BY DEF Store
  <2> HIDE DEF r
  <2>2. r.ref # "copy"
    BY <2>1, Zenon DEF CopyInto, SafeUse
  <2>3. r.index # -2
    <3>1. r.index >= 0
      BY <2>1
    <3> QED
      BY <3>1
  <2> QED
    BY <2>1, <2>2, <2>3 DEF CopyInto, SaveSize, SaveBoth, Remember
<1> HIDE DEF r
<1>2. Ready /\ \E b \in Blocks : Found(r, b)
  BY <1>1, Target
<1>3. PICK b \in Blocks : Found(r, b)
  BY <1>2
<1> DEFINE i == r.index
           f == disk[b][i]
           e == SizedEntry(b, i, 0)
           g == SizedEntry(b, i, 1)
           M == Put(disk, b, i, e)
<1>4. /\ r.table = disk[b] /\ i \in Slots /\ f.name \notin NoNames
      /\ IsDirectory(disk, b) /\ ~f.isDir
  BY <1>1, <1>3 DEF Found, Opened
<1>5. i \in Slots \ {0, 1} /\ e \in DirEntries
  BY <1>2, <1>4, SizedEntryHolds
<1>6. g \in DirEntries
  BY <1>2, <1>4, SizedEntryHolds
<1>7. DiskInv(vol.fat, disk) /\ disk \in [Blocks -> DirTables]
  BY <1>2 DEF Ready, DiskInv, TablesInv
<1>8. f \in DirEntries /\ f.inUse /\ f.name \notin DotNames
  BY <1>4, <1>7, NamedSlot
<1>9. /\ e.inUse /\ e.name = f.name /\ Kid(b, e) = Kid(b, f)
      /\ g.inUse /\ g.name = f.name /\ Kid(b, g) = Kid(b, f)
  <2>1. e = [f EXCEPT !.size = 0] /\ g = [f EXCEPT !.size = 1]
    BY DEF SizedEntry
  <2> HIDE DEF f, e, g
  <2>2. /\ e.inUse = f.inUse /\ e.name = f.name /\ e.isDir = f.isDir /\ e.start = f.start
        /\ g.inUse = f.inUse /\ g.name = f.name /\ g.isDir = f.isDir /\ g.start = f.start
    BY <1>8, <2>1 DEF DirEntries
  <2> QED
    BY <1>8, <2>2 DEF Kid
<1>10. [r.table EXCEPT ![r.index].size = 0] = Changed(disk, b, i, e) /\ [r.table EXCEPT ![r.index].size = 1] = Changed(disk, b, i, g)
  BY <1>4 DEF Changed, SizedEntry
<1> HIDE DEF i, e, g
<1>11. /\ M \in [Blocks -> DirTables] /\ M[b][i] = e /\ IsDirectory(M, b)
       /\ Changed(M, b, i, g) = Changed(disk, b, i, g)
  BY <1>4, <1>5, <1>6, <1>7, PutAgain
<1>12. M = Put(disk, b, i, e)
  OBVIOUS
<1> HIDE DEF M
<1>13. Names(f) /\ Names(e) /\ Names(g)
  BY <1>8, <1>9 DEF Names, DotNames
<1>14. ASSUME NEW fat, SlotChange(fat, disk, b, i, e) PROVE TreeStep(disk, M, here)
  BY <1>9, <1>12, <1>13, <1>14, SlotKeeps
<1>15. ASSUME NEW fat, SlotChange(fat, M, b, i, g) PROVE TreeStep(M, Put(M, b, i, g), here)
  <2>1. Names(g) /\ Names(M[b][i]) /\ Kid(b, g) = Kid(b, M[b][i])
    BY <1>9, <1>11, <1>13
  <2> QED
    BY <1>15, <2>1, SlotKeeps
<1> DEFINE q == pending'
           fat == vol'.fat
<1>16. q = SaveBoth(Changed(disk, b, i, e), Changed(M, b, i, g)) /\ QueueInv(fat, disk, q)
  BY <1>1, <1>10, <1>11, QueueLeft
<1> HIDE DEF q, fat, f
<1>17. QueueSteps(disk, q, here)
  BY <1>4, <1>5, <1>6, <1>11, <1>12, <1>14, <1>15, <1>16, TwoSlotSteps
<1>18. cwd'[0].start = cwd[0].start
  <2>1. r.ref = "cwd" => b = cwd[0].start
    BY <1>3 DEF Found, Opened
  <2>2. Changed(disk, b, i, g)[0].start = b
    BY <1>4, <1>5, <1>7, PlaceKept
  <2> QED
    BY <1>1, <1>10, <2>1, <2>2
<1> QED
  BY <1>17, <1>18 DEF q

\* rm of a file, or of an empty directory.
LEMMA RmSteps ==
    ASSUME SafeUse, IInv, IInv', NEW p \in Paths, Rm(p), NEW here
    PROVE  QueueSteps(disk, pending', here) /\ cwd'[0].start = cwd[0].start
<1> DEFINE r == parsePath(p)
           null == [ZeroEntry EXCEPT !.name = "NULL"]
<1>1. /\ ZeroEntry \in DirEntries /\ ~ZeroEntry.inUse
      /\ null \in DirEntries /\ ~null.inUse
  BY ZeroTypes DEF ZeroEntry
<1>2. \/ RemoveEntry(r, ZeroEntry) /\ Removable(r) /\ IsEmpty(disk[r.table[r.index].start])
      \/ RemoveEntry(r, null) /\ ~r.table[r.index].isDir
  BY DEF Rm, Rmdir, Delete
<1> HIDE DEF null
<1>3. PICK left \in DirEntries :
        /\ ~left.inUse /\ RemoveEntry(r, left)
        /\ \/ Removable(r) /\ IsEmpty(disk[r.table[r.index].start])
           \/ ~r.table[r.index].isDir
  BY <1>1, <1>2
<1>4. /\ r = parsePath(p) /\ Reaches(r) /\ r.index >= 0 /\ r.index # -2
      /\ pending' = Save([r.table EXCEPT ![r.index] = left]) /\ UNCHANGED disk
      /\ cwd' = IF r.ref = "cwd" THEN [r.table EXCEPT ![r.index] = left] ELSE cwd
  BY <1>3 DEF RemoveEntry, WriteParent, Remember
<1> HIDE DEF r
<1>5. Ready /\ \E b \in Blocks : Found(r, b)
  BY <1>4, Target
<1>6. PICK b \in Blocks : Found(r, b)
  BY <1>5
<1> DEFINE i == r.index
           f == disk[b][i]
<1>7. /\ i \in Slots /\ r.table = disk[b] /\ IsDirectory(disk, b) /\ DiskInv(vol.fat, disk)
      /\ f.name = r.name /\ f.name \notin NoNames
  BY <1>4, <1>5, <1>6 DEF Found, Opened, Ready
<1>8. /\ f \in DirEntries /\ f.inUse
      /\ f.name = "." => f.start = b
      /\ f.name \notin DotNames => i \notin {0, 1} /\ <<b, i>> \in Named(disk) /\ Entry(disk, <<b, i>>) = f
      /\ f.isDir => f.start \in Blocks /\ IsDirectory(disk, f.start)
      /\ ~f.isDir => f.name \notin DotNames
  BY <1>7, NamedSlot
<1>9. f.name \notin DotNames
  <2>1. CASE Removable(r)
    BY <1>7, <2>1 DEF Removable, SafeUse, DotNames
  <2>2. CASE ~r.table[r.index].isDir
    BY <1>7, <1>8, <2>2
  <2> QED
    BY <1>3, <2>1, <2>2
<1>10. f.isDir => \A j \in Slots : ~Names(disk[f.start][j])
  <2> SUFFICES ASSUME f.isDir, NEW j \in Slots PROVE ~Names(disk[f.start][j])
    OBVIOUS
  <2>1. IsEmpty(disk[f.start])
    BY <1>3, <1>7
  <2>2. disk[f.start][0].name = "." /\ disk[f.start][1].name = ".."
    BY <1>8 DEF IsDirectory, DirEntry
  <2> QED
    BY <2>1, <2>2 DEF IsEmpty, Names
<1>11. i \in Slots \ {0, 1} /\ Names(f) /\ ~Names(left)
  BY <1>3, <1>7, <1>8, <1>9 DEF Names, DotNames
<1>12. [r.table EXCEPT ![r.index] = left] = Changed(disk, b, i, left)
  BY <1>7 DEF Changed
<1> HIDE DEF i
<1>13. ASSUME NEW fat, SlotChange(fat, disk, b, i, left) PROVE TreeStep(disk, Put(disk, b, i, left), here)
  BY <1>10, <1>11, <1>13, SlotRemoves
<1> DEFINE q == pending'
           fat == vol'.fat
<1>14. q = Save(Changed(disk, b, i, left)) /\ QueueInv(fat, disk, q)
  BY <1>4, <1>12, QueueLeft
<1> HIDE DEF q, fat, f
<1>15. QueueSteps(disk, q, here)
  BY <1>7, <1>11, <1>13, <1>14, OneSlotSteps
<1>16. cwd'[0].start = cwd[0].start
  <2>1. disk \in [Blocks -> DirTables] /\ (r.ref = "cwd" => b = cwd[0].start)
    BY <1>6, <1>7 DEF DiskInv, TablesInv, Found, Opened
  <2>2. cwd'[0].start = cwd[0].start
    <3> HIDE DEF q, fat
    <3>1. Changed(disk, b, i, left)[0].start = b
      BY <1>7, <1>11, <2>1, PlaceKept
    <3> QED
      BY <1>4, <1>12, <2>1, <3>1 DEF i
  <2> QED
    BY <2>2
<1> QED
  BY <1>15, <1>16 DEF q

\* The table of a new directory, wherever its write is cut, is one that
\* nothing names.
LEMMA TableSteps ==
    ASSUME IInv, Ready, vol' = allocateBlocks(vol, DirBlocks).vol, DirStart # NoBlock,
           NEW b \in Blocks, IsDirectory(disk, b), NEW here
    PROVE  /\ WriteSteps(disk, TableWrite(b), here)
           /\ TableWrite(b) \in Writes
           /\ \A j \in Slots : ~Names(WithTable(b)[DirStart][j])
<1> DEFINE w == TableWrite(b)
           M == WithTable(b)
<1>1. DirStart \in Blocks /\ disk[DirStart] = ZeroTable
  BY DirectoryBlocks
<1>2. /\ SafeWrite(vol'.fat, disk, w)
      /\ \A x \in Named(M) : x \in Named(disk) /\ Entry(M, x) = Entry(disk, x)
  BY DirectoryWritten
<1>3. DiskInv(vol'.fat, disk)
  <2>1. DirBlocks \in Nat /\ DirBlocks > 0
    BY Sizes
  <2> QED
    BY <2>1, AllocationKeeps
<1>4. disk \in [Blocks -> DirTables] /\ \A j \in Slots : ZeroTable[j].inUse = FALSE
  BY <1>3, ZeroTypes DEF DiskInv, TablesInv
<1>5. w.at = DirStart
  BY DEF TableWrite
<1> HIDE DEF w, M
<1>6. \A c \in DirsOn(disk) : c \in Blocks /\ c # DirStart
  <2>1. \A c \in DirsOn(disk) : c \in Blocks /\ IsDirectory(disk, c)
    BY <1>3, ReachedDirectories DEF AllDirectories
  <2>2. ~IsDirectory(disk, DirStart)
    BY <1>1, <1>4, Sizes DEF IsDirectory, DirEntry
  <2> QED
    BY <2>1, <2>2
<1>7. ASSUME NEW n \in Cuts PROVE TreeStep(disk, Written(disk, w, n), here)
  <2> DEFINE D == Written(disk, w, n)
  <2>1. DiskInv(vol'.fat, D)
    BY <1>2 DEF SafeWrite
  <2>2. \A c \in Blocks : c # DirStart => D[c] = disk[c]
    BY <1>4, <1>5 DEF Written
  <2> HIDE DEF D
  <2>3. \A c \in DirsOn(disk) : Kids(D, c) = Kids(disk, c)
    BY <1>6, <2>2 DEF Kids
  <2>4. DirsOn(D) = DirsOn(disk) /\ TreeOn(D) = TreeOn(disk)
    BY <1>3, <2>1, <2>3, SameTree
  <2> QED
    BY <2>4 DEF TreeStep, D
<1>8. ASSUME NEW j \in Slots, Names(M[DirStart][j]) PROVE FALSE
  <2>1. <<DirStart, j>> \in Named(M)
    BY <1>1, <1>8 DEF Named, Places, Entry
  <2>2. Entry(disk, <<DirStart, j>>).inUse
    BY <1>2, <2>1 DEF Named, Names
  <2> QED
    BY <1>1, <1>4, <2>2 DEF Entry
<1>9. w \in Writes
  BY <1>2 DEF SafeWrite
<1> QED
  BY <1>7, <1>8, <1>9 DEF WriteSteps, w, M

\* mkdir, whether there are blocks and a slot or not.
LEMMA MkdirSteps ==
    ASSUME SafeUse, IInv, IInv', NEW p \in Paths, Mkdir(p), NEW here, here # DirStart
    PROVE  QueueSteps(disk, pending', here) /\ cwd'[0].start = cwd[0].start
<1> DEFINE r == parsePath(p)
           k == FreeSlot(r.table)
           parent == [r.table EXCEPT ![k] = LinkEntry(r)]
           new == newDirectory(DirStart, DirBlocks, r.table[0])
<1>1. /\ r = parsePath(p) /\ Reaches(r) /\ r.index = -1
      /\ vol' = allocateBlocks(vol, DirBlocks).vol
      /\ \/ pending' = pending /\ cwd' = cwd
         \/ DirStart # NoBlock /\ pending' = Save(new) /\ cwd' = cwd
         \/ /\ DirStart # NoBlock /\ k # -1 /\ pending' = Save(new) \o Save(parent)
            /\ cwd' = IF r.ref = "cwd" THEN parent ELSE cwd
      /\ UNCHANGED disk
  BY Zenon DEF Mkdir, LinkDirectory, DirStart, LinkEntry, Remember
<1> HIDE DEF r
<1>2. Ready /\ \E b \in Blocks : Found(r, b)
  <2>1. r.index # -2
    BY <1>1
  <2> QED
    BY <1>1, <2>1, Target
<1>3. PICK b \in Blocks : Found(r, b)
  BY <1>2
<1>4. r.table = disk[b] /\ IsDirectory(disk, b) /\ pending = <<>>
  BY <1>2, <1>3 DEF Found, Opened, Ready
<1>5. CASE pending' = pending /\ cwd' = cwd
  BY <1>4, <1>5, NoSteps
<1> DEFINE w == TableWrite(b)
           M == WithTable(b)
           e == LinkEntry(r)
<1>6. ASSUME DirStart # NoBlock
      PROVE  /\ Save(new) = <<w>> /\ w \in Writes /\ WriteSteps(disk, w, here)
             /\ M = Written(disk, w, MaxEntries) /\ M[b] = disk[b] /\ IsDirectory(M, b)
             /\ M \in [Blocks -> DirTables] /\ DirStart # b
             /\ \A j \in Slots : ~Names(M[DirStart][j])
  <2>1. new = NewTable(b)
    BY <1>4 DEF NewTable
  <2>2. /\ Save(NewTable(b)) = <<w>>
        /\ DiskInv(vol'.fat, M)
        /\ DirStart # b
        /\ \A c \in Blocks : IsDirectory(disk, c) => IsDirectory(M, c) /\ M[c] = disk[c]
    BY <1>1, <1>2, <1>4, <1>6, DirectoryWritten
  <2>3. WriteSteps(disk, w, here) /\ w \in Writes /\ \A j \in Slots : ~Names(M[DirStart][j])
    BY <1>1, <1>2, <1>4, <1>6, TableSteps
  <2>4. M = Written(disk, w, MaxEntries)
    BY DEF WithTable
  <2> HIDE DEF w, M, new
  <2>5. M \in [Blocks -> DirTables]
    BY <2>2 DEF DiskInv, TablesInv
  <2> QED
    BY <1>4, <2>1, <2>2, <2>3, <2>4, <2>5
<1> HIDE DEF w, M, new
<1>7. CASE DirStart # NoBlock /\ pending' = Save(new) /\ cwd' = cwd
  BY <1>6, <1>7, OneStep
<1>8. CASE /\ DirStart # NoBlock /\ k # -1 /\ pending' = Save(new) \o Save(parent)
           /\ cwd' = IF r.ref = "cwd" THEN parent ELSE cwd
  <2>1. k \in Slots \ {0, 1} /\ ~disk[b][k].inUse
    <3>1. k = FreeSlot(disk[b])
      BY <1>4
    <3> QED
      BY <1>4, <1>8, <3>1, FreeSlotBehindDots
  <2>2. e \in DirEntries
    <3>1. /\ LinkEntry(r) \in DirEntries
          /\ DiskInv(vol'.fat, Put(WithTable(b), b, k, LinkEntry(r)))
          /\ ~Crashes => \A x \in Named(Put(WithTable(b), b, k, LinkEntry(r))) :
                Holds(vol'.fat, Entry(Put(WithTable(b), b, k, LinkEntry(r)), x), stored)
      <4> HIDE DEF k
      <4> QED
        BY <1>1, <1>2, <1>3, <1>8, <2>1, DirectoryLinked
    <3> QED
      BY <3>1
  <2>3. e.inUse /\ e.name = r.name /\ e.isDir /\ e.start = DirStart
    BY DEF LinkEntry, DirEntry
  <2>4. parent = Changed(M, b, k, e)
    BY <1>4, <1>6, <1>8 DEF Changed
  <2> HIDE DEF parent, e, k
  <2> DEFINE u == ChangedWrite(M, b, k, e)
  <2>5. Save(parent) = <<u>> /\ u \in Writes /\ Written(M, u, MaxEntries) = Put(M, b, k, e)
    BY <1>6, <1>8, <2>1, <2>2, <2>4, SaveSlot
  <2> HIDE DEF u
  <2>6. pending' = <<w>> \o <<u>>
    BY <1>6, <1>8, <2>5
  <2>7. QueueInv(vol'.fat, disk, <<w>> \o <<u>>)
    BY <1>1, <2>6, QueueLeft
  <2>8. DiskInv(vol'.fat, M) /\ DiskInv(vol'.fat, Put(M, b, k, e))
    <3> DEFINE fat == vol'.fat
    <3>1. QueueInv(fat, disk, <<w>> \o <<u>>)
      BY <2>7
    <3> HIDE DEF fat
    <3>2. /\ DiskInv(fat, disk) /\ DiskInv(fat, Written(disk, w, MaxEntries))
          /\ DiskInv(fat, Written(Written(disk, w, MaxEntries), u, MaxEntries))
      BY <1>6, <1>8, <2>5, <3>1, DisksOfTwo
    <3>3. DiskInv(fat, M) /\ DiskInv(fat, Put(M, b, k, e))
      BY <1>6, <1>8, <2>5, <3>2
    <3> QED
      BY <3>3 DEF fat
  <2>9. TreeStep(M, Put(M, b, k, e), here)
    <3> DEFINE fat == vol'.fat
    <3>1. SlotChange(fat, M, b, k, e)
      BY <2>1, <2>2, <2>8 DEF SlotChange
    <3> HIDE DEF fat
    <3>2. r.name \notin DotNames
      <4>1. r.index \notin Slots
        BY <1>1, Sizes
      <4> QED
        BY <1>3, <4>1 DEF Found
    <3>3. \A j \in Slots : disk[b][j].name # r.name
      BY <1>1, <1>4, Unused
    <3>4. Names(e) /\ ~Names(M[b][k]) /\ \A j \in Slots : Names(M[b][j]) => M[b][j].name # e.name
      BY <1>6, <1>8, <2>1, <2>3, <3>2, <3>3 DEF Names, DotNames
    <3>5. /\ e.start # b /\ e.start # here
          /\ \A j \in Slots : ~Names(M[e.start][j])
      BY <1>6, <1>8, <2>3
    <3> QED
      BY <3>1, <3>4, <3>5, SlotAdds
  <2>10. WriteSteps(M, u, here)
    BY <1>6, <1>8, <2>1, <2>2, <2>9, SlotSteps DEF u
  <2>11. WriteSteps(disk, w, here) /\ w \in Writes /\ u \in Writes /\ WriteSteps(Written(disk, w, MaxEntries), u, here)
    BY <1>6, <1>8, <2>5, <2>10
  <2>12. QueueSteps(disk, <<w>> \o <<u>>, here)
    BY <2>11, TwoSteps
  <2>13. cwd'[0].start = cwd[0].start
    <3>1. r.ref = "cwd" => b = cwd[0].start
      BY <1>3 DEF Found, Opened
    <3>2. parent[0].start = b
      BY <1>6, <1>8, <2>1, <2>4, PlaceKept
    <3> QED
      BY <1>8, <3>1, <3>2
  <2> QED
    BY <2>6, <2>12, <2>13
<1> QED
  BY <1>1, <1>5, <1>7, <1>8

\* Two slots of a directory do not name the same.
LEMMA SlotsApart ==
    ASSUME NEW fat, NEW d, DiskInv(fat, d), NEW b \in Blocks, NEW i \in Slots, NEW j \in Slots, i # j,
           Names(d[b][i]), Names(d[b][j])
    PROVE  Kid(b, d[b][i]) # Kid(b, d[b][j])
<1>1. d[b][i] \in DirEntries /\ d[b][j] \in DirEntries
  BY DEF DiskInv, TablesInv, DirTables
<1>2. <<b, j>> \in Named(d) /\ <<b, i>> \in Named(d) /\ <<b, j>> # <<b, i>>
  BY DEF Named, Places, Entry
<1>3. Entry(d, <<b, j>>) = d[b][j] /\ Entry(d, <<b, i>>) = d[b][i]
  BY DEF Entry
<1>4. d[b][j].start \in Run(d[b][j]) /\ d[b][i].start \in Run(d[b][i])
  BY <1>1, EntryFields
<1>5. d[b][j].start # d[b][i].start
  BY <1>2, <1>3, <1>4 DEF DiskInv, NamedInv
<1> QED
  BY <1>5, KidFields

\* A file gets another slot and another name in its directory.
LEMMA SlotRenames ==
    ASSUME NEW fat, NEW d, DiskInv(fat, d), NEW b \in Blocks,
           NEW j \in Slots, NEW n \in DirEntries, NEW i \in Slots, NEW e \in DirEntries, i # j,
           NEW M, M = Put(d, b, j, n), NEW D, D = Put(M, b, i, e), DiskInv(fat, D),
           ~Names(n), Names(d[b][j]), ~d[b][j].isDir, ~Names(d[b][i]),
           Names(e), e.isDir = d[b][j].isDir, e.start = d[b][j].start,
           \A k \in Slots : d[b][k].name # e.name, NEW here
    PROVE  TreeStep(d, D, here)
<1> DEFINE t == Kid(b, d[b][j])
           u == Kid(b, e)
<1>1. d \in [Blocks -> DirTables]
  BY DEF DiskInv, TablesInv
<1>2. M \in [Blocks -> DirTables] /\ \A k \in Slots : M[b][k] = IF k = j THEN n ELSE d[b][k]
  <2>1. /\ Put(d, b, j, n) \in [Blocks -> DirTables]
        /\ \A k \in Slots : Put(d, b, j, n)[b][k] = IF k = j THEN n ELSE d[b][k]
    BY <1>1 DEF Put, DirTables
  <2> QED
    BY <2>1
<1>3. /\ \A c \in Blocks \ {b} : Kids(D, c) = Kids(d, c)
      /\ \A v : v \in Kids(D, b) <=>
               \/ Names(e) /\ v = Kid(b, e)
               \/ \E k \in Slots \ {i} : Names(M[b][k]) /\ v = Kid(b, M[b][k])
      /\ \A v : v \in Kids(d, b) <=> \E k \in Slots : Names(d[b][k]) /\ v = Kid(b, d[b][k])
  <2>1. /\ \A c \in Blocks \ {b} : Kids(Put(d, b, j, n), c) = Kids(d, c)
        /\ \A v : v \in Kids(Put(d, b, j, n), b) <=>
                 \/ Names(n) /\ v = Kid(b, n)
                 \/ \E k \in Slots \ {j} : Names(d[b][k]) /\ v = Kid(b, d[b][k])
        /\ \A v : v \in Kids(d, b) <=> \E k \in Slots : Names(d[b][k]) /\ v = Kid(b, d[b][k])
    BY <1>1, PutKids
  <2>2. /\ \A c \in Blocks \ {b} : Kids(Put(M, b, i, e), c) = Kids(M, c)
        /\ \A v : v \in Kids(Put(M, b, i, e), b) <=>
                 \/ Names(e) /\ v = Kid(b, e)
                 \/ \E k \in Slots \ {i} : Names(M[b][k]) /\ v = Kid(b, M[b][k])
        /\ \A v : v \in Kids(M, b) <=> \E k \in Slots : Names(M[b][k]) /\ v = Kid(b, M[b][k])
    BY <1>2, PutKids
  <2> QED
    BY <2>1, <2>2
<1>4. \A k \in Slots \ {j} : Names(d[b][k]) => Kid(b, d[b][k]) # t
  BY SlotsApart
<1>5. t \in Kids(d, b) /\ ~t.isDir /\ u.isDir = t.isDir /\ u.start = t.start
  BY <1>3, KidFields
<1>6. \A v \in Kids(d, b) : v.name # u.name
  BY <1>3, KidFields
<1> HIDE DEF t, u
<1>7. \A v : v \in Kids(D, b) <=> (v \in Kids(d, b) /\ v # t) \/ v = u
  <2>1. \A v : v \in Kids(D, b) <=>
          v = u \/ \E k \in Slots \ {i, j} : Names(d[b][k]) /\ v = Kid(b, d[b][k])
    BY <1>2, <1>3 DEF u
  <2>2. \A v : (v \in Kids(d, b) /\ v # t) <=>
          \E k \in Slots \ {i, j} : Names(d[b][k]) /\ v = Kid(b, d[b][k])
    BY <1>3, <1>4 DEF t
  <2> QED
    BY <2>1, <2>2
<1>8. Kids(D, b) = (Kids(d, b) \ {t}) \cup {u}
  BY <1>7
<1>9. DirsOn(d) \subseteq Blocks
  BY ReachedKids
<1>10. CASE b \in DirsOn(d)
  <2>1. /\ TreeOn(D) = (TreeOn(d) \ {t}) \cup {u} /\ NS!Step(TreeOn(d), TreeOn(D))
        /\ DirsOn(D) = DirsOn(d)
    BY <1>3, <1>5, <1>6, <1>8, <1>9, <1>10, RenamedTree
  <2> QED
    BY <1>5, <2>1 DEF TreeStep
<1>11. CASE b \notin DirsOn(d)
  <2>1. \A c \in DirsOn(d) : Kids(D, c) = Kids(d, c)
    BY <1>3, <1>9, <1>11
  <2>2. DirsOn(D) = DirsOn(d) /\ TreeOn(D) = TreeOn(d)
    BY <2>1, SameTree
  <2> QED
    BY <2>2 DEF TreeStep
<1> QED
  BY <1>10, <1>11

\* mv.  Within one directory both writes are of the same table, and the second
\* changes nothing.
LEMMA MoveSteps ==
    ASSUME SafeUse, "move" \in Operations, IInv, IInv', NEW p \in Paths, NEW q \in Paths, Move(p, q), NEW here
    PROVE  QueueSteps(disk, pending', here) /\ cwd'[0].start = cwd[0].start
<1> DEFINE r == parsePath(p)
           s == parsePath(q)
<1>1. /\ ~Crashes /\ Ready
      /\ \E b \in Blocks, c \in Blocks, j \in Slots \ {0, 1}, i \in Slots \ {0, 1} : MoveOf(r, s, b, c, j, i)
      /\ UNCHANGED <<vol, disk, cwdIsRoot, cwdPath, stored>>
  BY MoveFound
<1> HIDE DEF r, s
<1>2. PICK b \in Blocks, c \in Blocks, j \in Slots \ {0, 1}, i \in Slots \ {0, 1} : MoveOf(r, s, b, c, j, i)
  BY <1>1
<1>3. /\ DiskInv(vol.fat, disk) /\ CachesOn(disk, root, cwd, cwdIsRoot)
      /\ cwdPath \in Seq(PathNames \ DotNames) /\ disk \in [Blocks -> DirTables]
  BY <1>1 DEF Ready, DiskInv, TablesInv
<1>4. \A x \in Named(disk) : Holds(vol.fat, Entry(disk, x), stored)
  <2>1. /\ Tidy(vol) /\ \A a \in RootRun : vol.fat[a] # BLOCK_FREE
        /\ \A x \in Named(disk) : Holds(vol.fat, Entry(disk, x), stored)
        /\ \A a \in stored : a \in Blocks /\ vol.fat[a] # BLOCK_FREE
        /\ cwdIsRoot => cwdPath = <<>>
    BY <1>1, <1>3, BetweenOperations DEF Ready
  <2> QED
    BY <2>1
<1> DEFINE f == disk[b][j]
           n == FreedEntry(f)
           name == s.name
           e == RenamedEntry(f, name)
           M == Freed(disk, b, j)
           D == Moved(disk, b, j, c, i, name)
           t == Changed(disk, b, j, n)
           u == Changed(M, c, i, e)
<1>5. /\ IsDirectory(disk, b) /\ IsDirectory(disk, c) /\ f.name \notin NoNames /\ ~f.isDir
      /\ name \in Texts /\ name \notin NoNames \cup DotNames /\ ~disk[c][i].inUse
      /\ s.table = disk[c] /\ s.index = -1
      /\ pending' = IF b = c THEN SaveBoth(u, u) ELSE SaveBoth(t, u)
  BY <1>2 DEF MoveOf
<1>6. M = Put(disk, b, j, n) /\ D = Put(M, c, i, e)
  BY DEF Freed, Moved
<1>7. \A k \in Slots : disk[c][k].name # name
  BY <1>5, Unused DEF s
<1> HIDE DEF name
<1>8. /\ f \in DirEntries /\ <<b, j>> # <<c, i>>
      /\ DiskInv(vol.fat, M) /\ DiskInv(vol.fat, D)
  <2>1. /\ j \notin {0, 1} /\ disk[b][j] \in DirEntries /\ <<b, j>> # <<c, i>>
        /\ DiskInv(vol.fat, Freed(disk, b, j)) /\ DiskInv(vol.fat, Moved(disk, b, j, c, i, name))
        /\ \A x \in Named(Moved(disk, b, j, c, i, name)) :
             Holds(vol.fat, Entry(Moved(disk, b, j, c, i, name), x), stored)
    BY <1>3, <1>4, <1>5, MovedInv
  <2> QED
    BY <2>1
<1>9. f.inUse /\ f.name \notin DotNames
  <2>1. /\ disk[b][j] \in DirEntries /\ disk[b][j].inUse
        /\ ~disk[b][j].isDir => disk[b][j].name \notin DotNames
    BY <1>3, <1>5, NamedSlot
  <2> QED
    BY <1>5, <2>1
<1> HIDE DEF f, M, D, t, u
<1>10. /\ n \in DirEntries /\ n.inUse = FALSE /\ n.name = "NULL"
       /\ e \in DirEntries /\ e.name = name
       /\ e.inUse = TRUE /\ e.isDir = f.isDir
       /\ e.size = f.size /\ e.start = f.start
  BY <1>5, <1>8, MovedEntries
<1> HIDE DEF n, e
<1>11. Names(e) /\ ~Names(n) /\ Names(disk[b][j]) /\ ~Names(disk[c][i])
  BY <1>5, <1>9, <1>10 DEF Names, DotNames, f
<1>12. ASSUME b = c PROVE QueueSteps(disk, pending', here)
  <2>1. /\ M = Put(disk, b, j, n) /\ D = Put(M, b, i, e) /\ u = Changed(M, b, i, e) /\ i # j
        /\ pending' = SaveBoth(u, u)
    BY <1>5, <1>6, <1>8, <1>12 DEF u
  <2>2. TreeStep(disk, D, here)
    <3> DEFINE fat == vol.fat
    <3>1. DiskInv(fat, disk) /\ DiskInv(fat, D)
      BY <1>3, <1>8
    <3>2. ~disk[b][j].isDir /\ ~Names(disk[b][i]) /\ e.isDir = disk[b][j].isDir /\ e.start = disk[b][j].start
          /\ \A k \in Slots : disk[b][k].name # e.name
      BY <1>5, <1>7, <1>10, <1>11, <1>12 DEF f
    <3> HIDE DEF fat
    <3> QED
      BY <1>10, <1>11, <2>1, <3>1, <3>2, SlotRenames
  <2> DEFINE w == ChangedWrite(M, b, i, e)
  <2>3. /\ w \in Writes /\ Save(u) = <<w>>
        /\ Written(disk, w, MaxEntries) = D /\ Written(D, w, MaxEntries) = D
    <3> DEFINE fat == vol.fat
    <3>1. DiskInv(fat, disk) /\ DiskInv(fat, M) /\ DiskInv(fat, D)
      BY <1>3, <1>8
    <3> HIDE DEF fat
    <3> QED
      BY <1>5, <1>10, <2>1, <3>1, WrittenWithin
  <2> HIDE DEF w
  <2>4. Cuts = {MaxEntries}
    BY <1>1 DEF Cuts
  <2>5. WriteSteps(disk, w, here) /\ WriteSteps(D, w, here)
    BY <2>2, <2>3, <2>4, NoStep DEF WriteSteps
  <2>6. QueueSteps(disk, <<w>> \o <<w>>, here)
    BY <2>3, <2>5, TwoSteps
  <2> QED
    BY <2>1, <2>3, <2>6 DEF SaveBoth
<1>13. ASSUME b # c PROVE QueueSteps(disk, pending', here)
  <2> DEFINE q2 == pending'
             fat == vol'.fat
  <2>1. q2 = SaveBoth(Changed(disk, b, j, n), Changed(M, c, i, e)) /\ QueueInv(fat, disk, q2)
    BY <1>1, <1>5, <1>13, QueueLeft DEF t, u
  <2> HIDE DEF q2, fat
  <2>2. M \in [Blocks -> DirTables]
    BY <1>8 DEF DiskInv, TablesInv
  <2>3. M[c] = disk[c] /\ IsDirectory(M, c)
    <3>1. M[c] = disk[c]
      BY <1>3, <1>6, <1>13 DEF Put
    <3>2. IsDirectory(M, c)
      BY <1>3, <1>5, <1>6, <1>10, PutDirectory
    <3> QED
      BY <3>1, <3>2
  <2>4. ASSUME NEW a, SlotChange(a, disk, b, j, n) PROVE TreeStep(disk, M, here)
    <3>1. ~disk[b][j].isDir
      BY <1>5 DEF f
    <3>2. TreeStep(disk, Put(disk, b, j, n), here)
      BY <1>11, <2>4, <3>1, SlotRemoves
    <3> QED
      BY <1>6, <3>2
  <2>5. ASSUME NEW a, SlotChange(a, M, c, i, e) PROVE TreeStep(M, Put(M, c, i, e), here)
    <3>1. ~Names(M[c][i]) /\ ~e.isDir /\ \A k \in Slots : M[c][k].name # e.name
      BY <1>5, <1>7, <1>10, <1>11, <2>3
    <3> QED
      BY <1>11, <2>5, <3>1, SlotAdds
  <2>6. QueueSteps(disk, q2, here)
    BY <1>5, <1>6, <1>10, <2>1, <2>2, <2>3, <2>4, <2>5, TwoSlotSteps
  <2> QED
    BY <2>6 DEF q2
<1>14. cwd'[0].start = cwd[0].start
  <2>1. /\ cwd' = Kept(r, s, "cwd", t, u, cwd)
        /\ r.ref = "cwd" => b = cwd[0].start
        /\ s.ref = "cwd" => c = cwd[0].start
    BY <1>2 DEF MoveOf, t, u, n, e, M, f, name
  <2>2. (cwd' = t /\ b = cwd[0].start) \/ (cwd' = u /\ c = cwd[0].start) \/ cwd' = cwd
    BY <2>1 DEF Kept
  <2>3. t[0].start = b
    BY <1>3, <1>5, PlaceKept DEF t
  <2>4. M \in [Blocks -> DirTables] /\ IsDirectory(M, c)
    <3>1. IsDirectory(M, c)
      BY <1>3, <1>5, <1>6, <1>10, PutDirectory
    <3> QED
      BY <1>8, <3>1 DEF DiskInv, TablesInv
  <2>5. u[0].start = c
    BY <2>4, PlaceKept DEF u
  <2> QED
    BY <2>2, <2>3, <2>5
<1>15. QueueSteps(disk, pending', here)
  BY <1>12, <1>13
<1> QED
  BY <1>14, <1>15
-----------------------------------------------------------------------------
(* Where the names of the current path lead.                               *)

\* Walk, one name after the other.
WalksBy(t, names, at) ==
    /\ at[0] = {rootStart} /\ Walk(t, names) = at[Len(names)]
    /\ \A k \in 0 .. Len(names) - 1 : at[k + 1] = Through(t, at[k], names[k + 1])

\* It is well defined.
LEMMA WalkOn ==
    ASSUME NEW t, NEW N, NEW names \in Seq(N)
    PROVE  \E at : WalksBy(t, names, at)
<1> DEFINE n == Len(names)
           X == {rootStart} \cup {e.start : e \in t}
           S == SUBSET X
           base == {rootStart}
           F(w) == [k \in 0 .. n |-> IF k = 0 THEN {rootStart} ELSE Through(t, w[k - 1], names[k])]
           at == CHOOSE w : w = F(w)
           step == [k \in 1 .. n |-> [s \in S |-> Through(t, s, names[k])]]
<1>1. n \in Nat
  OBVIOUS
<1>2. base \in S /\ step \in [1 .. n -> [S -> S]]
  <2>1. ASSUME NEW k \in 1 .. n, NEW s \in S PROVE Through(t, s, names[k]) \in S
    BY DEF Through
  <2>2. base \in S
    OBVIOUS
  <2> QED
    BY <2>1, <2>2
<1>3. PICK v \in [0 .. n -> S] : v[0] = base /\ \A k \in 1 .. n : v[k] = step[k][v[k - 1]]
  <2>1. n \in Nat /\ base \in S /\ step \in [1 .. n -> [S -> S]]
    BY <1>1, <1>2
  <2> HIDE DEF n, step, S, base
  <2>2. \E v \in [0 .. n -> S] : v[0] = base /\ \A k \in 1 .. n : v[k] = step[k][v[k - 1]]
    BY <2>1, Iteration
  <2> QED
    BY <2>2
<1>4. v = F(v)
  <2>1. \A k \in 1 .. n : v[k - 1] \in S
    OBVIOUS
  <2>2. \A k \in 1 .. n : v[k] = Through(t, v[k - 1], names[k])
    BY <1>3, <2>1
  <2> HIDE DEF n, step, S
  <2>3. ASSUME NEW k \in 0 .. n
        PROVE  v[k] = IF k = 0 THEN {rootStart} ELSE Through(t, v[k - 1], names[k])
    <3>1. k # 0 => k \in 1 .. n
      BY <1>1
    <3> QED
      BY <1>3, <2>2, <3>1
  <2>4. v = [k \in 0 .. n |-> v[k]]
    OBVIOUS
  <2> QED
    BY <2>3, <2>4, Zenon
<1>5. at = F(at)
  <2> HIDE DEF F
  <2> QED
    BY <1>4
<1>6. at[0] = {rootStart} /\ \A k \in 0 .. n - 1 : at[k + 1] = Through(t, at[k], names[k + 1])
  <2> HIDE DEF n, at
  <2>1. at[0] = {rootStart}
    BY <1>1, <1>5
  <2>2. ASSUME NEW k \in 0 .. n - 1 PROVE at[k + 1] = Through(t, at[k], names[k + 1])
    <3>1. k + 1 \in 0 .. n /\ k + 1 # 0 /\ (k + 1) - 1 = k
      BY <1>1
    <3>2. at[k + 1] = IF k + 1 = 0 THEN {rootStart} ELSE Through(t, at[(k + 1) - 1], names[k + 1])
      BY <1>5, <3>1
    <3> QED
      BY <3>1, <3>2
  <2> QED
    BY <2>1, <2>2
<1>7. Walk(t, names) = at[n]
  BY DEF Walk
<1> HIDE DEF at
<1> QED
  BY <1>6, <1>7 DEF WalksBy

\* Without names it ends where it starts.
LEMMA WalkNowhere ==
    ASSUME NEW t
    PROVE  Walk(t, <<>>) = {rootStart}
<1>1. <<>> \in Seq({}) /\ Len(<<>>) = 0
  OBVIOUS
<1>2. PICK at : WalksBy(t, <<>>, at)
  BY <1>1, WalkOn
<1> QED
  BY <1>1, <1>2 DEF WalksBy

\* Where a name is used once it leads to one directory.
LEMMA WalkAlone ==
    ASSUME NEW t, UniqueNames(t), NEW N, NEW names \in Seq(N), NEW x \in Walk(t, names)
    PROVE  Walk(t, names) = {x}
<1> DEFINE n == Len(names)
<1>1. PICK at : WalksBy(t, names, at)
  BY WalkOn
<1>2. n \in Nat /\ at[0] = {rootStart} /\ Walk(t, names) = at[n]
      /\ \A k \in 0 .. n - 1 : at[k + 1] = Through(t, at[k], names[k + 1])
  BY <1>1 DEF WalksBy
<1> HIDE DEF n
<1> DEFINE P == {k \in 0 .. n : \A y, z \in at[k] : y = z}
<1>3. 0 \in P
  BY <1>2
<1>4. ASSUME NEW k \in 0 .. n - 1, k \in P PROVE k + 1 \in P
  <2>1. k + 1 \in 0 .. n
    BY <1>2
  <2>2. ASSUME NEW y \in at[k + 1], NEW z \in at[k + 1] PROVE y = z
    <3>1. y \in Through(t, at[k], names[k + 1]) /\ z \in Through(t, at[k], names[k + 1])
      BY <1>2, <2>2
    <3>2. PICK e \in t : e.dir \in at[k] /\ e.name = names[k + 1] /\ y = e.start
      BY <3>1 DEF Through
    <3>3. PICK f \in t : f.dir \in at[k] /\ f.name = names[k + 1] /\ z = f.start
      BY <3>1 DEF Through
    <3>4. e.dir = f.dir
      BY <1>4, <3>2, <3>3
    <3> QED
      BY <3>2, <3>3, <3>4 DEF UniqueNames
  <2> QED
    BY <2>1, <2>2
<1>5. n \in P
  <2> HIDE DEF P
  <2>1. 0 .. n \subseteq P
    BY <1>2, <1>3, <1>4, BoundedInduction
  <2> QED
    BY <1>2, <2>1
<1> QED
  BY <1>2, <1>5

\* It leads where it did as long as the directories on the way keep their names.
LEMMA WalkKept ==
    ASSUME NEW t, NEW u, NEW dirs, NEW N, NEW names \in Seq(N),
           \A e \in t : e.isDir /\ e.start \in dirs => e \in u,
           \A e \in u : e.dir \in dirs,
           NEW x \in Walk(t, names), x \in dirs
    PROVE  x \in Walk(u, names)
<1> DEFINE n == Len(names)
<1>1. PICK at : WalksBy(t, names, at)
  BY WalkOn
<1>2. PICK bt : WalksBy(u, names, bt)
  BY WalkOn
<1>3. n \in Nat /\ at[0] = {rootStart} /\ Walk(t, names) = at[n]
      /\ \A k \in 0 .. n - 1 : at[k + 1] = Through(t, at[k], names[k + 1])
  BY <1>1 DEF WalksBy
<1>4. bt[0] = {rootStart} /\ Walk(u, names) = bt[n]
      /\ \A k \in 0 .. n - 1 : bt[k + 1] = Through(u, bt[k], names[k + 1])
  BY <1>2 DEF WalksBy
<1> HIDE DEF n
<1> DEFINE P == {k \in 0 .. n : \A y \in at[k] : y \in dirs => y \in bt[k]}
<1>5. 0 \in P
  BY <1>3, <1>4
<1>6. ASSUME NEW k \in 0 .. n - 1, k \in P PROVE k + 1 \in P
  <2>1. k + 1 \in 0 .. n
    BY <1>3
  <2>2. ASSUME NEW y \in at[k + 1], y \in dirs PROVE y \in bt[k + 1]
    <3>1. y \in Through(t, at[k], names[k + 1])
      BY <1>3, <2>2
    <3>2. PICK e \in t : e.dir \in at[k] /\ e.name = names[k + 1] /\ e.isDir /\ y = e.start
      BY <3>1 DEF Through
    <3>3. e \in u /\ e.dir \in bt[k]
      BY <1>6, <2>2, <3>2
    <3>4. y \in Through(u, bt[k], names[k + 1])
      BY <3>2, <3>3 DEF Through
    <3> QED
      BY <1>4, <3>4
  <2> QED
    BY <2>1, <2>2
<1>7. n \in P
  <2> HIDE DEF P
  <2>1. 0 .. n \subseteq P
    BY <1>3, <1>5, <1>6, BoundedInduction
  <2> QED
    BY <1>3, <2>1
<1> QED
  BY <1>3, <1>4, <1>7

\* A change of the name space makes no name double.
LEMMA NamesKept ==
    ASSUME NEW s, NEW t, UniqueNames(s), t = s \/ NS!Step(s, t)
    PROVE  UniqueNames(t)
<1>1. CASE t = s
  BY <1>1
<1>2. ASSUME NEW e, NS!Added(s, e, t) PROVE UniqueNames(t)
  <2>1. t = s \cup {e} /\ \A f \in s : f.dir = e.dir => f.name # e.name
    BY <1>2 DEF NS!Added, NS!Fresh, NS!Used
  <2> QED
    BY <2>1 DEF UniqueNames
<1>3. ASSUME NEW e, NS!Removed(s, e, t) PROVE UniqueNames(t)
  BY <1>3 DEF NS!Removed, UniqueNames
<1>4. ASSUME NEW e, NEW f, NS!Renamed(s, e, f, t) PROVE UniqueNames(t)
  <2>1. t = (s \ {e}) \cup {f} /\ \A g \in s : g.dir = f.dir => g.name # f.name
    BY <1>4 DEF NS!Renamed, NS!Fresh, NS!Used
  <2> QED
    BY <2>1 DEF UniqueNames
<1> QED
  BY <1>1, <1>2, <1>3, <1>4 DEF NS!Step

\* What a step of the tree keeps.
LEMMA TreeKept ==
    ASSUME NEW d, NEW D, NEW here, TreeStep(d, D, here), NEW N, NEW names \in Seq(N),
           UniqueNames(TreeOn(d)), here \in DirsOn(d) => Walk(TreeOn(d), names) = {here}
    PROVE  /\ TreeOn(D) = TreeOn(d) \/ NS!Step(TreeOn(d), TreeOn(D))
           /\ UniqueNames(TreeOn(D)) /\ (here \in DirsOn(D) => Walk(TreeOn(D), names) = {here})
<1>1. /\ TreeOn(D) = TreeOn(d) \/ NS!Step(TreeOn(d), TreeOn(D))
      /\ \A e \in TreeOn(d) : e.isDir /\ e.start \in DirsOn(D) => e \in TreeOn(D)
      /\ here \in DirsOn(D) => here \in DirsOn(d)
  BY DEF TreeStep
<1>2. UniqueNames(TreeOn(D))
  BY <1>1, NamesKept
<1>3. \A e \in TreeOn(D) : e.dir \in DirsOn(D)
  BY TreeIs
<1>4. ASSUME here \in DirsOn(D) PROVE Walk(TreeOn(D), names) = {here}
  <2>1. here \in Walk(TreeOn(d), names)
    BY <1>1, <1>4
  <2>2. here \in Walk(TreeOn(D), names)
    BY <1>1, <1>3, <1>4, <2>1, WalkKept
  <2> QED
    BY <1>2, <2>2, WalkAlone
<1> QED
  BY <1>1, <1>2, <1>4

\* What a directory that is reached lists under a path name.
LEMMA EntryReached ==
    ASSUME Ready, NEW b \in DirsOn(disk), NEW i \in Slots,
           disk[b][i].name \notin NoNames \cup DotNames
    PROVE  /\ Kid(b, disk[b][i]) \in TreeOn(disk)
           /\ disk[b][i].isDir => disk[b][i].start \in DirsOn(disk) /\ IsDirectory(disk, disk[b][i].start)
<1>1. DiskInv(vol.fat, disk)
  BY DEF Ready
<1>2. b \in Blocks /\ IsDirectory(disk, b)
  BY <1>1, ReachedDirectories
<1>3. /\ disk[b][i].inUse
      /\ disk[b][i].isDir => disk[b][i].start \in Blocks /\ IsDirectory(disk, disk[b][i].start)
  BY <1>1, <1>2, NamedSlot
<1>4. disk[b][i] \in Listed(disk[b])
  BY <1>3 DEF Listed, DotNames
<1>5. Kid(b, disk[b][i]) \in Kids(disk, b)
  BY <1>4 DEF Kids
<1>6. Kid(b, disk[b][i]) \in TreeOn(disk)
  BY <1>5, TreeIs
<1>7. disk[b][i].isDir => disk[b][i].start \in DirsOn(disk)
  BY <1>1, <1>5, KidFields, ReachedKids
<1> QED
  BY <1>3, <1>6, <1>7

\* parsePath of an absolute path goes where Walk goes.
LEMMA ParsedWalk ==
    ASSUME Ready, NEW p, Walkable(p), p.abs, p.names \in Seq(PathNames \ DotNames), p.names # <<>>,
           NEW r, r = parsePath(p), r.code = 0, r.index # -1, r.table[r.index].isDir
    PROVE  r.table[r.index].start \in Walk(TreeOn(disk), p.names)
<1> DEFINE n == Len(p.names) - 1
           tree1 == TreeOn(disk)
<1>1. PICK at : ParsesBy(p, r, at)
  BY ParsedBy
<1>2. /\ n \in Nat /\ Last(p.names) \in PathNames
      /\ at[0] = FirstTable(p) /\ \A k \in 0 .. n - 1 : at[k + 1] = EnterTable(at[k], p.names[k + 1])
      /\ \A k \in 0 .. n : at[k] \in Stops
      /\ r.code = at[n].code /\ r.table = at[n].table
      /\ r.index = findInDirectory(at[n].table, Last(p.names)) /\ r.name = Last(p.names)
  BY <1>1 DEF ParsesBy
<1>3. PICK wt : WalksBy(tree1, p.names, wt)
  BY WalkOn
<1>4. Len(p.names) = n + 1 /\ Last(p.names) = p.names[n + 1]
      /\ \A k \in 0 .. n : p.names[k + 1] \notin NoNames \cup DotNames
  <2>1. Len(p.names) \in Nat /\ Len(p.names) = n + 1
    OBVIOUS
  <2>2. ASSUME NEW k \in 0 .. n PROVE p.names[k + 1] \notin NoNames \cup DotNames
    <3>1. k + 1 \in 1 .. Len(p.names)
      BY <1>2
    <3>2. p.names[k + 1] \in PathNames \ DotNames
      BY <3>1
    <3> QED
      BY <3>2 DEF Walkable
  <2> QED
    BY <2>1, <2>2 DEF Last
<1>5. /\ wt[0] = {rootStart} /\ Walk(tree1, p.names) = wt[n + 1]
      /\ \A k \in 0 .. n : wt[k + 1] = Through(tree1, wt[k], p.names[k + 1])
  BY <1>2, <1>3, <1>4 DEF WalksBy
<1> HIDE DEF n, tree1
<1> DEFINE Here(k) == \E b \in DirsOn(disk) : at[k].table = disk[b] /\ b \in wt[k]
           P == {k \in 0 .. n : at[k].code = 0 => Here(k)}
<1>6. ASSUME NEW k \in 0 .. n, NEW b \in DirsOn(disk), b \in wt[k], NEW table, table = disk[b], NEW i \in Slots,
             table[i].name = p.names[k + 1], table[i].isDir
      PROVE  table[i].start \in DirsOn(disk) /\ table[i].start \in wt[k + 1]
  <2> DEFINE e == Kid(b, disk[b][i])
  <2>1. e \in tree1 /\ disk[b][i].start \in DirsOn(disk)
    BY <1>4, <1>6, EntryReached DEF tree1
  <2>2. e.dir = b /\ e.name = p.names[k + 1] /\ e.isDir /\ e.start = table[i].start
    BY <1>6, KidFields
  <2> HIDE DEF e
  <2>3. e.start \in Through(tree1, wt[k], p.names[k + 1])
    BY <1>6, <2>1, <2>2 DEF Through
  <2> QED
    BY <1>5, <1>6, <2>1, <2>2, <2>3
<1>7. 0 \in P
  <2>1. at[0].table = root
    BY <1>2 DEF FirstTable
  <2>2. root = disk[rootStart] /\ rootStart \in DirsOn(disk)
    BY ReachedKids DEF Ready, CachesOn
  <2> QED
    BY <1>2, <1>5, <2>1, <2>2
<1>8. ASSUME NEW k \in 0 .. n - 1, k \in P PROVE k + 1 \in P
  <2>1. k + 1 \in 0 .. n /\ k \in 0 .. n
    BY <1>2
  <2> SUFFICES ASSUME at[k + 1].code = 0 PROVE Here(k + 1)
    BY <2>1
  <2> DEFINE j == findInDirectory(at[k].table, p.names[k + 1])
  <2>2. at[k + 1] = EnterTable(at[k], p.names[k + 1])
    BY <1>2
  <2>3. /\ at[k].code = 0 /\ j # -1 /\ at[k].table[j].isDir
        /\ at[k + 1].table = disk[at[k].table[j].start]
    <3> DEFINE u == at[k]
               v == at[k + 1]
               m == p.names[k + 1]
    <3>1. v = EnterTable(u, m) /\ v.code = 0
      BY <2>2
    <3>2. u.code # 0 => v = u
      BY <3>1 DEF EnterTable
    <3>3. u.code = 0
      BY <3>1, <3>2
    <3> HIDE DEF u, v
    <3>4. j # -1 /\ u.table[j].isDir
      BY <3>1, <3>3 DEF EnterTable, u
    <3>5. v = [code |-> 0, ref |-> "copy", table |-> disk[u.table[j].start]]
      BY <3>1, <3>3, <3>4 DEF EnterTable, u
    <3> QED
      BY <3>3, <3>4, <3>5 DEF u, v
  <2>4. j \in Slots /\ at[k].table[j].name = p.names[k + 1]
    BY <2>3, Search
  <2>5. PICK b \in DirsOn(disk) : at[k].table = disk[b] /\ b \in wt[k]
    BY <1>8, <2>3
  <2> HIDE DEF j
  <2>6. at[k].table[j].start \in DirsOn(disk) /\ at[k].table[j].start \in wt[k + 1]
    BY <1>6, <2>1, <2>3, <2>4, <2>5
  <2> QED
    BY <2>3, <2>6
<1>9. n \in P
  <2> HIDE DEF P
  <2>1. 0 .. n \subseteq P
    BY <1>2, <1>7, <1>8, BoundedInduction
  <2> QED
    BY <1>2, <2>1
<1>10. PICK b \in DirsOn(disk) : r.table = disk[b] /\ b \in wt[n]
  BY <1>2, <1>9
<1>11. r.index \in Slots /\ r.table[r.index].name = p.names[n + 1]
  BY <1>2, <1>4, Search
<1>12. n \in 0 .. n
  BY <1>2
<1>13. r.table[r.index].start \in wt[n + 1]
  BY <1>6, <1>10, <1>11, <1>12
<1> QED
  BY <1>5, <1>13 DEF tree1

\* cd: the names kept lead to the table that is loaded.
LEMMA SetcwdWalk ==
    ASSUME SafeUse, IInv, IInv', NEW p \in Paths, Setcwd(p), UniqueNames(TreeOn(disk))
    PROVE  Walk(TreeOn(disk'), cwdPath') = {cwdTable'[0].start}
<1> DEFINE n == normalizePathname(p)
           q == [abs |-> TRUE, names |-> n]
           r == parsePath(q)
<1>1. /\ pending = <<>> /\ r.code = 0
      /\ \/ r.index = -2 /\ cwdIsRoot' = TRUE
         \/ /\ r.index >= 0 /\ r.table[r.index].isDir
            /\ cwdIsRoot' = FALSE
            /\ cwd' = disk[r.table[r.index].start]
      /\ cwdPath' = n
      /\ UNCHANGED <<vol, disk, root, pending, stored>>
  BY DEF Setcwd, NewPath
<1>2. Ready
  BY <1>1, BetweenOperations
<1>3. n \in Seq(PathNames \ DotNames) /\ PathNames \cap NoNames = {}
  <2>1. Walkable(p)
    BY DEF SafeUse, Walkable, NoNames
  <2> QED
    BY <1>2, <2>1, NormalizedPath DEF SafeUse, NoNames
<1>4. Walkable(q) /\ q.abs /\ q.names = n
  <2>1. n \in Seq(PathNames)
    <3> HIDE DEF n
    <3>1. Len(n) \in Nat /\ n \in [1 .. Len(n) -> PathNames]
      BY <1>3
    <3> QED
      BY <3>1
  <2> HIDE DEF n
  <2> QED
    BY <1>3, <2>1 DEF Walkable
<1>5. r = parsePath(q)
  OBVIOUS
<1> HIDE DEF n, q, r
<1>6. CASE r.index = -2 /\ cwdIsRoot' = TRUE
  <2>1. cwdPath' = <<>>
    BY <1>6 DEF IInv, CachesInv
  <2>2. cwdTable' = root
    BY <1>1, <1>6 DEF cwdTable
  <2>3. root[0].start = rootStart
    BY <1>2 DEF Ready, CachesOn, DiskInv, DirectoriesInv, IsDirectory, DirEntry
  <2> QED
    BY <2>1, <2>2, <2>3, WalkNowhere
<1>7. CASE /\ r.index >= 0 /\ r.table[r.index].isDir
           /\ cwdIsRoot' = FALSE
           /\ cwd' = disk[r.table[r.index].start]
  <2> DEFINE c == r.table[r.index].start
  <2>1. n # <<>> /\ r.index # -1
    <3>1. n = <<>> => r.index = -2
      BY <1>4, <1>5 DEF parsePath
    <3>2. r.index # -2 /\ r.index # -1
      BY <1>7
    <3> QED
      BY <3>1, <3>2
  <2>2. c \in Walk(TreeOn(disk), n)
    BY <1>1, <1>2, <1>3, <1>4, <1>5, <1>7, <2>1, ParsedWalk
  <2>3. Walk(TreeOn(disk), n) = {c}
    BY <1>3, <2>2, WalkAlone
  <2>4. cwd'[0].start = c
    <3>2. PICK b \in Blocks :
            /\ Opened(r.ref, r.table, b)
            /\ r.name \in PathNames
            /\ \/ r.index = -1 /\ \A i \in Slots : disk[b][i].name # r.name
               \/ r.index \in Slots /\ disk[b][r.index].name = r.name
      <4>1. r.index # -2
        BY <1>7
      <4>2. \E b \in Blocks :
              /\ Opened(r.ref, r.table, b)
              /\ r.name \in PathNames
              /\ \/ r.index = -1 /\ \A i \in Slots : disk[b][i].name # r.name
                 \/ r.index \in Slots /\ disk[b][r.index].name = r.name
        BY <1>1, <1>2, <1>4, <1>5, <4>1, ParsedPath
      <4> QED
        BY <4>2
    <3>3. r.index \in Slots /\ disk[b][r.index].name = r.name /\ r.name \in PathNames
      BY <2>1, <3>2
    <3>4. r.table = disk[b] /\ IsDirectory(disk, b) /\ DiskInv(vol.fat, disk)
      BY <1>2, <3>2 DEF Opened, Ready
    <3>5. disk[b][r.index].name \notin NoNames /\ disk[b][r.index].isDir
      BY <1>3, <1>7, <3>3, <3>4
    <3>6. \A i \in Slots : disk[b][i].name \notin NoNames /\ disk[b][i].isDir => IsDirectory(disk, disk[b][i].start)
      <4> SUFFICES ASSUME NEW i \in Slots, disk[b][i].name \notin NoNames, disk[b][i].isDir
                   PROVE  IsDirectory(disk, disk[b][i].start)
        OBVIOUS
      <4>1. disk[b][i].isDir => disk[b][i].start \in Blocks /\ IsDirectory(disk, disk[b][i].start)
        BY <3>4, NamedSlot
      <4> QED
        BY <4>1
    <3>7. IsDirectory(disk, disk[b][r.index].start)
      BY <3>3, <3>5, <3>6
    <3> QED
      BY <1>7, <3>4, <3>7 DEF IsDirectory, DirEntry
  <2>5. cwdTable' = cwd'
    BY <1>7 DEF cwdTable
  <2> HIDE DEF c
  <2> QED
    BY <1>1, <2>3, <2>4, <2>5
<1> QED
  BY <1>1, <1>6, <1>7
-----------------------------------------------------------------------------
(* The invariant of the tree, and the theorems about it.                   *)

\* A directory operation leaves the current directory where it is.
LEMMA HereKept ==
    ASSUME IInv, IInv', cwdIsRoot' = cwdIsRoot, cwd'[0].start = cwd[0].start
    PROVE  cwdTable'[0].start = cwdTable[0].start
<1>1. root[0].start = rootStart
  <2>1. DiskInv(vol.fat, Settled) /\ root = Settled[rootStart]
    BY SettledDisk DEF IInv, CachesInv
  <2> QED
    BY <2>1 DEF DiskInv, DirectoriesInv, IsDirectory, DirEntry
<1>2. root'[0].start = rootStart
  <2> DEFINE fat == vol'.fat
             d == disk'
             q == pending'
  <2>1. QueueInv(fat, d, q) /\ root' = DiskAfter(d, q, Len(q))[rootStart]
    BY DEF IInv, PendingInv, QueueInv, CachesInv, Settled
  <2> HIDE DEF fat, d, q
  <2>2. DiskInv(fat, DiskAfter(d, q, Len(q)))
    BY <2>1, QueueEnds
  <2> QED
    BY <2>1, <2>2 DEF DiskInv, DirectoriesInv, IsDirectory, DirEntry
<1> QED
  BY <1>1, <1>2 DEF cwdTable

\* Where the program stands is a directory of the disk.
LEMMA HereIsDirectory ==
    ASSUME Ready
    PROVE  cwdTable[0].start \in Blocks /\ IsDirectory(disk, cwdTable[0].start)
<1>1. IsDirectory(disk, rootStart) /\ root = disk[rootStart] /\ root[0].start = rootStart
  BY DEF Ready, CachesOn, DiskInv, DirectoriesInv, IsDirectory, DirEntry
<1> QED
  BY <1>1, Sizes DEF Ready, CachesOn, cwdTable

\* A new directory is not placed there.
LEMMA HereIsTaken ==
    ASSUME IInv, Ready, vol' = allocateBlocks(vol, DirBlocks).vol
    PROVE  cwdTable[0].start # DirStart
<1>1. cwdTable[0].start \in Blocks /\ IsDirectory(disk, cwdTable[0].start)
  BY HereIsDirectory
<1>2. CASE DirStart = NoBlock
  BY <1>1, <1>2, FatWords
<1>3. CASE DirStart # NoBlock
  <2>1. disk[DirStart] = ZeroTable
    BY <1>3, DirectoryBlocks
  <2>2. disk[DirStart][0].inUse = FALSE
    BY <2>1, ZeroTypes, Sizes
  <2> QED
    BY <1>1, <2>2 DEF IsDirectory, DirEntry
<1> QED
  BY <1>2, <1>3

\* The writes an operation queues.
LEMMA OperationSteps ==
    ASSUME SafeUse, IInv, IInv', NEW p \in Paths, NEW q \in Paths,
           \/ Mkdir(p) \/ Rm(p) \/ Create(p) \/ StoreNew(p) \/ Store(p)
           \/ "move" \in Operations /\ Move(p, q)
    PROVE  /\ QueueSteps(disk, pending', cwdTable'[0].start)
           /\ cwdTable'[0].start = cwdTable[0].start
           /\ UNCHANGED <<disk, cwdPath>>
<1> DEFINE here == cwdTable[0].start
<1>1. ASSUME Mkdir(p) PROVE here # DirStart
  <2>1. Reaches(parsePath(p)) /\ vol' = allocateBlocks(vol, DirBlocks).vol
    BY <1>1 DEF Mkdir
  <2>2. Ready
    BY <2>1, BetweenOperations DEF Reaches
  <2> QED
    BY <2>1, <2>2, HereIsTaken
<1>2. UNCHANGED <<disk, cwdIsRoot, cwdPath>>
  BY DEF Mkdir, Rm, Rmdir, Delete, RemoveEntry, Create, StoreNew, Store, NewFile, Move
<1> HIDE DEF here
<1>3. QueueSteps(disk, pending', here) /\ cwd'[0].start = cwd[0].start
  BY <1>1, MkdirSteps, RmSteps, CreateSteps, StoreNewSteps, StoreSteps, MoveSteps
<1>4. cwdTable'[0].start = cwdTable[0].start
  BY <1>2, <1>3, HereKept
<1> QED
  BY <1>2, <1>3, <1>4 DEF here

\* The formatted volume holds an empty tree.
LEMMA TreeInit ==
    ASSUME TInit
    PROVE  TInv /\ NS!Init
<1>1. Init /\ tree = Tree
  BY DEF TInit
<1>2. IInv
  BY <1>1, InitHolds
<1>3. pending = <<>> /\ cwdPath = <<>>
  BY <1>1 DEF Init
<1>4. DiskInv(vol.fat, disk)
  BY <1>2 DEF IInv, PendingInv
<1>5. \A c \in Blocks, i \in Slots : ~Names(disk[c][i])
  <2>1. root = newDirectory(rootStart, RootBlocks, DirEntry("", RootBlocks, rootStart))
        /\ disk = [b \in Blocks |-> IF b = rootStart THEN root ELSE ZeroTable]
    BY <1>1 DEF Init
  <2> DEFINE up == [DirEntry("", RootBlocks, rootStart) EXCEPT !.name = "..", !.inUse = TRUE]
  <2>2. root = [ZeroTable EXCEPT ![0] = DirEntry(".", RootBlocks, rootStart), ![1] = up]
    BY <2>1 DEF newDirectory
  <2>3. DirEntry(".", RootBlocks, rootStart).name = "." /\ up.name = ".."
    BY DEF DirEntry
  <2> HIDE DEF up
  <2>4. \A i \in Slots : ZeroTable[i].inUse = FALSE
    BY ZeroTypes
  <2>5. \A i \in Slots : root[i] = IF i = 1 THEN up ELSE IF i = 0 THEN DirEntry(".", RootBlocks, rootStart) ELSE ZeroTable[i]
    BY <2>2, ZeroTypes, Sizes DEF DirTables
  <2> QED
    BY <2>1, <2>3, <2>4, <2>5 DEF Names
<1>6. \A c \in Blocks : Kids(disk, c) = {}
  BY <1>5 DEF Kids, Listed, Names
<1>7. TreeOn(disk) = {}
  BY <1>4, <1>6, TreeIs, ReachedKids
<1>8. UniqueNames(tree) /\ tree = {}
  BY <1>1, <1>7 DEF Tree, UniqueNames
<1>9. CwdFaithful
  <2>1. Walk(Tree, cwdPath) = {rootStart}
    BY <1>3, WalkNowhere
  <2>2. cwdTable = root
    BY <1>1 DEF Init, cwdTable
  <2>3. Ready
    BY <1>2, <1>3, BetweenOperations
  <2>4. root[0].start = rootStart
    BY <2>3 DEF Ready, CachesOn, DiskInv, DirectoriesInv, IsDirectory, DirEntry
  <2> QED
    BY <2>1, <2>2, <2>4 DEF CwdFaithful
<1>10. StepsInv
  BY <1>3 DEF StepsInv
<1> QED
  BY <1>1, <1>2, <1>8, <1>9, <1>10 DEF TInv, NS!Init

\* A step of the tree, for the program: the invariant is kept part by part.
LEMMA TreeEstablished ==
    ASSUME TInv, TNext, IInv',
           NEW d, d = disk', NEW q, q = pending', NEW here, here = cwdTable'[0].start,
           QueueSteps(d, q, here),
           TreeOn(d) = TreeOn(disk) \/ NS!Step(TreeOn(disk), TreeOn(d)),
           here \in DirsOn(d) => Walk(TreeOn(d), cwdPath') = {here}
    PROVE  TInv' /\ [NS!Next]_tree
<1>1. tree = TreeOn(disk) /\ UniqueNames(tree) /\ tree' = TreeOn(d)
  BY DEF TInv, TNext, Tree
<1>2. UniqueNames(tree')
  BY <1>1, NamesKept
<1>3. tree' = Tree'
  BY <1>1 DEF Tree
<1>4. CwdFaithful'
  BY DEF CwdFaithful, ReachableDirs, Tree
<1>5. StepsInv'
  BY DEF StepsInv, QueueSteps, WriteSteps
<1>6. [NS!Next]_tree
  BY <1>1 DEF NS!Next
<1> QED
  BY <1>2, <1>3, <1>4, <1>5, <1>6 DEF TInv

\* An operation of the directories.
LEMMA OperationKeepsTree ==
    ASSUME SafeUse, TInv, TNext, IInv', NEW p \in Paths, NEW q \in Paths,
           \/ Mkdir(p) \/ Rm(p) \/ Create(p) \/ StoreNew(p) \/ Store(p)
           \/ "move" \in Operations /\ Move(p, q)
    PROVE  TInv' /\ [NS!Next]_tree
<1> DEFINE d == disk'
           s == pending'
           here == cwdTable'[0].start
<1>1. IInv /\ CwdFaithful
  BY DEF TInv
<1>2. /\ QueueSteps(disk, s, here)
      /\ here = cwdTable[0].start
      /\ UNCHANGED <<disk, cwdPath>>
  BY <1>1, OperationSteps
<1>3. d = disk /\ cwdPath' = cwdPath
  BY <1>2
<1>4. here \in DirsOn(disk) => Walk(TreeOn(disk), cwdPath) = {here}
  BY <1>1, <1>2 DEF CwdFaithful, ReachableDirs, Tree
<1>5. QueueSteps(d, s, here) /\ (here \in DirsOn(d) => Walk(TreeOn(d), cwdPath') = {here})
  BY <1>2, <1>3, <1>4
<1>6. TreeOn(d) = TreeOn(disk)
  BY <1>3
<1>7. d = disk' /\ s = pending' /\ here = cwdTable'[0].start
  OBVIOUS
<1> HIDE DEF d, s, here
<1> QED
  BY <1>5, <1>6, <1>7, TreeEstablished

\* cd.
LEMMA SetcwdKeepsTree ==
    ASSUME SafeUse, TInv, TNext, IInv', NEW p \in Paths, Setcwd(p)
    PROVE  TInv' /\ [NS!Next]_tree
<1> DEFINE d == disk'
           s == pending'
           here == cwdTable'[0].start
<1>1. IInv /\ UniqueNames(TreeOn(disk))
  BY DEF TInv, Tree
<1>2. Walk(TreeOn(d), cwdPath') = {here}
  BY <1>1, SetcwdWalk
<1>3. s = <<>> /\ d = disk
  BY DEF Setcwd
<1>4. QueueSteps(d, s, here)
  BY <1>3, NoSteps
<1>5. TreeOn(d) = TreeOn(disk)
  BY <1>3
<1>6. d = disk' /\ s = pending' /\ here = cwdTable'[0].start
  OBVIOUS
<1> HIDE DEF d, s, here
<1> QED
  BY <1>2, <1>4, <1>5, <1>6, TreeEstablished

\* A write that is done.
LEMMA FlushKeepsTree ==
    ASSUME SafeUse, TInv, TNext, IInv', Flush
    PROVE  TInv' /\ [NS!Next]_tree
<1> DEFINE d == disk'
           s == pending'
           here == cwdTable'[0].start
<1>1. IInv /\ StepsInv /\ CwdFaithful /\ UniqueNames(TreeOn(disk))
  BY DEF TInv, Tree
<1>2. pending \in Seq(Writes) /\ Len(pending) <= 2
  BY <1>1 DEF IInv, PendingInv
<1>3. pending # <<>> /\ d = Written(disk, pending[1], MaxEntries) /\ s = Tail(pending) /\ cwdPath' = cwdPath
  <2>1. pending # <<>> => Head(pending) = pending[1]
    BY <1>2
  <2> QED
    BY <2>1 DEF Flush
<1>4. here = cwdTable[0].start
  BY DEF Flush, cwdTable
<1>5. QueueSteps(disk, pending, here)
  BY <1>1, <1>4, StepsOfQueue
<1>6. WriteSteps(disk, pending[1], here) /\ QueueSteps(d, s, here)
  BY <1>2, <1>3, <1>5, StepsAdvance
<1>7. MaxEntries \in Cuts
  BY Sizes DEF Cuts
<1>8. TreeStep(disk, d, here)
  BY <1>3, <1>6, <1>7 DEF WriteSteps
<1>9. here \in DirsOn(disk) => Walk(TreeOn(disk), cwdPath) = {here}
  BY <1>1, <1>4 DEF CwdFaithful, ReachableDirs, Tree
<1>10. cwdPath \in Seq(PathNames \ DotNames)
  BY <1>1 DEF IInv, CachesInv, DotNames
<1>11. d = disk' /\ s = pending' /\ here = cwdTable'[0].start
  OBVIOUS
<1> HIDE DEF d, s, here
<1>12. /\ TreeOn(d) = TreeOn(disk) \/ NS!Step(TreeOn(disk), TreeOn(d))
       /\ UniqueNames(TreeOn(d)) /\ (here \in DirsOn(d) => Walk(TreeOn(d), cwdPath) = {here})
  BY <1>1, <1>8, <1>9, <1>10, TreeKept
<1>13. here \in DirsOn(d) => Walk(TreeOn(d), cwdPath') = {here}
  BY <1>3, <1>12
<1> QED
  BY <1>6, <1>11, <1>12, <1>13, TreeEstablished

\* The end of the program, in the middle of a write or not.
LEMMA RestartKeepsTree ==
    ASSUME SafeUse, TInv, TNext, IInv', Restart
    PROVE  TInv' /\ [NS!Next]_tree
<1> DEFINE d == disk'
           s == pending'
           here == cwdTable'[0].start
           was == cwdTable[0].start
<1>1. IInv /\ StepsInv /\ UniqueNames(TreeOn(disk))
  BY DEF TInv, Tree
<1>2. s = <<>> /\ root' = d[rootStart] /\ cwdIsRoot' = TRUE /\ cwdPath' = <<>>
  BY DEF Restart, LoadRoot
<1>3. DiskInv(vol'.fat, d)
  BY DEF IInv, PendingInv
<1>4. here = rootStart
  <2>1. cwdTable' = d[rootStart]
    BY <1>2 DEF cwdTable
  <2> HIDE DEF d
  <2> QED
    BY <1>3, <2>1 DEF DiskInv, DirectoriesInv, IsDirectory, DirEntry
<1>5. TreeOn(d) = TreeOn(disk) \/ NS!Step(TreeOn(disk), TreeOn(d))
  <2>1. CASE pending = <<>> /\ UNCHANGED disk
    BY <2>1
  <2>2. CASE /\ pending # <<>> /\ Crashes
             /\ \E k \in 0 .. MaxEntries : disk' = Written(disk, Head(pending), k)
    <3>1. pending \in Seq(Writes) /\ Len(pending) <= 2
      BY <1>1 DEF IInv, PendingInv
    <3>2. PICK k \in 0 .. MaxEntries : d = Written(disk, pending[1], k)
      BY <2>2, <3>1
    <3>3. k \in Cuts
      BY <2>2 DEF Cuts
    <3>4. QueueSteps(disk, pending, was)
      BY <1>1, StepsOfQueue
    <3> HIDE DEF d, was
    <3>5. WriteSteps(disk, pending[1], was) /\ QueueSteps(Written(disk, pending[1], MaxEntries), Tail(pending), was)
      BY <2>2, <3>1, <3>4, StepsAdvance
    <3>6. TreeStep(disk, d, was)
      BY <3>2, <3>3, <3>5 DEF WriteSteps
    <3> QED
      BY <3>6 DEF TreeStep
  <2> QED
    BY <2>1, <2>2 DEF Restart
<1>6. Walk(TreeOn(d), cwdPath') = {here}
  BY <1>2, <1>4, WalkNowhere
<1>7. QueueSteps(d, s, here)
  BY <1>2, NoSteps
<1>8. d = disk' /\ s = pending' /\ here = cwdTable'[0].start
  OBVIOUS
<1> HIDE DEF d, s, here
<1> QED
  BY <1>5, <1>6, <1>7, <1>8, TreeEstablished

\* Every step.
LEMMA TreeKeeps ==
    ASSUME SafeUse, TInv, [TNext]_<<vars, tree>>
    PROVE  TInv' /\ [NS!Next]_tree
<1>1. CASE UNCHANGED <<vars, tree>>
  <2>1. UNCHANGED <<vol, disk, root, cwd, cwdIsRoot, cwdPath, pending, stored, tree>>
    BY <1>1 DEF vars
  <2>2. IInv'
    BY <2>1, NextKeeps DEF TInv, vars
  <2>3. StepsInv'
    BY <2>1 DEF TInv, StepsInv, cwdTable
  <2>4. CwdFaithful'
    BY <2>1 DEF TInv, CwdFaithful, cwdTable, ReachableDirs, Tree
  <2> QED
    BY <2>1, <2>2, <2>3, <2>4 DEF TInv, Tree
<1>2. CASE TNext
  <2>1. Next /\ IInv
    BY <1>2 DEF TNext, TInv
  <2>2. IInv'
    BY <2>1, NextKeeps
  <2>3. ASSUME NEW p \in Paths, NEW q \in Paths,
               \/ Mkdir(p) \/ Rm(p) \/ Create(p) \/ StoreNew(p) \/ Store(p)
               \/ "move" \in Operations /\ Move(p, q)
        PROVE  TInv' /\ [NS!Next]_tree
    BY <1>2, <2>2, <2>3, OperationKeepsTree
  <2>4. ASSUME NEW p \in Paths, Setcwd(p) PROVE TInv' /\ [NS!Next]_tree
    BY <1>2, <2>2, <2>4, SetcwdKeepsTree
  <2>5. CASE Flush
    BY <1>2, <2>2, <2>5, FlushKeepsTree
  <2>6. CASE Restart
    BY <1>2, <2>2, <2>6, RestartKeepsTree
  <2> QED
    BY <2>1, <2>3, <2>4, <2>5, <2>6 DEF Next
<1> QED
  BY <1>1, <1>2
-----------------------------------------------------------------------------
\* The invariant of the name space: every write that is queued takes one step
\* of it, or none, wherever it is cut.
THEOREM TreeIsKept ==
    ASSUME SafeUse
    PROVE  TSpec => []TInv
<1>1. TInit => TInv
  BY TreeInit
<1>2. TInv /\ [TNext]_<<vars, tree>> => TInv'
  BY TreeKeeps
<1> QED
  BY <1>1, <1>2, PTL DEF TSpec

\* pwd names the directory that relative paths start from, as long as it has
\* not been removed: also when cd was given a path with dots, when other
\* entries come and go around it, and after a crash (fs_setcwd, mfs.c:371).
THEOREM CwdIsFaithful ==
    ASSUME SafeUse
    PROVE  TSpec => []CwdFaithful
<1>1. TInv => CwdFaithful
  BY DEF TInv
<1> QED
  BY <1>1, TreeIsKept, PTL

\* The directories are a name space: what a path can reach on the disk changes
\* by one entry at a time, added under a fresh name with storage of its own,
\* renamed with it, or removed with nothing below (mfs.c:48, 284, 535).
THEOREM ImplementsNameSpace ==
    ASSUME SafeUse
    PROVE  TSpec => NameSpaceSpec
<1>1. TInit => TInv /\ NS!Init
  BY TreeInit
<1>2. TInv /\ [TNext]_<<vars, tree>> => TInv' /\ [NS!Next]_tree
  BY TreeKeeps
<1> QED
  BY <1>1, <1>2, PTL DEF TSpec, NameSpaceSpec, NS!Spec

-----------------------------------------------------------------------------
(* What ls shows.                                                          *)

\* The slots of a table that name something, those of them in front of slot
\* k, and the slots from k on that fs_readdir returns.
Visible(table)   == {i \in Slots : Names(table[i])}
Before(table, k) == {i \in Visible(table) : i < k}
Unread(table, k) == {i \in Slots : i >= k /\ table[i].inUse}

\* One turn of the loop of displayFiles.
Shown(di)  == IF di[1] \in {".", ".."} THEN <<>> ELSE <<Line(di[1])>>
ReadOn(s)  == LET r == fs_readdir(s.dir)
              IN  IF r.di = <<>> THEN s ELSE [dir |-> r.dir, shown |-> s.shown \o Shown(r.di)]
Copy(table, k)    == [directory |-> table, dirEntryPosition |-> k]
LinesIn(table)    == {Line(table[i].name) : i \in Slots}
ListStates(table) == [dir : {Copy(table, k) : k \in Nat}, shown : Seq(LinesIn(table))]

\* It shows the next slot in use, unless that is a dot.
LEMMA ReadOnce ==
    ASSUME NEW table, NEW s \in ListStates(table), NEW k \in Nat, s.dir = Copy(table, k)
    PROVE  \/ Unread(table, k) = {} /\ ReadOn(s) = s
           \/ \E i \in Unread(table, k) :
                /\ \A j \in Unread(table, k) : i <= j
                /\ ReadOn(s).dir = Copy(table, i + 1)
                /\ ReadOn(s).shown = s.shown \o (IF Names(table[i]) THEN <<Line(table[i].name)>> ELSE <<>>)
                /\ ReadOn(s) \in ListStates(table)
<1> DEFINE d == s.dir
           u == NextInUse(d)
           r == fs_readdir(d)
<1>1. d.directory = table /\ d.dirEntryPosition = k
  BY DEF Copy
<1>2. u = Unread(table, k)
  BY <1>1 DEF NextInUse, Unread
<1>3. CASE u = {}
  <2>1. r.di = <<>>
    BY <1>3 DEF fs_readdir
  <2> QED
    BY <1>2, <1>3, <2>1 DEF ReadOn
<1>4. CASE u # {}
  <2> DEFINE i == Min(u)
             new == IF Names(table[i]) THEN <<Line(table[i].name)>> ELSE <<>>
  <2>1. i \in u /\ \A j \in u : i <= j
    <3>1. u \subseteq Nat
      BY Sizes DEF NextInUse
    <3> HIDE DEF u
    <3> QED
      BY <1>4, <3>1, MinNat
  <2>2. r.dir = [d EXCEPT !.dirEntryPosition = i + 1] /\ r.di = <<table[i].name>>
    BY <1>1, <1>4 DEF fs_readdir
  <2> HIDE DEF u, r, i
  <2>3. i \in Slots /\ table[i].inUse
    BY <1>2, <2>1 DEF Unread
  <2>4. r.dir = Copy(table, i + 1) /\ i + 1 \in Nat
    BY <2>2, <2>3, Sizes DEF Copy
  <2>5. r.di # <<>> /\ r.di[1] = table[i].name
    BY <2>2
  <2>6. Shown(r.di) = new
    BY <2>3, <2>5 DEF Shown, Names
  <2>7. ReadOn(s) = [dir |-> Copy(table, i + 1), shown |-> s.shown \o new]
    BY <2>4, <2>5, <2>6 DEF ReadOn, r
  <2>8. new \in Seq(LinesIn(table)) /\ s.shown \in Seq(LinesIn(table))
    <3>1. Line(table[i].name) \in LinesIn(table)
      BY <2>3 DEF LinesIn
    <3> HIDE DEF i
    <3>2. \A S : \A x \in S : <<x>> \in Seq(S) /\ <<>> \in Seq(S)
      OBVIOUS
    <3>3. new = <<>> \/ new = <<Line(table[i].name)>>
      OBVIOUS
    <3>4. new \in Seq(LinesIn(table))
      BY <3>1, <3>2, <3>3
    <3>5. s.shown \in Seq(LinesIn(table))
      BY DEF ListStates
    <3> QED
      BY <3>4, <3>5
  <2> HIDE DEF new
  <2>9. s.shown \o new \in Seq(LinesIn(table))
    BY <2>8
  <2>10. ReadOn(s) \in ListStates(table)
    BY <2>4, <2>7, <2>9 DEF ListStates
  <2>11. ReadOn(s).dir = Copy(table, i + 1) /\ ReadOn(s).shown = s.shown \o new
    BY <2>7
  <2> QED
    BY <1>2, <2>1, <2>10, <2>11 DEF new
<1> QED
  BY <1>3, <1>4

\* The loop, turn by turn.
ListsBy(table, at) ==
    /\ at[0] = [dir |-> Copy(table, 0), shown |-> <<>>]
    /\ \A k \in 0 .. MaxEntries - 1 : at[k + 1] = ReadOn(at[k])
    /\ \A k \in 0 .. MaxEntries : at[k] \in ListStates(table)
    /\ displayFiles(Copy(table, 0)) = at[MaxEntries].shown

\* It is well defined.
LEMMA ListedBy ==
    ASSUME NEW table
    PROVE  \E at : ListsBy(table, at)
<1> DEFINE n == MaxEntries
           S == ListStates(table)
           base == [dir |-> Copy(table, 0), shown |-> <<>>]
           F(w) == [k \in 0 .. n |-> IF k = 0 THEN base ELSE ReadOn(w[k - 1])]
           at == CHOOSE w : w = F(w)
           step == [k \in 1 .. n |-> [s \in S |-> ReadOn(s)]]
<1>1. n \in Nat
  BY Sizes
<1>2. ASSUME NEW s \in S PROVE ReadOn(s) \in S
  <2>1. PICK k \in Nat : s.dir = Copy(table, k)
    BY DEF ListStates
  <2> QED
    BY <2>1, ReadOnce
<1>3. base \in S /\ step \in [1 .. n -> [S -> S]]
  <2>1. 0 \in Nat /\ <<>> \in Seq(LinesIn(table))
    OBVIOUS
  <2> QED
    BY <1>2, <2>1 DEF ListStates
<1>4. PICK v \in [0 .. n -> S] : v[0] = base /\ \A k \in 1 .. n : v[k] = step[k][v[k - 1]]
  <2> HIDE DEF n, step, S, base
  <2>1. \E v \in [0 .. n -> S] : v[0] = base /\ \A k \in 1 .. n : v[k] = step[k][v[k - 1]]
    BY <1>1, <1>3, Iteration
  <2> QED
    BY <2>1
<1>5. v = F(v)
  <2> HIDE DEF S, base
  <2>1. \A k \in 1 .. n : v[k - 1] \in S
    BY <1>1
  <2>2. \A k \in 1 .. n : v[k] = ReadOn(v[k - 1])
    BY <1>4, <2>1
  <2> HIDE DEF n, step
  <2>3. ASSUME NEW k \in 0 .. n
        PROVE  v[k] = IF k = 0 THEN base ELSE ReadOn(v[k - 1])
    <3>1. k # 0 => k \in 1 .. n
      BY <1>1
    <3> QED
      BY <1>4, <2>2, <3>1
  <2>4. v = [k \in 0 .. n |-> v[k]]
    OBVIOUS
  <2> QED
    BY <2>3, <2>4, Zenon
<1>6. at = F(at)
  <2> HIDE DEF F
  <2> QED
    BY <1>5
<1>7. at[0] = base /\ \A k \in 0 .. n - 1 : at[k + 1] = ReadOn(at[k])
  <2> HIDE DEF at, n, base
  <2> QED
    BY <1>1, <1>6
<1>8. displayFiles(Copy(table, 0)) = at[n].shown
  BY DEF displayFiles, ReadOn, Shown
<1> HIDE DEF at
<1>9. \A k \in 0 .. n : at[k] \in S
  <2> HIDE DEF n, S, base
  <2> DEFINE P == {k \in 0 .. n : at[k] \in S}
  <2>1. ASSUME NEW k \in 0 .. n - 1, k \in P PROVE k + 1 \in P
    BY <1>1, <1>2, <1>7, <2>1
  <2>2. 0 \in P
    BY <1>1, <1>3, <1>7
  <2> HIDE DEF P
  <2>3. 0 .. n \subseteq P
    BY <1>1, <2>1, <2>2, BoundedInduction
  <2> QED
    BY <2>3 DEF P
<1> QED
  BY <1>7, <1>8, <1>9 DEF ListsBy

\* Behind one more line.
LEMMA RangeAppended ==
    ASSUME NEW S, NEW s \in Seq(S), NEW x \in S
    PROVE  /\ Range(s \o <<x>>) = Range(s) \cup {x}
           /\ Len(s \o <<x>>) = Len(s) + 1
<1> DEFINE t == s \o <<x>>
<1>1. <<x>> \in Seq(S) /\ Len(<<x>>) = 1 /\ Len(s) \in Nat
  OBVIOUS
<1>2. /\ t \in Seq(S) /\ Len(t) = Len(s) + 1
      /\ \A k \in 1 .. Len(s) + 1 : t[k] = IF k <= Len(s) THEN s[k] ELSE <<x>>[k - Len(s)]
  BY <1>1, ConcatProperties
<1> HIDE DEF t
<1>3. \A k \in 1 .. Len(s) : t[k] = s[k]
  BY <1>1, <1>2
<1>4. t[Len(s) + 1] = x
  BY <1>1, <1>2
<1>5. DOMAIN t = 1 .. Len(s) + 1 /\ DOMAIN s = 1 .. Len(s)
  BY <1>1, <1>2
<1>6. \A k : k \in 1 .. Len(s) + 1 <=> k \in 1 .. Len(s) \/ k = Len(s) + 1
  BY <1>1
<1>7. \A y : y \in Range(t) <=> y \in Range(s) \/ y = x
  BY <1>3, <1>4, <1>5, <1>6 DEF Range
<1> QED
  BY <1>2, <1>7 DEF t

\* What is shown up to slot k.
ShownBefore(table, s, k) ==
    /\ s.dir = Copy(table, k)
    /\ Range(s.shown) = {Line(table[i].name) : i \in Before(table, k)}
    /\ IsFiniteSet(Before(table, k)) /\ Len(s.shown) = Cardinality(Before(table, k))

\* It shows every name once.
LEMMA ReadAll ==
    ASSUME NEW table, NEW s \in ListStates(table), NEW k \in Nat, ShownBefore(table, s, k)
    PROVE  \/ Unread(table, k) = {} /\ ReadOn(s) = s
           \/ \E i \in Nat : i > k /\ ShownBefore(table, ReadOn(s), i)
<1>1. s.dir = Copy(table, k)
  BY DEF ShownBefore
<1>2. CASE Unread(table, k) = {} /\ ReadOn(s) = s
  BY <1>2
<1>3. CASE \E i \in Unread(table, k) :
             /\ \A j \in Unread(table, k) : i <= j
             /\ ReadOn(s).dir = Copy(table, i + 1)
             /\ ReadOn(s).shown = s.shown \o (IF Names(table[i]) THEN <<Line(table[i].name)>> ELSE <<>>)
             /\ ReadOn(s) \in ListStates(table)
  <2>1. PICK i \in Unread(table, k) :
             /\ \A j \in Unread(table, k) : i <= j
             /\ ReadOn(s).dir = Copy(table, i + 1)
             /\ ReadOn(s).shown = s.shown \o (IF Names(table[i]) THEN <<Line(table[i].name)>> ELSE <<>>)
             /\ ReadOn(s) \in ListStates(table)
    BY <1>3
  <2>2. i \in Slots /\ i \in Nat /\ i >= k /\ i + 1 \in Nat /\ i + 1 > k
    BY Sizes DEF Unread
  <2> DEFINE B == Before(table, k)
             C == Before(table, i + 1)
             L(x) == Line(table[x].name)
  <2>3. \A j \in Visible(table) : j >= k => i <= j
    BY <2>1 DEF Visible, Unread, Names
  <2>4. Visible(table) \subseteq Nat
    BY Sizes DEF Visible
  <2>5. \A j : j \in C <=> j \in B \/ (j = i /\ i \in Visible(table))
    BY <2>2, <2>3, <2>4 DEF Before
  <2>6. i \notin B /\ (i \in Visible(table) <=> Names(table[i]))
    BY <2>2 DEF Before, Visible
  <2>7. /\ Range(s.shown) = {L(x) : x \in B}
        /\ IsFiniteSet(B) /\ Len(s.shown) = Cardinality(B)
    BY DEF ShownBefore
  <2>8. s.shown \in Seq(LinesIn(table)) /\ L(i) \in LinesIn(table)
    BY <2>2 DEF ListStates, LinesIn
  <2> HIDE DEF B, C, L
  <2>9. CASE Names(table[i])
    <3>1. C = B \cup {i}
      BY <2>5, <2>6, <2>9
    <3>2. ReadOn(s).shown = s.shown \o <<L(i)>>
      BY <2>1, <2>9 DEF L
    <3>3. Range(ReadOn(s).shown) = Range(s.shown) \cup {L(i)} /\ Len(ReadOn(s).shown) = Len(s.shown) + 1
      BY <2>8, <3>2, RangeAppended
    <3>4. Range(ReadOn(s).shown) = {L(x) : x \in C}
      BY <2>7, <3>1, <3>3
    <3>5. IsFiniteSet(C) /\ Cardinality(C) = Cardinality(B) + 1
      BY <2>6, <2>7, <3>1, FS_AddElement
    <3>6. ShownBefore(table, ReadOn(s), i + 1)
      BY <2>1, <2>7, <3>3, <3>4, <3>5 DEF ShownBefore, C, L
    <3> QED
      BY <2>2, <3>6
  <2>10. CASE ~Names(table[i])
    <3>1. C = B
      BY <2>5, <2>6, <2>10
    <3>2. ReadOn(s).shown = s.shown
      BY <2>1, <2>8, <2>10
    <3>3. ShownBefore(table, ReadOn(s), i + 1)
      BY <2>1, <2>7, <3>1, <3>2 DEF ShownBefore, B, C, L
    <3> QED
      BY <2>2, <3>3
  <2> QED
    BY <2>9, <2>10
<1> QED
  BY <1>1, <1>2, <1>3, ReadOnce

\* displayFiles shows every name of a table once.
LEMMA AllDisplayed ==
    ASSUME NEW table
    PROVE  /\ Range(displayFiles(Copy(table, 0))) = {Line(table[i].name) : i \in Visible(table)}
           /\ IsFiniteSet(Visible(table)) /\ Len(displayFiles(Copy(table, 0))) = Cardinality(Visible(table))
<1>1. PICK at : ListsBy(table, at)
  BY ListedBy
<1> DEFINE n == MaxEntries
           Done(k, i) == ShownBefore(table, at[k], i) /\ (i >= k \/ Unread(table, i) = {})
           P == {k \in 0 .. n : \E i \in Nat : Done(k, i)}
<1>2. /\ n \in Nat /\ at[0] = [dir |-> Copy(table, 0), shown |-> <<>>]
      /\ \A k \in 0 .. n - 1 : at[k + 1] = ReadOn(at[k])
      /\ \A k \in 0 .. n : at[k] \in ListStates(table)
      /\ displayFiles(Copy(table, 0)) = at[n].shown
  BY <1>1, Sizes DEF ListsBy
<1>3. 0 \in P
  <2>1. Before(table, 0) = {}
    BY Sizes DEF Before, Visible
  <2>2. Range(<<>>) = {} /\ Len(<<>>) = 0
    BY DEF Range
  <2>3. IsFiniteSet({}) /\ Cardinality({}) = 0
    BY FS_EmptySet
  <2>4. ShownBefore(table, at[0], 0)
    <3>1. at[0].dir = Copy(table, 0) /\ at[0].shown = <<>>
      BY <1>2
    <3>2. {Line(table[i].name) : i \in Before(table, 0)} = {}
      BY <2>1
    <3> QED
      BY <2>1, <2>2, <2>3, <3>1, <3>2 DEF ShownBefore
  <2>5. Done(0, 0)
    BY <2>4
  <2> HIDE DEF Done
  <2> QED
    BY <1>2, <2>5
<1>4. ASSUME NEW k \in 0 .. n - 1, k \in P PROVE k + 1 \in P
  <2>1. k \in 0 .. n /\ k + 1 \in 0 .. n
    BY <1>2
  <2>2. PICK i \in Nat : Done(k, i)
    BY <1>4
  <2>3. at[k] \in ListStates(table) /\ at[k + 1] = ReadOn(at[k])
    BY <1>2, <2>1
  <2>4. CASE Unread(table, i) = {} /\ ReadOn(at[k]) = at[k]
    <3>1. Done(k + 1, i)
      BY <2>2, <2>3, <2>4
    <3> HIDE DEF Done
    <3> QED
      BY <2>1, <3>1
  <2>5. CASE Unread(table, i) # {} /\ \E j \in Nat : j > i /\ ShownBefore(table, ReadOn(at[k]), j)
    <3>1. PICK j \in Nat : j > i /\ ShownBefore(table, ReadOn(at[k]), j)
      BY <2>5
    <3>2. j >= k + 1
      BY <2>1, <2>2, <2>5, <3>1
    <3>3. Done(k + 1, j)
      BY <2>3, <3>1, <3>2
    <3> HIDE DEF Done
    <3> QED
      BY <2>1, <3>3
  <2>6. CASE Unread(table, i) = {} /\ \E j \in Nat : j > i /\ ShownBefore(table, ReadOn(at[k]), j)
    <3>1. PICK j \in Nat : j > i /\ ShownBefore(table, ReadOn(at[k]), j)
      BY <2>6
    <3>2. Unread(table, j) = {}
      BY <2>6, <3>1, Sizes DEF Unread
    <3>3. Done(k + 1, j)
      BY <2>3, <3>1, <3>2
    <3> HIDE DEF Done
    <3> QED
      BY <2>1, <3>3
  <2> QED
    BY <2>2, <2>3, <2>4, <2>5, <2>6, ReadAll
<1>5. n \in P
  <2> HIDE DEF P
  <2>1. 0 .. n \subseteq P
    BY <1>2, <1>3, <1>4, BoundedInduction
  <2> QED
    BY <1>2, <2>1
<1>6. PICK i \in Nat : Done(n, i)
  BY <1>5
<1>7. Before(table, i) = Visible(table)
  BY <1>2, <1>6, Sizes DEF Before, Visible, Unread, Names
<1> QED
  BY <1>2, <1>6, <1>7 DEF ShownBefore

\* A name that is listed is found at its slot, and no other.
LEMMA FoundAlone ==
    ASSUME Ready, UniqueNames(TreeOn(disk)), NEW b \in DirsOn(disk), NEW i \in Slots, Names(disk[b][i])
    PROVE  /\ findInDirectory(disk[b], disk[b][i].name) = i
           /\ disk[b][i].name \in PathNames /\ disk[b][i].name \notin NoNames \cup DotNames
           /\ Kid(b, disk[b][i]) \in TreeOn(disk)
<1>1. DiskInv(vol.fat, disk)
  BY DEF Ready
<1>2. b \in Blocks
  BY <1>1, ReachedDirectories
<1>3. ASSUME NEW j \in Slots, disk[b][j].name = disk[b][i].name
      PROVE  Names(disk[b][j])
  <2>1. <<b, i>> \in Places /\ <<b, j>> \in Places
    BY <1>2 DEF Places
  <2>2. /\ ~disk[b][i].inUse <=> disk[b][i].name \in {"", "NULL"}
        /\ ~disk[b][j].inUse <=> disk[b][j].name \in {"", "NULL"}
    BY <1>1, <2>1 DEF DiskInv, TablesInv, Entry
  <2>3. disk \in [Blocks -> DirTables]
    BY <1>1 DEF DiskInv, TablesInv
  <2>4. disk[b][i] \in DirEntries /\ disk[b][j] \in DirEntries
    BY <1>2, <2>3 DEF DirTables
  <2>5. disk[b][i].inUse \in BOOLEAN /\ disk[b][j].inUse \in BOOLEAN
    BY <2>4 DEF DirEntries
  <2> QED
    BY <1>3, <2>2, <2>5 DEF Names
<1>4. ASSUME NEW j \in Slots, Names(disk[b][j])
      PROVE  Kid(b, disk[b][j]) \in Kids(disk, b) /\ Kid(b, disk[b][j]) \in TreeOn(disk)
  <2>1. disk[b][j] \in Listed(disk[b])
    BY <1>4 DEF Listed, Names
  <2>2. Kid(b, disk[b][j]) \in Kids(disk, b)
    BY <2>1 DEF Kids
  <2> QED
    BY <2>2, TreeIs
<1>5. ASSUME NEW j \in Slots, disk[b][j].name = disk[b][i].name
      PROVE  j = i
  <2>1. Names(disk[b][j])
    BY <1>3, <1>5
  <2>2. Kid(b, disk[b][j]) = Kid(b, disk[b][i])
    BY <1>4, <1>5, <2>1, KidFields DEF UniqueNames
  <2> QED
    BY <1>1, <1>2, <2>1, <2>2, SlotsApart
<1>6. findInDirectory(disk[b], disk[b][i].name) = i
  BY <1>5, Search
<1>7. disk[b][i].name \in PathNames /\ disk[b][i].name \notin NoNames \cup DotNames
  <2>1. <<b, i>> \in Places
    BY <1>2 DEF Places
  <2>2. ~disk[b][i].inUse <=> disk[b][i].name \in {"", "NULL"}
    BY <1>1, <2>1 DEF DiskInv, TablesInv, Entry
  <2>3. disk \in [Blocks -> DirTables]
    BY <1>1 DEF DiskInv, TablesInv
  <2>4. disk[b][i] \in DirEntries
    BY <1>2, <2>3 DEF DirTables
  <2>5. disk[b][i].name \in Texts
    BY <2>4 DEF DirEntries
  <2> QED
    BY <2>2, <2>5 DEF Names, Texts, NoNames, DotNames
<1> QED
  BY <1>4, <1>6, <1>7

\* parsePath of the names that lead to a directory, as Walk does, finds it.
LEMMA WalkedPath ==
    ASSUME Ready, UniqueNames(TreeOn(disk)), NEW p, Walkable(p), p.abs, p.names # <<>>,
           NEW r, r = parsePath(p), NEW here, Walk(TreeOn(disk), p.names) = {here}
    PROVE  /\ r.code = 0 /\ r.index \in Slots
           /\ r.table[r.index].isDir /\ r.table[r.index].start = here
<1> DEFINE n == Len(p.names) - 1
           tree1 == TreeOn(disk)
<1>1. PICK at : ParsesBy(p, r, at)
  BY ParsedBy
<1>2. /\ n \in Nat
      /\ at[0] = FirstTable(p) /\ \A k \in 0 .. n - 1 : at[k + 1] = EnterTable(at[k], p.names[k + 1])
      /\ r.code = at[n].code /\ r.table = at[n].table
      /\ r.index = findInDirectory(at[n].table, Last(p.names))
  BY <1>1 DEF ParsesBy
<1>3. PICK wt : WalksBy(tree1, p.names, wt)
  BY WalkOn DEF Walkable
<1>4. Len(p.names) = n + 1 /\ Last(p.names) = p.names[n + 1]
  BY DEF Last, Walkable
<1>5. /\ wt[0] = {rootStart} /\ Walk(tree1, p.names) = wt[n + 1]
      /\ \A k \in 0 .. n : wt[k + 1] = Through(tree1, wt[k], p.names[k + 1])
  BY <1>2, <1>3, <1>4 DEF WalksBy
<1> HIDE DEF n, tree1
<1> DEFINE Here(k) == /\ at[k].code = 0
                      /\ \E b \in DirsOn(disk) : at[k].table = disk[b] /\ wt[k] = {b}
           P == {k \in 0 .. n : wt[k] # {} => Here(k)}
<1>6. ASSUME NEW k \in 0 .. n, k \in P, wt[k + 1] # {}
      PROVE  \E i \in Slots :
               /\ at[k].code = 0 /\ i = findInDirectory(at[k].table, p.names[k + 1])
               /\ at[k].table[i].isDir /\ wt[k + 1] = {at[k].table[i].start}
               /\ at[k].table[i].start \in DirsOn(disk)
  <2>1. wt[k + 1] = Through(tree1, wt[k], p.names[k + 1])
    BY <1>5
  <2>2. PICK e \in tree1 : e.dir \in wt[k] /\ e.name = p.names[k + 1] /\ e.isDir
    BY <1>6, <2>1 DEF Through
  <2>3. PICK b \in DirsOn(disk) : at[k].code = 0 /\ at[k].table = disk[b] /\ wt[k] = {b}
    BY <1>6, <2>2
  <2>4. e.dir = b /\ e \in Kids(disk, b)
    BY <2>2, <2>3, TreeIs DEF tree1
  <2>5. PICK i \in Slots : Names(disk[b][i]) /\ e = Kid(b, disk[b][i])
    BY <2>4 DEF Kids, Listed, Names
  <2>6. disk[b][i].name = p.names[k + 1] /\ disk[b][i].isDir /\ disk[b][i].start = e.start
    BY <2>2, <2>5, KidFields
  <2>7. findInDirectory(disk[b], disk[b][i].name) = i
    BY <2>5, FoundAlone
  <2>8. \A f \in tree1 : f.dir \in wt[k] /\ f.name = p.names[k + 1] => f = e
    BY <2>2, <2>3, <2>4 DEF UniqueNames, tree1
  <2>9. wt[k + 1] = {e.start}
    BY <2>1, <2>2, <2>8 DEF Through
  <2>10. e.start \in DirsOn(disk)
    BY <2>2, <2>4, ReachedKids DEF Ready
  <2> QED
    BY <2>3, <2>6, <2>7, <2>9, <2>10
<1>7. 0 \in P
  <2>1. at[0].table = root /\ at[0].code = 0
    BY <1>2 DEF FirstTable
  <2>2. root = disk[rootStart] /\ rootStart \in DirsOn(disk)
    BY ReachedKids DEF Ready, CachesOn
  <2> QED
    BY <1>2, <1>5, <2>1, <2>2
<1>8. ASSUME NEW k \in 0 .. n - 1, k \in P PROVE k + 1 \in P
  <2>1. k + 1 \in 0 .. n /\ k \in 0 .. n
    BY <1>2
  <2> SUFFICES ASSUME wt[k + 1] # {} PROVE Here(k + 1)
    BY <2>1
  <2>2. PICK i \in Slots :
               /\ at[k].code = 0 /\ i = findInDirectory(at[k].table, p.names[k + 1])
               /\ at[k].table[i].isDir /\ wt[k + 1] = {at[k].table[i].start}
               /\ at[k].table[i].start \in DirsOn(disk)
    <3> HIDE DEF P
    <3> QED
      BY <1>6, <1>8, <2>1
  <2>3. at[k + 1] = EnterTable(at[k], p.names[k + 1]) /\ i # -1
    BY <1>2, <2>2, Sizes
  <2>4. at[k + 1] = [code |-> 0, ref |-> "copy", table |-> disk[at[k].table[i].start]]
    BY <2>2, <2>3 DEF EnterTable
  <2> QED
    BY <2>2, <2>4
<1>9. n \in P
  <2> HIDE DEF P
  <2>1. 0 .. n \subseteq P
    BY <1>2, <1>7, <1>8, BoundedInduction
  <2> QED
    BY <1>2, <2>1
<1>10. n \in 0 .. n /\ wt[n + 1] = {here} /\ wt[n + 1] # {}
  <2>1. n \in 0 .. n
    BY <1>2
  <2>2. Walk(tree1, p.names) = {here}
    BY DEF tree1
  <2> QED
    BY <1>5, <2>1, <2>2
<1>11. PICK i \in Slots :
               /\ at[n].code = 0 /\ i = findInDirectory(at[n].table, p.names[n + 1])
               /\ at[n].table[i].isDir /\ wt[n + 1] = {at[n].table[i].start}
               /\ at[n].table[i].start \in DirsOn(disk)
  <2> HIDE DEF P
  <2> QED
    BY <1>6, <1>9, <1>10
<1> QED
  BY <1>2, <1>4, <1>10, <1>11

\* What is found of a name of the current directory.
LEMMA LineFaithful ==
    ASSUME SafeUse, Ready, UniqueNames(TreeOn(disk)), cwdTable[0].start \in DirsOn(disk),
           NEW i \in Slots, NEW e, e = disk[cwdTable[0].start][i], Names(e)
    PROVE  Line(e.name) = [name |-> e.name, isDir |-> e.isDir, size |-> e.size]
<1> DEFINE b == cwdTable[0].start
           p == Relative(e.name)
           r == parsePath(p)
<1>1. /\ findInDirectory(disk[b], disk[b][i].name) = i
      /\ disk[b][i].name \in PathNames /\ disk[b][i].name \notin NoNames \cup DotNames
      /\ Kid(b, disk[b][i]) \in TreeOn(disk)
  BY FoundAlone
<1>2. cwdTable = disk[b]
  <2>1. IsDirectory(disk, rootStart) /\ root = disk[rootStart] /\ root[0].start = rootStart
    BY DEF Ready, CachesOn, DiskInv, DirectoriesInv, IsDirectory, DirEntry
  <2> QED
    BY <2>1 DEF Ready, CachesOn, cwdTable
<1>3. p.names = <<e.name>> /\ p.abs = FALSE
  BY DEF Relative
<1> HIDE DEF p, r
<1>4. p.names # <<>> /\ Len(p.names) = 1 /\ Last(p.names) = e.name
  BY <1>3 DEF Last
<1>5. Walkable(p)
  <2>1. PathNames \cap NoNames = {}
    BY DEF SafeUse, NoNames
  <2>2. p.names \in Seq(PathNames)
    <3>1. e.name \in PathNames
      BY <1>1
    <3> HIDE DEF b
    <3> QED
      BY <1>3, <3>1
  <2> QED
    BY <2>1, <2>2 DEF Walkable
<1>6. r = parsePath(p)
  BY DEF r
<1>7. PICK at : ParsesBy(p, r, at)
  BY <1>4, <1>5, <1>6, ParsedBy
<1>8. /\ at[0] = FirstTable(p) /\ r.code = at[0].code /\ r.table = at[0].table
      /\ r.index = findInDirectory(at[0].table, e.name)
  BY <1>4, <1>7 DEF ParsesBy
<1>9. at[0].code = 0 /\ at[0].table = cwdTable
  BY <1>3, <1>8 DEF FirstTable, cwdTable
<1>10. r.code = 0 /\ r.table = disk[b] /\ r.index = i /\ i >= 0
  BY <1>1, <1>2, <1>8, <1>9, Sizes
<1>11. r.table[r.index] = e
  BY <1>10
<1>12. e.isDir \in BOOLEAN
  <2>1. DiskInv(vol.fat, disk)
    BY DEF Ready
  <2>2. b \in Blocks /\ disk \in [Blocks -> DirTables]
    BY <2>1, ReachedDirectories DEF DiskInv, TablesInv
  <2>3. e \in DirEntries
    BY <2>2 DEF DirTables
  <2> QED
    BY <2>3 DEF DirEntries
<1>13. fs_isDir(p) = e.isDir
  <2> HIDE DEF b
  <2> QED
    BY <1>6, <1>10, <1>11, <1>12 DEF fs_isDir
<1>14. fs_stat(p) = e.size
  <2> HIDE DEF b
  <2> QED
    BY <1>6, <1>10, <1>11, Sizes DEF fs_stat
<1> QED
  BY <1>13, <1>14 DEF Line, p

\* The copy that ls without a path works on.
LEMMA CurrentOpened ==
    ASSUME SafeUse, Ready, UniqueNames(TreeOn(disk)), NEW b, Walk(TreeOn(disk), cwdPath) = {b}
    PROVE  lsCurrent = displayFiles(Copy(disk[b], 0))
<1> DEFINE p == [abs |-> TRUE, names |-> cwdPath]
           r == parsePath(p)
           load(e) == [directory |-> disk[e.start], dirEntryPosition |-> 0]
<1>1. p.abs = TRUE /\ p.names = cwdPath /\ r = parsePath(p)
  OBVIOUS
<1>2. fs_opendir(p) = CASE r.code # 0 \/ r.index = -1 -> <<>>
          [] r.code = 0 /\ r.index = -2 -> <<load(root[0])>>
          [] r.code = 0 /\ r.index >= 0 /\ r.table[r.index].isDir -> <<load(r.table[r.index])>>
          [] OTHER -> <<>>
  BY DEF fs_opendir
<1>3. lsCurrent = IF fs_opendir(p) = <<>> THEN <<>> ELSE displayFiles(fs_opendir(p)[1])
  BY DEF lsCurrent
<1>4. CASE cwdPath = <<>>
  <2>1. b = rootStart
    BY <1>4, WalkNowhere
  <2>2. r.code = 0 /\ r.index = -2
    BY <1>4 DEF parsePath
  <2>3. root[0].start = rootStart
    BY DEF Ready, CachesOn, DiskInv, DirectoriesInv, IsDirectory, DirEntry
  <2> HIDE DEF p, r
  <2>4. fs_opendir(p) = <<load(root[0])>>
    BY <1>2, <2>2
  <2>5. fs_opendir(p) # <<>> /\ fs_opendir(p)[1] = Copy(disk[b], 0)
    BY <2>1, <2>3, <2>4 DEF Copy
  <2> QED
    BY <1>3, <2>5
<1>5. CASE cwdPath # <<>>
  <2>1. Walkable(p)
    <3>1. PathNames \cap NoNames = {}
      BY DEF SafeUse, NoNames
    <3>2. cwdPath \in Seq(PathNames)
      <4>1. cwdPath \in Seq(PathNames \ DotNames)
        BY DEF Ready
      <4>2. Len(cwdPath) \in Nat /\ cwdPath \in [1 .. Len(cwdPath) -> PathNames]
        BY <4>1
      <4> QED
        BY <4>2
    <3> QED
      BY <3>1, <3>2 DEF Walkable
  <2> HIDE DEF p, r
  <2>2. p.abs /\ p.names # <<>> /\ Walk(TreeOn(disk), p.names) = {b}
    BY <1>1, <1>5
  <2>3. /\ r.code = 0 /\ r.index \in Slots
        /\ r.table[r.index].isDir /\ r.table[r.index].start = b
    BY <1>1, <2>1, <2>2, WalkedPath
  <2>4. r.index # -1 /\ r.index # -2 /\ r.index >= 0
    BY <2>3, Sizes
  <2>5. fs_opendir(p) = <<load(r.table[r.index])>>
    BY <1>2, <2>3, <2>4
  <2>6. fs_opendir(p) # <<>> /\ fs_opendir(p)[1] = Copy(disk[b], 0)
    BY <2>3, <2>5 DEF Copy
  <2> QED
    BY <1>3, <2>6
<1> QED
  BY <1>4, <1>5

\* The names of a directory are as many as its entries.
LEMMA ListedOnce ==
    ASSUME NEW fat, NEW d, DiskInv(fat, d), NEW b \in Blocks, IsFiniteSet(Visible(d[b]))
    PROVE  /\ Listed(d[b]) = {d[b][i] : i \in Visible(d[b])}
           /\ Cardinality(Listed(d[b])) = Cardinality(Visible(d[b]))
<1> DEFINE V == Visible(d[b])
           L == Listed(d[b])
           f == [i \in V |-> d[b][i]]
<1>1. L = {d[b][i] : i \in V}
  BY DEF Listed, Visible, Names
<1>2. \A i, j \in V : d[b][i] = d[b][j] => i = j
  BY SlotsApart DEF Visible
<1>3. f \in Bijection(V, L)
  BY <1>1, <1>2 DEF Bijection, Injection, Surjection, IsInjective
<1>4. ExistsBijection(V, L)
  BY <1>3 DEF ExistsBijection
<1>5. Cardinality(L) = Cardinality(V)
  BY <1>4, FS_Bijection
<1> QED
  BY <1>1, <1>5

\* "ls -l" shows the current directory as it is on the disk.
LEMMA ListFaithful ==
    ASSUME SafeUse, TInv
    PROVE  LongListFaithful
<1> DEFINE b == cwdTable[0].start
           t == disk[b]
<1> SUFFICES ASSUME pending = <<>>, b \in DirsOn(disk)
             PROVE  Range(lsCurrent) = LinesOf(t) /\ Len(lsCurrent) = Cardinality(Listed(t))
  BY DEF LongListFaithful, ReachableDirs
<1>1. IInv /\ UniqueNames(TreeOn(disk)) /\ Walk(TreeOn(disk), cwdPath) = {b}
  BY DEF TInv, Tree, CwdFaithful, ReachableDirs
<1>2. /\ Ready /\ Settled = disk
      /\ Tidy(vol) /\ \A c \in RootRun : vol.fat[c] # BLOCK_FREE
      /\ ~Crashes => \A x \in Named(disk) : Holds(vol.fat, Entry(disk, x), stored)
      /\ \A s \in stored : s \in Blocks /\ vol.fat[s] # BLOCK_FREE
      /\ cwdIsRoot => cwdPath = <<>>
  BY <1>1, BetweenOperations
<1>3. DiskInv(vol.fat, disk) /\ b \in Blocks
  BY <1>2, ReachedDirectories DEF Ready
<1>4. \A i \in Visible(t) : Line(t[i].name) = [name |-> t[i].name, isDir |-> t[i].isDir, size |-> t[i].size]
  BY <1>1, <1>2, LineFaithful DEF Visible
<1> HIDE DEF b
<1>5. lsCurrent = displayFiles(Copy(t, 0))
  BY <1>1, <1>2, CurrentOpened
<1> HIDE DEF t
<1>6. /\ Range(lsCurrent) = {Line(t[i].name) : i \in Visible(t)}
      /\ IsFiniteSet(Visible(t)) /\ Len(lsCurrent) = Cardinality(Visible(t))
  BY <1>5, AllDisplayed
<1>7. /\ Listed(t) = {t[i] : i \in Visible(t)}
      /\ Cardinality(Listed(t)) = Cardinality(Visible(t))
  BY <1>3, <1>6, ListedOnce DEF t
<1>8. {Line(t[i].name) : i \in Visible(t)} = LinesOf(t)
  <2>1. LinesOf(t) = {[name |-> t[i].name, isDir |-> t[i].isDir, size |-> t[i].size] : i \in Visible(t)}
    BY <1>7 DEF LinesOf
  <2> QED
    BY <1>4, <2>1
<1> QED
  BY <1>6, <1>7, <1>8

\* Between operations "ls -l" shows every entry of the current directory once,
\* with its own kind and size, although it looks each name up again in the
\* table kept in memory (displayFiles, fsshell.c:108; fs_stat, mfs.c:690).
THEOREM ListIsFaithful ==
    ASSUME SafeUse
    PROVE  TSpec => []LongListFaithful
<1>1. TInv => LongListFaithful
  BY ListFaithful
<1> QED
  BY <1>1, TreeIsKept, PTL
=============================================================================
