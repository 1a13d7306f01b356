------------------------------ MODULE Directory ------------------------------
(***************************************************************************)
(* The directory layer: fs_mkdir, fs_rmdir, fs_delete, fs_mv, fs_setcwd    *)
(* and path resolution of mfs.c, createDirectory, and the parts of b_open  *)
(* and b_write that change a directory.  Calls of the allocator are single *)
(* steps (FatOps; FreeSpace refines them).                                 *)
(*                                                                         *)
(* A directory is a table of entries.  The program keeps two of them in    *)
(* memory, the root and the current directory, and loads every other one   *)
(* from the disk each time a path goes through it; each such copy is       *)
(* private.  An operation changes one or two tables in memory and writes   *)
(* them back whole.  Here an operation is one action that changes memory   *)
(* and the allocation table and queues its writes, in the code's order;    *)
(* Flush performs the next one.  The program is single threaded: nothing   *)
(* starts while writes are queued.                                         *)
(*                                                                         *)
(* Entries keep the fields decisions depend on; sizes are in blocks.       *)
(***************************************************************************)
EXTENDS FatOps, SequencesExt

CONSTANTS
    MaxEntries,  \* MAX_ENTRIES: entries of a table
    RootBlocks,  \* blocks of the root directory
    DirBlocks,   \* blocks of every other directory
    Operations,  \* the calls the user makes
    Paths,       \* the path names passed to them
    Crashes,     \* whether the program can die between two writes
    Misused      \* the uses outside the guarantees, see below

ASSUME DirectoryAssumption ==
    /\ MaxEntries \in Nat \ {0, 1}
    /\ {RootBlocks, DirBlocks} \subseteq Nat \ {0}
    /\ FirstFreeBlock + RootBlocks <= TotalBlocks
    /\ Covered
    /\ Operations \subseteq {"mkdir", "rm", "create", "store", "move", "cd"}
    /\ Crashes \in BOOLEAN
    /\ Misused \subseteq {"alias", "within", "movedir", "dots", "uncached", "full"}

VARIABLES
    vol,        \* allocation table and free head
    disk,       \* the table stored from each block on
    root,       \* rootDirectory
    cwd,        \* currentWorkingDirectory, when it is a table of its own
    cwdIsRoot,  \* currentWorkingDirectory = rootDirectory
    cwdPath,    \* currentWorkingPath, as a sequence of names
    pending,    \* the directory writes the operation still has to issue
    stored      \* ghost: the files whose content has been copied in

vars == <<vol, disk, root, cwd, cwdIsRoot, cwdPath, pending, stored>>

-----------------------------------------------------------------------------
(* Tables.                                                                 *)

Slots     == 0 .. MaxEntries - 1
ZeroEntry == [name |-> "", isDir |-> FALSE, size |-> 0, start |-> 0, inUse |-> FALSE]
ZeroTable == [i \in Slots |-> ZeroEntry]

DirEntry(name, size, start) ==
    [name |-> name, isDir |-> TRUE, size |-> size, start |-> start, inUse |-> TRUE]
FileEntry(name, size, start) ==
    [name |-> name, isDir |-> FALSE, size |-> size, start |-> start, inUse |-> TRUE]

\* Mutant: ".." states the size of the new directory.
newDirectoryOwnSize(start, size, parent) ==
    [ZeroTable EXCEPT ![0] = DirEntry(".", size, start),
                      ![1] = DirEntry("..", size, parent.start)]

\* createDirectory: a table with "." and "..".
newDirectory(start, size, parent) ==
    [ZeroTable EXCEPT ![0] = DirEntry(".", size, start),
                      ![1] = [parent EXCEPT !.name = "..", !.inUse = TRUE]]

\* The first slot with the name: slots that are not in use match as well.
findInDirectory(table, name) ==
    LET hits == {i \in Slots : table[i].name = name}
    IN  IF hits = {} THEN -1 ELSE Min(hits)

FreeSlot(table) ==
    LET free == {i \in Slots : ~table[i].inUse} IN IF free = {} THEN -1 ELSE Min(free)

\* The cached tables are in buffers of MAX_ENTRIES entries, as many blocks as
\* every directory but the root has.  A private copy gets the size that the
\* entry it is loaded through states.
CacheRoom == DirBlocks

\* A table is written to the place and at the size its first entry states,
\* whatever the size of its buffer is.  What is behind the slots, in blocks of
\* the root that no call looks at, has no content here.
Save(table) ==
    IF table[0].size = 0 THEN <<>> ELSE <<[at |-> table[0].start, table |-> table]>>

\* The formatted volume has room for the root, which gets the first blocks of it.
rootStart == FirstFreeBlock
cwdTable  == IF cwdIsRoot THEN root ELSE cwd

-----------------------------------------------------------------------------
(* Paths: a flag for a leading slash and the names between slashes.        *)

\* The table a path starts from.  ref says where a table lives: in a cache of
\* the program or in a private copy.
FirstTable(p) ==
    IF p.abs \/ cwdIsRoot THEN [code |-> 0, ref |-> "root", table |-> root]
                          ELSE [code |-> 0, ref |-> "cwd", table |-> cwd]

\* The table below: a copy from the disk.  Code -2 leaves the result unset.
EnterTable(at, name) ==
    LET i == findInDirectory(at.table, name)
    IN  CASE at.code # 0 -> at
          [] at.code = 0 /\ i = -1 -> [code |-> -2, ref |-> "copy", table |-> ZeroTable]
          [] at.code = 0 /\ i # -1 /\ ~at.table[i].isDir ->
               [code |-> -1, ref |-> "copy", table |-> ZeroTable]
          [] OTHER -> [code |-> 0, ref |-> "copy", table |-> disk[at.table[i].start]]

\* parsePath: the table that holds the last name, and its slot.  Index -2
\* stands for the root itself.
parsePath(p) ==
    LET n == Len(p.names) - 1
        at[k \in 0 .. n] == IF k = 0 THEN FirstTable(p) ELSE EnterTable(at[k - 1], p.names[k])
    IN  IF p.names = <<>>
        THEN [code |-> IF p.abs THEN 0 ELSE -1, ref |-> "root", table |-> root,
              index |-> -2, name |-> ""]
        ELSE [code |-> at[n].code, ref |-> at[n].ref, table |-> at[n].table,
              index |-> findInDirectory(at[n].table, Last(p.names)), name |-> Last(p.names)]

\* "." and ".." are resolved on the names alone.
Resolve(names, token) ==
    CASE token = "."  -> names
      [] token = ".." -> IF names = <<>> THEN names ELSE Front(names)
      [] OTHER        -> Append(names, token)

normalizePathname(p) ==
    LET done[k \in 0 .. Len(p.names)] ==
          IF k = 0 THEN IF p.abs THEN <<>> ELSE cwdPath ELSE Resolve(done[k - 1], p.names[k])
    IN  done[Len(p.names)]

-----------------------------------------------------------------------------
(* Uses the guarantees do not cover: each run says which ones it allows.   *)
(*   alias     a cached directory is changed through another path          *)
(*   within    a rename inside a directory that is not cached              *)
(*   movedir   a directory is moved                                        *)
(*   dots      "." or ".." is removed or moved                             *)
(*   uncached  content is copied into a directory that is not cached       *)
(*   full      a file is created on a full volume                          *)

Cached == {root[0].start, cwdTable[0].start}

Reaches(r) ==
    /\ pending = <<>>
    /\ r.code = 0
    /\ "alias" \in Misused \/ r.ref # "copy" \/ r.table[0].start \notin Cached

Removable(r) == "dots" \in Misused \/ r.name \notin {".", ".."}

\* Mutant: the current directory gets a table of its own.
RememberCopies(ref, table) ==
    /\ root' = IF ref = "root" THEN table ELSE root
    /\ cwd'  = table

Remember(ref, table) ==
    /\ root' = IF ref = "root" THEN table ELSE root
    /\ cwd'  = IF ref = "cwd" THEN table ELSE cwd

-----------------------------------------------------------------------------
(* Operations.                                                             *)

\* Mutant: the parent is written before the new table.
LinkDirectoryFirst(new, parent) == Save(parent) \o Save(new)
LinkDirectory(new, parent) == Save(new) \o Save(parent)

\* fs_mkdir.  The blocks are allocated, and the new table written, before
\* the parent is searched for a slot.  createDirectory compares an unsigned
\* start with 0, so a failed allocation passes there; the write to block
\* 2^64 - 1 that follows is refused by the driver, and fs_mkdir ends.
Mkdir(p) ==
    LET r == parsePath(p)
        a == allocateBlocks(vol, DirBlocks)
        i == FreeSlot(r.table)
        new == newDirectory(a.start, DirBlocks, r.table[0])
        parent == [r.table EXCEPT ![i] = DirEntry(r.name, DirBlocks, a.start)]
    IN  /\ Reaches(r) /\ r.index = -1
        /\ vol' = a.vol
        /\ \/ a.start \in {0, NoBlock} /\ UNCHANGED <<root, cwd, pending>>
           \/ /\ a.start \notin {0, NoBlock} /\ i = -1
              /\ pending' = Save(new)
              /\ UNCHANGED <<root, cwd>>
           \/ /\ a.start \notin {0, NoBlock} /\ i # -1
              /\ pending' = LinkDirectory(new, parent)
              /\ Remember(r.ref, parent)
        /\ UNCHANGED <<disk, cwdIsRoot, cwdPath, stored>>

\* Mutant: the parent is not written back.
WriteParentSkipped(table) == <<>>
WriteParent(table) == Save(table)

\* Mutant: the blocks of the parent are released.
StorageParent(r) == [start |-> r.table[0].start, size |-> r.table[0].size]
Storage(r) == r.table[r.index]

\* What fs_rmdir and fs_delete do once they accept: the blocks are released,
\* then the slot is cleared, then the table is written back.
RemoveEntry(r, left) ==
    LET parent == [r.table EXCEPT ![r.index] = left]
    IN  /\ Reaches(r) /\ r.index >= 0
        /\ vol' = releaseBlocks(vol, Storage(r).start, Storage(r).size)
        /\ pending' = WriteParent(parent)
        /\ Remember(r.ref, parent)
        /\ UNCHANGED <<disk, cwdIsRoot, cwdPath, stored>>

\* Mutant: no check that the directory is empty.
IsEmptyIgnored(table) == TRUE
IsEmpty(table) == \A i \in Slots \ {0, 1} : ~table[i].inUse

\* fs_rmdir: the directory must be empty behind its first two slots.
Rmdir(p) ==
    LET r == parsePath(p)
    IN  /\ RemoveEntry(r, ZeroEntry)
        /\ Removable(r)
        /\ r.table[r.index].isDir
        /\ IsEmpty(disk[r.table[r.index].start])

\* fs_delete: the slot is freed under the name "NULL".
Delete(p) ==
    LET r == parsePath(p)
    IN  /\ RemoveEntry(r, [ZeroEntry EXCEPT !.name = "NULL"])
        /\ ~r.table[r.index].isDir

fs_isDir(p)  == LET r == parsePath(p) IN r.code = 0 /\ r.index >= 0 /\ r.table[r.index].isDir
fs_isFile(p) == LET r == parsePath(p) IN r.code = 0 /\ r.index >= 0 /\ ~r.table[r.index].isDir

\* rm of the shell asks twice what the path is, and calls one of the two.
Rm(p) == \/ fs_isDir(p) /\ Rmdir(p)
         \/ ~fs_isDir(p) /\ fs_isFile(p) /\ Delete(p)

\* Mutant: the allocation is not recorded.
TakeBlocksUnrecorded(a) == vol' = vol
TakeBlocks(a) == vol' = a.vol

\* b_open with O_CREAT on a new name.  A failed allocation is not noticed.
NewFile(r) ==
    LET a == allocateBlocks(vol, 1)
        i == FreeSlot(r.table)
    IN  /\ r.index = -1 /\ i # -1
        /\ "full" \in Misused \/ a.start # NoBlock
        /\ TakeBlocks(a)
        /\ UNCHANGED <<disk, cwdIsRoot, cwdPath>>

WithNewFile(r, size) ==
    [r.table EXCEPT ![FreeSlot(r.table)] = FileEntry(r.name, size, allocateBlocks(vol, 1).start)]

\* touch: open, create, close.
Create(p) ==
    LET r == parsePath(p)
        parent == WithNewFile(r, 0)
    IN  /\ Reaches(r) /\ NewFile(r)
        /\ pending' = Save(parent)
        /\ Remember(r.ref, parent)
        /\ UNCHANGED stored

\* Mutant: the new size is not written.
SaveSizeSkipped(r, table) == <<>>
SaveSize(r, table) == IF r.ref = "copy" THEN <<>> ELSE Save(table)

\* cp2fs of at most one block: open with O_CREAT and O_TRUNC, write, close.
\* b_open writes the directory with size 0; b_write writes it again with the
\* new size, if the entry lies in one of the two cached tables.
CopyInto(r, opened, written, start) ==
    /\ "uncached" \in Misused \/ r.ref # "copy"
    /\ pending' = Save(opened) \o SaveSize(r, written)
    /\ Remember(r.ref, written)
    /\ stored' = stored \cup {start}

StoreNew(p) ==
    LET r == parsePath(p)
    IN  /\ Reaches(r) /\ NewFile(r)
        /\ CopyInto(r, WithNewFile(r, 0), WithNewFile(r, 1), allocateBlocks(vol, 1).start)

Store(p) ==
    LET r == parsePath(p)
    IN  /\ Reaches(r) /\ r.index >= 0 /\ ~r.table[r.index].isDir
        /\ CopyInto(r, [r.table EXCEPT ![r.index].size = 0],
                       [r.table EXCEPT ![r.index].size = 1], r.table[r.index].start)
        /\ UNCHANGED <<vol, disk, cwdIsRoot, cwdPath>>

\* Mutant: the source stays in use.
FreeSourceKept(table, i) == table

\* fs_mv: the entry is copied to a free slot of the destination, then freed
\* under the name "NULL"; the source table is written first.
FreeSource(table, i) == [table EXCEPT ![i] = [@ EXCEPT !.inUse = FALSE, !.name = "NULL"]]

Move(p, q) ==
    LET r == parsePath(p)
        s == parsePath(q)
        i == FreeSlot(s.table)
        placed    == [s.table EXCEPT ![i] = [r.table[r.index] EXCEPT !.name = s.name, !.inUse = TRUE]]
        sameTable == r.ref = s.ref /\ r.ref # "copy"
        source    == FreeSource(IF sameTable THEN placed ELSE r.table, r.index)
        dest      == IF sameTable THEN source ELSE placed
        Cache(ref, old) == CASE s.ref = ref -> dest
                             [] s.ref # ref /\ r.ref = ref -> source
                             [] OTHER -> old
    IN  /\ Reaches(r) /\ r.index >= 0 /\ Removable(r)
        /\ Reaches(s) /\ s.index = -1 /\ i # -1
        /\ "movedir" \in Misused \/ ~r.table[r.index].isDir
        /\ "within" \in Misused \/ sameTable \/ r.table[0].start # s.table[0].start
        /\ pending' = Save(source) \o Save(dest)
        /\ root' = Cache("root", root)
        /\ cwd' = Cache("cwd", cwd)
        /\ UNCHANGED <<vol, disk, cwdIsRoot, cwdPath, stored>>

\* Mutant: the path is recorded as it was typed.
NewPathRaw(p) == (IF p.abs THEN <<>> ELSE cwdPath) \o p.names
NewPath(p) == normalizePathname(p)

\* fs_setcwd: the path is made absolute first, and the table read anew.
Setcwd(p) ==
    LET n == normalizePathname(p)
        r == parsePath([abs |-> TRUE, names |-> n])
    IN  /\ pending = <<>> /\ r.code = 0
        /\ \/ r.index = -2 /\ cwdIsRoot' = TRUE /\ cwd' = ZeroTable
           \/ /\ r.index >= 0 /\ r.table[r.index].isDir
              /\ cwdIsRoot' = FALSE
              /\ cwd' = disk[r.table[r.index].start]
        /\ cwdPath' = NewPath(p)
        /\ UNCHANGED <<vol, disk, root, pending, stored>>

-----------------------------------------------------------------------------
(* The disk, and the life of the program.                                  *)

\* The first k entries of a write have reached disk d.
Written(d, w, k) == [d EXCEPT ![w.at] = [i \in Slots |-> IF i < k THEN w.table[i] ELSE @[i]]]

Flush ==
    /\ pending # <<>>
    /\ disk' = Written(disk, Head(pending), MaxEntries)
    /\ pending' = Tail(pending)
    /\ UNCHANGED <<vol, root, cwd, cwdIsRoot, cwdPath, stored>>

\* Mutant: the root is not read again.
LoadRootSkipped == root' = root
\* The first CacheRoom blocks of the root are read: all of its slots.
LoadRoot == root' = disk'[rootStart]

\* The program ends and is started again: initFileSystem finds the signature
\* and loads the root.  A crash can cut the write in progress.  This is also
\* what a path with a missing inner name can lead to: fs_isFile, fs_delete,
\* fs_setcwd, b_open and fs_mv then use an unset result, which the process
\* survives with an error or not at all.
Restart ==
    /\ \/ pending = <<>> /\ UNCHANGED disk
       \/ /\ pending # <<>> /\ Crashes
          /\ \E k \in 0 .. MaxEntries : disk' = Written(disk, Head(pending), k)
    /\ LoadRoot
    /\ cwd' = ZeroTable /\ cwdIsRoot' = TRUE /\ cwdPath' = <<>>
    /\ pending' = <<>>
    /\ UNCHANGED <<vol, stored>>

\* A formatted volume, mounted.
Init ==
    /\ vol = allocateBlocks(initFreeSpace, RootBlocks).vol
    /\ root = newDirectory(rootStart, RootBlocks, DirEntry("", RootBlocks, rootStart))
    /\ disk = [b \in Blocks |-> IF b = rootStart THEN root ELSE ZeroTable]
    /\ cwd = ZeroTable /\ cwdIsRoot = TRUE /\ cwdPath = <<>>
    /\ pending = <<>>
    /\ stored = {}

Next ==
    \/ "mkdir"  \in Operations /\ \E p \in Paths : Mkdir(p)
    \/ "rm"     \in Operations /\ \E p \in Paths : Rm(p)
    \/ "create" \in Operations /\ \E p \in Paths : Create(p)
    \/ "store"  \in Operations /\ \E p \in Paths : StoreNew(p) \/ Store(p)
    \/ "move"   \in Operations /\ \E p, q \in Paths : Move(p, q)
    \/ "cd"     \in Operations /\ \E p \in Paths : Setcwd(p)
    \/ Flush
    \/ Restart

Spec == Init /\ [][Next]_vars

-----------------------------------------------------------------------------
(* What the volume holds, read from the disk alone.                        *)

Listed(table) == {table[i] : i \in {j \in Slots : table[j].inUse /\ table[j].name \notin {".", ".."}}}

\* The directories that paths from the root reach, on a disk d.
DirsOn(d) ==
    LET below(D) == UNION {{e.start : e \in {f \in Listed(d[c]) : f.isDir}} : c \in D}
        within[k \in 0 .. TotalBlocks] ==
          IF k = 0 THEN {rootStart} ELSE LET D == within[k - 1] IN D \cup below(D)
    IN  within[TotalBlocks]

TreeOn(d) ==
    UNION {{[dir |-> c, name |-> e.name, isDir |-> e.isDir, start |-> e.start] :
              e \in Listed(d[c])} : c \in DirsOn(d)}

\* A slot, by block and number, and whether it names something.
Entry(d, x) == d[x[1]][x[2]]
Names(e)    == e.inUse /\ e.name \notin {".", ".."}

\* The blocks of an entry, those of a file that is empty included.
LastOf(e) == e.start + (IF e.size = 0 THEN 1 ELSE e.size) - 1
Run(e)    == e.start .. LastOf(e)
RootRun   == rootStart .. rootStart + RootBlocks - 1

ReachableDirs    == DirsOn(disk)
ReachableEntries == UNION {Listed(disk[d]) : d \in ReachableDirs}
Tree             == TreeOn(disk)

-----------------------------------------------------------------------------
(* Properties.                                                             *)

\* Types of the variables; the table of the current directory is unused
\* while it is the root's, and block 0, which NewFile takes for a failure, is
\* never free.
TypeOK ==
    /\ vol \in [fat : [Blocks -> Words], head : Words]
    /\ vol.fat[0] # BLOCK_FREE
    /\ \A t \in {root, cwd} \cup {disk[b] : b \in Blocks} :
         DOMAIN t = Slots /\ \A i \in Slots : t[i].start \in Words /\ t[i].size \in Nat
    /\ DOMAIN disk = Blocks
    /\ cwdIsRoot \in BOOLEAN /\ (cwdIsRoot => cwd = ZeroTable /\ cwdPath = <<>>)
    /\ \A k \in 1 .. Len(pending) : pending[k].at \in Blocks
    /\ stored \subseteq Words

\* Between operations the two tables the program keeps in memory (mfs.c:22)
\* are the ones on the disk: no operation works on stale entries.
CacheCoherent ==
    pending = <<>> => /\ root = disk[rootStart]
                      /\ cwdIsRoot \/ cwd = disk[cwd[0].start]

\* No block belongs to two entries that paths can reach, nor to one and to the
\* root: first blocks and all others (allocateBlocks with every operation that
\* copies or frees a start).
NoSharedBlocks ==
    LET named == {x \in ReachableDirs \X Slots : Names(Entry(disk, x))}
        has(x) == IF Entry(disk, x).start = NoBlock THEN {} ELSE Run(Entry(disk, x))
    IN  /\ \A x \in named : has(x) \cap RootRun = {}
        /\ \A x, y \in named : x # y => has(x) \cap has(y) = {}

\* Between operations the blocks of every entry a path can reach are a
\* finished chain of the allocation table: what is named is not released.
EntriesHold ==
    pending = <<>> => \A e \in {f \in ReachableEntries : f.start # NoBlock} :
      LET last == e.start + (IF e.size = 0 THEN 1 ELSE e.size) - 1
      IN  /\ \A b \in e.start .. last - 1 : vol.fat[b] = b + 1
          /\ vol.fat[last] = BLOCK_RESERVED

\* ".." of a directory is the directory that names it, and "." is itself
\* (createDirectory.c:42): relative paths go where the tree says.
ParentLinks ==
    \A d \in ReachableDirs : \A e \in {f \in Listed(disk[d]) : f.isDir} :
      /\ disk[e.start][0].start = e.start
      /\ disk[e.start][1].name = ".." /\ disk[e.start][1].start = d

\* The directories that a sequence of names leads to from the root, in tree t.
Through(t, dirs, name) ==
    {e.start : e \in {f \in t : f.dir \in dirs /\ f.name = name /\ f.isDir}}

Walk(t, names) ==
    LET at[k \in 0 .. Len(names)] ==
          IF k = 0 THEN {rootStart} ELSE Through(t, at[k - 1], names[k])
    IN  at[Len(names)]

\* The directory named by pwd, and no other, is the one relative paths start
\* from, as long as it has not been removed (fs_setcwd, mfs.c:371).
CwdFaithful ==
    cwdTable[0].start \in ReachableDirs => Walk(Tree, cwdPath) = {cwdTable[0].start}

\* Content copied into a file is still there, in the size its entry has on
\* the disk, once the copy is complete and as long as the file is listed.
SizesKept ==
    pending = <<>> => \A e \in ReachableEntries : e.start \in stored => e.size > 0

\* A private copy of a directory, of the root as well, is loaded into a buffer
\* of the size that a name or ".." states for it, the current directory into one
\* of CacheRoom blocks, and both are saved at the size that the directory's own
\* first entry states (mfs.c:83, 436, 666): that is never larger.
CopiesFit ==
    /\ ~cwdIsRoot => cwd[0].size <= CacheRoom
    /\ \A d \in ReachableDirs : \A i \in {j \in Slots : disk[d][j].inUse /\ disk[d][j].isDir} :
         disk[disk[d][i].start][0].size <= disk[d][i].size

\* The same with the cached root, which is loaded on every start (fsInit.c:73).
BuffersFit == root[0].size <= CacheRoom /\ CopiesFit

\* Every entry a path can reach has a first block.
EntriesHaveBlocks == \A e \in ReachableEntries : e.start \in DataBlocks

-----------------------------------------------------------------------------
(* The inductive invariant behind TypeOK, CacheCoherent, NoSharedBlocks,   *)
(* EntriesHold, ParentLinks, SizesKept and CopiesFit.  It speaks of every  *)
(* table on the disk, whether a path leads to it or not, and of every      *)
(* state of the disk that the queued writes lead through.                  *)

PathNames == UNION {{p.names[k] : k \in 1 .. Len(p.names)} : p \in Paths}

\* The uses it holds for.  With crashes a name can outlive the release of its
\* blocks and be removed again.  That is harmless for a single block, while the
\* second release of four or more can leave a free block in front of the head.
SafeUse ==
    /\ \A p \in Paths : p.abs \in BOOLEAN /\ p.names \in Seq(PathNames)
    /\ PathNames \cap {"", "NULL"} = {}
    /\ Misused = {}
    /\ Crashes => "move" \notin Operations /\ ("rm" \in Operations => DirBlocks = 1)

Texts      == PathNames \cup {"", "NULL", ".", ".."}
DirEntries == [name : Texts, isDir : BOOLEAN, size : Nat, start : Words, inUse : BOOLEAN]
DirTables  == [Slots -> DirEntries]
Places     == Blocks \X Slots

\* The slots of disk d that name something.
Named(d) == {x \in Places : Names(Entry(d, x))}

\* The table at block b is a directory: "." is itself, ".." is something.
IsDirectory(d, b) ==
    /\ d[b][0] = DirEntry(".", IF b = rootStart THEN RootBlocks ELSE DirBlocks, b)
    /\ d[b][1].name = ".." /\ d[b][1].isDir /\ d[b][1].inUse

\* Free blocks are the last ones, the head is in front of them.
VolumeInv ==
    /\ vol \in [fat : [Blocks -> Words], head : Words]
    /\ vol.head > 0
    /\ \A b, c \in Blocks : vol.fat[b] = BLOCK_FREE /\ b < c => vol.fat[c] = BLOCK_FREE
    /\ \A b \in Blocks : vol.fat[b] = BLOCK_FREE => vol.head <= b /\ b \notin {0} \cup RootRun

\* Slots not in use, and no others, have names no path has, the names of dots are where
\* createDirectory puts them, and no table is in a free block.
TablesInv(fat, d) ==
    /\ d \in [Blocks -> DirTables]
    /\ \A b \in Blocks : fat[b] = BLOCK_FREE => d[b] = ZeroTable
    /\ \A x \in Places : ~Entry(d, x).inUse <=> Entry(d, x).name \in {"", "NULL"}
    /\ \A x \in Places : Entry(d, x).name \in {".", ".."} => x[2] \in {0, 1} /\ Entry(d, x).isDir

\* The parent of a directory is one.
DirectoriesInv(d) ==
    /\ IsDirectory(d, rootStart)
    /\ \A b \in Blocks : IsDirectory(d, b) =>
         /\ d[b][1].start \in Blocks /\ IsDirectory(d, d[b][1].start)
         /\ d[b][1].size = d[d[b][1].start][0].size

\* What entry e, in the directory at block b, may name.
MayName(fat, d, b, e) ==
    /\ Run(e) \subseteq Blocks
    /\ \A c \in Run(e) : fat[c] # BLOCK_FREE /\ c \notin {0} \cup RootRun
    /\ e.isDir => IsDirectory(d, e.start) /\ d[e.start][1].start = b /\ e.size = DirBlocks
    /\ ~e.isDir => e.size <= 1

\* What is named has blocks that are not free, and nothing else has them.
NamedInv(fat, d) ==
    /\ \A x \in Named(d) : MayName(fat, d, x[1], Entry(d, x))
    /\ \A x, y \in Named(d) : x # y => Run(Entry(d, x)) \cap Run(Entry(d, y)) = {}

DiskInv(fat, d) == TablesInv(fat, d) /\ DirectoriesInv(d) /\ NamedInv(fat, d)

\* Where a write can end, and the disks it can leave.
Cuts == IF Crashes THEN 0 .. MaxEntries ELSE {MaxEntries}

Writes == [at : Blocks, table : DirTables]

SafeWrite(fat, d, w) ==
    /\ w \in Writes
    /\ \A k \in Cuts : DiskInv(fat, Written(d, w, k))

\* Disk d when the first k writes of queue q are done.
DiskAfter(d, q, k) ==
    CASE k = 0 -> d
      [] k = 1 -> Written(d, q[1], MaxEntries)
      [] k = 2 -> Written(Written(d, q[1], MaxEntries), q[2], MaxEntries)

PendingInv ==
    /\ DiskInv(vol.fat, disk)
    /\ pending \in Seq(Writes) /\ Len(pending) <= 2
    /\ \A k \in 1 .. Len(pending) : SafeWrite(vol.fat, DiskAfter(disk, pending, k - 1), pending[k])

\* The disk when all of them are done: what is named is a finished chain, of
\* the size of its content, and the caches are on the disk.
Settled == DiskAfter(disk, pending, Len(pending))

ChainInv(fat, e) ==
    /\ \A b \in e.start .. LastOf(e) - 1 : fat[b] = b + 1
    /\ fat[LastOf(e)] = BLOCK_RESERVED

ChainsInv ==
    ~Crashes => \A x \in Named(Settled) : /\ ChainInv(vol.fat, Entry(Settled, x))
                                          /\ Entry(Settled, x).start \in stored => Entry(Settled, x).size > 0

StoredInv == stored \subseteq {b \in Blocks : vol.fat[b] # BLOCK_FREE}

CachesInv ==
    /\ root = Settled[rootStart]
    /\ cwdIsRoot \in BOOLEAN
    /\ cwdIsRoot => cwd = ZeroTable /\ cwdPath = <<>>
    /\ ~cwdIsRoot => LET c == cwd[0].start
                     IN  c \in Blocks \ {rootStart} /\ IsDirectory(Settled, c) /\ cwd = Settled[c]
    /\ cwdPath \in Seq(PathNames \ {".", ".."})

IInv == VolumeInv /\ PendingInv /\ ChainsInv /\ StoredInv /\ CachesInv
=============================================================================
