------------------------------- MODULE Listing -------------------------------
(***************************************************************************)
(* What ls shows: fs_opendir, fs_readdir, fs_stat of mfs.c and             *)
(* displayFiles, cmd_ls of fsshell.c.  None of them changes the file       *)
(* system, so they are operators over the state of Directory.  The names   *)
(* come from a copy of the directory on the disk, kinds and sizes from     *)
(* looking each name up again in the current directory.                    *)
(***************************************************************************)
EXTENDS Directory

\* Kept by a variable that was never set, or no directory.
Unset == -1

Relative(name) == [abs |-> FALSE, names |-> <<name>>]

\* The copy fs_opendir loads, and the position of the next fs_readdir.
fs_opendir(p) ==
    LET r == parsePath(p)
        load(e) == [directory |-> disk[e.start], dirEntryPosition |-> 0]
    IN  CASE r.code # 0 \/ r.index = -1                 -> <<>>
          [] r.code = 0 /\ r.index = -2                 -> <<load(root[0])>>
          [] r.code = 0 /\ r.index >= 0 /\ r.table[r.index].isDir -> <<load(r.table[r.index])>>
          [] OTHER                                      -> <<>>

\* Mutant: the listing ends at the first slot that is not in use.
NextInUseStops(dir) ==
    {i \in Slots : i = dir.dirEntryPosition /\ dir.directory[i].inUse}
\* The slots that fs_readdir can still return.
NextInUse(dir) ==
    {i \in Slots : i >= dir.dirEntryPosition /\ dir.directory[i].inUse}

\* The next entry's name, if there is one.
fs_readdir(dir) ==
    IF NextInUse(dir) = {} THEN [dir |-> dir, di |-> <<>>]
    ELSE LET i == Min(NextInUse(dir))
         IN  [dir |-> [dir EXCEPT !.dirEntryPosition = i + 1],
              di |-> <<dir.directory[i].name>>]

\* The size is left unset when the name is not found.
fs_stat(p) ==
    LET r == parsePath(p)
    IN  IF r.code # 0 \/ r.index < 0 THEN Unset ELSE r.table[r.index].size

Line(name) == [name |-> name, isDir |-> fs_isDir(Relative(name)), size |-> fs_stat(Relative(name))]

\* displayFiles with "-l": every name that does not start with a dot.
displayFiles(dir) ==
    LET visible(di) == IF di[1] \in {".", ".."} THEN <<>> ELSE <<Line(di[1])>>
        loop[k \in 0 .. MaxEntries] ==
          IF k = 0 THEN [dir |-> dir, shown |-> <<>>]
          ELSE LET r == fs_readdir(loop[k - 1].dir)
               IN  IF r.di = <<>> THEN loop[k - 1]
                   ELSE [dir |-> r.dir, shown |-> loop[k - 1].shown \o visible(r.di)]
    IN  loop[MaxEntries].shown

\* cmd_ls without a path opens the current directory by its absolute path.
lsCurrent ==
    LET dirp == fs_opendir([abs |-> TRUE, names |-> cwdPath])
    IN  IF dirp = <<>> THEN <<>> ELSE displayFiles(dirp[1])

\* cmd_ls with the path of a directory.
lsPath(p) ==
    IF fs_isDir(p) THEN displayFiles(fs_opendir(p)[1]) ELSE <<>>

-----------------------------------------------------------------------------
(* Properties.                                                             *)

LinesOf(table) == {[name |-> e.name, isDir |-> e.isDir, size |-> e.size] : e \in Listed(table)}

\* "ls -l" shows each entry of the current directory on the disk, once, with
\* its own kind and size, as long as that directory can be reached: the name,
\* the copy and the cached table it combines (fsshell.c:108) agree.
LongListFaithful ==
    pending = <<>> /\ cwdTable[0].start \in ReachableDirs =>
      /\ Range(lsCurrent) = LinesOf(disk[cwdTable[0].start])
      /\ Len(lsCurrent) = Cardinality(Listed(disk[cwdTable[0].start]))

\* "ls -l" of another directory shows its entries in the same way.
LongListOfPath ==
    pending = <<>> => \A p \in Paths :
      LET r == parsePath(p)
      IN  fs_isDir(p) => Range(lsPath(p)) = LinesOf(disk[r.table[r.index].start])
=============================================================================
