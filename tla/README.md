# A TLA+ model of csc415-filesystem

This directory specifies, model-checks and partly proves the file system in
`src/`: a FAT-like allocator (`freeSpace.c`), directories (`mfs.c`,
`createDirectory.c`), buffered files (`b_io.c`), mount and format (`fsInit.c`)
and the shell that drives them (`fsshell.c`). `PROJECT.json` lists, for every
definition, the source lines it stands for, and every run, mutant, hazard,
finding and theorem. Below, `file.c:n` is a line of `src/`.

## 1. The system

The program is one thread. The shell reads a line, calls one command, waits
for it, and reads the next line. The disk is a file behind `LBAread` and
`LBAwrite`: calls are synchronous and move whole blocks. What makes the code
hard is therefore not threads but

- **grain**: one call is many disk writes, and any of them can fail or be the
  last one before the program dies; one command is many calls;
- **copies**: the same directory can be in memory two or three times, and each
  open file has a buffer of its own;
- **overloaded values**: `-1`, `0` and `0xFFFFFFFE` stand for "no block", "VCB",
  "free", "end of chain" and "read error", depending on who looks;
- **long histories**: the volume changes shape only after several allocations,
  removals and renames.

| Component | State it keeps | Operations | Talks to |
|---|---|---|---|
| Allocator, `freeSpace.c` | table (blocks 1..6), `freeSpaceHead` in the VCB | `initFreeSpace`, `allocateBlocks`, `releaseBlocks`, `extendChain` | disk; called by all below |
| Directories, `mfs.c`, `createDirectory.c` | tables of 32 entries on disk; `rootDirectory`, `currentWorkingDirectory`, `currentWorkingPath` in memory | `fs_mkdir`, `fs_rmdir`, `fs_delete`, `fs_mv`, `fs_setcwd`, `fs_isDir`, `fs_isFile`, `parsePath` | allocator, disk |
| Listing, `mfs.c` | a copy of a directory and a position in it | `fs_opendir`, `fs_readdir`, `fs_stat`, `ls` of the shell | directories |
| Open files, `b_io.c` | `fcbArray`: a buffer, an index and a block number per descriptor, and a pointer into a directory table | `b_open`, `b_read`, `b_write`, `b_seek`, `b_close` | allocator (on create), directory tables, disk |
| Mount, `fsInit.c` | VCB | `initFileSystem`, `exitFileSystem` | allocator, `createDirectory`, disk |
| Shell, `fsshell.c` | the line, the arguments, the copy buffer; history | `processcommand` and one function per command | everything |
| Driver, `fsLow.h` | the volume file | `LBAread`, `LBAwrite` | external object file |
| `vcb.c`, `Hexdump/` | none | printing | not part of the program |

What makes each of them correct:

- **Allocator**: no block belongs to two chains or is shown as free while in a
  chain; the head never passes a free block; a chain is complete and
  consecutive; every call returns.
- **Directories**: memory and disk agree between operations; the tree changes
  one entry at a time; what is named holds its blocks and shares them with
  nobody; `..` and `pwd` agree with the tree; a table fits the buffer it is in
  (the cached root does not, section 4).
- **Listing**: `ls -l` shows every entry once, with its own kind and size.
- **Open files**: a read returns what was written; what was written is on the
  disk after the close; positions do not drift.
- **Mount**: a named root is a complete root, whichever writes of the format
  fail; a formatted volume is never formatted again; a mount ends.
- **Shell**: a command changes one file at most, and a copy equals what was
  copied, also if the program dies in the middle of something else; no command
  leaves a file open or fails to come back; a command gets the arguments that
  were typed.

## 2. Modules

```
FatOps ──────────┬─ FreeSpace ─┬─ MCFreeSpace, FreeSpaceCrash    BlockPool
 whole calls     │  step by    └─ FreeSpaceHistory ─ MCFreeSpaceHistory
 as operators    │  step
                 ├─ AtomicFreeSpace   (refined by FreeSpaceHistory)
                 ├─ Directory ─ Listing ─ DirectoryTree ─ MCDirectory   NameSpace
                 └─ Mount

FileOps ─────────┬─ BufferedIO ─ MCBufferedIO      any callers
 calls of b_io.c └─ Shell ─ MCShell                the commands        FileStore
                                                   CommandLine

LeastElements ┬─ FatOpsProofs ─┬─ FreeSpaceProofs (of FreeSpaceCrash,
 recursion    │                │    FreeSpaceHistory, BlockPool)
 in proofs    │                ├─ MountProofs
              │                └─ DirectoryProofs (of DirectoryTree)
              ├─ BufferedIOProofs
              ├─ ShellProofs
              └─ CommandLineProofs
```

Three abstract specifications say what a part promises, and each is implemented
by a detailed one: `BlockPool` by `FreeSpace`, `NameSpace` by `DirectoryTree`,
`FileStore` by `Shell`. A fourth, `AtomicFreeSpace`, lets `Directory` use an
allocator call as one step: `FreeSpaceHistory` shows that the calls of
`FreeSpace` compute what the operators of `FatOps` say. `FileOps` plays the
part of `FatOps` for the calls of `b_io.c`: `BufferedIO` checks them under
callers that do anything in any order, `Shell` under those there are.

### Allocator: `FatOps`, `FreeSpace`

`FatOps` has the geometry of the volume (`FatBlocks`, `EntriesPerBlock`,
`TotalBlocks`), the special entries, `readFATEntry` and `writeFATEntry`, and
`allocateBlocks`, `releaseBlocks`, `extendChain` as functions from volume to
volume. It keeps an entry in a block of the table only if the table has one for
it; entries behind the table fall into data blocks (`Shadow`). `Directory` and
`Mount` assume that there are none (`Covered`), `FreeSpace` does not.

`FreeSpace` runs the same calls one disk access at a time: `fat`, `diskHead`
(the head in the VCB on disk) and `head` (in memory) are the state of the code;
`alloc`, `rel`, `ext` are the local variables of the three functions and `pc`
the place in them. `owner` and `taken` are ghosts: who was granted a block, and
which blocks the call under way has collected. Actions follow the code:
`SkipBlock`/`TakeBlock` are the scan, `SealChain` and `SaveHead` its end;
`LinkFails`, `ScanFails`, `SealFails` its three error exits, which call
`releaseBlocks`; `ReleaseBlock` and `ReleaseReturns`; `WalkChain`, `LinkChain`.
`Faults` selects failing reads, failing writes and crashes; `Misused` is the
set of locations that are released although no live chain starts there (a
stored `-1`, a stale directory entry).

`FreeSpaceCrash` adds one history variable, `torn`: whether a crash has ever cut
off the release of a chain. Until then free space is one run at the end of the
volume and chains are runs of blocks (`fs_crash`); afterwards the name of the
chain is still there, and what a second and a third release of it do is in
section 4.

### Directories: `Directory`, `Listing`, `DirectoryTree`, `NameSpace`

`disk` maps a block to the table stored from it on, `root` and `cwd` are the
cached tables, `cwdIsRoot` the case in which both pointers are equal, `vol` the
allocator's state. A path is a flag and a sequence of names; `parsePath`
starts at a cached table (`FirstTable`), goes down one name at a time
(`EnterTable`) and returns a slot and which table it is in: the cached root, the
cached current directory or a private copy. An operation is one action, the whole handler: it
changes the tables in memory and the allocation table, and queues its directory
writes in `pending`, in the order of the code. `Flush` performs one write.
`Restart` ends the program and mounts again; with `Crashes` it can come between
two writes or cut one of them after any number of entries. Failing directory
writes are not modelled. Tables have as many slots as `findInDirectory` looks
at; `CacheRoom` is the size of the buffers of the two cached tables, which is
less than the size of the root. `Create` is `touch`; `Store` and `StoreNew` are a copy
of at most one block into a file (`b_open`, `b_write`, `b_close`), seen from the
directory; `Rm` is the command, which asks `fs_isDir` and `fs_isFile` before it
calls `fs_rmdir` or `fs_delete`.

`Misused` names the uses that break the guarantees; the passing runs allow none
of them, and section 4 says how each one does.
A path whose inner name is missing leaves `parsePath`'s result unset
(`mfs.c:631`), and most callers go on with it; the model lets such a call be
refused or end the process, and nothing else.

`Listing` has what `ls` calls as operators over this state, since it changes
none of it: `fs_opendir` loads a copy from the disk, `fs_readdir` steps through
it, and `displayFiles` looks each name up again, in the current directory.

`DirectoryTree` adds the tree of reachable entries as a history variable and
states that it behaves as `NameSpace`: an entry is `Added` under a fresh name,
`Removed` with nothing below it, or `Renamed` with its storage. `TInv` is the
invariant behind it, for the queued writes as well as for the disk.

### Mount: `Mount`

One action per disk write of `initFileSystem` and of what it calls. `ReadVCB`
starts the program; `WriteTableBlock` and `WriteHead` are `initFreeSpace`, whose
write of the VCB has the signature already; `BeginAllocate` to `SaveHead` are
`allocateBlocks`, with the releases that follow a failed one; `WriteRun` is the
write of the whole root (of a write that fails the first blocks may be there),
`WriteRootBlock` the loop over its chain, `WriteVCB` the last write. `UseBlock`
and `WriteFile` stand for later files, and go through the same allocation.
`user`, `cur`, `start`, `prev`, `got` and `done` are the local variables. `Faults`
says which writes fail: those of `initFreeSpace` to the table (`"table"`), all
others (`"write"`), and whether the program can die between any two. The result
of a write of the VCB is looked at only in `WriteVCB` (`SaveVCB`).

Two ghosts: `data` says which block of the root a block has the content of, and
`whole` whether the last format of the table was carried out; one that gives up
is not noticed by its caller (`fsInit.c:48`), and then anything can be allocated.
Content that is written over the VCB or the table ends the behaviour in the
place `"lost"`: what the disk holds from then on is not followed. Reads do not
fail here; in `FreeSpace` they do.

### Open files: `FileOps`, `BufferedIO`

`FileOps` has the calls as functions of a record `io`: `data` is the content of
the blocks, `entry` the directory entries (first block and size), `fcb` the
descriptor table with the fields of `b_fcb`, `next` the block the next
allocation grants. Files get one block when they are created, as `b_open` does
it, in the order of creation; released blocks do not come back (`fs_reuse`
below). A descriptor refers to the entry that everybody uses when the directory
is cached, and to a copy of its own otherwise (`private`). Flags are the sets of
the names in `fcntl.h`; no flag is `O_RDONLY`.

`BufferedIO` opens, reads, writes, seeks, closes and removes in any order. A
byte is named by the file, the parity of its contents so far and its position,
so what a position should hold is `Truth(f, p)`; `pos` is the ghost position a
descriptor should have. `Modes` are the flags used, `Seekers` the ones of the
descriptors that are moved, `Shared` allows a writer beside readers. `SafeUse`
says under which of these a file keeps its content.

### Shell: `Shell`, `FileStore`, `CommandLine`

`Shell` runs `touch`, `cat`, `cp`, `cp2l`, `cp2fs`, `rm` of a file and `cd`, one
call of `b_io.c` at a time. `Steps` lists the calls of each command; `todo` are
those still to come, and after a full chunk (`More`) the loop puts a read in
front again. `cmd` holds the arguments and the local variables. `Below` are the
files in a directory below the root: they are reached through a private copy
unless `cd` has made that directory the current one (`Private`). `Crash` ends the
program between any two calls; what remains is what `b_open`, `b_write` and
`b_close` have written. `out` is what goes to the console or to Linux. `stable`,
a ghost, is the content of all files and the output as they were when the
prompt was last there, and `FileStore` is stated of it: `Copy` makes two
contents equal, `Import` and `Show` move a content in and out, and `Die`, a
crash, may harm the destination of the command under way and nothing else.
Files in `Shell` are at most one block long; the chunk is smaller than the
block and does not divide it, as 200 and 512 in the code.

`CommandLine` is the scan of `processcommand`, one character at a time, with the
line cut in place, the array of arguments and its size. Characters are quotes,
backslash, space, and one for all others. The reference it is compared with
(`Mode`) says of each character whether it is plain, quoted or escaped.

## 3. Runs that pass

A mutant of the model, listed in `PROJECT.json`, breaks every property below in
its run; the operators marked "Mutant" in the modules are their bodies.

| Run | Bounds | Shows |
|---|---|---|
| `fs_faults` | 5 blocks, requests to 3, all faults, stale locations `-1` and 3 | `OwnedNotFree`, the inductive invariant `IInv`, `NoDoubleGrant`, refinement of `BlockPool` |
| `fs_crash` | 6 blocks, requests to 4, failing writes, crashes | `TailUntilTorn`, `ContiguousUntilTorn`, the inductive invariant `CInv` |
| `fs_extend` | 6 blocks, requests to 2, `extendChain`, failing writes | `ChainsComplete`; `CallsReturn` (liveness) |
| `fs_atomic` | 6 blocks, requests to 3, no faults, stale locations | `CallsAreAtomic`: the loops compute the operators of `FatOps`; the inductive invariant `HInv` |
| `ns_paths` | 9 blocks (root of three, directories of two, four to allocate), 4 slots (two to use), paths `a`, `d`, `d/a`, `/a`, `..`, all operations | `CacheCoherent`, `EntriesHold`, `CwdFaithful`, `SizesKept`, `NoSharedBlocks`, `CopiesFit`, `LongListFaithful`, the inductive invariant `TInv`, refinement of `NameSpace` |
| `ns_crash` | 10 blocks (root of three, directories of two, five to allocate), three levels (`a`, `d`, `d/d`, `d/d/a`, `..`), torn writes, no moves, no contents | `ParentLinks`, `NoSharedBlocks`, `IInv`, refinement of `NameSpace` |
| `fm_faults` | 7 blocks, table of 2, root of 3, all writes fail, crashes | `RootIntact`, the inductive invariant `IInv`, `FormatOnce`; `MountEnds` (liveness) |
| `bio_small` | 2 files of one block of 2 bytes, 2 descriptors, 3 blocks, reading, truncating, appending and updating, removals, readers seek | `ContentKept`, `ReadsFaithful`, `PositionKept`, the inductive invariant `IInv` |
| `sh_copy` | a file in the root and one below it, blocks of 3, chunks of 2, 2 descriptors, 3 blocks, Linux files of a chunk and of a block, crashes | `NothingLeftOpen`, the inductive invariant `StoreInv`, refinement of `FileStore`; `CommandsReturn` (liveness) |
| `sh_line` | all lines of up to 6 characters | `ArgumentsFit`, `ArgumentsFaithful`, the inductive invariant `IInv`; `LineEnds` (liveness) |

Why the bounds are enough. Five blocks with one table block leave three to
allocate: the least for a chain with a first, middle and last block, and with
`MaxRequest` 3 also for two chains that compete and for a request that does not
fit. Six blocks add a neighbour behind the chain, and `fs_crash` asks for four of
the four that are free: the shortest chain whose release, cut off and begun
again, walks through a free block and block 0 to a third one. With requests to
3 `FreeSpaceIsTail` holds under crashes as well, and says less than it seems. Directories of four slots
fill after two names, and volumes fill after three or four allocations because
released blocks are not reused; both limits are hit. Depth two is where the
three kinds of table (root, current, private copy) first differ, depth three
where the parent is a copy of a copy. As in the code the root is larger than
other directories, and these have more than one block; a crash between the
release of a directory of two and the removal of its name lets the name be
removed again. In `fm_faults` a root of three has a first, a middle and a last
block, so that its allocation can be cut inside the chain and its writing inside
the loop; one block is left for a file, and a second file is refused. A table of
two blocks can be given up before its first and before its second one. A block of
two bytes has a first, an inner and an end position; three blocks for two files let one of them be removed and
created again. In `sh_copy` a text of a chunk ends a loop with an empty read and
a text of a block with a short one, and a block of three bytes is read in two
parts. A line of six characters holds three arguments, or a quoted and an
escaped space, and every line length from one on is met by the fullest array.

Deadlock is checked in all runs except those that say `CHECK_DEADLOCK FALSE`;
no configuration does.

**Fairness.** `FreeSpace` and `Mount` assume weak fairness of `CodeStep`, the
steps of the one thread between the start and the end of a call or a start;
`CommandLine` of the scan; `Shell` of the steps that take a command on to its
next call (`Running`; a crash ends the command and satisfies it as well). The
program is single-threaded and has no waiting inside a call, so the thread keeps
running; which of several outcomes of a disk access happens is left open, no
success is assumed. Calls, commands and lines themselves are not fair: the user
may stop typing. `Directory` and `BufferedIO` state safety only.

## 4. Where code and documentation disagree

Two runs each check one sentence of the repository, quoted with its line in
`PROJECT.json` (`findings`), and find it violated:

| Run | What the code does |
|---|---|
| `fs_reuse` | A released block can never be allocated again (`freeSpace.c:195`) |
| `bio_large_write` | A second block is written over the next file (`b_io.c:356`) |

The passing runs stay inside the uses the other components can rely on. Each
restriction is a constant, and lifting it shows a further disagreement. Start
from the configuration in the first column, change what the second says and
check the property in the third alone (the inductive invariants do not hold either):

| From | Change | Violated | What the code does |
|---|---|---|---|
| `fs_reuse` | `TotalBlocks = 7`, `EntriesPerBlock = 4`, `MaxRequest = 3` | `OwnedNotFree` | the table covers 768 blocks whatever the volume; the Makefile's has 19531 (`freeSpace.c:21`, `Makefile:40`) |
| `fs_crash` | invariant `FreeSpaceIsTail` | `FreeSpaceIsTail` | a chain whose release a crash cut off is released again, for its name is still there: the walk goes on into free space and through block 0, and marks a block free that is behind the head (`freeSpace.c:193`) |
| `fs_extend` | `Faults = {"read"}` | `ChainsComplete` | `extendChain` takes a failed read for the end of the chain (`freeSpace.c:160`) |
| `ns_paths` | `Misused = {"alias"}`, `Paths <- DotDotPaths` | `CacheCoherent` | a change through `../x` bypasses the cached directory (`mfs.c:635`) |
| `ns_paths` | `Misused = {"within"}`, `Paths <- RenamePaths` | `NoSharedBlocks` | `mv d/a d/b` leaves both names (`mfs.c:790`) |
| `ns_paths` | `Misused = {"movedir"}`, `Paths <- RenamePaths` | `ParentLinks` | a moved directory keeps its old `..` (`mfs.c:775`) |
| `ns_paths` | `Misused = {"dots"}`, `Paths <- DotPaths` | `EntriesHold` | `rm d/.` releases a directory that is still named (`mfs.c:147`) |
| `ns_paths` | `Paths <- NullPaths` | `NoSharedBlocks` | after `mv`, `rm NULL` releases the blocks of the moved file (`mfs.c:652`) |
| `ns_paths` | `Misused = {"full"}` | `EntriesHaveBlocks` | `touch` on a full volume lists a file without a block (`b_io.c:162`) |
| `ns_paths` | `Misused = {"uncached"}` | `SizesKept` | the size of a file in a directory that is not cached is not saved (`b_io.c:390`) |
| `ns_paths` | no change | `LongListOfPath` | `ls -l d` looks the names in `d` up in the current directory (`fsshell.c:110`) |
| `ns_paths` | no change | `BuffersFit` | the root is loaded into a buffer of `MAX_ENTRIES` entries, 9 blocks, on every start (`fsInit.c:73`), and saved at its 15 (`mfs.c:84`, 571, 786; `b_io.c:134`, 172, 380): each save reads behind the buffer |
| `ns_crash` | `"move"` in `Operations` | `NoSharedBlocks` | a write of a directory cut in `mv` leaves both names (`mfs.c:789`) |
| `fm_faults` | `Faults = {"crash"}` | `RootLoaded` | a crash during format leaves a volume that mounts without a root (`freeSpace.c:71`) |
| `fm_faults` | `Faults = {"table", "write"}` | `SystemReserved` | a failed write of the table is ignored (`fsInit.c:48`), and what the allocation of the root takes from block 0 on can be released again |
| `fm_faults` | `Faults = {"table", "crash"}` | `SystemKept` | after two starts whose write of the table fails, the first of them cut off when it has linked block 0 to block 1 (`freeSpace.c:107`), the root is written over the table |
| `bio_small` | `Files = {"a"}`, `MaxBytes = 4`, `VolumeBlocks = 5`, `Removals = FALSE` | `ReadsFaithful` | a read beyond the first block reads the first block again (`b_io.c:483`) |
| `bio_small` | `Seekers <- WriteOnly` | `ContentKept` | a writer that seeks to the start and closes loses its buffer (`b_io.c:295`) |
| `bio_small` | `Seekers <- Updaters` | `ContentKept` | the same with a descriptor for reading and writing |
| `bio_small` | `Modes <- WriteModes` | `ContentKept` | a writer that does not truncate starts with an empty buffer, and the rest of the block is lost (`b_io.c:197`) |
| `bio_small` | `Shared = TRUE` | `ContentKept` | a reader's close writes old content over a writer's (`b_io.c:548`) |
| `sh_copy` | `Misused = {"self"}` | `StoreSpec` | `cp a a`, and `cp a`, which the usage line offers (`fsshell.c:341`), empty the file before they read it (`fsshell.c:332`, `b_io.c:132`) |
| `sh_copy` | `Misused = {"missing"}` | `StoreSpec` | a copy of a file that does not exist empties the destination (`fsshell.c:347`) |
| `sh_copy` | `Misused = {"uncached"}` | `StoreSpec` | a copy into a directory that is not cached is empty (`b_io.c:390`; `README.md:45` says "preserving metadata and content") |

Seen while reading, without a property of their own: `ls /` says that `/` is not
found, for the root is neither a directory nor a file to `fs_isDir` and
`fs_isFile` (`mfs.c:474`); `README.md:97` and the next line name commands
`mkdir` and `rmdir` that are called `md` and `rm`, and `README.md:104` and the next swap
`cp2l` and `cp2fs`; `cd` removes the quotes around a name, `md` and `touch` keep
them (`fsshell.c:534`); at the end of the input `readline` returns no line, and
the shell uses it (`fsshell.c:834`).

## 5. What is proved

TLAPS checks the theorems below for every value of the constants that the
assumptions allow: any volume the table covers, any size of requests, any set of
files, names, paths and lines. What else is assumed differs from module to module
and is listed below the table. Liveness under fairness is out of its reach.

| Module | About | Theorems |
|---|---|---|
| `FreeSpaceProofs` | `FreeSpace` | `TypeCorrect`, `Inductive`, `OwnedBlocksStayTaken`, `GrantsAreExclusive`, `ImplementsPool` |
| | `FreeSpaceCrash` | `InductiveUntilTorn`, `FreeSpaceStaysTail`, `ChainsStayRuns`, `ChainsStayComplete` |
| | `FreeSpaceHistory` | `HistoryIsKept`, `CallsImplementOperators` |
| | `BlockPool` | `PoolNeverOwned` |
| `DirectoryProofs` | `Directory` | `Inductive`, `Types`, `CachesAgree`, `BlocksUnshared`, `LinksAgree`, `CopiesLargeEnough`, `NamedBlocksHeld`, `SizesRecorded` |
| | `DirectoryTree` | `TreeIsKept`, `ImplementsNameSpace`, `CwdIsFaithful` |
| | `Listing` | `ListIsFaithful` |
| `BufferedIOProofs` | `BufferedIO` | `Inductive`, `WrittenIsKept`, `ReadIsFaithful`, `PositionIsKept` |
| `MountProofs` | `Mount` | `Inductive`, `TypeCorrect`, `RootStaysIntact`, `SystemStaysKept`, `FormattedOnce` |
| `ShellProofs` | `Shell` | `Inductive`, `NothingStaysOpen`, `StoreIsKept`, `TypeCorrect`, `ImplementsFileStore` |
| `CommandLineProofs` | `CommandLine` | `Inductive`, `TypeCorrect`, `ArgumentsAlwaysFit`, `ArgumentsAreFaithful` |
| `FatOpsProofs` | `FatOps` | what `allocateBlocks` and `releaseBlocks` return and leave, as lemmas |
| `LeastElements` | | `Min`, `Max`, folds and definitions by recursion on numbers, as lemmas |

Each component has an invariant `IInv` that is inductive (`CInv` for
`FreeSpaceCrash`, `HInv` for `FreeSpaceHistory`, and `TInv` and `StoreInv`, which
contain those of `Directory` and `Shell`, for `DirectoryTree` and for the contents in
`Shell`); the properties of
the runs follow from it. The runs check it as
well; with it they check the types, which are a part of it or follow from it.

### Assumptions

- `FreeSpaceProofs`: `TypeCorrect` has none. The others need `SafeUse`:
  location 0 is never released, `extendChain` is not called, and the table has
  an entry for every block. The first row of the second table in section 4
  refutes them without the third; `extendChain` has no caller in `src/`; and
  location 0 is released when the name `NULL` of a removed file is removed again.
  The theorems on runs need `SafeRuns`: also no stale location but `-1`, and no
  failing reads, which `releaseBlocks` takes for the end of a chain.
  The two theorems on whole calls need `Faultless`: no faults, and an entry for
  every block. `extendChain` and every stale location, 0 included, are covered.
- `DirectoryProofs`: a table that covers the volume (`DirectoryAssumption`), and
  `SafeUse` of `Directory`: none of the uses in `Misused` and no name that is
  empty or `NULL`. These have their rows in section 4. For a program that
  does not crash that is all: every operation, and directories of any size.
  For one that does, there are two more: no moves, which have their row as well,
  and directories are removed only if they have one block, where those of
  the code have nine. The name of a larger one can outlive the release of its
  blocks and be removed again; from four blocks on the row of `fs_crash`
  applies, free space is no longer the end of the volume, and the argument
  below does not go through. So for the code as it is, the theorems say what
  crashes leave as long as no directory is removed. `NamedBlocksHeld` and `SizesRecorded` are about a program that
  does not crash: a crash leaves names of released blocks (`mfs.c:557`).
  `ImplementsNameSpace`, `CwdIsFaithful` and `ListIsFaithful` hold with crashes too.
- `BufferedIOProofs`: `SafeUse` of `BufferedIO`: files of one block, no writer
  beside readers, no writer that seeks, and `O_WRONLY` only with `O_TRUNC` or
  `O_APPEND`. Each has its row in section 4. Descriptors for reading and
  writing, `O_APPEND`, removals, and any number of readers are covered.
- `ShellProofs`: `Inductive` and `NothingStaysOpen` have none, they hold under
  every kind of misuse. The others need `SafeUse` of `Shell`: none of the uses in
  `Misused`, which all have their row in section 4. `ShellAssumption` says that
  the contents of Linux files are sequences of bytes, at most one block long.
  Files in uncached directories, failing opens, any chunk size and crashes
  between any two calls are covered.
- `MountProofs`: a table that covers the volume (`MountAssumption`). They hold
  under every set of faults, but `RootStaysIntact` and `SystemStaysKept` say
  nothing after a format of the table that was given up (`whole`); the rows of
  `fm_faults` in section 4 show what can happen then.
- `CommandLineProofs`: none but those named with the constants.

A table that covers the volume is 768 entries in the code (`freeSpace.c:21`). The
volume the Makefile makes has 19531 blocks and is not covered: of the theorems
about the allocator, the directories and the mount only `TypeCorrect` of `FreeSpace`
applies to it, and the first row of the second table in section 4 shows why.

### The allocator

`OwnedNotFree` alone is not inductive. What could make a block
read as free is a write of the value 0, and there are two sources: `BLOCK_FREE`
is 0, and so is the number of the VCB's block. `allocateBlocks` never writes 0
(`AllocInv`: the scan never stands on block 0). `releaseBlocks` writes the
previous head of the free list, which is 0 right after it has walked through
block 0, and it does walk there: a release through a stale location can reach
a free block, whose entry 0 reads as "next block: 0". `RelInv` says that such a
walk handles only blocks no chain holds, from block 0 on: the entry of block
0 names a *lost* block (`ZeroEntry`), one that nobody holds and that does not
read as free, so marking it free gives nothing away. `ZeroUnused` says that the
head is never 0. The proof of `NextIInv` has one step per action; the walk of
`ReleaseBlock` is a lemma of its own.

`CInv` adds where things are. The scan has collected a run that ends below its
cursor and has left no free block behind (`ScanInv`), so a chain is a run and
the head is in front of free space; a release walks up a run, whose last block
is sealed or, when the allocation that collected it has failed, the lowest free
one (`WalkInv`). A failed seal is the hard case: the last block of the chain is
then still free while the others are released.

`CallsAreAtomic` relates loops to operators that say what comes out, not how.
`HInv` says at each disk access how much of it is done. What a scan has collected
are the free blocks from the old head up to its cursor, linked (`CollectInv`,
`LinkedNext`); when it has enough, or stands at the end of the volume, these are
`Lowest` of all it could reach (`LowestBelow`). A release has done its first
`done` turns of `ReleaseWalk` (`ReleaseInv`), on the volume it was called with:
the caller's, the one a scan that gave up leaves, or the one whose new chain could
not be linked; from what is no block the walk goes nowhere (`ReleaseStays`), so
that the early return loses nothing. `extendChain` walks until the chain ends,
while `LastOfChain` takes `TotalBlocks` steps: where the walk from a block ends, if
it ends, is where the walk from the next one ends (`SearchInv`, `LastOfNext`), in
the same number of steps, for a walk that comes upon no end within that many
has come to a block twice and goes round for ever (`WalkRepeats`).

### Directories

The argument has three layers.

1. **Allocator calls as functions.** `FatOpsProofs` shows of a volume whose free
   blocks are its last ones (`Tidy`) that `allocateBlocks` returns a run of free
   blocks, or nothing, and that `releaseBlocks` of a run, or of a single block whatever
   its entry says, makes no block free: the volume stays tidy.
2. **The disk.** `DiskInv` says of a disk, together with the allocation table:
   the tables are well formed and no slot that is not in use has a name a path
   could ask for (`TablesInv`); every table that looks like a directory has a parent that
   is one, of the size it states (`DirectoriesInv`); every name has a run of
   blocks that are not free and that no other name has, and a named directory names the
   one it is in as its parent (`NamedInv`). It speaks of *every* block, reachable
   or not. Reachability is not preserved by anything local, removing a directory makes
   tables unreachable, and a stale table can become a directory again; what no
   path reaches must therefore be in order as well. A removed directory keeps its
   table, which is why the removal of a directory asks that it names nothing.
3. **The queue.** `PendingInv` says that every write that is queued is safe:
   cut at any entry, it leaves a disk with `DiskInv`. An operation is proved
   by showing this of the one or two writes it queues, in their order. That the
   new table goes first (`fs_mkdir`) is what makes the second one safe. A crash
   and a write that is completed are then the same step of the proof (`QueueAdvances`), and the caches are compared with the disk the queue ends in
   (`Settled`, `CachesInv`), so that they agree with it when the queue is empty.

`NoSharedBlocks`, `ParentLinks` and the others speak of what paths reach;
`ReachedDirectories` shows that this is within what `DiskInv` speaks of.
`parsePath` and `normalizePathname` are recursive in the names of a path; their
lemmas (`ParsedPath`, `NormalizedPath`) go by induction on the number of names.

The tree of what paths reach, and `pwd`, which follows one of them, are a fourth
layer, over the same queue.

- `StepsInv`: every queued write, cut at any entry, changes the tree by one step
  of `NameSpace` or not at all. `AddedTree`, `RemovedTree` and `RenamedTree` show
  this of a table in which one slot is new, cleared or renamed. They rest on
  `NamedInv`: no two slots name the same blocks, so what is below the slot is
  the same before and after, and what is below any other slot too. `fs_mkdir` queues a write
  of blocks nobody names, which is no step, and then the write that names them.
- `UniqueNames`: an operation looks its name up before it adds it, so a directory
  has no name twice, and the path `cwdPath` leads to one directory at most.
- `CwdFaithful`: a step keeps the entry of every directory that can still be
  reached, so `cwdPath` leads where it led (`WalkKept`), unless the directory has
  been removed; then it must not become reachable again, of which the last
  conjunct of `TreeStep` takes care: the blocks of a current directory that is
  gone are not granted to anybody else, because no block is granted twice.
  After a `cd`, the normalized names lead where `parsePath` went (`ParsedWalk`).
- `ls`: the loop of `displayFiles` collects the names of the slots in use, in their order
  (`ReadAll`, by induction on the position in the copy); `fs_stat` of such a name
  finds the slot it came from and no other (`FoundAlone`), for names are unique, and a slot
  not in use has a name no entry has.

### Open files

`DescriptorInv` says of each open descriptor where it is and what its buffer has.
Block and index can describe the end of a full block in two ways, as the end of
one block and as the start of the next; which of them occurs depends on the
flags, and a writer that has filled its block no longer has the file in its
buffer (`b_io.c:356`). `DiskInv` says when the disk has the file: also while a
writer has it open whose index is 0, for such a writer does not write when it
closes. A reader writes its buffer back when it closes; that is harmless
because its buffer has the file, which in turn needs that nobody has written
meanwhile (`SharingInv`). `b_write` is a loop over bytes, a fold in the model:
`PutByteInBlock` is one turn of it, and `FoldTable` puts the turns together
(`FoldedBytes`).

### Mount, shell, command line

`Mount`: from the first write of the table until the last one of the VCB no root
is named (`FormatInv`), so that a start that is cut off anywhere is done again
from the beginning, and what it has left on the disk does not matter. Behind a
table that was written (`TableInv`) the allocation of the root takes the first
blocks: the scan has linked those before its cursor (`RootScan`), and an allocation
that fails releases a run (`RootRelease`). The loop over the chain goes through the
run of the root, whose blocks before the cursor are written (`RootChain`). A root
that is named is that run, written and not free (`RootInv`); a file's block was
free when the scan came to it, so it is none of the root, nor, if it is given
back, does its release free one (`FileInv`). Nothing of this is said after a
format of the table that failed, except `FormatInv`.

`Shell`: a command is at some place in its list of calls, every open descriptor
is in a local variable whose close is still to come, and no variable that holds a
descriptor is set again. What `b_open`, `b_write` and `b_close` do to the
contents does not matter for this; the lemmas say only which descriptors they
open or close.

`FileStore`: what the disk has in the middle of a copy is no state of `FileStore`,
so the mapping shows the contents of the last prompt, `stable`, and a command is one
step of `FileStore`, at its last call. `StoreInv` has to say how far it has come
until then.

- `ReaderAt(s, fd, f, n)` and `WriterAt(s, fd, f, w)` are a descriptor that has
  read n bytes of f and one that has written the bytes w. `OpenReader`,
  `ReadMoves`, `OpenWriter`, `WriteMoves` and `CloseWriter` show what each call
  makes of them; a full block is the case apart, as in `BufferedIO`, for it has
  left the buffer before the close. A short file is on the disk only after the
  close (`b_io.c:547`), a full one since the last write.
- `ProgressInv`: before a read, the destination has the first n bytes of the source
  and n bytes have been read; before a write, it has n, and m have been read, of
  which the last m - n are the chunk; a chunk that is not full ends the source, and
  so the loop ends where it should (`cmd.readcnt = cmd.chunk \/ m = Len(t)`).
- `OthersInv`: nothing but the destination differs from the last prompt. This
  needs that files have blocks of their own (`Apart`), that the two descriptors
  of `cp` are not the same (`ReaderNotWriter`), and that the reader's close
  writes back what the disk has already (`CloseReader`).
- A crash may come at any place: what `OthersInv` says is then what
  `Die` asks for, and a destination that existed is still listed.

`CommandLine`: `ArgumentsFit` is a matter of counting. n arguments have n - 1
separators, and each costs two characters of the line, except that a space in front
of the command costs one; behind a separator the next character is not a space,
so that at a space the argument in front of it is paid for as well.
For `ArgumentsFaithful`, `ScanInv` says that the characters behind the cursor
have been cut exactly at the first space of each gap between arguments, that an
argument has been put down behind each gap, and that the single variable `quote`
knows all that the characters before the cursor have made of it. The code cuts the
line it is still reading; `ScanInv` also says that nothing in front of the cursor has been
touched.

### Only model-checked

- Liveness: `CallsReturn`, `MountEnds`, `CommandsReturn`, `LineEnds`.
- `ChainsComplete` with `extendChain` (`fs_extend`).
- `Directory` with crashes and the removal of directories of two blocks
  (`ns_crash`).

### Neither checked nor proved

- `Directory` with crashes and moves, or with crashes and the removal of directories of four
  blocks or more: what the argument rests on is violated there (section 4).
- `Directory` with crashes and contents (`store`): proved, under `SafeUse`, but left
  out of `ns_crash` for its size.
- What a chain is after a crash has cut off its release (`torn`), apart from
  `OwnedNotFree` and `NoDoubleGrant`.

### Induction

An induction theorem that takes the property as an operator cannot be used with
the provers at hand. `LeastElements` takes the way around: the numbers at which
a statement fails are a set, and a set of naturals that is not empty has a least
element (from well-foundedness, which the library states of relations). What a
function defined by recursion on a number computes can be proved that way, and
is, for `parsePath`, `normalizePathname`, the walks of `releaseBlocks` and `extendChain`, the loop of
`displayFiles`, and `Mode`, the reference of the tokenizer. A fold over a sequence
(`b_write`) is reduced to such a function: the library defines the fold by recursion on the set of indices, and `FoldTable`
shows that there is a table of its values, one for each set.

## 6. What is not modelled

- Lengths: names, paths, the copy of a path in `normalizePathname`. Names are
  model values.
- Times and permissions: no decision depends on them.
- Failing block reads and writes in `mfs.c` and `b_io.c`, failing `malloc`.
- The root as an argument of operations: its index is -2, which `fs_mv` and
  `fs_stat` use as a subscript and `touch /` as an entry (`mfs.c:474` in the
  hazards). What happens depends on what the memory holds.
- What a save of the root writes to its last 6 blocks. Every start loads 9 of its
  15 (`fsInit.c:73`), which have room for the entries any call looks at; a save
  reads the rest from behind the buffer. `BuffersFit` says that it does (section
  4); what was there, and what reading it does to the process, is not followed.
- Failing reads in `fsInit.c`, and the disk after content has been written over
  the VCB or the table (`"lost"` in `Mount`).
- In `Shell`, files of more than one block, of which `bio_large_write` and
  section 4 say what becomes of them, and contents with NUL bytes, at which
  `cat` stops.
- `history`, which the readline library keeps (it shows fewer and fewer lines
  after 200, `fsshell.c:851`), `help` and `pwd`, which only print, and the output
  of `ls` without `-l`.
- The driver, which is not in the repository. It is taken to be synchronous and
  to refuse positions behind the volume.
- `vcb.c`, which is not compiled into the program, and `Hexdump/`, a separate
  program that prints a volume file.

## 7. Plan

Done, in this order: the allocator and its proofs; directories; mount; open
files; the shell's commands on file contents, over the same calls; its
tokenizer; the listing; paths of three levels and the sizes of directory
buffers; the proofs of runs, directories, mount, shell and tokenizer; those of
the name space, the listing, the open files, the arguments, the file store and
the allocator's whole calls.

Next:

1. Proofs: the refinement of `BlockPool` at the grain of whole calls;
   `Directory` with moves that a crash can cut, where one name may be there
   twice, and with directories of several blocks whose release is repeated.
2. `Directory` with failing directory writes, and with the path that is the root
   as an argument of every operation.
3. `Shell` over `Directory`: descriptors, removals and `cd` on one tree, with
   files in more than one directory.

## 8. Checking

```
tlc -workers 2 -config ns_paths.cfg MCDirectory.tla
tlapm FreeSpaceProofs.tla
```

The module of each configuration is in `PROJECT.json` under `runs`.
