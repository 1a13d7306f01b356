------------------------------ MODULE FileOps ------------------------------
(***************************************************************************)
(* The calls of b_io.c as functions of what they work on: b_open, b_seek,  *)
(* b_read, b_write, b_close.  BufferedIO lets any callers use them; Shell  *)
(* uses them as the commands do.                                           *)
(*                                                                         *)
(* io.data    content of the blocks                                        *)
(* io.entry   directory entry of each file, as a later call finds it       *)
(* io.fcb     fcbArray                                                     *)
(* io.next    the block the next allocation returns: released blocks are   *)
(*            not granted again (FatOps), so files lie in creation order   *)
(*                                                                         *)
(* A descriptor points to an entry.  In a cached directory that is the one *)
(* entry everybody uses; in any other directory it is a copy loaded by     *)
(* b_open (private), whose changes nobody sees.                            *)
(***************************************************************************)
EXTENDS Integers, Sequences, FiniteSets, FiniteSetsExt, SequencesExt

CONSTANTS
    Files,         \* the files
    BlockBytes,    \* B_CHUNK_SIZE
    MaxFcbs,       \* MAXFCBS
    VolumeBlocks   \* blocks behind the directories

ASSUME FileOpsAssumption ==
    /\ Files # {} /\ "none" \notin Files
    /\ {BlockBytes, MaxFcbs} \subseteq Nat \ {0}
    /\ VolumeBlocks \in Nat

Fds     == 0 .. MaxFcbs - 1
Blocks  == 1 .. VolumeBlocks
Offsets == 0 .. BlockBytes - 1

\* What malloc and a fresh block hold.
Junk      == <<>>
JunkBlock == [i \in Offsets |-> Junk]

SmallerOf(a, b) == Min({a, b})

-----------------------------------------------------------------------------
(* Entries and descriptors.                                                *)

Unlisted  == [start |-> 0, size |-> 0]
Listed(io, f) == io.entry[f] # Unlisted

Closed == [file |-> "none"]
IsOpen(io, fd) == fd \in Fds /\ io.fcb[fd] # Closed
FreeFds(io) == {fd \in Fds : ~IsOpen(io, fd)}
OpenFor(io, f) == {fd \in Fds : io.fcb[fd].file = f}

Fresh ==
    [data  |-> [b \in Blocks |-> JunkBlock],
     entry |-> [f \in Files |-> Unlisted],
     fcb   |-> [fd \in Fds |-> Closed],
     next  |-> 1]

\* The entry a descriptor points to, and what becomes of it.
EntryOf(io, c) == IF c.private THEN c.own ELSE io.entry[c.file]

Readable(flags) == "WRONLY" \notin flags
Writable(flags) == flags \cap {"WRONLY", "RDWR"} # {}

Position(c) == c.currentBlk * BlockBytes + c.index

\* Block k of a file, counted from its first one, whoever owns it.
Target(io, c) == EntryOf(io, c).start + c.currentBlk

WriteBlock(data, b, buf) == IF b \in Blocks THEN [data EXCEPT ![b] = buf] ELSE data
ReadBlock(data, b, buf)  == IF b \in Blocks THEN data[b] ELSE buf

-----------------------------------------------------------------------------
(* b_open.                                                                 *)

\* Mutant: O_APPEND does not load the last block.
AppendLoadsNever(flags, index) == FALSE
AppendLoads(flags, index) == "APPEND" \in flags /\ index > 0 /\ Writable(flags)

\* Mutant: O_TRUNC is ignored.
OpenedEntryKept(io, f, flags) ==
    IF Listed(io, f) THEN io.entry[f] ELSE [start |-> io.next, size |-> 0]

\* The entry after b_open: O_TRUNC sets the size to 0 and keeps the blocks; a
\* new file is given one block.
OpenedEntry(io, f, flags) ==
    CASE ~Listed(io, f)                      -> [start |-> io.next, size |-> 0]
      [] Listed(io, f) /\ "TRUNC" \in flags  -> [io.entry[f] EXCEPT !.size = 0]
      [] OTHER                               -> io.entry[f]

\* Only a descriptor that can read loads the first block.
NewFcb(io, f, flags, private, e) ==
    LET append == "APPEND" \in flags
        blk    == IF append THEN e.size \div BlockBytes ELSE 0
        index  == IF append THEN e.size % BlockBytes ELSE 0
        first  == IF Readable(flags) /\ e.size > 0
                  THEN ReadBlock(io.data, e.start, JunkBlock) ELSE JunkBlock
    IN  [file |-> f, flags |-> flags, private |-> private,
         own |-> IF private THEN e ELSE Unlisted,
         index |-> index, currentBlk |-> blk,
         buflen |-> IF Readable(flags) THEN SmallerOf(e.size, BlockBytes) ELSE 0,
         buf |-> IF AppendLoads(flags, index)
                 THEN ReadBlock(io.data, e.start + blk, first) ELSE first]

\* b_open, and the descriptor it returns.
b_open(io, f, flags, private) ==
    LET e  == OpenedEntry(io, f, flags)
        fd == Min(FreeFds(io))
    IN  IF FreeFds(io) = {} \/ (~Listed(io, f) /\ "CREAT" \notin flags)
        THEN [io |-> io, fd |-> -1]
        ELSE [io |-> [io EXCEPT !.entry[f] = e,
                                !.fcb[fd] = NewFcb(io, f, flags, private, e),
                                !.next = IF Listed(io, f) THEN @ ELSE @ + 1],
              fd |-> fd]

-----------------------------------------------------------------------------
(* b_write.                                                                *)

\* Mutant: a buffer is full only when it overflows.
FullLate(index) == index > BlockBytes
Full(index) == index = BlockBytes

\* One byte into the buffer; a full buffer goes to the disk.
PutByte(s, byte) ==
    LET i    == IF s.c.index = BlockBytes THEN 0 ELSE s.c.index
        buf  == [s.c.buf EXCEPT ![i] = byte]
        full == Full(i + 1)
    IN  [s EXCEPT !.c.buf = buf,
                  !.c.index = IF full THEN 0 ELSE i + 1,
                  !.c.currentBlk = IF full THEN @ + 1 ELSE @,
                  !.data = IF full THEN WriteBlock(@, s.start + s.c.currentBlk, buf) ELSE @]

\* The size grows to the position reached, in the entry pointed to.
Grow(io, c, newFileSize) ==
    LET size == Max({EntryOf(io, c).size, newFileSize})
    IN  IF c.private THEN [c |-> [c EXCEPT !.own.size = size], entry |-> io.entry]
        ELSE [c |-> c, entry |-> [io.entry EXCEPT ![c.file].size = size]]

b_write(io, fd, bytes) ==
    LET c == io.fcb[fd]
        s == FoldLeft(PutByte, [c |-> c, data |-> io.data, start |-> EntryOf(io, c).start], bytes)
        g == Grow(io, s.c, Position(s.c))
    IN  IF ~IsOpen(io, fd) \/ ~Writable(c.flags) \/ bytes = <<>> THEN io
        ELSE [io EXCEPT !.fcb[fd] = g.c, !.data = s.data, !.entry = g.entry]

-----------------------------------------------------------------------------
(* b_read: three parts.                                                    *)

Slice(buf, i, n) == [k \in 1 .. n |-> buf[i + k - 1]]

\* Mutant: the position in the buffer is not moved.
AdvanceNever(c, n) == c
Advance(c, n) == [c EXCEPT !.index = @ + n]

\* What is left in the buffer.
FromBuffer(c, n) ==
    LET m == IF c.buflen > c.index THEN SmallerOf(c.buflen - c.index, n) ELSE 0
    IN  [got |-> Slice(c.buf, c.index, m), c |-> Advance(c, m)]

\* Whole blocks from currentBlk on, straight to the caller.
WholeBlocks(io, r, n) ==
    LET k == (n - Len(r.got)) \div BlockBytes
        block(i) == ReadBlock(io.data, Target(io, r.c) + i - 1, JunkBlock)
    IN  [got |-> r.got \o FlattenSeq([i \in 1 .. k |-> Slice(block(i), 0, BlockBytes)]),
         c |-> [r.c EXCEPT !.currentBlk = @ + k]]

\* The rest, through the buffer.
LastBlock(io, r, n) ==
    LET m   == n - Len(r.got)
        buf == ReadBlock(io.data, Target(io, r.c), r.c.buf)
    IN  IF m = 0 THEN r
        ELSE [got |-> r.got \o Slice(buf, 0, m),
              c |-> [r.c EXCEPT !.buf = buf, !.buflen = BlockBytes, !.index = m,
                                !.currentBlk = @ + 1]]

\* Mutant: the count is not cut at the end of the file.
CountUncut(count, rest) == count
Count(count, rest) == IF rest <= 0 THEN 0 ELSE SmallerOf(count, rest)

\* The bytes read, and the number returned: -1 for a descriptor that is not
\* open, or not for reading.
b_read(io, fd, count) ==
    LET c == io.fcb[fd]
        n == Count(count, EntryOf(io, c).size - Position(c))
        r == LastBlock(io, WholeBlocks(io, FromBuffer(c, n), n), n)
    IN  CASE ~IsOpen(io, fd) \/ ~Readable(c.flags) -> [io |-> io, got |-> <<>>, readcnt |-> -1]
          [] IsOpen(io, fd) /\ Readable(c.flags) /\ n = 0 ->
               [io |-> io, got |-> <<>>, readcnt |-> 0]
          [] OTHER -> [io |-> [io EXCEPT !.fcb[fd] = r.c], got |-> r.got, readcnt |-> Len(r.got)]

-----------------------------------------------------------------------------
(* b_seek and b_close.                                                     *)

\* b_seek: a position behind the end becomes the end, one before the start is
\* refused; the buffer is left as it is.
b_seek(io, fd, offset, whence) ==
    LET c    == io.fcb[fd]
        size == EntryOf(io, c).size
        from == CASE whence = "SEEK_SET" -> 0
                  [] whence = "SEEK_CUR" -> Position(c)
                  [] whence = "SEEK_END" -> size
        to   == SmallerOf(from + offset, size)
    IN  IF ~IsOpen(io, fd) \/ from + offset < 0 THEN io
        ELSE [io EXCEPT !.fcb[fd].currentBlk = to \div BlockBytes,
                        !.fcb[fd].index = to % BlockBytes]

\* Mutant: the buffer is dropped.
FlushedNever(io, c) == io.data

\* A buffer that is not at its start is written, a reader's too.
Flushed(io, c) ==
    IF c.index > 0 THEN WriteBlock(io.data, Target(io, c), c.buf) ELSE io.data

b_close(io, fd) ==
    IF ~IsOpen(io, fd) THEN io
    ELSE [io EXCEPT !.data = Flushed(io, io.fcb[fd]), !.fcb[fd] = Closed]

-----------------------------------------------------------------------------
\* fs_delete: the entry goes, the content stays where it is.
fs_delete(io, f) == [io EXCEPT !.entry[f] = Unlisted]

\* The byte of file f at position p, on the disk.
OnDisk(io, f, p) == io.data[io.entry[f].start + (p \div BlockBytes)][p % BlockBytes]
=============================================================================
