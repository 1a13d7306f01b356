----------------------------- MODULE BufferedIO -----------------------------
(***************************************************************************)
(* Open files under any callers of b_io.h: b_open, b_seek, b_read, b_write *)
(* and b_close in any order, on several descriptors.  The calls themselves *)
(* are in FileOps; the directory writes they cause are in Directory.       *)
(*                                                                         *)
(* A byte is named by what it is: byte p of the g-th content of file f.    *)
(* So what a file should hold at a position needs no record.               *)
(***************************************************************************)
EXTENDS FileOps

CONSTANTS
    MaxBytes,  \* bound on the size of a file
    Modes,     \* the flags files are opened with
    Shared,    \* whether a file is read and written at the same time
    Seekers,   \* the flags of the descriptors b_seek is called on
    Removals   \* whether files are removed

ASSUME BufferedIOAssumption ==
    /\ MaxBytes \in Nat
    /\ Modes \subseteq SUBSET {"WRONLY", "RDWR", "CREAT", "TRUNC", "APPEND"}
    /\ Seekers \subseteq Modes
    /\ {Shared, Removals} \subseteq BOOLEAN

VARIABLES
    io,       \* what the calls work on
    pos,      \* ghost: where each descriptor should be
    gen,      \* ghost: parity of the number of contents each file has had
    faithful  \* ghost: the last b_read returned the bytes of the file

vars == <<io, pos, gen, faithful>>

\* What byte p of the file should be.
Truth(f, p) == <<f, gen[f], p>>

Init ==
    /\ io = Fresh
    /\ pos = [fd \in Fds |-> 0]
    /\ gen = [f \in Files |-> 0]
    /\ faithful = TRUE

-----------------------------------------------------------------------------
\* b_open allows any descriptors of a file at the same time; the callers have
\* one writer at most, beside readers only if Shared.
Compatible(m, n) == \/ m = {} /\ n = {}
                    \/ Shared /\ (m = {} \/ n = {})

Open(f, flags) ==
    LET r == b_open(io, f, flags, FALSE)
    IN  /\ Listed(io, f) \/ io.next \in Blocks
        /\ \A fd \in OpenFor(io, f) : Compatible(flags, io.fcb[fd].flags)
        /\ r.fd # -1
        /\ io' = r.io
        /\ pos' = [pos EXCEPT ![r.fd] = IF "APPEND" \in flags THEN r.io.entry[f].size ELSE 0]
        /\ gen' = [gen EXCEPT ![f] = IF ~Listed(io, f) \/ "TRUNC" \in flags THEN 1 - @ ELSE @]
        /\ UNCHANGED faithful

\* No such file, or every descriptor is taken: b_open returns -1.
OpenRefused(f, flags) == b_open(io, f, flags, FALSE).fd = -1 /\ UNCHANGED vars

\* The next count bytes of the file, as its author means them.
Write(fd, count) ==
    LET c == io.fcb[fd]
    IN  /\ IsOpen(io, fd) /\ Writable(c.flags)
        /\ pos[fd] + count <= MaxBytes
        /\ io' = b_write(io, fd, [k \in 1 .. count |-> Truth(c.file, pos[fd] + k - 1)])
        /\ pos' = [pos EXCEPT ![fd] = @ + count]
        /\ UNCHANGED <<gen, faithful>>

Read(fd, count) ==
    LET c == io.fcb[fd]
        r == b_read(io, fd, count)
        due == Max({0, SmallerOf(count, io.entry[c.file].size - pos[fd])})
    IN  /\ IsOpen(io, fd) /\ Readable(c.flags)
        /\ io' = r.io
        /\ faithful' = (r.got = [k \in 1 .. due |-> Truth(c.file, pos[fd] + k - 1)])
        /\ pos' = [pos EXCEPT ![fd] = @ + Len(r.got)]
        /\ UNCHANGED gen

Seek(fd, offset, whence) ==
    LET size == io.entry[io.fcb[fd].file].size
        due  == CASE whence = "SEEK_SET" -> offset
                  [] whence = "SEEK_CUR" -> pos[fd] + offset
                  [] whence = "SEEK_END" -> size + offset
    IN  /\ IsOpen(io, fd) /\ io.fcb[fd].flags \in Seekers
        /\ io' = b_seek(io, fd, offset, whence)
        /\ pos' = [pos EXCEPT ![fd] = IF due < 0 THEN @ ELSE SmallerOf(due, size)]
        /\ UNCHANGED <<gen, faithful>>

Close(fd) ==
    /\ IsOpen(io, fd)
    /\ io' = b_close(io, fd)
    /\ pos' = [pos EXCEPT ![fd] = 0]
    /\ UNCHANGED <<gen, faithful>>

\* A file is removed while nobody has it open.
Delete(f) ==
    /\ Removals /\ Listed(io, f) /\ OpenFor(io, f) = {}
    /\ io' = fs_delete(io, f)
    /\ UNCHANGED <<pos, gen, faithful>>

Whences == {"SEEK_SET", "SEEK_CUR", "SEEK_END"}

Next ==
    \/ \E f \in Files, flags \in Modes : Open(f, flags) \/ OpenRefused(f, flags)
    \/ \E fd \in Fds, count \in 1 .. MaxBytes : Write(fd, count) \/ Read(fd, count)
    \/ \E fd \in Fds, offset \in -MaxBytes .. MaxBytes, whence \in Whences : Seek(fd, offset, whence)
    \/ \E fd \in Fds : Close(fd)
    \/ \E f \in Files : Delete(f)

Spec == Init /\ [][Next]_vars

-----------------------------------------------------------------------------
(* Properties.                                                             *)

\* A file no writer has open is on the disk, byte for byte as written, for the
\* length its entry states: b_close has flushed what b_write left in the
\* buffer, and nobody has written over it (b_io.c:356, 548).
ContentKept ==
    \A f \in Files : (\A fd \in OpenFor(io, f) : ~Writable(io.fcb[fd].flags)) =>
        \A p \in 0 .. io.entry[f].size - 1 : OnDisk(io, f, p) = Truth(f, p)

\* b_read returns the bytes of the file at the position the descriptor has
\* come to, as many as asked for or as there are.
ReadsFaithful == faithful

\* The position the descriptor computes from block and index is the number of
\* bytes read or written since the start: where the next b_write goes.
PositionKept ==
    \A fd \in Fds : IsOpen(io, fd) => Position(io.fcb[fd]) = pos[fd]

-----------------------------------------------------------------------------
(* The inductive invariant, for the uses that keep a file's content.       *)

\* What is excluded are the rows of bio_small in section 4 of the README:
\* files of several blocks, writers beside readers, writers that seek, and
\* writers that open old content without loading it.
SafeUse ==
    /\ MaxBytes <= BlockBytes
    /\ ~Shared
    /\ \A flags \in Seekers : ~Writable(flags)
    /\ \A flags \in Modes : "WRONLY" \in flags => flags \cap {"TRUNC", "APPEND"} # {}

Byte   == {Junk} \cup (Files \X {0, 1} \X (0 .. MaxBytes))
Buffer == [Offsets -> Byte]
Entry  == [start : Blocks \cup {0}, size : 0 .. MaxBytes]
Fcb    == [file : Files, flags : Modes, private : {FALSE}, own : {Unlisted},
           index : 0 .. BlockBytes, currentBlk : {0, 1}, buflen : 0 .. BlockBytes,
           buf : Buffer]

TypeInv ==
    /\ io \in [data : [Blocks -> Buffer], entry : [Files -> Entry],
                fcb : [Fds -> Fcb \cup {Closed}], next : 1 .. VolumeBlocks + 1]
    /\ pos \in [Fds -> 0 .. MaxBytes]
    /\ gen \in [Files -> {0, 1}]
    /\ faithful = TRUE

\* A file has a block of its own, granted before the next one to be granted.
BlocksInv ==
    /\ \A f \in Files : Listed(io, f) => io.entry[f].start \in 1 .. io.next - 1
    /\ \A f, g \in Files : Listed(io, f) /\ Listed(io, g) /\ f # g =>
         io.entry[f].start # io.entry[g].start

\* A descriptor is where it should be, in its file; what it can still read is
\* in its buffer, which holds the file until a writer has filled the block.
DescriptorInv(fd) ==
    LET c == io.fcb[fd]
        e == io.entry[c.file]
    IN  /\ Listed(io, c.file)
        /\ Position(c) = pos[fd] /\ pos[fd] <= e.size
        /\ ~Readable(c.flags) => c.index < BlockBytes
        /\ Readable(c.flags) /\ (pos[fd] < e.size \/ ~Writable(c.flags)) => c.buflen = e.size
        /\ c.currentBlk = 0 \/ ~Writable(c.flags) =>
             \A p \in 0 .. e.size - 1 : c.buf[p] = Truth(c.file, p)

\* Several descriptors of a file only read.
SharingInv ==
    \A fd, gd \in Fds : IsOpen(io, fd) /\ IsOpen(io, gd) /\ fd # gd =>
        (io.fcb[fd].file = io.fcb[gd].file => io.fcb[fd].flags = {})

\* The disk has what no buffer of a writer is still to bring.
DiskInv ==
    \A f \in Files : (\A fd \in OpenFor(io, f) : Writable(io.fcb[fd].flags) => io.fcb[fd].index = 0) =>
        \A p \in 0 .. io.entry[f].size - 1 : OnDisk(io, f, p) = Truth(f, p)

IInv ==
    /\ TypeInv /\ BlocksInv /\ SharingInv /\ DiskInv
    /\ \A fd \in Fds : IsOpen(io, fd) => DescriptorInv(fd)
=============================================================================
