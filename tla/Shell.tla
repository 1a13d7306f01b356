-------------------------------- MODULE Shell --------------------------------
(***************************************************************************)
(* The commands of fsshell.c that work on the content of files: touch,     *)
(* cat, cp, cp2l, cp2fs, rm, and cd, which decides what a file is reached  *)
(* through.  A command is a sequence of calls of b_io.c (FileOps); the     *)
(* program can die between any two of them.                                *)
(*                                                                         *)
(* Files lie in the root, which is always cached, or in one directory      *)
(* below it, which is cached only while it is the current directory.       *)
(* NUL bytes, at which cat stops, are not among the contents.              *)
(***************************************************************************)
EXTENDS FileOps

CONSTANTS
    Below,    \* the files in the directory below the root
    Texts,    \* contents of Linux files, at most one block long
    Chunk,    \* BUFFERLEN
    Absent,   \* the content of a file that does not exist
    Dead,     \* shown after a crash
    Crashes,  \* whether the program can die
    Misused   \* the uses outside the guarantees, see below

\* What the bytes of a file can be.
Bytes == {Junk} \cup UNION {Range(t) : t \in Texts}

ASSUME ShellAssumption ==
    /\ Below \subseteq Files
    /\ \A t \in Texts : t \in Seq(Bytes) /\ Len(t) <= BlockBytes
    /\ Absent \notin Seq(Bytes)
    /\ Chunk \in Nat \ {0, 1}
    /\ Crashes \in BOOLEAN
    /\ Misused \subseteq {"self", "missing", "uncached"}

VARIABLES
    io,        \* what the calls of b_io.c work on
    cwdBelow,  \* the current directory is the one below the root
    cmd,       \* the command under way: its arguments and local variables
    todo,      \* its calls still to come; none at the prompt
    out,       \* what it has printed, or written to Linux
    stable     \* ghost: the contents and the output at the last prompt

vars == <<io, cwdBelow, cmd, todo, out, stable>>

Prompt == todo = <<>>

NoCommand == [name |-> "", src |-> "", dest |-> "", text |-> <<>>, chunk |-> 0,
              srcFd |-> -1, destFd |-> -1, got |-> <<>>, readcnt |-> 0]

\* The contents of the files, on the disk.
Contents(s) ==
    [f \in Files |-> IF ~Listed(s, f) THEN Absent
                     ELSE [p \in 1 .. s.entry[f].size |-> OnDisk(s, f, p - 1)]]

Init ==
    /\ io = Fresh /\ cwdBelow = FALSE
    /\ cmd = NoCommand /\ todo = <<>> /\ out = <<>>
    /\ stable = [content |-> Contents(Fresh), shown |-> <<>>]

-----------------------------------------------------------------------------
(* The calls of each command, in their order.                              *)

\* Mutant: cat does not close its file.
StepsLeaky ==
    [touch |-> <<"openDest", "closeDest">>,
     cat   |-> <<"openSource", "read", "emit">>,
     cp    |-> <<"openSource", "openDest", "read", "write", "closeSource", "closeDest">>,
     cp2l  |-> <<"openSource", "read", "emit", "closeSource">>,
     cp2fs |-> <<"openDest", "readLinux", "write", "closeDest">>]

Steps ==
    [touch |-> <<"openDest", "closeDest">>,
     cat   |-> <<"openSource", "read", "emit", "closeSource">>,
     cp    |-> <<"openSource", "openDest", "read", "write", "closeSource", "closeDest">>,
     cp2l  |-> <<"openSource", "read", "emit", "closeSource">>,
     cp2fs |-> <<"openDest", "readLinux", "write", "closeDest">>]

Private(f) == f \in Below /\ ~cwdBelow

\* Uses the guarantees do not cover:
\*   self      a file is copied to itself
\*   missing   a file is copied that does not exist
\*   uncached  content is copied into a directory that is not cached
MayCopyTo(d)   == "uncached" \in Misused \/ ~Private(d)
Room(d)        == Listed(io, d) \/ io.next \in Blocks

Begin(c) ==
    /\ Prompt
    /\ cmd' = c
    /\ todo' = Steps[c.name] /\ out' = <<>>
    /\ stable' = [stable EXCEPT !.shown = <<>>]
    /\ UNCHANGED <<io, cwdBelow>>

Touch(f) == Room(f) /\ Begin([NoCommand EXCEPT !.name = "touch", !.dest = f])

\* cat reads one byte less at a time, for the NUL.
Cat(f) == Begin([NoCommand EXCEPT !.name = "cat", !.src = f, !.chunk = Chunk - 1])

\* b_read's -1 for a missing file is passed to write as a length, so cp2l is
\* called for files that exist.
Cp2l(f) ==
    /\ Listed(io, f)
    /\ Begin([NoCommand EXCEPT !.name = "cp2l", !.src = f, !.chunk = Chunk])

Cp(s, d) ==
    /\ "self" \in Misused \/ s # d
    /\ "missing" \in Misused \/ Listed(io, s)
    /\ MayCopyTo(d) /\ Room(d)
    /\ Begin([NoCommand EXCEPT !.name = "cp", !.src = s, !.dest = d, !.chunk = Chunk])

Cp2fs(t, d) ==
    /\ t # Absent \/ "missing" \in Misused
    /\ MayCopyTo(d) /\ Room(d)
    /\ Begin([NoCommand EXCEPT !.name = "cp2fs", !.dest = d, !.text = t, !.chunk = Chunk])

-----------------------------------------------------------------------------
(* The calls.                                                              *)

\* s is the state after the call, c the local variables, rest what remains to
\* be done; the last call brings the prompt back.
Continue(s, c, rest, shown) ==
    /\ io' = s /\ todo' = rest /\ out' = shown
    /\ cmd' = IF rest = <<>> THEN NoCommand ELSE c
    /\ stable' = IF rest = <<>> THEN [content |-> Contents(s), shown |-> shown] ELSE stable
    /\ UNCHANGED cwdBelow

At(step) == ~Prompt /\ Head(todo) = step

\* cat and touch give up when the file cannot be opened, the copies do not look.
Opened(fd) == IF fd = -1 /\ cmd.name \in {"cat", "touch"} THEN <<>> ELSE Tail(todo)

OpenSource ==
    LET r == b_open(io, cmd.src, {}, Private(cmd.src))
    IN  At("openSource") /\ Continue(r.io, [cmd EXCEPT !.srcFd = r.fd], Opened(r.fd), out)

\* Mutant: the copies do not empty the destination.
DestFlagsKeep == {"WRONLY", "CREAT"}

\* touch does not empty the file, the copies do.
DestFlags ==
    IF cmd.name = "touch" THEN {"WRONLY", "CREAT"} ELSE {"WRONLY", "CREAT", "TRUNC"}

OpenDest ==
    LET r == b_open(io, cmd.dest, DestFlags, Private(cmd.dest))
    IN  At("openDest") /\ Continue(r.io, [cmd EXCEPT !.destFd = r.fd], Opened(r.fd), out)

Read ==
    LET r == b_read(io, cmd.srcFd, cmd.chunk)
    IN  /\ At("read")
        /\ Continue(r.io, [cmd EXCEPT !.got = r.got, !.readcnt = r.readcnt], Tail(todo), out)

\* read of Linux: the next bytes of the text, -1 if there is no such file.
ReadLinux ==
    LET n    == IF cmd.text = Absent THEN -1 ELSE SmallerOf(cmd.chunk, Len(cmd.text))
        some == [cmd EXCEPT !.got = SubSeq(cmd.text, 1, n), !.readcnt = n,
                            !.text = SubSeq(@, n + 1, Len(@))]
        none == [cmd EXCEPT !.got = <<>>, !.readcnt = n]
    IN  At("readLinux") /\ Continue(io, IF n > 0 THEN some ELSE none, Tail(todo), out)

\* Mutant: the loop goes on until an error.
MoreUntilError == cmd.readcnt >= 0
More == cmd.readcnt = cmd.chunk

\* The loop ends with the first chunk that is not full.
ReadAgain  == <<IF cmd.name = "cp2fs" THEN "readLinux" ELSE "read">> \o todo
AfterChunk == IF More THEN ReadAgain ELSE Tail(todo)

Write == At("write") /\ Continue(b_write(io, cmd.destFd, cmd.got), cmd, AfterChunk, out)
Emit  == At("emit") /\ Continue(io, cmd, AfterChunk, out \o cmd.got)

CloseSource == At("closeSource") /\ Continue(b_close(io, cmd.srcFd), cmd, Tail(todo), out)
CloseDest   == At("closeDest") /\ Continue(b_close(io, cmd.destFd), cmd, Tail(todo), out)

CodeStep ==
    \/ OpenSource \/ OpenDest \/ Read \/ ReadLinux
    \/ Write \/ Emit \/ CloseSource \/ CloseDest

-----------------------------------------------------------------------------
\* rm of a file, and cd: one call each.
Rm(f) == Prompt /\ Listed(io, f) /\ Continue(fs_delete(io, f), cmd, <<>>, <<>>)

Cd(below) ==
    /\ Prompt
    /\ cwdBelow' = below /\ out' = <<>>
    /\ stable' = [stable EXCEPT !.shown = <<>>]
    /\ UNCHANGED <<io, cmd, todo>>

\* The program dies and is started again: the descriptors are gone, the
\* entries are what b_open and b_write have saved.
Crash ==
    /\ Crashes
    /\ cwdBelow' = FALSE /\ cmd' = NoCommand /\ todo' = <<>> /\ out' = <<>>
    /\ io' = [io EXCEPT !.fcb = Fresh.fcb]
    /\ stable' = [content |-> Contents(io'), shown |-> Dead]

Next ==
    \/ \E f \in Files : Touch(f) \/ Cat(f) \/ Cp2l(f) \/ Rm(f)
    \/ \E s, d \in Files : Cp(s, d)
    \/ \E t \in Texts \cup {Absent}, d \in Files : Cp2fs(t, d)
    \/ \E below \in BOOLEAN : Cd(below)
    \/ CodeStep
    \/ Crash

\* What a step of the program does to the calls to come: the thread goes on.
Running == ~Prompt /\ todo' \in {<<>>, Tail(todo), ReadAgain}

Spec == Init /\ [][Next]_vars /\ WF_todo(Running)

-----------------------------------------------------------------------------
(* Properties.                                                             *)

\* Types.
TypeOK ==
    /\ io.entry \in [Files -> [start : Blocks \cup {0}, size : 0 .. BlockBytes]]
    /\ io.next \in 1 .. VolumeBlocks + 1
    /\ cwdBelow \in BOOLEAN
    /\ cmd.name \in DOMAIN Steps \cup {""}
    /\ cmd.src \in Files \cup {""} /\ cmd.dest \in Files \cup {""}
    /\ {cmd.srcFd, cmd.destFd} \subseteq Fds \cup {-1}
    /\ cmd.readcnt \in -1 .. Chunk /\ Len(cmd.got) <= Chunk
    /\ ~Prompt => Range(todo) \subseteq Range(Steps[cmd.name])
    /\ Len(out) <= BlockBytes

Store == INSTANCE FileStore WITH content <- stable.content, shown <- stable.shown

\* From prompt to prompt the disk changes as FileStore says: cp and cp2fs
\* leave the destination equal to the source whatever was there before, cat
\* and cp2l show what is there (fsshell.c:346, 519), no command touches
\* another file, and a crash in the middle harms the destination only.
StoreSpec == Store!Spec

\* No command leaves a descriptor open (fsshell.c:352): the entries that
\* descriptors point to (b_io.c:194) are in tables that cd and rm replace.
NothingLeftOpen == Prompt => FreeFds(io) = Fds

\* Every command comes back to the prompt: the copy loops meet a chunk that
\* is not full (fsshell.c:350).
CommandsReturn == ~Prompt ~> Prompt

-----------------------------------------------------------------------------
(* The inductive invariant behind NothingLeftOpen: a command is somewhere  *)
(* in its list of calls, every open descriptor is in a local variable      *)
(* whose close is still to come, and no variable that holds a descriptor   *)
(* is set again.                                                           *)

ToCome(step, k) == \E j \in k .. Len(Steps[cmd.name]) : Steps[cmd.name][j] = step

Stage(k) ==
    /\ todo = SubSeq(Steps[cmd.name], k, Len(Steps[cmd.name]))
    /\ \A fd \in Fds \ FreeFds(io) :
         \/ fd = cmd.srcFd /\ ToCome("closeSource", k)
         \/ fd = cmd.destFd /\ ToCome("closeDest", k)
    /\ ToCome("openSource", k) => cmd.srcFd = -1
    /\ ToCome("openDest", k) => cmd.destFd = -1

IInv ==
    /\ DOMAIN io = DOMAIN Fresh /\ DOMAIN io.fcb = Fds
    /\ DOMAIN cmd = DOMAIN NoCommand
    /\ Prompt => NothingLeftOpen
    /\ ~Prompt => cmd.name \in DOMAIN Steps /\ \E k \in 1 .. Len(Steps[cmd.name]) : Stage(k)

-----------------------------------------------------------------------------
(* The inductive invariant behind StoreSpec and TypeOK: how far a command  *)
(* has come with the bytes it moves.                                       *)

SafeUse == Misused = {}

Buffer == [Offsets -> Bytes]
Entry  == [start : Blocks \cup {0}, size : 0 .. BlockBytes]
Fcb    == [file : Files, flags : {{}, {"WRONLY", "CREAT"}, {"WRONLY", "CREAT", "TRUNC"}},
           private : BOOLEAN, own : Entry, index : 0 .. BlockBytes, currentBlk : {0, 1},
           buflen : 0 .. BlockBytes, buf : Buffer]
Disk   == [data : [Blocks -> Buffer], entry : [Files -> Entry],
           fcb : [Fds -> Fcb \cup {Closed}], next : 1 .. VolumeBlocks + 1]
Local  == [name : DOMAIN Steps \cup {""}, src : Files \cup {""}, dest : Files \cup {""},
           text : Seq(Bytes), chunk : 0 .. Chunk, srcFd : Fds \cup {-1}, destFd : Fds \cup {-1},
           got : Seq(Bytes), readcnt : -1 .. Chunk]

TypeInv ==
    /\ io \in Disk /\ cwdBelow \in BOOLEAN
    /\ cmd \in Local /\ Len(cmd.got) <= Chunk
    /\ out \in Seq(Bytes) /\ Len(out) <= BlockBytes
    /\ stable \in [content : [Files -> Seq(Bytes) \cup {Absent}], shown : Seq(Bytes) \cup {Dead}]

\* A file has a block of its own, granted before the next one to be granted.
Apart(s) ==
    /\ \A f \in Files : Listed(s, f) => s.entry[f].start \in 1 .. s.next - 1
    /\ \A f, g \in Files : Listed(s, f) /\ Listed(s, g) /\ f # g =>
         s.entry[f].start # s.entry[g].start

\* The arguments of a command.
Written == IF cmd.name \in {"touch", "cp", "cp2fs"} THEN {cmd.dest} ELSE {}

ArgumentsInv ==
    /\ cmd.name \in {"cat", "cp", "cp2l"} => cmd.src \in Files
    /\ cmd.name \in {"cp", "cp2fs"} => ~Private(cmd.dest)
    /\ cmd.name = "cp" => cmd.src # cmd.dest
    /\ cmd.name \in {"cp", "cp2l"} => Listed(io, cmd.src)
    /\ Written \subseteq Files
    /\ cmd.name # "touch" => cmd.chunk > 0

\* No file but the one written is changed, and that one stays listed.
OthersInv ==
    /\ \A f \in Files \ Written : Contents(io)[f] = stable.content[f]
    /\ \A f \in Files : stable.content[f] # Absent => Listed(io, f)

\* A descriptor that has read n bytes of file f, and one that has written w.
ReaderAt(s, fd, f, n) ==
    LET c == s.fcb[fd]
        e == s.entry[f]
    IN  /\ IsOpen(s, fd) /\ Listed(s, f)
        /\ c.file = f /\ c.flags = {} /\ EntryOf(s, c) = e
        /\ c.currentBlk = 0 /\ c.index = n /\ n <= e.size /\ c.buflen = e.size
        /\ e.size > 0 => c.buf = s.data[e.start]

WriterAt(s, fd, f, w) ==
    LET c == s.fcb[fd]
        e == s.entry[f]
    IN  /\ IsOpen(s, fd) /\ Listed(s, f)
        /\ c.file = f /\ "WRONLY" \in c.flags /\ ~c.private
        /\ e.size = Len(w)
        /\ Len(w) < BlockBytes =>
             c.currentBlk = 0 /\ c.index = Len(w) /\ \A p \in 1 .. Len(w) : c.buf[p - 1] = w[p]
        /\ Len(w) = BlockBytes =>
             c.currentBlk = 1 /\ c.index = 0 /\ \A p \in 1 .. Len(w) : s.data[e.start][p - 1] = w[p]

\* What is moved; n bytes of it are read; w is moved.
Sources == IF cmd.name = "cp2fs" THEN Texts ELSE {Contents(io)[cmd.src]}

HasRead(t, n) ==
    IF cmd.name = "cp2fs" THEN cmd.text = SubSeq(t, n + 1, Len(t))
    ELSE ReaderAt(io, cmd.srcFd, cmd.src, n)

HasMoved(w) ==
    IF cmd.name \in {"cat", "cp2l"} THEN out = w
    ELSE /\ out = <<>>
         /\ IF cmd.destFd = -1 THEN Contents(io)[cmd.dest] = stable.content[cmd.dest]
            ELSE WriterAt(io, cmd.destFd, cmd.dest, w)

Untouched == out = <<>> /\ Contents(io) = stable.content

BeforeOpen ==
    /\ Untouched
    /\ cmd.name \in {"touch", "cp", "cp2fs"} => Room(cmd.dest)
    /\ cmd.name = "cp2fs" => cmd.text \in Texts

BeforeRead ==
    \E t \in Sources, n \in 0 .. BlockBytes :
        n <= Len(t) /\ HasRead(t, n) /\ HasMoved(SubSeq(t, 1, n))

BeforeWrite ==
    \E t \in Sources, m, n \in 0 .. BlockBytes :
        /\ n <= m /\ m <= Len(t) /\ HasRead(t, m) /\ HasMoved(SubSeq(t, 1, n))
        /\ cmd.got = SubSeq(t, n + 1, m) /\ cmd.readcnt = m - n
        /\ cmd.readcnt = cmd.chunk \/ m = Len(t)

BeforeClose ==
    IF cmd.name = "touch"
    THEN /\ out = <<>> /\ io.fcb[cmd.destFd].index = 0
         /\ Contents(io)[cmd.dest] =
              IF stable.content[cmd.dest] = Absent THEN <<>> ELSE stable.content[cmd.dest]
    ELSE \E t \in Sources : HasMoved(t)

ProgressInv ==
    LET step == Head(todo)
    IN  /\ step \in {"openSource", "openDest"} => BeforeOpen
        /\ step = "openDest" /\ cmd.name = "cp" => ReaderAt(io, cmd.srcFd, cmd.src, 0)
        /\ step \in {"read", "readLinux"} => BeforeRead
        /\ step \in {"write", "emit"} => BeforeWrite
        /\ step \in {"closeSource", "closeDest"} => BeforeClose
        /\ step = "closeSource" => ReaderAt(io, cmd.srcFd, cmd.src, io.entry[cmd.src].size)

StoreInv ==
    /\ IInv /\ TypeInv /\ Apart(io)
    /\ Prompt => stable.content = Contents(io)
    /\ ~Prompt => ArgumentsInv /\ OthersInv /\ ProgressInv
=============================================================================
