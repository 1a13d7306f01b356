----------------------------- MODULE ShellProofs -----------------------------
(***************************************************************************)
(* Proofs about Shell.  Whatever the files, their contents, the sizes of   *)
(* blocks and chunks, the number of descriptors and the uses outside the   *)
(* guarantees are, no command leaves a descriptor open.  Without those     *)
(* uses the shell implements FileStore: the calls of FileOps are described *)
(* first, by what they do to a descriptor that has read or written so much *)
(* of a file, and then each step of the commands.                          *)
(***************************************************************************)
EXTENDS Shell, SequenceTheorems, LeastElements, TLAPS

-----------------------------------------------------------------------------
(* The calls of FileOps: which descriptors are open after them.            *)

IoShape(s) == DOMAIN s = DOMAIN Fresh /\ DOMAIN s.fcb = Fds

OpenFds(s) == Fds \ FreeFds(s)

\* The fields of what the calls work on.
LEMMA Fields == DOMAIN Fresh = {"data", "entry", "fcb", "next"}
  BY DEF Fresh

\* Nothing is open in a fresh table.
LEMMA FreshOpens == IoShape(Fresh) /\ OpenFds(Fresh) = {}
  BY DEF IoShape, OpenFds, FreeFds, IsOpen, Fresh

\* b_open opens the descriptor it returns, if any, and no other.
LEMMA OpenOpens ==
    ASSUME NEW s, IoShape(s), NEW f, NEW flags, NEW private
    PROVE  /\ IoShape(b_open(s, f, flags, private).io)
           /\ OpenFds(b_open(s, f, flags, private).io)
                \subseteq OpenFds(s) \cup {b_open(s, f, flags, private).fd}
<1> DEFINE e == OpenedEntry(s, f, flags)
           c == NewFcb(s, f, flags, private, e)
           fd == Min(FreeFds(s))
           next == IF Listed(s, f) THEN s.next ELSE s.next + 1
           t == [s EXCEPT !.entry[f] = e, !.fcb[fd] = c, !.next = next]
           refused == FreeFds(s) = {} \/ (~Listed(s, f) /\ "CREAT" \notin flags)
<1>1. b_open(s, f, flags, private) = IF refused THEN [io |-> s, fd |-> -1] ELSE [io |-> t, fd |-> fd]
  BY DEF b_open
<1> HIDE DEF e, c, next, fd, refused
<1>2. IoShape(t) /\ \A x \in Fds : x # fd => t.fcb[x] = s.fcb[x]
  BY Fields DEF IoShape
<1>3. OpenFds(t) \subseteq OpenFds(s) \cup {fd}
  BY <1>2 DEF OpenFds, FreeFds, IsOpen
<1> QED
  BY <1>1, <1>2, <1>3

\* b_write and b_read open nothing: they work on a descriptor that is open.
LEMMA WriteOpens ==
    ASSUME NEW s, IoShape(s), NEW fd, NEW bytes
    PROVE  IoShape(b_write(s, fd, bytes)) /\ OpenFds(b_write(s, fd, bytes)) \subseteq OpenFds(s)
<1> DEFINE c == s.fcb[fd]
           w == FoldLeft(PutByte, [c |-> c, data |-> s.data, start |-> EntryOf(s, c).start], bytes)
           g == Grow(s, w.c, Position(w.c))
           t == [s EXCEPT !.fcb[fd] = g.c, !.data = w.data, !.entry = g.entry]
           refused == ~IsOpen(s, fd) \/ ~Writable(c.flags) \/ bytes = <<>>
<1>1. b_write(s, fd, bytes) = IF refused THEN s ELSE t
  BY DEF b_write
<1>2. ~refused => fd \in OpenFds(s)
  BY DEF OpenFds, FreeFds, IsOpen
<1> HIDE DEF g, w, refused
<1>3. IoShape(t) /\ \A x \in Fds : x # fd => t.fcb[x] = s.fcb[x]
  BY Fields DEF IoShape
<1>4. OpenFds(t) \subseteq OpenFds(s) \cup {fd}
  BY <1>3 DEF OpenFds, FreeFds, IsOpen
<1> QED
  BY <1>1, <1>2, <1>3, <1>4

\* b_read opens no descriptor.
LEMMA ReadOpens ==
    ASSUME NEW s, IoShape(s), NEW fd, NEW count
    PROVE  IoShape(b_read(s, fd, count).io) /\ OpenFds(b_read(s, fd, count).io) \subseteq OpenFds(s)
<1> DEFINE c == s.fcb[fd]
           n == Count(count, EntryOf(s, c).size - Position(c))
           r == LastBlock(s, WholeBlocks(s, FromBuffer(c, n), n), n)
           t == [s EXCEPT !.fcb[fd] = r.c]
<1>1. b_read(s, fd, count).io \in {s, t} /\ (~IsOpen(s, fd) => b_read(s, fd, count).io = s)
  BY DEF b_read
<1>2. IsOpen(s, fd) => fd \in OpenFds(s)
  BY DEF OpenFds, FreeFds, IsOpen
<1> HIDE DEF r
<1>3. IoShape(t) /\ \A x \in Fds : x # fd => t.fcb[x] = s.fcb[x]
  BY Fields DEF IoShape
<1>4. OpenFds(t) \subseteq OpenFds(s) \cup {fd}
  BY <1>3 DEF OpenFds, FreeFds, IsOpen
<1> QED
  BY <1>1, <1>2, <1>3, <1>4

\* b_close closes its descriptor.
LEMMA CloseOpens ==
    ASSUME NEW s, IoShape(s), NEW fd
    PROVE  IoShape(b_close(s, fd)) /\ OpenFds(b_close(s, fd)) \subseteq OpenFds(s) \ {fd}
<1> DEFINE d == Flushed(s, s.fcb[fd])
           t == [s EXCEPT !.data = d, !.fcb[fd] = Closed]
<1>1. b_close(s, fd) = IF IsOpen(s, fd) THEN t ELSE s
  BY DEF b_close
<1> HIDE DEF d
<1>2. IoShape(t) /\ (fd \in Fds => t.fcb[fd] = Closed) /\ \A x \in Fds : x # fd => t.fcb[x] = s.fcb[x]
  BY Fields DEF IoShape
<1>3. OpenFds(t) \subseteq OpenFds(s) \ {fd}
  BY <1>2 DEF OpenFds, FreeFds, IsOpen
<1> QED
  BY <1>1, <1>2, <1>3 DEF OpenFds, FreeFds, IsOpen

\* fs_delete opens and closes none.
LEMMA DeleteOpens ==
    ASSUME NEW s, IoShape(s), NEW f
    PROVE  IoShape(fs_delete(s, f)) /\ OpenFds(fs_delete(s, f)) = OpenFds(s)
  BY Fields DEF IoShape, OpenFds, FreeFds, IsOpen, fs_delete

-----------------------------------------------------------------------------
(* The calls of the commands.                                              *)

Commands == DOMAIN Steps

\* Each command makes a call at most once, opens before it closes, and reads
\* right before it writes.
Calls == {"openSource", "openDest", "read", "readLinux", "write", "emit", "closeSource", "closeDest"}

InOrder(n, S) ==
    /\ S \in Seq(Calls) /\ Len(S) \in Nat \ {0}
    /\ \A j, k \in 1 .. Len(S) : S[j] = S[k] => j = k
    /\ \A k \in 1 .. Len(S) : S[k] = "openSource" => \E j \in k + 1 .. Len(S) : S[j] = "closeSource"
    /\ \A k \in 1 .. Len(S) : S[k] = "openDest" => \E j \in k + 1 .. Len(S) : S[j] = "closeDest"
    /\ \A k \in 2 .. Len(S) : S[k] \in {"write", "emit"} =>
         S[k - 1] = IF n = "cp2fs" THEN "readLinux" ELSE "read"
    /\ S[1] \notin {"write", "emit"}
    /\ n = "cat" => \A k \in 1 .. Len(S) : S[k] \notin {"openDest", "closeDest"}
    /\ n = "touch" => \A k \in 1 .. Len(S) : S[k] \notin {"openSource", "closeSource"}

\* The calls of every command are in order.
LEMMA StepsInOrder == \A n \in Commands : InOrder(n, Steps[n])
<1> SUFFICES ASSUME NEW n \in Commands PROVE InOrder(n, Steps[n])
  OBVIOUS
<1>1. ASSUME NEW S, S = Steps.touch PROVE InOrder("touch", S)
  <2>1. S \in Seq(Calls) /\ Len(S) = 2
    <3>1. S = <<"openDest", "closeDest">>
      BY <1>1 DEF Steps
    <3> QED
      BY <3>1 DEF Calls
  <2>2. S[1] = "openDest" /\ S[2] = "closeDest"
    BY <1>1 DEF Steps
  <2>3. 1 .. Len(S) = {1, 2} /\ 2 .. Len(S) = {2}
    BY <2>1
  <2>4. \A j, k \in 1 .. Len(S) : S[j] = S[k] => j = k
    BY <2>2, <2>3
  <2> QED
    BY <2>1, <2>2, <2>3, <2>4 DEF InOrder
<1>2. ASSUME NEW S, S = Steps.cat PROVE InOrder("cat", S)
  <2>1. S \in Seq(Calls) /\ Len(S) = 4
    <3>1. S = <<"openSource", "read", "emit", "closeSource">>
      BY <1>2 DEF Steps
    <3> QED
      BY <3>1 DEF Calls
  <2>2. S[1] = "openSource" /\ S[2] = "read" /\ S[3] = "emit" /\ S[4] = "closeSource"
    BY <1>2 DEF Steps
  <2>3. 1 .. Len(S) = {1, 2, 3, 4} /\ 2 .. Len(S) = {2, 3, 4}
    BY <2>1
  <2>4. \A j, k \in 1 .. Len(S) : S[j] = S[k] => j = k
    BY <2>2, <2>3
  <2> QED
    BY <2>1, <2>2, <2>3, <2>4 DEF InOrder
<1>3. ASSUME NEW S, S = Steps.cp PROVE InOrder("cp", S)
  <2>1. S \in Seq(Calls) /\ Len(S) = 6
    <3>1. S = <<"openSource", "openDest", "read", "write", "closeSource", "closeDest">>
      BY <1>3 DEF Steps
    <3> QED
      BY <3>1 DEF Calls
  <2>2. S[1] = "openSource" /\ S[2] = "openDest" /\ S[3] = "read" /\ S[4] = "write" /\ S[5] = "closeSource" /\ S[6] = "closeDest"
    BY <1>3 DEF Steps
  <2>3. 1 .. Len(S) = {1, 2, 3, 4, 5, 6} /\ 2 .. Len(S) = {2, 3, 4, 5, 6}
    BY <2>1
  <2>4. \A j, k \in 1 .. Len(S) : S[j] = S[k] => j = k
    BY <2>2, <2>3
  <2> QED
    BY <2>1, <2>2, <2>3, <2>4 DEF InOrder
<1>4. ASSUME NEW S, S = Steps.cp2l PROVE InOrder("cp2l", S)
  <2>1. S \in Seq(Calls) /\ Len(S) = 4
    <3>1. S = <<"openSource", "read", "emit", "closeSource">>
      BY <1>4 DEF Steps
    <3> QED
      BY <3>1 DEF Calls
  <2>2. S[1] = "openSource" /\ S[2] = "read" /\ S[3] = "emit" /\ S[4] = "closeSource"
    BY <1>4 DEF Steps
  <2>3. 1 .. Len(S) = {1, 2, 3, 4} /\ 2 .. Len(S) = {2, 3, 4}
    BY <2>1
  <2>4. \A j, k \in 1 .. Len(S) : S[j] = S[k] => j = k
    BY <2>2, <2>3
  <2> QED
    BY <2>1, <2>2, <2>3, <2>4 DEF InOrder
<1>5. ASSUME NEW S, S = Steps.cp2fs PROVE InOrder("cp2fs", S)
  <2>1. S \in Seq(Calls) /\ Len(S) = 4
    <3>1. S = <<"openDest", "readLinux", "write", "closeDest">>
      BY <1>5 DEF Steps
    <3> QED
      BY <3>1 DEF Calls
  <2>2. S[1] = "openDest" /\ S[2] = "readLinux" /\ S[3] = "write" /\ S[4] = "closeDest"
    BY <1>5 DEF Steps
  <2>3. 1 .. Len(S) = {1, 2, 3, 4} /\ 2 .. Len(S) = {2, 3, 4}
    BY <2>1
  <2>4. \A j, k \in 1 .. Len(S) : S[j] = S[k] => j = k
    BY <2>2, <2>3
  <2> QED
    BY <2>1, <2>2, <2>3, <2>4 DEF InOrder
<1>6. n \in {"touch", "cat", "cp", "cp2l", "cp2fs"}
  BY DEF Commands, Steps
<1> QED
  BY <1>1, <1>2, <1>3, <1>4, <1>5, <1>6

\* The calls from position k on, and what is left of them.
LEMMA RestOfSteps ==
    ASSUME NEW S \in Seq(Calls), NEW k \in 1 .. Len(S)
    PROVE  /\ SubSeq(S, k, Len(S)) # <<>> /\ Head(SubSeq(S, k, Len(S))) = S[k]
           /\ Tail(SubSeq(S, k, Len(S))) = SubSeq(S, k + 1, Len(S))
           /\ k > 1 => <<S[k - 1]>> \o SubSeq(S, k, Len(S)) = SubSeq(S, k - 1, Len(S))
<1> DEFINE T == SubSeq(S, k, Len(S))
<1>1. Len(S) \in Nat
  OBVIOUS
<1>2. Head(T) = S[k] /\ Tail(T) = SubSeq(S, k + 1, Len(S))
  BY <1>1, HeadTailOfSubSeq
<1>3. /\ T \in Seq(Calls) /\ Len(T) = Len(S) - k + 1
      /\ \A i \in 1 .. Len(T) : T[i] = S[k + i - 1]
  BY <1>1
<1> HIDE DEF T
<1>4. ASSUME k > 1 PROVE <<S[k - 1]>> \o T = SubSeq(S, k - 1, Len(S))
  <2> DEFINE U == SubSeq(S, k - 1, Len(S))
             one == <<S[k - 1]>>
             V == one \o T
  <2>1. /\ U \in Seq(Calls) /\ Len(U) = Len(S) - k + 2
        /\ \A i \in 1 .. Len(U) : U[i] = S[k + i - 2]
    BY <1>1, <1>4
  <2>2. one \in Seq(Calls) /\ Len(one) = 1 /\ one[1] = S[k - 1]
    BY <1>1, <1>4
  <2> HIDE DEF one
  <2>7. /\ V \in Seq(Calls) /\ Len(V) = Len(one) + Len(T)
        /\ \A i \in 1 .. Len(one) + Len(T) : V[i] = IF i <= Len(one) THEN one[i] ELSE T[i - Len(one)]
    BY <1>3, <2>2, ConcatProperties, Zenon
  <2> HIDE DEF U, V
  <2>3. /\ V \in Seq(Calls) /\ Len(V) = 1 + Len(T)
        /\ \A i \in 1 .. 1 + Len(T) : V[i] = IF i <= 1 THEN one[i] ELSE T[i - 1]
    BY <2>2, <2>7
  <2>4. \A i \in 1 .. Len(V) : V[i] = U[i]
    <3> SUFFICES ASSUME NEW i \in 1 .. Len(V) PROVE V[i] = U[i]
      OBVIOUS
    <3>1. i \in 1 .. Len(U) /\ U[i] = S[k + i - 2]
      BY <1>1, <1>3, <2>1, <2>3
    <3>2. CASE i = 1
      BY <1>1, <1>4, <2>2, <2>3, <3>1, <3>2
    <3>3. CASE i # 1
      <4>1. i - 1 \in 1 .. Len(T) /\ V[i] = T[i - 1] /\ k + (i - 1) - 1 = k + i - 2
        BY <1>1, <1>3, <2>3, <3>3
      <4> QED
        BY <1>3, <3>1, <4>1
    <3> QED
      BY <3>2, <3>3
  <2>5. Len(V) = Len(U)
    BY <1>1, <1>3, <2>1, <2>3
  <2>6. V = U
    BY <2>1, <2>3, <2>4, <2>5, SeqEqual
  <2> QED
    BY <2>6 DEF V, U, one
<1>5. T # <<>>
  BY <1>1, <1>3
<1> QED
  BY <1>2, <1>4, <1>5 DEF T

\* The calls of command n from position k on contain the step.
Within(n, step, k) == \E j \in k .. Len(Steps[n]) : Steps[n][j] = step

\* The descriptors that are open in s will be closed by what is to come of
\* command c, and what will be opened is not.
Settled(s, c, k) ==
    /\ \A fd \in OpenFds(s) : \/ fd = c.srcFd /\ Within(c.name, "closeSource", k)
                              \/ fd = c.destFd /\ Within(c.name, "closeDest", k)
    /\ Within(c.name, "openSource", k) => c.srcFd = -1
    /\ Within(c.name, "openDest", k) => c.destFd = -1

\* Where a command is.
LEMMA Somewhere ==
    ASSUME IInv, ~Prompt
    PROVE  /\ IoShape(io) /\ DOMAIN cmd = DOMAIN NoCommand /\ cmd.name \in Commands
           /\ \E k \in 1 .. Len(Steps[cmd.name]) :
                todo = SubSeq(Steps[cmd.name], k, Len(Steps[cmd.name])) /\ Settled(io, cmd, k)
  BY DEF IInv, IoShape, Commands, Stage, Settled, ToCome, Within, OpenFds

\* A call that leads to position k of its command.
LEMMA ContinueIInv ==
    ASSUME NEW s, IoShape(s), NEW c, DOMAIN c = DOMAIN NoCommand, c.name \in Commands,
           NEW k \in 1 .. Len(Steps[c.name]) + 1, Settled(s, c, k),
           NEW shown, Continue(s, c, SubSeq(Steps[c.name], k, Len(Steps[c.name])), shown)
    PROVE  IInv'
<1> DEFINE rest == SubSeq(Steps[c.name], k, Len(Steps[c.name]))
<1>1. io' = s /\ todo' = rest /\ cmd' = IF rest = <<>> THEN NoCommand ELSE c
  BY DEF Continue
<1>2. Steps[c.name] \in Seq(Calls) /\ Len(Steps[c.name]) \in Nat
  BY StepsInOrder DEF InOrder
<1>3. CASE k = Len(Steps[c.name]) + 1
  <2>1. rest = <<>>
    BY <1>2, <1>3
  <2>2. OpenFds(s) = {}
    BY <1>2, <1>3 DEF Settled, Within
  <2>3. FreeFds(s) = Fds
    BY <2>2 DEF OpenFds, FreeFds
  <2> QED
    BY <1>1, <2>1, <2>3 DEF IInv, IoShape, NothingLeftOpen, Prompt
<1>4. CASE k \in 1 .. Len(Steps[c.name])
  <2>1. rest # <<>>
    BY <1>2, <1>4, RestOfSteps
  <2>2. todo' # <<>> /\ cmd' = c /\ io' = s
    BY <1>1, <2>1
  <2>3. Stage(k)'
    BY <1>1, <2>2 DEF Stage, ToCome, Settled, Within, OpenFds
  <2> QED
    BY <1>4, <2>2, <2>3 DEF IInv, IoShape, Commands, Prompt
<1> QED
  BY <1>2, <1>3, <1>4

\* A command that has just begun.
LEMMA BeginIInv ==
    ASSUME IInv, NEW c, DOMAIN c = DOMAIN NoCommand, c.name \in Commands,
           c.srcFd = -1, c.destFd = -1, Begin(c)
    PROVE  IInv'
<1> DEFINE n == c.name
<1>1. Prompt /\ io' = io /\ todo' = Steps[n] /\ cmd' = c
  BY DEF Begin
<1>2. /\ DOMAIN cmd' = DOMAIN NoCommand
      /\ cmd'.name = n /\ cmd'.srcFd = -1 /\ cmd'.destFd = -1
  BY <1>1
<1>3. Steps[n] \in Seq(Calls) /\ Len(Steps[n]) \in Nat \ {0}
  BY StepsInOrder DEF InOrder
<1>4. Steps[n] = SubSeq(Steps[n], 1, Len(Steps[n])) /\ Steps[n] # <<>>
  BY <1>3
<1>5. IoShape(io) /\ FreeFds(io) = Fds
  BY <1>1 DEF IInv, IoShape, NothingLeftOpen
<1>6. Stage(1)'
  BY <1>1, <1>2, <1>4, <1>5 DEF Stage, ToCome
<1> QED
  BY <1>1, <1>2, <1>3, <1>4, <1>5, <1>6 DEF IInv, IoShape, Commands, Prompt

-----------------------------------------------------------------------------
(* The steps.                                                              *)

\* The invariant holds at the first prompt.
LEMMA InitIInv == Init => IInv
  BY FreshOpens DEF Init, IInv, IoShape, NothingLeftOpen, Prompt, OpenFds, FreeFds

\* The source is opened.
LEMMA OpenSourceIInv == ASSUME IInv, OpenSource PROVE IInv'
<1> DEFINE r == b_open(io, cmd.src, {}, Private(cmd.src))
           c == [cmd EXCEPT !.srcFd = r.fd]
           S == Steps[cmd.name]
<1>1. ~Prompt /\ Head(todo) = "openSource" /\ Continue(r.io, c, Opened(r.fd), out)
  BY DEF OpenSource, At
<1>2. PICK k \in 1 .. Len(S) : todo = SubSeq(S, k, Len(S)) /\ Settled(io, cmd, k)
  BY <1>1, Somewhere
<1>3. IoShape(io) /\ DOMAIN cmd = DOMAIN NoCommand /\ cmd.name \in Commands
  BY <1>1, Somewhere
<1>4. IoShape(r.io) /\ OpenFds(r.io) \subseteq OpenFds(io) \cup {r.fd}
  BY <1>3, OpenOpens
<1> HIDE DEF r
<1>5. S \in Seq(Calls) /\ Len(S) \in Nat
  BY <1>3, StepsInOrder DEF InOrder
<1>6. S[k] = "openSource" /\ Tail(todo) = SubSeq(S, k + 1, Len(S))
  BY <1>1, <1>2, <1>5, RestOfSteps
<1>7. c.name = cmd.name /\ c.srcFd = r.fd /\ c.destFd = cmd.destFd /\ DOMAIN c = DOMAIN NoCommand
  BY <1>3 DEF NoCommand
<1>8. cmd.srcFd = -1
  BY <1>2, <1>5, <1>6 DEF Settled, Within
<1>9. \A fd \in OpenFds(io) : fd # -1
  BY FileOpsAssumption DEF OpenFds, Fds
<1> HIDE DEF c
<1>10. CASE r.fd = -1 /\ cmd.name \in {"cat", "touch"}
  <2>1. Opened(r.fd) = <<>>
    BY <1>10 DEF Opened
  <2>2. cmd.name = "cat"
    BY <1>2, <1>3, <1>6, <1>10, StepsInOrder DEF InOrder
  <2>3. ~Within(cmd.name, "closeDest", k)
    BY <1>2, <1>3, <2>2, StepsInOrder DEF InOrder, Within
  <2>4. OpenFds(io) = {}
    BY <1>2, <1>8, <1>9, <2>3 DEF Settled
  <2>5. OpenFds(r.io) = {}
    BY <1>4, <1>10, <2>4, FileOpsAssumption DEF OpenFds, Fds
  <2>6. Settled(r.io, c, Len(S) + 1)
    BY <1>5, <1>7, <2>5 DEF Settled, Within
  <2>7. SubSeq(S, Len(S) + 1, Len(S)) = <<>>
    BY <1>5
  <2>8. Continue(r.io, c, SubSeq(Steps[c.name], Len(S) + 1, Len(Steps[c.name])), out)
    BY <1>1, <1>7, <2>1, <2>7
  <2>9. Len(S) + 1 \in 1 .. Len(Steps[c.name]) + 1 /\ c.name \in Commands
    BY <1>3, <1>5, <1>7
  <2> HIDE DEF S
  <2> QED
    BY <1>4, <1>7, <2>6, <2>8, <2>9, ContinueIInv
<1>11. CASE ~(r.fd = -1 /\ cmd.name \in {"cat", "touch"})
  <2>1. Opened(r.fd) = SubSeq(S, k + 1, Len(S))
    BY <1>6, <1>11 DEF Opened
  <2>2. Within(cmd.name, "closeSource", k + 1) /\ ~Within(cmd.name, "openSource", k + 1)
    BY <1>3, <1>5, <1>6, StepsInOrder DEF InOrder, Within
  <2>3. \A step : step # "openSource" => (Within(cmd.name, step, k) <=> Within(cmd.name, step, k + 1))
    BY <1>5, <1>6 DEF Within
  <2>4. Settled(r.io, c, k + 1)
    BY <1>2, <1>4, <1>7, <1>8, <1>9, <2>2, <2>3 DEF Settled
  <2>5. Continue(r.io, c, SubSeq(Steps[c.name], k + 1, Len(Steps[c.name])), out)
    BY <1>1, <1>7, <2>1
  <2>6. k + 1 \in 1 .. Len(Steps[c.name]) + 1 /\ c.name \in Commands
    BY <1>3, <1>5, <1>7
  <2> HIDE DEF S
  <2> QED
    BY <1>4, <1>7, <2>4, <2>5, <2>6, ContinueIInv
<1> QED
  BY <1>10, <1>11

\* The destination is opened.
LEMMA OpenDestIInv == ASSUME IInv, OpenDest PROVE IInv'
<1> DEFINE r == b_open(io, cmd.dest, DestFlags, Private(cmd.dest))
           c == [cmd EXCEPT !.destFd = r.fd]
           S == Steps[cmd.name]
<1>1. ~Prompt /\ Head(todo) = "openDest" /\ Continue(r.io, c, Opened(r.fd), out)
  BY DEF OpenDest, At
<1>2. PICK k \in 1 .. Len(S) : todo = SubSeq(S, k, Len(S)) /\ Settled(io, cmd, k)
  BY <1>1, Somewhere
<1>3. IoShape(io) /\ DOMAIN cmd = DOMAIN NoCommand /\ cmd.name \in Commands
  BY <1>1, Somewhere
<1>4. IoShape(r.io) /\ OpenFds(r.io) \subseteq OpenFds(io) \cup {r.fd}
  BY <1>3, OpenOpens
<1> HIDE DEF r
<1>5. S \in Seq(Calls) /\ Len(S) \in Nat
  BY <1>3, StepsInOrder DEF InOrder
<1>6. S[k] = "openDest" /\ Tail(todo) = SubSeq(S, k + 1, Len(S))
  BY <1>1, <1>2, <1>5, RestOfSteps
<1>7. c.name = cmd.name /\ c.destFd = r.fd /\ c.srcFd = cmd.srcFd /\ DOMAIN c = DOMAIN NoCommand
  BY <1>3 DEF NoCommand
<1>8. cmd.destFd = -1
  BY <1>2, <1>5, <1>6 DEF Settled, Within
<1>9. \A fd \in OpenFds(io) : fd # -1
  BY FileOpsAssumption DEF OpenFds, Fds
<1> HIDE DEF c
<1>10. CASE r.fd = -1 /\ cmd.name \in {"cat", "touch"}
  <2>1. Opened(r.fd) = <<>>
    BY <1>10 DEF Opened
  <2>2. cmd.name = "touch"
    BY <1>2, <1>3, <1>6, <1>10, StepsInOrder DEF InOrder
  <2>3. ~Within(cmd.name, "closeSource", k)
    BY <1>2, <1>3, <2>2, StepsInOrder DEF InOrder, Within
  <2>4. OpenFds(io) = {}
    BY <1>2, <1>8, <1>9, <2>3 DEF Settled
  <2>5. OpenFds(r.io) = {}
    BY <1>4, <1>10, <2>4, FileOpsAssumption DEF OpenFds, Fds
  <2>6. Settled(r.io, c, Len(S) + 1)
    BY <1>5, <1>7, <2>5 DEF Settled, Within
  <2>7. SubSeq(S, Len(S) + 1, Len(S)) = <<>>
    BY <1>5
  <2>8. Continue(r.io, c, SubSeq(Steps[c.name], Len(S) + 1, Len(Steps[c.name])), out)
    BY <1>1, <1>7, <2>1, <2>7
  <2>9. Len(S) + 1 \in 1 .. Len(Steps[c.name]) + 1 /\ c.name \in Commands
    BY <1>3, <1>5, <1>7
  <2> HIDE DEF S
  <2> QED
    BY <1>4, <1>7, <2>6, <2>8, <2>9, ContinueIInv
<1>11. CASE ~(r.fd = -1 /\ cmd.name \in {"cat", "touch"})
  <2>1. Opened(r.fd) = SubSeq(S, k + 1, Len(S))
    BY <1>6, <1>11 DEF Opened
  <2>2. Within(cmd.name, "closeDest", k + 1) /\ ~Within(cmd.name, "openDest", k + 1)
    BY <1>3, <1>5, <1>6, StepsInOrder DEF InOrder, Within
  <2>3. \A step : step # "openDest" => (Within(cmd.name, step, k) <=> Within(cmd.name, step, k + 1))
    BY <1>5, <1>6 DEF Within
  <2>4. Settled(r.io, c, k + 1)
    BY <1>2, <1>4, <1>7, <1>8, <1>9, <2>2, <2>3 DEF Settled
  <2>5. Continue(r.io, c, SubSeq(Steps[c.name], k + 1, Len(Steps[c.name])), out)
    BY <1>1, <1>7, <2>1
  <2>6. k + 1 \in 1 .. Len(Steps[c.name]) + 1 /\ c.name \in Commands
    BY <1>3, <1>5, <1>7
  <2> HIDE DEF S
  <2> QED
    BY <1>4, <1>7, <2>4, <2>5, <2>6, ContinueIInv
<1> QED
  BY <1>10, <1>11

\* A call that opens nothing and goes on to the next one, and closes what it
\* is there to close.
LEMMA OnwardIInv ==
    ASSUME IInv, NEW step \in Calls \ {"openSource", "openDest"}, At(step),
           NEW s, IoShape(s), OpenFds(s) \subseteq OpenFds(io),
           step = "closeSource" => cmd.srcFd \notin OpenFds(s),
           step = "closeDest" => cmd.destFd \notin OpenFds(s),
           NEW c, DOMAIN c = DOMAIN NoCommand,
           c.name = cmd.name, c.srcFd = cmd.srcFd, c.destFd = cmd.destFd,
           NEW shown, Continue(s, c, Tail(todo), shown)
    PROVE  IInv'
<1> DEFINE S == Steps[cmd.name]
<1>1. PICK k \in 1 .. Len(S) : todo = SubSeq(S, k, Len(S)) /\ Settled(io, cmd, k)
  BY Somewhere DEF At
<1>2. cmd.name \in Commands /\ S \in Seq(Calls) /\ Len(S) \in Nat
  BY Somewhere, StepsInOrder DEF At, InOrder
<1>3. S[k] = step /\ Tail(todo) = SubSeq(S, k + 1, Len(S))
  BY <1>1, <1>2, RestOfSteps DEF At
<1>4. \A x : x # step => (Within(cmd.name, x, k) <=> Within(cmd.name, x, k + 1))
  BY <1>2, <1>3 DEF Within
<1>5. Within(cmd.name, step, k + 1) => Within(cmd.name, step, k)
  BY <1>2, <1>3 DEF Within
<1>6. Settled(s, c, k + 1)
  BY <1>1, <1>4, <1>5 DEF Settled
<1>7. k + 1 \in 1 .. Len(Steps[c.name]) + 1 /\ c.name \in Commands
  BY <1>2
<1>8. Continue(s, c, SubSeq(Steps[c.name], k + 1, Len(Steps[c.name])), shown)
  BY <1>3
<1> HIDE DEF S
<1> QED
  BY <1>6, <1>7, <1>8, ContinueIInv

\* The end of a turn of a copy loop: out of the loop, or back to the read.
LEMMA ChunkIInv ==
    ASSUME IInv, NEW step \in {"write", "emit"}, At(step),
           NEW s, IoShape(s), OpenFds(s) \subseteq OpenFds(io),
           NEW shown, Continue(s, cmd, AfterChunk, shown)
    PROVE  IInv'
<1> DEFINE S == Steps[cmd.name]
<1>1. PICK k \in 1 .. Len(S) : todo = SubSeq(S, k, Len(S)) /\ Settled(io, cmd, k)
  BY Somewhere DEF At
<1>2. /\ DOMAIN cmd = DOMAIN NoCommand /\ cmd.name \in Commands
      /\ S \in Seq(Calls) /\ Len(S) \in Nat
  BY Somewhere, StepsInOrder DEF At, InOrder
<1>3. CASE ~More
  <2>1. Continue(s, cmd, Tail(todo), shown)
    BY <1>3 DEF AfterChunk
  <2>2. step \in Calls \ {"openSource", "openDest"} /\ step # "closeSource" /\ step # "closeDest"
    BY DEF Calls
  <2> QED
    BY <1>2, <2>1, <2>2, OnwardIInv
<1>4. CASE More
  <2>1. S[k] = step
    BY <1>1, <1>2, RestOfSteps DEF At
  <2>2. k > 1 /\ S[k - 1] = IF cmd.name = "cp2fs" THEN "readLinux" ELSE "read"
    BY <1>2, <2>1, StepsInOrder DEF InOrder
  <2>3. AfterChunk = SubSeq(S, k - 1, Len(S))
    BY <1>1, <1>2, <1>4, <2>2, RestOfSteps DEF AfterChunk, ReadAgain
  <2>4. S[k - 1] \notin {"openSource", "openDest", "closeSource", "closeDest"}
    BY <2>2
  <2>5. \A x : x # S[k - 1] => (Within(cmd.name, x, k) <=> Within(cmd.name, x, k - 1))
    BY <1>2, <2>2 DEF Within
  <2>6. Settled(s, cmd, k - 1)
    BY <1>1, <2>4, <2>5 DEF Settled
  <2>7. k - 1 \in 1 .. Len(Steps[cmd.name]) + 1
    BY <1>2, <2>2
  <2>8. Continue(s, cmd, SubSeq(Steps[cmd.name], k - 1, Len(Steps[cmd.name])), shown)
    BY <2>3
  <2> HIDE DEF S
  <2> QED
    BY <1>2, <2>6, <2>7, <2>8, ContinueIInv
<1> QED
  BY <1>3, <1>4

\* The calls in the middle of a command.
LEMMA CallIInv ==
    ASSUME IInv, Read \/ ReadLinux \/ Write \/ Emit \/ CloseSource \/ CloseDest
    PROVE  IInv'
<1>1. ~Prompt
  BY DEF Read, ReadLinux, Write, Emit, CloseSource, CloseDest, At
<1>2. IoShape(io) /\ DOMAIN cmd = DOMAIN NoCommand
  BY <1>1, Somewhere
<1>3. DOMAIN NoCommand = {"name", "src", "dest", "text", "chunk", "srcFd", "destFd", "got", "readcnt"}
  BY DEF NoCommand
<1>4. CASE Read
  <2> DEFINE r == b_read(io, cmd.srcFd, cmd.chunk)
             c == [cmd EXCEPT !.got = r.got, !.readcnt = r.readcnt]
  <2>1. At("read") /\ Continue(r.io, c, Tail(todo), out)
    BY <1>4 DEF Read
  <2>2. IoShape(r.io) /\ OpenFds(r.io) \subseteq OpenFds(io)
    BY <1>2, ReadOpens
  <2> HIDE DEF r
  <2>3. DOMAIN c = DOMAIN NoCommand /\ c.name = cmd.name /\ c.srcFd = cmd.srcFd /\ c.destFd = cmd.destFd
    BY <1>2, <1>3
  <2> HIDE DEF c
  <2>4. "read" \in Calls \ {"openSource", "openDest"}
    BY DEF Calls
  <2> QED
    BY <2>1, <2>2, <2>3, <2>4, OnwardIInv
<1>5. CASE ReadLinux
  <2>1. PICK c : /\ At("readLinux") /\ Continue(io, c, Tail(todo), out)
                 /\ DOMAIN c = DOMAIN NoCommand /\ c.name = cmd.name
                 /\ c.srcFd = cmd.srcFd /\ c.destFd = cmd.destFd
    <3> DEFINE n == IF cmd.text = Absent THEN -1 ELSE SmallerOf(cmd.chunk, Len(cmd.text))
               some == [cmd EXCEPT !.got = SubSeq(cmd.text, 1, n), !.readcnt = n,
                                   !.text = SubSeq(@, n + 1, Len(@))]
               none == [cmd EXCEPT !.got = <<>>, !.readcnt = n]
               c == IF n > 0 THEN some ELSE none
    <3>1. At("readLinux") /\ Continue(io, c, Tail(todo), out)
      BY <1>5 DEF ReadLinux
    <3> HIDE DEF n
    <3>2. /\ DOMAIN c = DOMAIN NoCommand /\ c.name = cmd.name
          /\ c.srcFd = cmd.srcFd /\ c.destFd = cmd.destFd
      BY <1>2, <1>3
    <3> QED
      BY <3>1, <3>2
  <2>2. "readLinux" \in Calls \ {"openSource", "openDest"}
    BY DEF Calls
  <2> QED
    BY <1>2, <2>1, <2>2, OnwardIInv
<1>6. CASE Write
  BY <1>2, <1>6, WriteOpens, ChunkIInv DEF Write
<1>7. CASE Emit
  BY <1>2, <1>7, ChunkIInv DEF Emit
<1>8. CASE CloseSource
  <2>1. At("closeSource") /\ Continue(b_close(io, cmd.srcFd), cmd, Tail(todo), out)
    BY <1>8 DEF CloseSource
  <2>2. /\ IoShape(b_close(io, cmd.srcFd)) /\ OpenFds(b_close(io, cmd.srcFd)) \subseteq OpenFds(io)
        /\ cmd.srcFd \notin OpenFds(b_close(io, cmd.srcFd))
    BY <1>2, CloseOpens
  <2>3. "closeSource" \in Calls \ {"openSource", "openDest"}
    BY DEF Calls
  <2> QED
    BY <1>2, <2>1, <2>2, <2>3, OnwardIInv
<1>9. CASE CloseDest
  <2>1. At("closeDest") /\ Continue(b_close(io, cmd.destFd), cmd, Tail(todo), out)
    BY <1>9 DEF CloseDest
  <2>2. /\ IoShape(b_close(io, cmd.destFd)) /\ OpenFds(b_close(io, cmd.destFd)) \subseteq OpenFds(io)
        /\ cmd.destFd \notin OpenFds(b_close(io, cmd.destFd))
    BY <1>2, CloseOpens
  <2>3. "closeDest" \in Calls \ {"openSource", "openDest"}
    BY DEF Calls
  <2> QED
    BY <1>2, <2>1, <2>2, <2>3, OnwardIInv
<1> QED
  BY <1>4, <1>5, <1>6, <1>7, <1>8, <1>9

\* What is typed at the prompt.
LEMMA TypedIInv ==
    ASSUME IInv,
           \/ \E f \in Files : Touch(f) \/ Cat(f) \/ Cp2l(f) \/ Rm(f)
           \/ \E s, d \in Files : Cp(s, d)
           \/ \E t \in Texts \cup {Absent}, d \in Files : Cp2fs(t, d)
           \/ \E below \in BOOLEAN : Cd(below)
    PROVE  IInv'
<1>1. CASE \E f \in Files : Rm(f)
  <2>1. PICK f \in Files : Prompt /\ Continue(fs_delete(io, f), cmd, <<>>, <<>>)
    BY <1>1 DEF Rm
  <2>2. IoShape(io) /\ OpenFds(io) = {}
    BY <2>1 DEF IInv, IoShape, NothingLeftOpen, OpenFds
  <2>3. IoShape(fs_delete(io, f)) /\ OpenFds(fs_delete(io, f)) = {}
    BY <2>2, DeleteOpens
  <2>4. io' = fs_delete(io, f) /\ todo' = <<>> /\ cmd' = NoCommand
    BY <2>1 DEF Continue
  <2>5. FreeFds(io') = Fds
    BY <2>3, <2>4 DEF OpenFds, FreeFds
  <2> QED
    BY <2>3, <2>4, <2>5 DEF IInv, IoShape, NothingLeftOpen, Prompt
<1>2. CASE \E below \in BOOLEAN : Cd(below)
  BY <1>2 DEF Cd, IInv, NothingLeftOpen, Prompt
<1>3. ASSUME NEW c, Begin(c), DOMAIN c = DOMAIN NoCommand, c.name \in Commands, c.srcFd = -1, c.destFd = -1
      PROVE  IInv'
  BY <1>3, BeginIInv
<1>4. CASE \E f \in Files : Touch(f) \/ Cat(f) \/ Cp2l(f)
  BY <1>3, <1>4 DEF Touch, Cat, Cp2l, NoCommand, Commands, Steps
<1>5. CASE \E s, d \in Files : Cp(s, d)
  BY <1>3, <1>5 DEF Cp, NoCommand, Commands, Steps
<1>6. CASE \E t \in Texts \cup {Absent}, d \in Files : Cp2fs(t, d)
  BY <1>3, <1>6 DEF Cp2fs, NoCommand, Commands, Steps
<1> QED
  BY <1>1, <1>2, <1>4, <1>5, <1>6

\* A crash closes every descriptor.
LEMMA CrashIInv == ASSUME IInv, Crash PROVE IInv'
<1>1. io' = [io EXCEPT !.fcb = Fresh.fcb] /\ cmd' = NoCommand /\ todo' = <<>>
  BY DEF Crash
<1>2. IoShape(io') /\ io'.fcb = Fresh.fcb
  BY <1>1, Fields, FreshOpens DEF IInv, IoShape
<1>3. FreeFds(io') = Fds
  BY <1>2, FreshOpens DEF OpenFds, FreeFds, IsOpen
<1> QED
  BY <1>1, <1>2, <1>3 DEF IInv, IoShape, NothingLeftOpen, Prompt

\* Every step keeps the invariant.
LEMMA NextIInv == IInv /\ [Next]_vars => IInv'
<1> SUFFICES ASSUME IInv, [Next]_vars PROVE IInv'
  OBVIOUS
<1>1. CASE CodeStep
  BY <1>1, OpenSourceIInv, OpenDestIInv, CallIInv DEF CodeStep
<1>2. CASE Crash
  BY <1>2, CrashIInv
<1>3. CASE UNCHANGED vars
  BY <1>3 DEF vars, IInv, NothingLeftOpen, Prompt, Stage, ToCome
<1> QED
  BY <1>1, <1>2, <1>3, TypedIInv DEF Next

\* A command is somewhere in its list of calls, and every open descriptor is
\* in a variable whose close is still to come.
THEOREM Inductive == Spec => []IInv
  BY InitIInv, NextIInv, PTL DEF Spec

\* At the prompt no descriptor is open: no entry of a table that cd or rm
\* replaces is pointed to, and the descriptors do not run out.
THEOREM NothingStaysOpen == Spec => []NothingLeftOpen
<1>1. IInv => NothingLeftOpen
  BY DEF IInv, NothingLeftOpen
<1> QED
  BY <1>1, Inductive, PTL

-----------------------------------------------------------------------------
(* Numbers.                                                                *)

\* SmallerOf chooses the smaller of two numbers.
LEMMA SmallerIs ==
    ASSUME NEW a \in Int, NEW b \in Int
    PROVE  SmallerOf(a, b) = IF a <= b THEN a ELSE b
<1> DEFINE m == IF a <= b THEN a ELSE b
<1>1. m \in {a, b} /\ \A y \in {a, b} : m <= y
  OBVIOUS
<1>2. \A x \in {a, b} : (\A y \in {a, b} : x <= y) => x = m
  OBVIOUS
<1> QED
  BY <1>1, <1>2 DEF SmallerOf, Min

\* So does Max the greater one.
LEMMA GreaterIs ==
    ASSUME NEW a \in Int, NEW b \in Int
    PROVE  Max({a, b}) = IF a <= b THEN b ELSE a
<1> DEFINE m == IF a <= b THEN b ELSE a
<1>1. m \in {a, b} /\ \A y \in {a, b} : m >= y
  OBVIOUS
<1>2. \A x \in {a, b} : (\A y \in {a, b} : x >= y) => x = m
  OBVIOUS
<1> QED
  BY <1>1, <1>2 DEF Max
\* The constants as the code has them.
LEMMA Constants ==
    /\ BlockBytes \in Nat /\ BlockBytes > 0 /\ Chunk \in Nat /\ Chunk > 1
    /\ VolumeBlocks \in Nat /\ MaxFcbs \in Nat /\ MaxFcbs > 0
    /\ "none" \notin Files /\ Absent \notin Seq(Bytes)
  BY FileOpsAssumption, ShellAssumption

-----------------------------------------------------------------------------
(* b_write: the bytes one after the other.                                 *)

\* What PutByte works on.
Memory  == [Blocks -> Buffer]
AnyFcb  == [file : Files, flags : {{}, {"WRONLY", "CREAT"}, {"WRONLY", "CREAT", "TRUNC"}},
            private : BOOLEAN, own : Entry, index : 0 .. BlockBytes, currentBlk : Nat,
            buflen : 0 .. BlockBytes, buf : Buffer]
Folding == [c : AnyFcb, data : Memory, start : Nat]

Updated(s, i, blk, buf, data) ==
    [s EXCEPT !.c.buf = buf, !.c.index = i, !.c.currentBlk = blk, !.data = data]

\* The fields of an updated record.
LEMMA UpdatedStart ==
    ASSUME NEW s \in Folding, NEW i, NEW blk, NEW buf, NEW data, NEW w,
           w = Updated(s, i, blk, buf, data)
    PROVE  w.start = s.start /\ w.data = data
  BY DEF Updated, Folding

\* And those of its descriptor.
LEMMA UpdatedFcb ==
    ASSUME NEW s \in Folding, NEW i, NEW blk, NEW buf, NEW data, NEW w,
           w = Updated(s, i, blk, buf, data)
    PROVE  /\ w.c.file = s.c.file /\ w.c.flags = s.c.flags /\ w.c.buflen = s.c.buflen
           /\ w.c.private = s.c.private
           /\ w.c.buf = buf /\ w.c.index = i /\ w.c.currentBlk = blk
<1>1. s.c \in AnyFcb /\ w.c = [s.c EXCEPT !.buf = buf, !.index = i, !.currentBlk = blk]
  BY DEF Updated, Folding
<1> QED
  BY <1>1 DEF AnyFcb

\* It is of its type if the new values are.
LEMMA UpdatedTyped ==
    ASSUME NEW s \in Folding, NEW i \in 0 .. BlockBytes, NEW blk \in Nat, NEW buf \in Buffer,
           NEW data \in Memory
    PROVE  Updated(s, i, blk, buf, data) \in Folding
  BY DEF Updated, Folding, AnyFcb

\* A byte more, and everything is still of its type; where it went.
LEMMA PutByteIs ==
    ASSUME NEW s \in Folding, NEW byte \in Bytes
    PROVE  LET i   == IF s.c.index = BlockBytes THEN 0 ELSE s.c.index
               buf == [s.c.buf EXCEPT ![i] = byte]
               blk == s.c.currentBlk
           IN  /\ i \in Offsets /\ buf \in Buffer
               /\ PutByte(s, byte) \in Folding
               /\ PutByte(s, byte) =
                    IF i + 1 = BlockBytes
                    THEN Updated(s, 0, blk + 1, buf, WriteBlock(s.data, s.start + blk, buf))
                    ELSE Updated(s, i + 1, blk, buf, s.data)
<1> DEFINE i   == IF s.c.index = BlockBytes THEN 0 ELSE s.c.index
           buf == [s.c.buf EXCEPT ![i] = byte]
           blk == s.c.currentBlk
<1>1. s.c \in AnyFcb /\ s.data \in Memory
  BY DEF Folding
<1>2. i \in Offsets
  <2>1. BlockBytes \in Nat /\ BlockBytes > 0 /\ s.c.index \in 0 .. BlockBytes
    BY <1>1, Constants DEF AnyFcb
  <2> QED
    BY <2>1 DEF Offsets
<1>3. buf \in Buffer
  BY <1>1, <1>2 DEF Buffer, AnyFcb
<1>4. blk \in Nat
  BY <1>1 DEF AnyFcb
<1>5. WriteBlock(s.data, s.start + blk, buf) \in Memory
  BY <1>1, <1>3 DEF WriteBlock, Memory
<1>6. CASE i + 1 = BlockBytes
  <2>1. PutByte(s, byte) = Updated(s, 0, blk + 1, buf, WriteBlock(s.data, s.start + blk, buf))
    BY <1>6 DEF PutByte, Full, Updated
  <2>2. 0 \in 0 .. BlockBytes /\ blk + 1 \in Nat
    BY <1>4, Constants
  <2> HIDE DEF i, buf, blk
  <2>3. PutByte(s, byte) \in Folding
    BY <1>3, <1>5, <2>1, <2>2, UpdatedTyped
  <2> QED
    BY <1>2, <1>3, <1>6, <2>1, <2>3 DEF i, buf, blk
<1>7. CASE i + 1 # BlockBytes
  <2>1. PutByte(s, byte) = Updated(s, i + 1, blk, buf, s.data)
    BY <1>7 DEF PutByte, Full, Updated
  <2>2. i + 1 \in 0 .. BlockBytes
    BY <1>2, Constants DEF Offsets
  <2> HIDE DEF i, buf, blk
  <2>3. PutByte(s, byte) \in Folding
    BY <1>1, <1>3, <1>4, <2>1, <2>2, UpdatedTyped
  <2> QED
    BY <1>2, <1>3, <1>7, <2>1, <2>3 DEF i, buf, blk
<1> QED
  BY <1>6, <1>7

\* In the first block, a byte goes to the offset that is the index.
LEMMA PutByteInBlock ==
    ASSUME NEW s \in Folding, NEW byte \in Bytes, NEW i, i = s.c.index, i < BlockBytes,
           s.c.currentBlk = 0, NEW buf, buf = [s.c.buf EXCEPT ![i] = byte]
    PROVE  /\ buf \in Buffer /\ PutByte(s, byte) \in Folding
           /\ i + 1 = BlockBytes =>
                PutByte(s, byte) = Updated(s, 0, 1, buf, WriteBlock(s.data, s.start, buf))
           /\ i + 1 # BlockBytes => PutByte(s, byte) = Updated(s, i + 1, 0, buf, s.data)
<1>1. (IF s.c.index = BlockBytes THEN 0 ELSE s.c.index) = i /\ s.start + 0 = s.start /\ 0 + 1 = 1
  BY Constants DEF Folding, AnyFcb
<1>2. buf \in Buffer /\ PutByte(s, byte) \in Folding
  BY <1>1, PutByteIs
<1>3. PutByte(s, byte) = IF i + 1 = BlockBytes
                         THEN Updated(s, 0, 0 + 1, buf, WriteBlock(s.data, s.start + 0, buf))
                         ELSE Updated(s, i + 1, 0, buf, s.data)
  BY <1>1, PutByteIs
<1> QED
  BY <1>1, <1>2, <1>3

Folded(base, bytes) == FoldLeft(PutByte, base, bytes)

\* The states the fold goes through; it is the last of them.
RunsThrough(w, base, bytes, n) ==
    /\ w \in [0 .. n -> Folding] /\ w[0] = base
    /\ \A k \in 1 .. n : w[k] = PutByte(w[k - 1], bytes[k])
    /\ Folded(base, bytes) = w[n]

\* A fold goes through such states.
LEMMA FoldedBytes ==
    ASSUME NEW base \in Folding, NEW n \in Nat, NEW bytes \in [1 .. n -> Bytes]
    PROVE  \E w : RunsThrough(w, base, bytes, n)
<1> DEFINE step == [k \in 1 .. n |-> [s \in Folding |-> PutByte(s, bytes[k])]]
           Table(g) == g = [s \in SUBSET (1 .. n) |->
                              IF s = {} THEN base ELSE PutByte(g[s \ {Max(s)}], bytes[Max(s)])]
<1>1. step \in [1 .. n -> [Folding -> Folding]]
  BY PutByteIs
<1>2. ASSUME NEW s \in SUBSET (1 .. n), s # {} PROVE Max(s) \in s /\ \A x \in s : x <= Max(s)
  <2>1. s \subseteq Nat /\ \A x \in s : x <= n
    OBVIOUS
  <2> QED
    BY <1>2, <2>1, MaxNat
<1>3. \E g : Table(g)
  <2>1. PICK g \in [SUBSET (1 .. n) -> Folding] : IsFoldTable(g, n, base, step)
    <3>1. base \in Folding /\ n \in Nat
      OBVIOUS
    <3> HIDE DEF step, Table
    <3> QED
      BY <1>1, <3>1, FoldTable
  <2>2. ASSUME NEW s \in SUBSET (1 .. n), s # {}
        PROVE  step[Max(s)][g[s \ {Max(s)}]] = PutByte(g[s \ {Max(s)}], bytes[Max(s)])
    <3>1. Max(s) \in 1 .. n /\ g[s \ {Max(s)}] \in Folding
      BY <1>2, <2>2
    <3> QED
      BY <3>1
  <2>3. \A s \in SUBSET (1 .. n) :
          g[s] = IF s = {} THEN base ELSE PutByte(g[s \ {Max(s)}], bytes[Max(s)])
    <3> HIDE DEF step
    <3> QED
      BY <2>1, <2>2 DEF IsFoldTable
  <2> QED
    BY <2>3
<1> DEFINE g == CHOOSE g : Table(g)
<1>4. Table(g)
  BY <1>3
<1>5. Folded(base, bytes) = g[1 .. n]
  BY DEF Folded, FoldLeft, MapThenFoldSet
<1>6. ASSUME NEW k \in 0 .. n PROVE 1 .. k \in SUBSET (1 .. n)
  OBVIOUS
<1>7. g[1 .. 0] = base
  <2>1. 1 .. 0 = {} /\ {} \in SUBSET (1 .. n)
    OBVIOUS
  <2> HIDE DEF g
  <2> QED
    BY <1>4, <2>1
<1>8. ASSUME NEW k \in 1 .. n PROVE g[1 .. k] = PutByte(g[1 .. k - 1], bytes[k])
  <2>1. 1 .. k \in SUBSET (1 .. n) /\ 1 .. k # {} /\ (1 .. k) \ {k} = 1 .. k - 1
    OBVIOUS
  <2>2. Max(1 .. k) = k
    <3>1. Max(1 .. k) \in 1 .. k /\ \A x \in 1 .. k : x <= Max(1 .. k)
      BY <1>2, <2>1
    <3>2. k \in 1 .. k
      OBVIOUS
    <3> QED
      BY <3>1, <3>2
  <2> HIDE DEF g
  <2> QED
    BY <1>4, <2>1, <2>2
<1> DEFINE w == [k \in 0 .. n |-> g[1 .. k]]
           P == {k \in 0 .. n : w[k] \in Folding}
<1>9. 0 .. n \subseteq P
  <2>1. 0 \in P
    BY <1>7
  <2>2. ASSUME NEW k \in 0 .. n - 1, k \in P PROVE k + 1 \in P
    <3>1. k + 1 \in 1 .. n /\ (k + 1) - 1 = k /\ k \in 0 .. n
      OBVIOUS
    <3>2. w[k + 1] = PutByte(w[k], bytes[k + 1])
      <4> HIDE DEF g
      <4> QED
        BY <1>8, <3>1
    <3>3. w[k] \in Folding /\ bytes[k + 1] \in Bytes
      BY <2>2, <3>1
    <3> HIDE DEF w
    <3>4. w[k + 1] \in Folding
      BY <3>2, <3>3, PutByteIs
    <3> QED
      BY <3>1, <3>4
  <2> HIDE DEF P
  <2> QED
    BY <2>1, <2>2, BoundedInduction
<1>10. w \in [0 .. n -> Folding]
  BY <1>9
<1>11. w[0] = base /\ Folded(base, bytes) = w[n]
  <2>1. 0 \in 0 .. n /\ n \in 0 .. n
    OBVIOUS
  <2> HIDE DEF g
  <2> QED
    BY <1>5, <1>7, <2>1
<1>12. ASSUME NEW k \in 1 .. n PROVE w[k] = PutByte(w[k - 1], bytes[k])
  <2>1. k \in 0 .. n /\ k - 1 \in 0 .. n
    OBVIOUS
  <2> HIDE DEF g
  <2> QED
    BY <1>8, <2>1
<1> HIDE DEF w
<1>13. RunsThrough(w, base, bytes, n)
  BY <1>10, <1>11, <1>12 DEF RunsThrough
<1> QED
  BY <1>13

\* A buffer after n of the bytes from offset i on.
Filled(buf, bytes, i, n) ==
    [p \in Offsets |-> IF i <= p /\ p < i + n THEN bytes[p - i + 1] ELSE buf[p]]

\* r is s after n bytes: in the buffer or, if it is full, on the disk as well.
AfterBytes(r, s, bytes, n) ==
    /\ r \in Folding /\ r.start = s.start
    /\ r.c.file = s.c.file /\ r.c.flags = s.c.flags /\ r.c.buflen = s.c.buflen
    /\ r.c.private = s.c.private
    /\ r.c.buf = Filled(s.c.buf, bytes, s.c.index, n)
    /\ s.c.index + n < BlockBytes =>
         r.c.index = s.c.index + n /\ r.c.currentBlk = 0 /\ r.data = s.data
    /\ s.c.index + n = BlockBytes =>
         r.c.index = 0 /\ r.c.currentBlk = 1 /\ r.data = WriteBlock(s.data, s.start, r.c.buf)

\* The loop of b_write, as long as it stays in the first block.
LEMMA WrittenBytes ==
    ASSUME NEW s \in Folding, NEW n \in Nat, s.c.currentBlk = 0, s.c.index < BlockBytes,
           s.c.index + n <= BlockBytes, NEW bytes \in [1 .. n -> Bytes]
    PROVE  AfterBytes(Folded(s, bytes), s, bytes, n)
<1> DEFINE i == s.c.index
<1>1. /\ i \in Nat /\ BlockBytes \in Nat
      /\ s.c.buf \in Buffer /\ s.start \in Nat /\ s.c.file \in Files
  BY Constants DEF Folding, AnyFcb
<1>3. PICK w : RunsThrough(w, s, bytes, n)
  BY FoldedBytes
<1>8. /\ w \in [0 .. n -> Folding] /\ w[0] = s
      /\ \A k \in 1 .. n : w[k] = PutByte(w[k - 1], bytes[k])
      /\ Folded(s, bytes) = w[n]
  BY <1>3 DEF RunsThrough
<1> DEFINE P == {k \in 0 .. n : AfterBytes(w[k], s, bytes, k)}
<1>4. 0 \in P
  <2>1. Filled(s.c.buf, bytes, i, 0) = s.c.buf
    <3>1. ASSUME NEW p \in Offsets PROVE ~(i <= p /\ p < i + 0)
      BY <1>1 DEF Offsets
    <3>2. Filled(s.c.buf, bytes, i, 0) = [p \in Offsets |-> s.c.buf[p]]
      BY <3>1 DEF Filled
    <3>3. s.c.buf \in [Offsets -> Bytes]
      BY <1>1 DEF Buffer
    <3> QED
      BY <3>2, <3>3
  <2> QED
    BY <1>1, <1>8, <2>1 DEF AfterBytes
<1>5. ASSUME NEW k \in 0 .. n - 1, k \in P PROVE k + 1 \in P
  <2> DEFINE r   == w[k]
             buf == Filled(s.c.buf, bytes, i, k + 1)
  <2>1. /\ r \in Folding /\ r.start = s.start
        /\ r.c.file = s.c.file /\ r.c.flags = s.c.flags /\ r.c.buflen = s.c.buflen
        /\ r.c.private = s.c.private
        /\ r.c.buf = Filled(s.c.buf, bytes, i, k)
        /\ r.c.index = i + k /\ r.c.currentBlk = 0 /\ r.data = s.data
        /\ i + k < BlockBytes
    BY <1>1, <1>5, <1>8 DEF AfterBytes
  <2>2. k + 1 \in 1 .. n /\ bytes[k + 1] \in Bytes
    <3>1. k + 1 \in 1 .. n /\ i + (k + 1) - 1 = i + k
      BY <1>1
    <3> QED
      BY <3>1
  <2>3. w[k + 1] = PutByte(r, bytes[k + 1])
    BY <1>8, <2>2
  <2>4. [r.c.buf EXCEPT ![i + k] = bytes[k + 1]] = buf
    <3>1. i + k \in Offsets
      BY <1>1, <2>1 DEF Offsets
    <3>2. ASSUME NEW p \in Offsets
          PROVE  [Filled(s.c.buf, bytes, i, k) EXCEPT ![i + k] = bytes[k + 1]][p] = buf[p]
      <4> HIDE DEF i
      <4>1. CASE p = i + k
        BY <1>1, <3>1, <4>1 DEF Filled, Offsets
      <4>2. CASE p # i + k
        <5>1. (i <= p /\ p < i + k) <=> (i <= p /\ p < i + (k + 1))
          BY <1>1, <4>2 DEF Offsets
        <5> QED
          BY <3>1, <4>2, <5>1 DEF Filled
      <4> QED
        BY <4>1, <4>2
    <3>3. [Filled(s.c.buf, bytes, i, k) EXCEPT ![i + k] = bytes[k + 1]] = buf
      BY <3>2 DEF Filled
    <3> QED
      BY <2>1, <2>2, <3>3
  <2> HIDE DEF r, buf, P, i
  <2>5. /\ buf \in Buffer /\ PutByte(r, bytes[k + 1]) \in Folding
        /\ (i + k) + 1 = BlockBytes =>
             PutByte(r, bytes[k + 1]) = Updated(r, 0, 1, buf, WriteBlock(r.data, r.start, buf))
        /\ (i + k) + 1 # BlockBytes =>
             PutByte(r, bytes[k + 1]) = Updated(r, (i + k) + 1, 0, buf, r.data)
    BY <2>1, <2>2, <2>4, PutByteInBlock
  <2>9. (i + k) + 1 = i + (k + 1)
    BY <1>1
  <2>7. CASE i + (k + 1) = BlockBytes
    <3> DEFINE data == WriteBlock(s.data, s.start, buf)
    <3>1. w[k + 1] = Updated(r, 0, 1, buf, data)
      BY <2>1, <2>3, <2>5, <2>9, <2>7
    <3> HIDE DEF data
    <3>2. w[k + 1].start = r.start /\ w[k + 1].data = data
      BY <2>1, <3>1, UpdatedStart
    <3> HIDE DEF data
    <3>3. /\ w[k + 1].c.file = r.c.file /\ w[k + 1].c.flags = r.c.flags
          /\ w[k + 1].c.private = r.c.private
          /\ w[k + 1].c.buflen = r.c.buflen /\ w[k + 1].c.buf = buf
          /\ w[k + 1].c.index = 0 /\ w[k + 1].c.currentBlk = 1
      BY <2>1, <3>1, UpdatedFcb
    <3>4. AfterBytes(w[k + 1], s, bytes, k + 1)
      BY <1>1, <2>1, <2>3, <2>5, <2>7, <3>2, <3>3 DEF AfterBytes, buf, data, i
    <3> QED
      BY <2>2, <3>4 DEF P
  <2>8. CASE i + (k + 1) # BlockBytes
    <3>1. w[k + 1] = Updated(r, i + (k + 1), 0, buf, s.data)
      BY <2>1, <2>3, <2>5, <2>9, <2>8
    <3>2. w[k + 1].start = r.start /\ w[k + 1].data = s.data
      BY <2>1, <3>1, UpdatedStart
    <3>3. /\ w[k + 1].c.file = r.c.file /\ w[k + 1].c.flags = r.c.flags
          /\ w[k + 1].c.private = r.c.private
          /\ w[k + 1].c.buflen = r.c.buflen /\ w[k + 1].c.buf = buf
          /\ w[k + 1].c.index = i + (k + 1) /\ w[k + 1].c.currentBlk = 0
      BY <2>1, <3>1, UpdatedFcb
    <3>4. AfterBytes(w[k + 1], s, bytes, k + 1)
      BY <1>1, <2>1, <2>3, <2>5, <2>8, <3>2, <3>3 DEF AfterBytes, buf, i
    <3> QED
      BY <2>2, <3>4 DEF P
  <2> QED
    BY <2>7, <2>8
<1>6. 0 .. n \subseteq P
  <2> HIDE DEF P
  <2> QED
    BY <1>4, <1>5, BoundedInduction
<1>7. n \in P
  <2> HIDE DEF P
  <2>1. n \in 0 .. n
    OBVIOUS
  <2> QED
    BY <1>6, <2>1
<1> QED
  BY <1>7, <1>8

-----------------------------------------------------------------------------
(* The state the calls work on, and the contents of its files.             *)

\* The parts of a state.
LEMMA DiskFields ==
    ASSUME NEW s \in Disk
    PROVE  /\ s.data \in Memory /\ s.entry \in [Files -> Entry]
           /\ s.fcb \in [Fds -> Fcb \cup {Closed}] /\ s.next \in 1 .. VolumeBlocks + 1
           /\ s = [data |-> s.data, entry |-> s.entry, fcb |-> s.fcb, next |-> s.next]
  BY DEF Disk, Memory

\* A descriptor that is open has the fields of one.
LEMMA OpenFields ==
    ASSUME NEW s \in Disk, NEW fd
    PROVE  IsOpen(s, fd) <=> fd \in Fds /\ s.fcb[fd] \in Fcb
<1>1. fd \in Fds => s.fcb[fd] \in Fcb \cup {Closed}
  BY DiskFields
<1>2. ASSUME NEW c \in Fcb PROVE c # Closed
  <2>1. c.file \in Files
    BY DEF Fcb
  <2>2. Closed.file \notin Files
    BY Constants DEF Closed
  <2> QED
    BY <2>1, <2>2
<1> QED
  BY <1>1, <1>2 DEF IsOpen

\* The fields of a descriptor.
LEMMA FcbFields ==
    ASSUME NEW c \in Fcb
    PROVE  /\ c.file \in Files /\ c.private \in BOOLEAN /\ c.own \in Entry
           /\ c.flags \in {{}, {"WRONLY", "CREAT"}, {"WRONLY", "CREAT", "TRUNC"}}
           /\ c.index \in 0 .. BlockBytes /\ c.currentBlk \in {0, 1}
           /\ c.buflen \in 0 .. BlockBytes /\ c.buf \in Buffer
           /\ c = [file |-> c.file, flags |-> c.flags, private |-> c.private, own |-> c.own,
                   index |-> c.index, currentBlk |-> c.currentBlk, buflen |-> c.buflen, buf |-> c.buf]
  BY DEF Fcb

\* The fields of an entry.
LEMMA EntryFields ==
    ASSUME NEW e \in Entry
    PROVE  /\ e.start \in Blocks \cup {0} /\ e.size \in 0 .. BlockBytes
           /\ e = [start |-> e.start, size |-> e.size]
  BY DEF Entry

\* A listed file has a block.
LEMMA ListedStart ==
    ASSUME NEW s \in Disk, Apart(s), NEW f \in Files, Listed(s, f)
    PROVE  s.entry[f] \in Entry /\ s.entry[f].start \in Blocks /\ s.entry[f].size \in 0 .. BlockBytes
<1>1. s.next \in 1 .. VolumeBlocks + 1 /\ s.entry[f] \in Entry
  BY DiskFields
<1>2. s.entry[f].start \in 1 .. s.next - 1
  BY DEF Apart
<1>3. s.entry[f].start \in Blocks
  BY <1>1, <1>2, Constants DEF Blocks
<1> QED
  BY <1>1, <1>3, EntryFields

\* The content of a file is what its block starts with.
LEMMA ContentIs ==
    ASSUME NEW s \in Disk, Apart(s), NEW f \in Files
    PROVE  /\ ~Listed(s, f) => Contents(s)[f] = Absent
           /\ Listed(s, f) =>
                /\ Contents(s)[f] = [p \in 1 .. s.entry[f].size |-> s.data[s.entry[f].start][p - 1]]
                /\ Contents(s)[f] \in Seq(Bytes) /\ Len(Contents(s)[f]) = s.entry[f].size
                /\ Contents(s)[f] # Absent
<1>1. ~Listed(s, f) => Contents(s)[f] = Absent
  BY DEF Contents
<1>2. ASSUME Listed(s, f)
      PROVE  /\ Contents(s)[f] = [p \in 1 .. s.entry[f].size |-> s.data[s.entry[f].start][p - 1]]
             /\ Contents(s)[f] \in Seq(Bytes) /\ Len(Contents(s)[f]) = s.entry[f].size
             /\ Contents(s)[f] # Absent
  <2> DEFINE e == s.entry[f]
             text == [p \in 1 .. e.size |-> s.data[e.start][p - 1]]
  <2>1. e.start \in Blocks /\ e.size \in 0 .. BlockBytes /\ s.data \in Memory
    BY <1>2, ListedStart, DiskFields
  <2>2. ASSUME NEW p \in 1 .. e.size
        PROVE  p - 1 \in Offsets /\ OnDisk(s, f, p - 1) = s.data[e.start][p - 1]
    <3>1. p - 1 \in Nat /\ p - 1 < BlockBytes
      BY <2>1, Constants
    <3>2. (p - 1) \div BlockBytes = 0 /\ (p - 1) % BlockBytes = p - 1
      BY <3>1, Constants
    <3>3. e.start + 0 = e.start
      BY <2>1 DEF Blocks
    <3> QED
      BY <3>1, <3>2, <3>3, Constants DEF OnDisk, Offsets
  <2>3. Contents(s)[f] = text
    <3>1. Contents(s)[f] = [p \in 1 .. e.size |-> OnDisk(s, f, p - 1)]
      BY <1>2 DEF Contents
    <3> HIDE DEF e
    <3> QED
      BY <2>2, <3>1
  <2>4. text \in [1 .. e.size -> Bytes]
    <3>1. s.data[e.start] \in Buffer
      BY <2>1 DEF Memory
    <3> HIDE DEF e
    <3> QED
      BY <2>2, <3>1 DEF Buffer
  <2> HIDE DEF text
  <2>5. e.size \in Nat
    BY <2>1, Constants
  <2>6. text \in Seq(Bytes) /\ DOMAIN text = 1 .. e.size
    BY <2>4, <2>5
  <2>7. Len(text) \in Nat /\ DOMAIN text = 1 .. Len(text)
    BY <2>6, LenProperties
  <2>8. Len(text) = e.size
    BY <2>5, <2>6, <2>7
  <2> QED
    BY <2>3, <2>6, <2>8, Constants DEF text
<1> QED
  BY <1>1, <1>2

\* All contents are sequences of bytes, or absent.
LEMMA ContentsTyped ==
    ASSUME NEW s \in Disk, Apart(s)
    PROVE  Contents(s) \in [Files -> Seq(Bytes) \cup {Absent}]
<1>1. \A f \in Files : Contents(s)[f] \in Seq(Bytes) \cup {Absent}
  BY ContentIs
<1>2. Contents(s) = [f \in Files |-> Contents(s)[f]]
  BY DEF Contents
<1> QED
  BY <1>1, <1>2

\* A file whose entry and block are the same has the same content.
LEMMA SameContent ==
    ASSUME NEW s \in Disk, Apart(s), NEW t \in Disk, Apart(t), NEW f \in Files,
           t.entry[f] = s.entry[f],
           Listed(s, f) => t.data[s.entry[f].start] = s.data[s.entry[f].start]
    PROVE  Contents(t)[f] = Contents(s)[f] /\ (Listed(t, f) <=> Listed(s, f))
<1>1. Listed(t, f) <=> Listed(s, f)
  BY DEF Listed
<1>2. CASE ~Listed(s, f)
  BY <1>1, <1>2, ContentIs
<1>3. CASE Listed(s, f)
  <2>1. Contents(s)[f] = [p \in 1 .. s.entry[f].size |-> s.data[s.entry[f].start][p - 1]]
    BY <1>3, ContentIs
  <2>2. Contents(t)[f] = [p \in 1 .. t.entry[f].size |-> t.data[t.entry[f].start][p - 1]]
    BY <1>1, <1>3, ContentIs
  <2> QED
    BY <1>1, <1>3, <2>1, <2>2
<1> QED
  BY <1>2, <1>3

\* A block that is written is not the one of another file.
LEMMA OtherBlock ==
    ASSUME NEW s \in Disk, Apart(s), NEW f \in Files, Listed(s, f), NEW g \in Files, Listed(s, g),
           f # g, NEW buf
    PROVE  WriteBlock(s.data, s.entry[f].start, buf)[s.entry[g].start] = s.data[s.entry[g].start]
<1>1. s.entry[f].start # s.entry[g].start
  BY DEF Apart
<1>2. s.data \in Memory /\ s.entry[g].start \in Blocks
  BY DiskFields, ListedStart
<1> QED
  BY <1>1, <1>2 DEF WriteBlock, Memory

-----------------------------------------------------------------------------
(* The calls, for a descriptor that reads and one that writes.             *)

\* Two states that differ in their descriptors only.
SameFiles(s, t) == t.data = s.data /\ t.entry = s.entry /\ t.next = s.next

\* They have the same contents, and blocks of their own as well.
LEMMA FilesSame ==
    ASSUME NEW s \in Disk, Apart(s), NEW t \in Disk, SameFiles(s, t)
    PROVE  Apart(t) /\ Contents(t) = Contents(s)
  BY DEF SameFiles, Apart, Contents, Listed, OnDisk

\* A descriptor that is not touched is where it was, if its file is as it was.
LEMMA ReaderKept ==
    ASSUME NEW s, NEW t, NEW fd, NEW f, NEW n, ReaderAt(s, fd, f, n),
           t.fcb[fd] = s.fcb[fd], t.entry[f] = s.entry[f],
           t.data[s.entry[f].start] = s.data[s.entry[f].start]
    PROVE  ReaderAt(t, fd, f, n)
  BY DEF ReaderAt, IsOpen, Listed, EntryOf

\* The same of a writer.
LEMMA WriterKept ==
    ASSUME NEW s, NEW t, NEW fd, NEW f, NEW w, WriterAt(s, fd, f, w),
           t.fcb[fd] = s.fcb[fd], t.entry[f] = s.entry[f],
           t.data[s.entry[f].start] = s.data[s.entry[f].start]
    PROVE  WriterAt(t, fd, f, w)
  BY DEF WriterAt, IsOpen, Listed

\* Count is what was asked for, or what there is.
LEMMA CountIs ==
    ASSUME NEW count \in Nat, NEW rest \in Int
    PROVE  Count(count, rest) = IF rest <= 0 THEN 0 ELSE IF count <= rest THEN count ELSE rest
  BY SmallerIs DEF Count

\* A part of a buffer.
LEMMA SliceIs ==
    ASSUME NEW buf \in Buffer, NEW i \in Nat, NEW n \in Nat, i + n <= BlockBytes
    PROVE  /\ Slice(buf, i, n) \in Seq(Bytes) /\ Len(Slice(buf, i, n)) = n
           /\ \A k \in 1 .. n : Slice(buf, i, n)[k] = buf[i + k - 1]
<1>1. ASSUME NEW k \in 1 .. n PROVE buf[i + k - 1] \in Bytes
  <2>1. i + k - 1 \in Offsets
    BY Constants DEF Offsets
  <2> QED
    BY <2>1 DEF Buffer
<1>2. Slice(buf, i, n) \in [1 .. n -> Bytes] /\ \A k \in 1 .. n : Slice(buf, i, n)[k] = buf[i + k - 1]
  BY <1>1 DEF Slice
<1> HIDE DEF Slice
<1>3. Slice(buf, i, n) \in Seq(Bytes)
  BY <1>2
<1>4. Len(Slice(buf, i, n)) \in Nat /\ DOMAIN Slice(buf, i, n) = 1 .. Len(Slice(buf, i, n))
  BY <1>3, LenProperties
<1> QED
  BY <1>2, <1>3, <1>4

\* What b_read takes from a buffer that has enough.
LEMMA ReadIs ==
    ASSUME NEW s \in Disk, NEW fd, NEW c \in Fcb, c = s.fcb[fd], IsOpen(s, fd),
           Readable(c.flags), NEW count, NEW n \in Nat, n > 0,
           n = Count(count, EntryOf(s, c).size - Position(c)), c.index + n <= c.buflen,
           NEW r, r = b_read(s, fd, count)
    PROVE  /\ r.io = [s EXCEPT !.fcb[fd] = [c EXCEPT !.index = c.index + n]]
           /\ r.got = Slice(c.buf, c.index, n) /\ r.readcnt = n
<1> DEFINE got == Slice(c.buf, c.index, n)
           c2  == [c EXCEPT !.index = c.index + n]
<1>1. c.index \in Nat /\ c.currentBlk \in Nat /\ c.buflen \in 0 .. BlockBytes /\ c.buf \in Buffer
  <2>1. c.index \in 0 .. BlockBytes /\ c.currentBlk \in {0, 1}
    BY FcbFields
  <2>2. c.buflen \in 0 .. BlockBytes /\ c.buf \in Buffer
    BY FcbFields
  <2> QED
    BY <2>1, <2>2, Constants
<1>2. got \in Seq(Bytes) /\ Len(got) = n
  <2>1. c.index + n <= BlockBytes
    BY <1>1, Constants
  <2> QED
    BY <1>1, <2>1, SliceIs
<1>3. SmallerOf(c.buflen - c.index, n) = n
  BY <1>1, SmallerIs
<1> HIDE DEF got
<1>4. FromBuffer(c, n) = [got |-> got, c |-> c2]
  BY <1>1, <1>3 DEF FromBuffer, Advance, got
<1> HIDE DEF c2
<1>5. c2.currentBlk = c.currentBlk /\ c2 = [c2 EXCEPT !.currentBlk = c.currentBlk]
  BY DEF c2, Fcb
<1>7. WholeBlocks(s, [got |-> got, c |-> c2], n) = [got |-> got, c |-> c2]
  <2>1. (n - Len(got)) \div BlockBytes = 0
    <3>1. BlockBytes \in Nat /\ BlockBytes > 0 /\ n - Len(got) = 0
      BY <1>2, Constants
    <3> QED
      BY <3>1
  <2> DEFINE block(i) == ReadBlock(s.data, Target(s, c2) + i - 1, JunkBlock)
             none == [i \in 1 .. 0 |-> Slice(block(i), 0, BlockBytes)]
  <2>2. FlattenSeq(none) = <<>>
    BY DEF FlattenSeq
  <2>3. got \o <<>> = got
    BY <1>2, ConcatEmptySeq
  <2>4. c2.currentBlk + 0 = c.currentBlk
    BY <1>1, <1>5
  <2> DEFINE R == [got |-> got, c |-> c2]
  <2>5. WholeBlocks(s, R, n) =
          [got |-> got \o FlattenSeq(none), c |-> [c2 EXCEPT !.currentBlk = c2.currentBlk + 0]]
    BY <2>1 DEF WholeBlocks
  <2> HIDE DEF none
  <2> QED
    BY <1>5, <2>2, <2>3, <2>4, <2>5
<1>8. LastBlock(s, [got |-> got, c |-> c2], n) = [got |-> got, c |-> c2]
  BY <1>2 DEF LastBlock
<1>9. r = [io |-> [s EXCEPT !.fcb[fd] = c2], got |-> got, readcnt |-> Len(got)]
  <2> DEFINE q == LastBlock(s, WholeBlocks(s, FromBuffer(c, n), n), n)
  <2>1. q = [got |-> got, c |-> c2]
    BY <1>4, <1>7, <1>8
  <2>2. r = [io |-> [s EXCEPT !.fcb[fd] = q.c], got |-> q.got, readcnt |-> Len(q.got)]
    BY DEF b_read
  <2> HIDE DEF q
  <2> QED
    BY <2>1, <2>2
<1> QED
  BY <1>2, <1>9 DEF got, c2

\* A descriptor that reads.
LEMMA ReaderFields ==
    ASSUME NEW s \in Disk, Apart(s), NEW fd, NEW f \in Files, NEW n \in Nat, ReaderAt(s, fd, f, n)
    PROVE  /\ fd \in Fds /\ s.fcb[fd] \in Fcb /\ Readable(s.fcb[fd].flags)
           /\ s.fcb[fd].index = n /\ s.fcb[fd].buflen = s.entry[f].size /\ Position(s.fcb[fd]) = n
           /\ n <= s.entry[f].size /\ s.entry[f].size \in 0 .. BlockBytes
           /\ EntryOf(s, s.fcb[fd]) = s.entry[f]
<1>1. /\ IsOpen(s, fd) /\ Listed(s, f)
      /\ s.fcb[fd].file = f /\ s.fcb[fd].flags = {} /\ EntryOf(s, s.fcb[fd]) = s.entry[f]
      /\ s.fcb[fd].currentBlk = 0 /\ s.fcb[fd].index = n /\ n <= s.entry[f].size
      /\ s.fcb[fd].buflen = s.entry[f].size
  BY DEF ReaderAt
<1>2. Position(s.fcb[fd]) = n
  <2>1. 0 * BlockBytes = 0
    BY Constants
  <2> QED
    BY <1>1, <2>1 DEF Position
<1> QED
  BY <1>1, <1>2, OpenFields, ListedStart DEF Readable

\* r is what b_read returns for count bytes when n of t are read.
ReadOn(r, s, fd, f, t, n, count) ==
    /\ r.io \in Disk /\ SameFiles(s, r.io)
    /\ \A gd : gd # fd => r.io.fcb[gd] = s.fcb[gd]
    /\ r.readcnt \in 0 .. count /\ n + r.readcnt <= Len(t)
    /\ r.got = SubSeq(t, n + 1, n + r.readcnt) /\ Len(r.got) = r.readcnt
    /\ ReaderAt(r.io, fd, f, n + r.readcnt)
    /\ r.readcnt = count \/ n + r.readcnt = Len(t)

\* b_read: the next bytes of the file, and the descriptor has moved behind them.
LEMMA ReadMoves ==
    ASSUME NEW s \in Disk, Apart(s), NEW fd, NEW f \in Files, NEW n \in Nat,
           ReaderAt(s, fd, f, n), NEW count \in Nat \ {0},
           NEW t, t = Contents(s)[f], NEW r, r = b_read(s, fd, count)
    PROVE  ReadOn(r, s, fd, f, t, n, count)
<1> DEFINE c == s.fcb[fd]
           e == s.entry[f]
           m == Count(count, e.size - n)
<1>1. /\ fd \in Fds /\ c \in Fcb /\ Readable(c.flags) /\ c.index = n /\ c.buflen = e.size
      /\ Position(c) = n /\ n <= e.size /\ e.size \in 0 .. BlockBytes /\ EntryOf(s, c) = e
  BY ReaderFields
<1>2. /\ IsOpen(s, fd) /\ Listed(s, f) /\ c.file = f /\ c.flags = {} /\ EntryOf(s, c) = e
      /\ c.currentBlk = 0 /\ (e.size > 0 => c.buf = s.data[e.start])
  BY DEF ReaderAt
<1>3. /\ t = [p \in 1 .. e.size |-> s.data[e.start][p - 1]]
      /\ t \in Seq(Bytes) /\ Len(t) = e.size
  BY <1>2, ContentIs
<1>4. e.size \in Nat /\ e.size <= BlockBytes /\ BlockBytes \in Nat
  BY <1>1, Constants
<1>5. m = IF e.size <= n THEN 0 ELSE IF count <= e.size - n THEN count ELSE e.size - n
  BY <1>4, CountIs
<1>6. m \in 0 .. count /\ n + m <= e.size /\ (m = count \/ n + m = e.size)
  BY <1>1, <1>4, <1>5
<1>7. CASE m = 0
  <2>1. r = [io |-> s, got |-> <<>>, readcnt |-> 0]
    BY <1>1, <1>2, <1>7 DEF b_read
  <2>2. SubSeq(t, n + 1, n + 0) = <<>>
    BY SubSeqEmpty
  <2>3. n + 0 = n
    OBVIOUS
  <2> HIDE DEF m, e
  <2> QED
    BY <1>3, <1>6, <1>7, <2>1, <2>2, <2>3 DEF SameFiles, ReadOn
<1>8. CASE m # 0
  <2> DEFINE c2 == [c EXCEPT !.index = n + m]
             q  == [s EXCEPT !.fcb[fd] = c2]
  <2>1. m \in Nat /\ m > 0 /\ n + m <= BlockBytes
    BY <1>4, <1>6, <1>8
  <2>2. r.io = q /\ r.got = Slice(c.buf, n, m) /\ r.readcnt = m
    <3>1. m = Count(count, EntryOf(s, c).size - Position(c)) /\ c.index + m <= c.buflen
      BY <1>1, <1>6
    <3> HIDE DEF m
    <3>2. c \in Fcb /\ c = s.fcb[fd] /\ IsOpen(s, fd) /\ Readable(c.flags)
      BY <1>1, <1>2
    <3> HIDE DEF c
    <3>3. /\ r.io = [s EXCEPT !.fcb[fd] = [c EXCEPT !.index = c.index + m]]
          /\ r.got = Slice(c.buf, c.index, m) /\ r.readcnt = m
      BY <2>1, <3>1, <3>2, ReadIs
    <3> QED
      BY <1>1, <3>3
  <2> HIDE DEF m, e
  <2>3. c2 \in Fcb
    BY <1>1, <2>1 DEF Fcb
  <2>4. /\ c2.file = f /\ c2.flags = {} /\ c2.currentBlk = 0 /\ c2.index = n + m
        /\ c2.buflen = c.buflen /\ c2.buf = c.buf /\ c2.private = c.private /\ c2.own = c.own
    BY <1>1, <1>2 DEF Fcb
  <2> HIDE DEF c2
  <2>5. q = [data |-> s.data, entry |-> s.entry, fcb |-> [s.fcb EXCEPT ![fd] = c2], next |-> s.next]
    BY DiskFields
  <2>6. /\ q \in Disk /\ SameFiles(s, q) /\ q.fcb[fd] = c2
        /\ \A gd : gd # fd => q.fcb[gd] = s.fcb[gd]
    BY <1>1, <2>3, <2>5, DiskFields DEF Disk, SameFiles, Memory
  <2> HIDE DEF q
  <2>7. EntryOf(q, c2) = EntryOf(s, c)
    BY <1>2, <2>4, <2>6 DEF EntryOf, SameFiles
  <2>8. ReaderAt(q, fd, f, n + m)
    <3>1. IsOpen(q, fd) /\ Listed(q, f)
      BY <1>1, <1>2, <2>3, <2>6, OpenFields DEF Listed, SameFiles
    <3> QED
      BY <1>1, <1>2, <1>6, <2>4, <2>6, <2>7, <3>1 DEF ReaderAt, SameFiles, e
  <2>9. SubSeq(t, n + 1, n + m) = Slice(c.buf, n, m) /\ Len(Slice(c.buf, n, m)) = m
    <3>1. /\ Slice(c.buf, n, m) \in Seq(Bytes) /\ Len(Slice(c.buf, n, m)) = m
          /\ \A k \in 1 .. m : Slice(c.buf, n, m)[k] = c.buf[n + k - 1]
      BY <1>1, <2>1, FcbFields, SliceIs
    <3>2. \A i \in n + 1 .. n + m : i \in 1 .. Len(t)
      BY <1>3, <1>4, <1>6
    <3>3. \A i \in n + 1 .. n + m : t[i] \in Bytes
      BY <1>3, <3>2, ElementOfSeq
    <3>4. /\ SubSeq(t, n + 1, n + m) \in Seq(Bytes)
          /\ Len(SubSeq(t, n + 1, n + m)) = m
          /\ \A k \in 1 .. m : SubSeq(t, n + 1, n + m)[k] = t[n + k]
      <4>1. n + 1 \in Int /\ n + m \in Int /\ (n + m) - (n + 1) + 1 = m /\ n + 1 <= n + m
        BY <2>1
      <4>2. /\ SubSeq(t, n + 1, n + m) \in Seq(Bytes)
            /\ Len(SubSeq(t, n + 1, n + m)) = (n + m) - (n + 1) + 1
            /\ \A k \in 1 .. (n + m) - (n + 1) + 1 : SubSeq(t, n + 1, n + m)[k] = t[(n + 1) + k - 1]
        BY <3>3, <4>1, SubSeqProperties
      <4>3. \A k \in 1 .. m : (n + 1) + k - 1 = n + k
        BY <2>1
      <4> QED
        BY <4>1, <4>2, <4>3
    <3>5. ASSUME NEW k \in 1 .. m PROVE SubSeq(t, n + 1, n + m)[k] = Slice(c.buf, n, m)[k]
      <4>1. n + k \in 1 .. e.size /\ (n + k) - 1 = n + k - 1 /\ e.size > 0
        BY <1>4, <1>6, <2>1
      <4>2. t[n + k] = s.data[e.start][n + k - 1]
        BY <1>3, <4>1
      <4> QED
        BY <1>2, <3>1, <3>4, <4>1, <4>2 DEF e
    <3> QED
      BY <3>1, <3>4, <3>5, SeqEqual
  <2> QED
    BY <1>3, <1>6, <2>2, <2>6, <2>8, <2>9 DEF e, ReadOn
<1> QED
  BY <1>7, <1>8

\* What b_close does to an open descriptor.
LEMMA CloseIs ==
    ASSUME NEW s \in Disk, NEW fd, IsOpen(s, fd), NEW data \in Memory, data = Flushed(s, s.fcb[fd]),
           NEW t, t = b_close(s, fd)
    PROVE  /\ t \in Disk /\ t.data = data /\ t.entry = s.entry /\ t.next = s.next
           /\ t.fcb[fd] = Closed /\ \A gd : gd # fd => t.fcb[gd] = s.fcb[gd]
<1>1. t = [s EXCEPT !.data = data, !.fcb[fd] = Closed]
  BY DEF b_close
<1>2. t = [data |-> data, entry |-> s.entry, fcb |-> [s.fcb EXCEPT ![fd] = Closed], next |-> s.next]
  <2>1. s = [data |-> s.data, entry |-> s.entry, fcb |-> s.fcb, next |-> s.next]
    BY DiskFields
  <2>2. t = [[s EXCEPT !.data = data] EXCEPT !.fcb = [s.fcb EXCEPT ![fd] = Closed]]
    BY <1>1, <2>1
  <2> QED
    BY <2>1, <2>2
<1>3. fd \in Fds
  BY DEF IsOpen
<1> QED
  BY <1>2, <1>3, DiskFields DEF Disk, Memory

\* A descriptor at the start of a block writes nothing when it is closed.
LEMMA CloseIdle ==
    ASSUME NEW s \in Disk, NEW fd, IsOpen(s, fd), s.fcb[fd].index = 0, NEW t, t = b_close(s, fd)
    PROVE  t \in Disk /\ SameFiles(s, t) /\ \A gd : gd # fd => t.fcb[gd] = s.fcb[gd]
<1>1. Flushed(s, s.fcb[fd]) = s.data
  BY DEF Flushed
<1>2. s.data \in Memory
  BY DiskFields
<1> QED
  BY <1>1, <1>2, CloseIs DEF SameFiles

\* A reader writes back what the block has (b_io.c:548).
LEMMA CloseReader ==
    ASSUME NEW s \in Disk, Apart(s), NEW fd, NEW f \in Files, NEW n \in Nat,
           ReaderAt(s, fd, f, n), NEW t, t = b_close(s, fd)
    PROVE  t \in Disk /\ SameFiles(s, t) /\ \A gd : gd # fd => t.fcb[gd] = s.fcb[gd]
<1> DEFINE c == s.fcb[fd]
           e == s.entry[f]
<1>1. /\ IsOpen(s, fd) /\ Listed(s, f) /\ EntryOf(s, c) = e /\ c.currentBlk = 0
      /\ c.index = n /\ n <= e.size /\ (e.size > 0 => c.buf = s.data[e.start])
  BY DEF ReaderAt
<1>2. e.start \in Blocks /\ e.size \in 0 .. BlockBytes /\ s.data \in Memory
  BY <1>1, ListedStart, DiskFields
<1>3. CASE n = 0
  BY <1>1, <1>3, CloseIdle
<1>4. CASE n > 0
  <2>1. Target(s, c) = e.start
    BY <1>1, <1>2 DEF Target, Blocks
  <2>2. c.buf = s.data[e.start]
    BY <1>1, <1>2, <1>4, Constants
  <2>3. Flushed(s, c) = s.data
    <3> HIDE DEF c, e
    <3>1. Flushed(s, c) = WriteBlock(s.data, e.start, s.data[e.start])
      BY <1>1, <1>4, <2>1, <2>2 DEF Flushed
    <3>2. [s.data EXCEPT ![e.start] = s.data[e.start]] = s.data
      BY <1>2 DEF Memory
    <3> QED
      BY <1>2, <3>1, <3>2 DEF WriteBlock
  <2> QED
    BY <1>1, <1>2, <2>3, CloseIs DEF SameFiles
<1> QED
  BY <1>3, <1>4

\* What a close or a write may do to the files when it is done for file f.
OnlyOf(s, t, f) ==
    /\ \A g \in Files : g # f => t.entry[g] = s.entry[g]
    /\ \A g \in Files : g # f /\ Listed(s, g) => t.data[s.entry[g].start] = s.data[s.entry[g].start]

\* The other files have the contents they had.
LEMMA OthersSame ==
    ASSUME NEW s \in Disk, Apart(s), NEW t \in Disk, Apart(t), NEW f, OnlyOf(s, t, f)
    PROVE  /\ \A g \in Files \ {f} : Contents(t)[g] = Contents(s)[g]
           /\ \A g \in Files \ {f} : Listed(s, g) <=> Listed(t, g)
  BY SameContent DEF OnlyOf

\* The content of a file whose block starts with w.
LEMMA ContentEquals ==
    ASSUME NEW s \in Disk, Apart(s), NEW f \in Files, Listed(s, f), NEW w \in Seq(Bytes),
           s.entry[f].size = Len(w), \A p \in 1 .. Len(w) : s.data[s.entry[f].start][p - 1] = w[p]
    PROVE  Contents(s)[f] = w
<1> DEFINE v == Contents(s)[f]
<1>1. /\ v = [p \in 1 .. s.entry[f].size |-> s.data[s.entry[f].start][p - 1]]
      /\ v \in Seq(Bytes) /\ Len(v) = Len(w)
  BY ContentIs
<1>2. \A i \in 1 .. Len(v) : v[i] = w[i]
  BY <1>1
<1> HIDE DEF v
<1>3. v = w
  BY <1>1, <1>2, SeqEqual
<1> QED
  BY <1>3 DEF v

\* After the close the file has what was written, and no other file is touched.
LEMMA CloseWriter ==
    ASSUME NEW s \in Disk, Apart(s), NEW fd, NEW f \in Files, NEW w \in Seq(Bytes),
           Len(w) <= BlockBytes, WriterAt(s, fd, f, w), NEW t, t = b_close(s, fd)
    PROVE  /\ t \in Disk /\ Apart(t) /\ OnlyOf(s, t, f) /\ Listed(t, f)
           /\ Contents(t)[f] = w /\ t.next = s.next
<1> DEFINE c == s.fcb[fd]
           e == s.entry[f]
<1>1. /\ IsOpen(s, fd) /\ Listed(s, f) /\ c.file = f /\ ~c.private /\ e.size = Len(w)
      /\ (Len(w) < BlockBytes =>
             c.currentBlk = 0 /\ c.index = Len(w) /\ \A p \in 1 .. Len(w) : c.buf[p - 1] = w[p])
      /\ (Len(w) = BlockBytes =>
             c.currentBlk = 1 /\ c.index = 0 /\ \A p \in 1 .. Len(w) : s.data[e.start][p - 1] = w[p])
  BY DEF WriterAt
<1>2. /\ e.start \in Blocks /\ e.size \in 0 .. BlockBytes /\ s.data \in Memory
      /\ fd \in Fds /\ c \in Fcb /\ c.buf \in Buffer /\ EntryOf(s, c) = e
  BY <1>1, ListedStart, DiskFields, OpenFields, FcbFields DEF EntryOf
<1>3. Len(w) \in Nat
  OBVIOUS
<1>4. CASE Len(w) = 0 \/ Len(w) = BlockBytes
  <2>1. t \in Disk /\ SameFiles(s, t)
    BY <1>1, <1>4, Constants, CloseIdle
  <2>2. Apart(t) /\ Contents(t) = Contents(s)
    BY <2>1, FilesSame
  <2>3. \A p \in 1 .. Len(w) : s.data[e.start][p - 1] = w[p]
    BY <1>1, <1>4
  <2>4. Contents(s)[f] = w
    BY <1>1, <2>3, ContentEquals
  <2> QED
    BY <1>1, <2>1, <2>2, <2>4 DEF SameFiles, OnlyOf, Listed
<1>5. CASE Len(w) > 0 /\ Len(w) < BlockBytes
  <2> DEFINE data == WriteBlock(s.data, e.start, c.buf)
  <2>1. Target(s, c) = e.start
    BY <1>1, <1>2, <1>5 DEF Target, Blocks
  <2>2. Flushed(s, c) = data
    BY <1>1, <1>5, <2>1 DEF Flushed
  <2>3. data \in Memory /\ data[e.start] = c.buf
    BY <1>2 DEF WriteBlock, Memory
  <2>4. t \in Disk /\ t.data = data /\ t.entry = s.entry /\ t.next = s.next
    <3> HIDE DEF data
    <3> QED
      BY <1>1, <2>2, <2>3, CloseIs
  <2>5. Apart(t) /\ Listed(t, f)
    BY <1>1, <2>4 DEF Apart, Listed
  <2>6. \A g \in Files : g # f /\ Listed(s, g) => data[s.entry[g].start] = s.data[s.entry[g].start]
    BY <1>1, OtherBlock
  <2>7. OnlyOf(s, t, f)
    <3> HIDE DEF data
    <3> QED
      BY <2>4, <2>6 DEF OnlyOf
  <2>8. \A p \in 1 .. Len(w) : t.data[t.entry[f].start][p - 1] = w[p]
    <3> HIDE DEF data, c
    <3> QED
      BY <1>1, <1>5, <2>3, <2>4
  <2>9. Contents(t)[f] = w
    BY <1>1, <2>4, <2>5, <2>8, ContentEquals
  <2> QED
    BY <2>4, <2>5, <2>7, <2>9
<1> QED
  BY <1>3, <1>4, <1>5, Constants

\* A descriptor, and what the bytes are put into.
LEMMA FcbAny ==
    /\ \A c \in Fcb : c \in AnyFcb
    /\ \A c \in AnyFcb : c.currentBlk \in {0, 1} => c \in Fcb
<1>1. ASSUME NEW c \in Fcb PROVE c \in AnyFcb
  <2>1. c.currentBlk \in {0, 1}
    BY FcbFields
  <2>2. c.currentBlk \in Nat
    BY <2>1
  <2> QED
    BY <2>2, FcbFields DEF AnyFcb
<1>2. ASSUME NEW c \in AnyFcb, c.currentBlk \in {0, 1} PROVE c \in Fcb
  <2>1. /\ c.file \in Files /\ c.private \in BOOLEAN /\ c.own \in Entry
        /\ c.flags \in {{}, {"WRONLY", "CREAT"}, {"WRONLY", "CREAT", "TRUNC"}}
        /\ c.index \in 0 .. BlockBytes /\ c.buflen \in 0 .. BlockBytes /\ c.buf \in Buffer
        /\ c = [file |-> c.file, flags |-> c.flags, private |-> c.private, own |-> c.own,
                index |-> c.index, currentBlk |-> c.currentBlk, buflen |-> c.buflen, buf |-> c.buf]
    BY DEF AnyFcb
  <2> QED
    BY <1>2, <2>1 DEF Fcb
<1> QED
  BY <1>1, <1>2

\* The state b_write leaves, when r is what the loop has made.
WrittenState(s, fd, r, f, size) ==
    [data |-> r.data, entry |-> [s.entry EXCEPT ![f] = [start |-> s.entry[f].start, size |-> size]],
     fcb |-> [s.fcb EXCEPT ![fd] = r.c], next |-> s.next]

\* It does so.
LEMMA WriteIs ==
    ASSUME NEW s \in Disk, NEW fd, NEW c \in Fcb, c = s.fcb[fd], IsOpen(s, fd), "WRONLY" \in c.flags,
           NEW f \in Files, c.file = f, ~c.private, NEW bytes, bytes # <<>>,
           NEW r \in Folding, r = Folded([c |-> c, data |-> s.data, start |-> s.entry[f].start], bytes),
           r.c.file = f, r.c.private = c.private
    PROVE  b_write(s, fd, bytes) =
             WrittenState(s, fd, r, f, Max({s.entry[f].size, Position(r.c)}))
<1> DEFINE size  == Max({s.entry[f].size, Position(r.c)})
           entry == [s.entry EXCEPT ![f].size = size]
<1>1. EntryOf(s, c) = s.entry[f] /\ EntryOf(s, r.c) = s.entry[f] /\ s.entry[f] \in Entry
  BY DiskFields DEF EntryOf
<1>2. Grow(s, r.c, Position(r.c)) = [c |-> r.c, entry |-> entry]
  BY <1>1 DEF Grow
<1>3. b_write(s, fd, bytes) = [s EXCEPT !.fcb[fd] = r.c, !.data = r.data, !.entry = entry]
  <2> DEFINE q == Folded([c |-> s.fcb[fd], data |-> s.data, start |-> EntryOf(s, s.fcb[fd]).start], bytes)
  <2>1. q = r
    BY <1>1
  <2>2. IsOpen(s, fd) /\ Writable(s.fcb[fd].flags)
    BY DEF Writable
  <2>3. b_write(s, fd, bytes) =
          [s EXCEPT !.fcb[fd] = Grow(s, q.c, Position(q.c)).c, !.data = q.data,
                    !.entry = Grow(s, q.c, Position(q.c)).entry]
    BY <2>2 DEF b_write, Folded
  <2> HIDE DEF entry, q
  <2> QED
    BY <1>2, <2>1, <2>3
<1> HIDE DEF size
<1>4. [s.entry[f] EXCEPT !.size = size] = [start |-> s.entry[f].start, size |-> size]
  BY <1>1 DEF Entry
<1>5. entry = [s.entry EXCEPT ![f] = [start |-> s.entry[f].start, size |-> size]]
  BY <1>1, <1>4
<1> HIDE DEF entry
<1>6. s = [data |-> s.data, entry |-> s.entry, fcb |-> s.fcb, next |-> s.next]
  BY DiskFields
<1>7. b_write(s, fd, bytes) = [data |-> r.data, entry |-> entry,
                               fcb |-> [s.fcb EXCEPT ![fd] = r.c], next |-> s.next]
  BY <1>3, <1>6
<1> QED
  BY <1>5, <1>7 DEF WrittenState, size

\* t is what b_write leaves of s when w is written.
WrittenOn(t, s, fd, f, w) ==
    /\ t \in Disk /\ Apart(t) /\ OnlyOf(s, t, f) /\ Listed(t, f) /\ t.next = s.next
    /\ WriterAt(t, fd, f, w)
    /\ \A gd : gd # fd => t.fcb[gd] = s.fcb[gd]

\* b_write: the descriptor has written the bytes behind those it had.
LEMMA WriteMoves ==
    ASSUME NEW s \in Disk, Apart(s), NEW fd, NEW f \in Files, NEW w \in Seq(Bytes),
           NEW bytes \in Seq(Bytes), Len(w) + Len(bytes) <= BlockBytes, WriterAt(s, fd, f, w),
           NEW t, t = b_write(s, fd, bytes)
    PROVE  WrittenOn(t, s, fd, f, w \o bytes)
<1> DEFINE c == s.fcb[fd]
           e == s.entry[f]
           n == Len(bytes)
           i == Len(w)
<1>1. /\ IsOpen(s, fd) /\ Listed(s, f) /\ c.file = f /\ "WRONLY" \in c.flags /\ ~c.private
      /\ e.size = i
      /\ (i < BlockBytes =>
             c.currentBlk = 0 /\ c.index = i /\ \A p \in 1 .. i : c.buf[p - 1] = w[p])
  BY DEF WriterAt
<1>2. /\ e \in Entry /\ e.start \in Blocks /\ s.data \in Memory /\ s.entry \in [Files -> Entry]
      /\ s.fcb \in [Fds -> Fcb \cup {Closed}] /\ s.next \in 1 .. VolumeBlocks + 1
      /\ fd \in Fds /\ c \in Fcb /\ c.buf \in Buffer
  BY <1>1, ListedStart, DiskFields, OpenFields, FcbFields
<1>3. n \in Nat /\ i \in Nat /\ BlockBytes \in Nat /\ BlockBytes > 0 /\ bytes \in [1 .. n -> Bytes]
  BY Constants
<1>4. CASE bytes = <<>>
  <2>1. t = s
    BY <1>4 DEF b_write
  <2>2. w \o bytes = w
    BY <1>4, ConcatEmptySeq
  <2> QED
    BY <1>1, <2>1, <2>2 DEF OnlyOf, WrittenOn
<1>5. CASE bytes # <<>>
  <2>1. n > 0 /\ i < BlockBytes /\ i + n <= BlockBytes
    BY <1>3, <1>5
  <2> DEFINE base == [c |-> c, data |-> s.data, start |-> e.start]
             r == Folded(base, bytes)
             v == w \o bytes
  <2>2. c.currentBlk = 0 /\ c.index = i /\ \A p \in 1 .. i : c.buf[p - 1] = w[p]
    BY <1>1, <2>1
  <2>3. base \in Folding
    <3>1. c \in AnyFcb /\ e.start \in Nat
      BY <1>2, FcbAny DEF Blocks
    <3> QED
      BY <1>2, <3>1 DEF Folding
  <2>4. AfterBytes(r, base, bytes, n)
    <3>1. base.c.currentBlk = 0 /\ base.c.index = i
      BY <2>2
    <3> HIDE DEF base, n, i
    <3> QED
      BY <1>3, <2>1, <2>3, <3>1, WrittenBytes
  <2> DEFINE buf == Filled(c.buf, bytes, i, n)
  <2>5. /\ r \in Folding /\ r.c.file = f /\ r.c.flags = c.flags /\ r.c.private = c.private /\ r.c.buf = buf
        /\ i + n < BlockBytes => r.c.index = i + n /\ r.c.currentBlk = 0 /\ r.data = s.data
        /\ i + n = BlockBytes => r.c.index = 0 /\ r.c.currentBlk = 1
                                 /\ r.data = WriteBlock(s.data, e.start, buf)
    <3>1. base.c = c /\ base.data = s.data /\ base.start = e.start
      OBVIOUS
    <3> HIDE DEF base, r
    <3> QED
      BY <1>1, <2>2, <2>4, <3>1 DEF AfterBytes
  <2>6. b_write(s, fd, bytes) = WrittenState(s, fd, r, f, Max({e.size, Position(r.c)}))
    <3>1. /\ c \in Fcb /\ c = s.fcb[fd] /\ IsOpen(s, fd) /\ "WRONLY" \in c.flags
          /\ c.file = f /\ ~c.private
      BY <1>1, <1>2
    <3>2. /\ r \in Folding /\ r = Folded([c |-> c, data |-> s.data, start |-> s.entry[f].start], bytes)
          /\ r.c.file = f /\ r.c.private = c.private
      BY <2>5
    <3> HIDE DEF r, c, base
    <3>3. b_write(s, fd, bytes) =
            WrittenState(s, fd, r, f, Max({s.entry[f].size, Position(r.c)}))
      BY <1>5, <3>1, <3>2, WriteIs
    <3> QED
      BY <3>3
  <2> HIDE DEF r, base
  <2>7. Max({e.size, Position(r.c)}) = i + n
    <3>1. Position(r.c) = i + n
      <4>1. i + n < BlockBytes \/ i + n = BlockBytes
        BY <1>3, <2>1
      <4>2. CASE i + n < BlockBytes
        <5>1. 0 * BlockBytes + (i + n) = i + n
          BY <1>3
        <5> QED
          BY <2>5, <4>2, <5>1 DEF Position
      <4>3. CASE i + n = BlockBytes
        <5>1. 1 * BlockBytes + 0 = BlockBytes
          BY <1>3
        <5> QED
          BY <2>5, <4>3, <5>1 DEF Position
      <4> QED
        BY <4>1, <4>2, <4>3
    <3>2. e.size = i /\ i \in Int /\ i + n \in Int /\ i <= i + n
      BY <1>1, <1>3
    <3> HIDE DEF i, n, e
    <3> QED
      BY <3>1, <3>2, GreaterIs
  <2>8. r.c \in Fcb /\ r.data \in Memory
    <3>1. r.c \in AnyFcb /\ r.data \in Memory
      BY <2>5 DEF Folding
    <3>2. r.c.currentBlk \in {0, 1}
      BY <1>3, <2>1, <2>5
    <3> QED
      BY <3>1, <3>2, FcbAny
  <2> DEFINE e2 == [start |-> e.start, size |-> i + n]
  <2>9. e2 \in Entry /\ e2 # Unlisted
    <3>1. i + n \in 0 .. BlockBytes /\ e.start # 0
      BY <1>2, <1>3, <2>1 DEF Blocks
    <3> QED
      BY <1>2, <3>1 DEF Entry, Unlisted
  <2>10. /\ t.data = r.data /\ t.entry = [s.entry EXCEPT ![f] = e2]
         /\ t.fcb = [s.fcb EXCEPT ![fd] = r.c] /\ t.next = s.next /\ t \in Disk
    <3>1. t = [data |-> r.data, entry |-> [s.entry EXCEPT ![f] = e2],
               fcb |-> [s.fcb EXCEPT ![fd] = r.c], next |-> s.next]
      BY <2>6, <2>7 DEF WrittenState
    <3> HIDE DEF e2, e, c, i, n
    <3> QED
      BY <1>2, <2>8, <2>9, <3>1 DEF Disk, Memory
  <2>11. /\ t.fcb[fd] = r.c /\ (\A gd : gd # fd => t.fcb[gd] = s.fcb[gd])
         /\ t.entry[f] = e2 /\ (\A g \in Files : g # f => t.entry[g] = s.entry[g])
         /\ Listed(t, f)
    <3> HIDE DEF e2, c
    <3> QED
      BY <1>2, <2>9, <2>10 DEF Listed
  <2>12. Apart(t)
    <3>1. e2.start = s.entry[f].start
      OBVIOUS
    <3>2. \A g \in Files : (Listed(t, g) <=> Listed(s, g)) /\ (Listed(s, g) => t.entry[g].start = s.entry[g].start)
      <4> HIDE DEF e2
      <4> QED
        BY <1>1, <2>11, <3>1 DEF Listed
    <3> QED
      BY <2>10, <3>2 DEF Apart
  <2>13. \A g \in Files : g # f /\ Listed(s, g) => t.data[s.entry[g].start] = s.data[s.entry[g].start]
    <3>1. \A g \in Files : g # f /\ Listed(s, g) =>
            WriteBlock(s.data, e.start, buf)[s.entry[g].start] = s.data[s.entry[g].start]
      BY <1>1, OtherBlock
    <3>2. t.data = s.data \/ t.data = WriteBlock(s.data, e.start, buf)
      BY <1>3, <2>1, <2>5, <2>10
    <3> HIDE DEF buf
    <3> QED
      BY <3>1, <3>2
  <2>14. v \in Seq(Bytes) /\ Len(v) = i + n /\ \A p \in 1 .. Len(v) : buf[p - 1] = v[p]
    <3>1. /\ v \in Seq(Bytes) /\ Len(v) = i + n
          /\ \A p \in 1 .. i + n : v[p] = IF p <= i THEN w[p] ELSE bytes[p - i]
      BY ConcatProperties
    <3>2. ASSUME NEW p \in 1 .. i + n PROVE buf[p - 1] = v[p]
      <4>1. p - 1 \in Offsets
        BY <1>3, <2>1 DEF Offsets
      <4>2. CASE p <= i
        <5>1. p \in 1 .. i /\ ~(i <= p - 1)
          BY <1>3, <4>2
        <5> HIDE DEF i, n, c, v
        <5> QED
          BY <2>2, <3>1, <4>1, <4>2, <5>1 DEF Filled
      <4>3. CASE ~(p <= i)
        <5>1. i <= p - 1 /\ p - 1 < i + n /\ (p - 1) - i + 1 = p - i
          BY <1>3, <4>3
        <5> HIDE DEF i, n, c, v
        <5> QED
          BY <3>1, <4>1, <4>3, <5>1 DEF Filled
      <4> QED
        BY <4>2, <4>3
    <3> HIDE DEF v, buf
    <3> QED
      BY <3>1, <3>2
  <2>15. IsOpen(t, fd)
    BY <1>2, <2>8, <2>10, <2>11, OpenFields
  <2>16. WriterAt(t, fd, f, v)
    <3>1. e2.size = Len(v) /\ e2.start = e.start
      BY <2>14
    <3>2. i + n = BlockBytes => t.data[e.start] = buf
      <4>1. ASSUME i + n = BlockBytes PROVE t.data[e.start] = buf
        <5>1. WriteBlock(s.data, e.start, buf)[e.start] = buf
          BY <1>2 DEF WriteBlock, Memory
        <5>2. t.data = WriteBlock(s.data, e.start, buf)
          BY <2>5, <2>10, <4>1
        <5> QED
          BY <5>1, <5>2
      <4> QED
        BY <4>1
    <3> HIDE DEF v, buf, e2, e, c, i, n
    <3> QED
      BY <1>1, <2>5, <2>11, <2>14, <2>15, <3>1, <3>2 DEF WriterAt
  <2> QED
    BY <2>10, <2>11, <2>12, <2>13, <2>16 DEF OnlyOf, WrittenOn
<1> QED
  BY <1>4, <1>5

\* The descriptor b_open makes, and the entry it goes with.
FirstFcb(s, f, flags, private, e) ==
    [file |-> f, flags |-> flags, private |-> private, own |-> IF private THEN e ELSE Unlisted,
     index |-> 0, currentBlk |-> 0, buflen |-> IF Readable(flags) THEN e.size ELSE 0,
     buf |-> IF Readable(flags) /\ e.size > 0 THEN s.data[e.start] ELSE JunkBlock]

AllFlags == {{}, {"WRONLY", "CREAT"}, {"WRONLY", "CREAT", "TRUNC"}}

\* No flag of the commands asks for the end of the file.
LEMMA FirstFcbIs ==
    ASSUME NEW s \in Disk, NEW f \in Files, NEW flags \in AllFlags, NEW private \in BOOLEAN,
           NEW e \in Entry, e.start \in Blocks
    PROVE  /\ NewFcb(s, f, flags, private, e) = FirstFcb(s, f, flags, private, e)
           /\ FirstFcb(s, f, flags, private, e) \in Fcb
<1>1. "APPEND" \notin flags
  BY DEF AllFlags
<1>2. e.size \in 0 .. BlockBytes /\ e.size \in Int /\ BlockBytes \in Int
  BY EntryFields, Constants
<1>3. SmallerOf(e.size, BlockBytes) = e.size
  BY <1>2, SmallerIs
<1>4. ReadBlock(s.data, e.start, JunkBlock) = s.data[e.start]
  BY DEF ReadBlock
<1>5. NewFcb(s, f, flags, private, e) = FirstFcb(s, f, flags, private, e)
  BY <1>1, <1>3, <1>4 DEF NewFcb, FirstFcb, AppendLoads
<1>6. FirstFcb(s, f, flags, private, e) \in Fcb
  <2>1. JunkBlock \in Buffer
    BY DEF JunkBlock, Buffer, Bytes
  <2>2. s.data[e.start] \in Buffer
    BY DiskFields DEF Memory
  <2>3. Unlisted \in Entry /\ 0 \in 0 .. BlockBytes
    BY Constants DEF Unlisted, Entry
  <2>4. (IF private THEN e ELSE Unlisted) \in Entry
    BY <2>3
  <2>5. (IF Readable(flags) THEN e.size ELSE 0) \in 0 .. BlockBytes
    BY <1>2, <2>3
  <2>6. (IF Readable(flags) /\ e.size > 0 THEN s.data[e.start] ELSE JunkBlock) \in Buffer
    BY <2>1, <2>2
  <2> QED
    BY <2>3, <2>4, <2>5, <2>6 DEF FirstFcb, Fcb, AllFlags
<1> QED
  BY <1>5, <1>6

\* b_open, when there is a descriptor and the file is there or can be made.
LEMMA OpenIs ==
    ASSUME NEW s \in Disk, Apart(s), NEW f \in Files, NEW flags \in AllFlags, NEW private \in BOOLEAN,
           FreeFds(s) # {}, Listed(s, f) \/ ("CREAT" \in flags /\ s.next \in Blocks),
           NEW e, e = OpenedEntry(s, f, flags), NEW r, r = b_open(s, f, flags, private)
    PROVE  /\ e \in Entry /\ e.start \in Blocks
           /\ r.fd \in FreeFds(s) /\ r.fd \in Fds /\ r.fd # -1
           /\ r.io \in Disk /\ Apart(r.io) /\ OnlyOf(s, r.io, f)
           /\ r.io.data = s.data /\ r.io.entry[f] = e /\ Listed(r.io, f)
           /\ Listed(s, f) => r.io.next = s.next
           /\ r.io.fcb[r.fd] = FirstFcb(s, f, flags, private, e) /\ IsOpen(r.io, r.fd)
           /\ \A gd : gd # r.fd => r.io.fcb[gd] = s.fcb[gd]
<1> DEFINE fd   == Min(FreeFds(s))
           c    == FirstFcb(s, f, flags, private, e)
           next == IF Listed(s, f) THEN s.next ELSE s.next + 1
           t    == [data |-> s.data, entry |-> [s.entry EXCEPT ![f] = e],
                    fcb |-> [s.fcb EXCEPT ![fd] = c], next |-> next]
<1>1. /\ s.data \in Memory /\ s.entry \in [Files -> Entry]
      /\ s.fcb \in [Fds -> Fcb \cup {Closed}] /\ s.next \in 1 .. VolumeBlocks + 1
      /\ s = [data |-> s.data, entry |-> s.entry, fcb |-> s.fcb, next |-> s.next]
  BY DiskFields
<1>2. fd \in FreeFds(s) /\ fd \in Fds /\ fd # -1
  <2>1. FreeFds(s) \subseteq Nat
    BY Constants DEF FreeFds, Fds
  <2>2. fd \in FreeFds(s)
    BY <2>1, MinNat
  <2> QED
    BY <2>1, <2>2 DEF FreeFds
<1>3. /\ e \in Entry /\ e.start \in Blocks /\ e # Unlisted
      /\ Listed(s, f) => e.start = s.entry[f].start
      /\ ~Listed(s, f) => e.start = s.next /\ s.next \in Blocks
  <2>1. CASE ~Listed(s, f)
    <3>1. e = [start |-> s.next, size |-> 0] /\ s.next \in Blocks
      BY <2>1 DEF OpenedEntry
    <3>2. s.next # 0 /\ 0 \in 0 .. BlockBytes
      BY <1>1, Constants
    <3> QED
      BY <2>1, <3>1, <3>2 DEF Entry, Unlisted
  <2>2. CASE Listed(s, f)
    <3> DEFINE g == s.entry[f]
    <3>1. g \in Entry /\ g.start \in Blocks /\ 0 \in 0 .. BlockBytes
      BY <2>2, ListedStart, Constants
    <3>2. e = g \/ e = [g EXCEPT !.size = 0]
      BY <2>2 DEF OpenedEntry
    <3>3. [g EXCEPT !.size = 0] = [start |-> g.start, size |-> 0]
      BY <3>1 DEF Entry
    <3>4. e.start = g.start /\ e \in Entry
      <4> HIDE DEF g
      <4> QED
        BY <3>1, <3>2, <3>3 DEF Entry
    <3>5. e # Unlisted
      BY <3>1, <3>4 DEF Unlisted, Blocks
    <3> QED
      BY <2>2, <3>1, <3>4, <3>5
  <2> QED
    BY <2>1, <2>2
<1>4. NewFcb(s, f, flags, private, e) = c /\ c \in Fcb
  BY <1>3, FirstFcbIs
<1>5. r = [io |-> t, fd |-> fd]
  <2>1. r = [io |-> [s EXCEPT !.entry[f] = e, !.fcb[fd] = c,
                              !.next = IF Listed(s, f) THEN @ ELSE @ + 1], fd |-> fd]
    <3> HIDE DEF c, fd
    <3> QED
      BY <1>4 DEF b_open, fd
  <2>2. [s EXCEPT !.entry[f] = e, !.fcb[fd] = c, !.next = IF Listed(s, f) THEN @ ELSE @ + 1] = t
    <3> DEFINE E == [s.entry EXCEPT ![f] = e]
               F == [s.fcb EXCEPT ![fd] = c]
    <3> HIDE DEF c, fd
    <3>1. [s EXCEPT !.entry[f] = e, !.fcb[fd] = c, !.next = IF Listed(s, f) THEN @ ELSE @ + 1]
            = [[[s EXCEPT !.entry = E] EXCEPT !.fcb = F] EXCEPT !.next = next]
      BY <1>1
    <3> HIDE DEF E, F, next
    <3>2. [[[s EXCEPT !.entry = E] EXCEPT !.fcb = F] EXCEPT !.next = next]
            = [data |-> s.data, entry |-> E, fcb |-> F, next |-> next]
      <4>1. [s EXCEPT !.entry = E] = [data |-> s.data, entry |-> E, fcb |-> s.fcb, next |-> s.next]
        BY <1>1
      <4>2. ASSUME NEW u, u = [data |-> s.data, entry |-> E, fcb |-> s.fcb, next |-> s.next]
            PROVE  [u EXCEPT !.fcb = F] = [data |-> s.data, entry |-> E, fcb |-> F, next |-> s.next]
        BY <4>2
      <4>3. ASSUME NEW u, u = [data |-> s.data, entry |-> E, fcb |-> F, next |-> s.next]
            PROVE  [u EXCEPT !.next = next] = [data |-> s.data, entry |-> E, fcb |-> F, next |-> next]
        BY <4>3
      <4> QED
        BY <4>1, <4>2, <4>3, Zenon
    <3> QED
      BY <3>1, <3>2 DEF E, F
  <2> QED
    BY <2>1, <2>2
<1>6. next \in 1 .. VolumeBlocks + 1 /\ next >= s.next /\ (~Listed(s, f) => next = s.next + 1)
  BY <1>1, <1>3, Constants DEF Blocks
<1> HIDE DEF c, fd, next
<1>7. t \in Disk
  BY <1>1, <1>2, <1>3, <1>4, <1>6 DEF Disk, Memory
<1>8. /\ t.data = s.data /\ t.next = next /\ t.entry[f] = e /\ Listed(t, f)
      /\ \A g \in Files : g # f => t.entry[g] = s.entry[g]
      /\ t.fcb[fd] = c /\ \A gd : gd # fd => t.fcb[gd] = s.fcb[gd]
  BY <1>1, <1>2, <1>3 DEF Listed
<1> HIDE DEF t
<1>9. IsOpen(t, fd)
  BY <1>2, <1>4, <1>7, <1>8, OpenFields
<1>10. Apart(t)
  <2>1. \A g \in Files : g # f => (Listed(t, g) <=> Listed(s, g))
    BY <1>8 DEF Listed
  <2>2. s.next \in Int /\ next \in Int
    BY <1>1, <1>6
  <2>3. \A g \in Files : Listed(s, g) => s.entry[g].start \in 1 .. s.next - 1
    BY DEF Apart
  <2>4. e.start \in 1 .. next - 1
    <3>1. CASE Listed(s, f)
      BY <1>3, <1>6, <2>2, <2>3, <3>1
    <3>2. CASE ~Listed(s, f)
      BY <1>1, <1>3, <1>6, <2>2, <3>2
    <3> QED
      BY <3>1, <3>2
  <2>5. ASSUME NEW g \in Files, Listed(t, g) PROVE t.entry[g].start \in 1 .. t.next - 1
    <3>1. CASE g = f
      BY <1>8, <2>4, <3>1
    <3>2. CASE g # f
      BY <1>6, <1>8, <2>1, <2>2, <2>3, <2>5, <3>2
    <3> QED
      BY <3>1, <3>2
  <2>6. ASSUME NEW g \in Files, Listed(t, g), g # f PROVE t.entry[g].start # e.start
    <3>1. Listed(s, g) /\ t.entry[g].start = s.entry[g].start
      BY <1>8, <2>1, <2>6
    <3>2. CASE Listed(s, f)
      BY <1>3, <2>6, <3>1, <3>2 DEF Apart
    <3>3. CASE ~Listed(s, f)
      BY <1>3, <2>2, <2>3, <3>1, <3>3
    <3> QED
      BY <3>2, <3>3
  <2>7. ASSUME NEW g \in Files, NEW h \in Files, Listed(t, g), Listed(t, h), g # h
        PROVE  t.entry[g].start # t.entry[h].start
    <3>1. CASE g = f
      BY <1>8, <2>6, <2>7, <3>1
    <3>2. CASE h = f
      BY <1>8, <2>6, <2>7, <3>2
    <3>3. CASE g # f /\ h # f
      BY <1>8, <2>1, <2>7, <3>3 DEF Apart
    <3> QED
      BY <3>1, <3>2, <3>3
  <2> QED
    BY <2>5, <2>7 DEF Apart
<1>11. OnlyOf(s, t, f)
  BY <1>8 DEF OnlyOf
<1>12. Listed(s, f) => t.next = s.next
  BY <1>8 DEF next
<1>13. r.fd = fd /\ r.io = t
  BY <1>5
<1> QED
  BY <1>2, <1>3, <1>7, <1>8, <1>9, <1>10, <1>11, <1>12, <1>13 DEF c

\* b_open refuses otherwise.
LEMMA OpenRefused ==
    ASSUME NEW s, NEW f, NEW flags, NEW private,
           FreeFds(s) = {} \/ (~Listed(s, f) /\ "CREAT" \notin flags),
           NEW r, r = b_open(s, f, flags, private)
    PROVE  r.io = s /\ r.fd = -1
  BY DEF b_open

\* A file opened to be read.
LEMMA OpenReader ==
    ASSUME NEW s \in Disk, Apart(s), NEW f \in Files, NEW private \in BOOLEAN,
           FreeFds(s) # {}, Listed(s, f), NEW r, r = b_open(s, f, {}, private)
    PROVE  /\ r.fd \in FreeFds(s) /\ r.fd \in Fds /\ r.fd # -1
           /\ r.io \in Disk /\ SameFiles(s, r.io) /\ ReaderAt(r.io, r.fd, f, 0)
<1> DEFINE e == s.entry[f]
<1>1. e = OpenedEntry(s, f, {}) /\ {} \in AllFlags
  BY DEF OpenedEntry, AllFlags
<1>2. /\ e \in Entry /\ e.start \in Blocks
      /\ r.fd \in FreeFds(s) /\ r.fd \in Fds /\ r.fd # -1
      /\ r.io \in Disk /\ Apart(r.io) /\ OnlyOf(s, r.io, f)
      /\ r.io.data = s.data /\ r.io.entry[f] = e /\ Listed(r.io, f)
      /\ Listed(s, f) => r.io.next = s.next
      /\ r.io.fcb[r.fd] = FirstFcb(s, f, {}, private, e) /\ IsOpen(r.io, r.fd)
      /\ \A gd : gd # r.fd => r.io.fcb[gd] = s.fcb[gd]
  <2> HIDE DEF e
  <2> QED
    BY <1>1, OpenIs
<1>3. r.io.entry = s.entry
  <2>1. \A g \in Files : r.io.entry[g] = s.entry[g]
    BY <1>2 DEF OnlyOf
  <2>2. r.io.entry \in [Files -> Entry] /\ s.entry \in [Files -> Entry]
    BY <1>2, DiskFields
  <2> QED
    BY <2>1, <2>2
<1>4. ReaderAt(r.io, r.fd, f, 0)
  <2> DEFINE c == FirstFcb(s, f, {}, private, e)
  <2>1. /\ c.file = f /\ c.flags = {} /\ c.private = private /\ c.currentBlk = 0 /\ c.index = 0
        /\ c.buflen = e.size /\ (private => c.own = e) /\ (e.size > 0 => c.buf = s.data[e.start])
    BY DEF FirstFcb, Readable
  <2>2. 0 <= e.size
    BY <1>2, EntryFields, Constants
  <2> HIDE DEF c, e
  <2>3. EntryOf(r.io, c) = e
    BY <1>2, <2>1 DEF EntryOf
  <2> QED
    BY <1>2, <2>1, <2>2, <2>3 DEF ReaderAt, c
<1> QED
  BY <1>2, <1>3, <1>4 DEF SameFiles

\* A file opened to be written anew.
LEMMA OpenWriter ==
    ASSUME NEW s \in Disk, Apart(s), NEW f \in Files, NEW private \in BOOLEAN, ~private,
           FreeFds(s) # {}, Listed(s, f) \/ s.next \in Blocks,
           NEW r, r = b_open(s, f, {"WRONLY", "CREAT", "TRUNC"}, private)
    PROVE  /\ r.fd \in FreeFds(s) /\ r.fd \in Fds /\ r.fd # -1
           /\ r.io \in Disk /\ Apart(r.io) /\ OnlyOf(s, r.io, f) /\ Listed(r.io, f)
           /\ WriterAt(r.io, r.fd, f, <<>>)
           /\ \A gd : gd # r.fd => r.io.fcb[gd] = s.fcb[gd]
<1> DEFINE flags == {"WRONLY", "CREAT", "TRUNC"}
           e == OpenedEntry(s, f, flags)
           c == FirstFcb(s, f, flags, private, e)
<1>1. /\ r.fd \in FreeFds(s) /\ r.fd \in Fds /\ r.fd # -1
      /\ r.io \in Disk /\ Apart(r.io) /\ OnlyOf(s, r.io, f)
      /\ r.io.data = s.data /\ r.io.entry[f] = e /\ Listed(r.io, f)
      /\ r.io.fcb[r.fd] = c /\ IsOpen(r.io, r.fd)
      /\ \A gd : gd # r.fd => r.io.fcb[gd] = s.fcb[gd]
  <2>1. flags \in AllFlags /\ "CREAT" \in flags
    BY DEF AllFlags
  <2>2. r = b_open(s, f, flags, private) /\ e = OpenedEntry(s, f, flags)
    OBVIOUS
  <2> HIDE DEF flags, e
  <2> QED
    BY <2>1, <2>2, OpenIs
<1>2. e.size = 0
  <2>1. CASE ~Listed(s, f)
    BY <2>1 DEF OpenedEntry
  <2>2. CASE Listed(s, f)
    <3>1. s.entry[f] \in Entry
      BY DiskFields
    <3> QED
      BY <2>2, <3>1 DEF OpenedEntry, Entry
  <2> QED
    BY <2>1, <2>2
<1>3. c.file = f /\ c.flags = flags /\ ~c.private /\ c.currentBlk = 0 /\ c.index = 0
  BY DEF FirstFcb
<1>4. "WRONLY" \in flags
  OBVIOUS
<1> HIDE DEF c, e, flags
<1>5. Len(<<>>) = 0 /\ 0 < BlockBytes /\ 0 # BlockBytes /\ 1 .. Len(<<>>) = {}
  BY Constants
<1>6. WriterAt(r.io, r.fd, f, <<>>)
  BY <1>1, <1>2, <1>3, <1>4, <1>5 DEF WriterAt
<1> QED
  BY <1>1, <1>6

\* A file that touch makes, or leaves as it is.
LEMMA OpenTouched ==
    ASSUME NEW s \in Disk, Apart(s), NEW f \in Files, NEW private \in BOOLEAN,
           FreeFds(s) # {}, Listed(s, f) \/ s.next \in Blocks,
           NEW r, r = b_open(s, f, {"WRONLY", "CREAT"}, private)
    PROVE  /\ r.fd \in FreeFds(s) /\ r.fd \in Fds /\ r.fd # -1
           /\ r.io \in Disk /\ Apart(r.io) /\ OnlyOf(s, r.io, f) /\ Listed(r.io, f)
           /\ r.io.fcb[r.fd].index = 0
           /\ Contents(r.io)[f] = IF Listed(s, f) THEN Contents(s)[f] ELSE <<>>
<1> DEFINE flags == {"WRONLY", "CREAT"}
           e == OpenedEntry(s, f, flags)
           c == FirstFcb(s, f, flags, private, e)
<1>1. /\ r.fd \in FreeFds(s) /\ r.fd \in Fds /\ r.fd # -1
      /\ r.io \in Disk /\ Apart(r.io) /\ OnlyOf(s, r.io, f)
      /\ r.io.data = s.data /\ r.io.entry[f] = e /\ Listed(r.io, f)
      /\ r.io.fcb[r.fd] = c
  <2>1. flags \in AllFlags /\ "CREAT" \in flags
    BY DEF AllFlags
  <2> HIDE DEF flags, e
  <2> QED
    BY <2>1, OpenIs DEF flags, e
<1>2. c.index = 0
  BY DEF FirstFcb
<1> HIDE DEF c
<1>3. CASE Listed(s, f)
  <2>1. e = s.entry[f]
    BY <1>3 DEF OpenedEntry
  <2> HIDE DEF e
  <2>2. Contents(r.io)[f] = Contents(s)[f]
    BY <1>1, <2>1, SameContent
  <2> QED
    BY <1>1, <1>2, <1>3, <2>2
<1>4. CASE ~Listed(s, f)
  <2>1. e.size = 0
    BY <1>4 DEF OpenedEntry
  <2> HIDE DEF e
  <2>2. r.io.entry[f].size = Len(<<>>) /\ <<>> \in Seq(Bytes) /\ 1 .. Len(<<>>) = {}
    BY <1>1, <2>1
  <2>3. Contents(r.io)[f] = <<>>
    BY <1>1, <2>2, ContentEquals
  <2> QED
    BY <1>1, <1>2, <1>4, <2>3
<1> QED
  BY <1>3, <1>4

-----------------------------------------------------------------------------
(* What has been moved and what is left.                                   *)

\* The bytes from n + 1 to m.
LEMMA PartIs ==
    ASSUME NEW t \in Seq(Bytes), NEW n \in Nat, NEW m \in Nat, n <= m, m <= Len(t)
    PROVE  /\ SubSeq(t, n + 1, m) \in Seq(Bytes) /\ Len(SubSeq(t, n + 1, m)) = m - n
           /\ \A i \in 1 .. m - n : SubSeq(t, n + 1, m)[i] = t[n + i]
<1>1. \A i \in n + 1 .. m : i \in 1 .. Len(t)
  OBVIOUS
<1>2. \A i \in n + 1 .. m : t[i] \in Bytes
  BY <1>1, ElementOfSeq
<1>3. n + 1 \in Int /\ m \in Int /\ m - (n + 1) + 1 = m - n
  OBVIOUS
<1>4. /\ SubSeq(t, n + 1, m) \in Seq(Bytes)
      /\ Len(SubSeq(t, n + 1, m)) = IF n + 1 <= m THEN m - (n + 1) + 1 ELSE 0
      /\ \A i \in 1 .. m - (n + 1) + 1 : SubSeq(t, n + 1, m)[i] = t[(n + 1) + i - 1]
  BY <1>2, <1>3, SubSeqProperties
<1>5. Len(SubSeq(t, n + 1, m)) = m - n
  <2>1. CASE n + 1 <= m
    BY <1>3, <1>4, <2>1
  <2>2. CASE ~(n + 1 <= m)
    BY <1>4, <2>2
  <2> QED
    BY <2>1, <2>2
<1>6. \A i \in 1 .. m - n : (n + 1) + i - 1 = n + i
  OBVIOUS
<1> QED
  BY <1>3, <1>4, <1>5, <1>6

\* The next k of the bytes left, and what is left then.
LEMMA PartOfRest ==
    ASSUME NEW t \in Seq(Bytes), NEW n \in Nat, NEW k \in Nat, n + k <= Len(t),
           NEW u, u = SubSeq(t, n + 1, Len(t))
    PROVE  /\ u \in Seq(Bytes) /\ Len(u) = Len(t) - n
           /\ SubSeq(u, 1, k) = SubSeq(t, n + 1, n + k)
           /\ SubSeq(u, k + 1, Len(u)) = SubSeq(t, n + k + 1, Len(t))
<1>1. /\ u \in Seq(Bytes) /\ Len(u) = Len(t) - n
      /\ \A i \in 1 .. Len(t) - n : u[i] = t[n + i]
  BY PartIs
<1>2. SubSeq(u, 1, k) = SubSeq(t, n + 1, n + k)
  <2> DEFINE a == SubSeq(u, 1, k)
             b == SubSeq(t, n + 1, n + k)
  <2>1. a \in Seq(Bytes) /\ Len(a) = k /\ \A i \in 1 .. k : a[i] = u[i]
    <3>1. 0 + 1 = 1 /\ k - 0 = k /\ 0 <= k /\ k <= Len(u) /\ \A i \in 1 .. k : 0 + i = i
      BY <1>1
    <3>2. /\ SubSeq(u, 0 + 1, k) \in Seq(Bytes) /\ Len(SubSeq(u, 0 + 1, k)) = k - 0
          /\ \A i \in 1 .. k - 0 : SubSeq(u, 0 + 1, k)[i] = u[0 + i]
      BY <1>1, <3>1, PartIs
    <3> QED
      BY <3>1, <3>2
  <2>2. b \in Seq(Bytes) /\ Len(b) = k /\ \A i \in 1 .. k : b[i] = t[n + i]
    <3>1. (n + k) - n = k /\ n + k \in Nat /\ n <= n + k
      OBVIOUS
    <3> QED
      BY <3>1, PartIs
  <2>3. \A i \in 1 .. k : a[i] = b[i]
    BY <1>1, <2>1, <2>2
  <2> HIDE DEF a, b
  <2>4. a = b
    BY <2>1, <2>2, <2>3, SeqEqual
  <2> QED
    BY <2>4 DEF a, b
<1>3. SubSeq(u, k + 1, Len(u)) = SubSeq(t, n + k + 1, Len(t))
  <2> DEFINE a == SubSeq(u, k + 1, Len(u))
             b == SubSeq(t, n + k + 1, Len(t))
  <2>1. a \in Seq(Bytes) /\ Len(a) = Len(u) - k /\ \A i \in 1 .. Len(u) - k : a[i] = u[k + i]
    BY <1>1, PartIs
  <2>2. b \in Seq(Bytes) /\ Len(b) = Len(t) - (n + k) /\ \A i \in 1 .. Len(t) - (n + k) : b[i] = t[n + k + i]
    BY PartIs
  <2>3. \A i \in 1 .. Len(a) : a[i] = b[i]
    <3>1. ASSUME NEW i \in 1 .. Len(a) PROVE a[i] = b[i]
      <4>1. i \in 1 .. Len(u) - k /\ k + i \in 1 .. Len(t) - n /\ n + (k + i) = n + k + i
            /\ i \in 1 .. Len(t) - (n + k)
        BY <1>1, <2>1
      <4> HIDE DEF a, b
      <4> QED
        BY <1>1, <2>1, <2>2, <4>1
    <3> QED
      BY <3>1
  <2>4. Len(a) = Len(b)
    BY <1>1, <2>1, <2>2
  <2> HIDE DEF a, b
  <2>5. a = b
    BY <2>1, <2>2, <2>3, <2>4, SeqEqual
  <2> QED
    BY <2>5 DEF a, b
<1> QED
  BY <1>1, <1>2, <1>3

\* Nothing, everything, and one part after the other.
LEMMA PartsJoin ==
    ASSUME NEW t \in Seq(Bytes)
    PROVE  /\ SubSeq(t, 1, 0) = <<>> /\ SubSeq(t, 1, Len(t)) = t /\ SubSeq(t, 0 + 1, Len(t)) = t
           /\ \A n, m \in Nat : n <= m /\ m <= Len(t) =>
                SubSeq(t, 1, n) \o SubSeq(t, n + 1, m) = SubSeq(t, 1, m)
<1>1. SubSeq(t, 1, 0) = <<>>
  BY SubSeqEmpty
<1>2. SubSeq(t, 1, Len(t)) = t
  BY SubSeqFull
<1>3. ASSUME NEW n \in Nat, NEW m \in Nat, n <= m, m <= Len(t)
      PROVE  SubSeq(t, 1, n) \o SubSeq(t, n + 1, m) = SubSeq(t, 1, m)
  <2>1. 1 \in 1 .. Len(t) + 1 /\ n \in 1 - 1 .. Len(t) /\ m \in n .. Len(t)
    BY <1>3
  <2> QED
    BY <2>1, ConcatAdjacentSubSeq
<1> QED
  BY <1>1, <1>2, <1>3

-----------------------------------------------------------------------------
(* The call that comes after each call of a command.                       *)

Place(name, step, next) ==
    \/ name = "touch" /\ \/ step = "openDest" /\ next = "closeDest"
                         \/ step = "closeDest" /\ next = "end"
    \/ name \in {"cat", "cp2l"} /\ \/ step = "openSource" /\ next = "read"
                                   \/ step = "read" /\ next = "emit"
                                   \/ step = "emit" /\ next = "closeSource"
                                   \/ step = "closeSource" /\ next = "end"
    \/ name = "cp" /\ \/ step = "openSource" /\ next = "openDest"
                      \/ step = "openDest" /\ next = "read"
                      \/ step = "read" /\ next = "write"
                      \/ step = "write" /\ next = "closeSource"
                      \/ step = "closeSource" /\ next = "closeDest"
                      \/ step = "closeDest" /\ next = "end"
    \/ name = "cp2fs" /\ \/ step = "openDest" /\ next = "readLinux"
                         \/ step = "readLinux" /\ next = "write"
                         \/ step = "write" /\ next = "closeDest"
                         \/ step = "closeDest" /\ next = "end"

NextCall(calls) == IF calls = <<>> THEN "end" ELSE Head(calls)

\* Where a command can be.
LEMMA Follows ==
    ASSUME IInv, ~Prompt
    PROVE  Place(cmd.name, Head(todo), NextCall(Tail(todo)))
<1> DEFINE n == cmd.name
           S == Steps[n]
<1>1. PICK k \in 1 .. Len(S) : todo = SubSeq(S, k, Len(S))
  BY Somewhere
<1>2. n \in Commands /\ S \in Seq(Calls) /\ Len(S) \in Nat
  BY Somewhere, StepsInOrder DEF InOrder
<1>3. Head(todo) = S[k] /\ Tail(todo) = SubSeq(S, k + 1, Len(S))
  BY <1>1, <1>2, RestOfSteps
<1>4. NextCall(Tail(todo)) = IF k = Len(S) THEN "end" ELSE S[k + 1]
  <2>1. CASE k = Len(S)
    BY <1>2, <1>3, <2>1, SubSeqEmpty DEF NextCall
  <2>2. CASE k # Len(S)
    <3>1. k + 1 \in 1 .. Len(S)
      BY <1>2, <2>2
    <3>2. SubSeq(S, k + 1, Len(S)) # <<>> /\ Head(SubSeq(S, k + 1, Len(S))) = S[k + 1]
      BY <1>2, <3>1, RestOfSteps
    <3> QED
      BY <1>3, <2>2, <3>2 DEF NextCall
  <2> QED
    BY <2>1, <2>2
<1>5. n \in {"touch", "cat", "cp", "cp2l", "cp2fs"}
  BY <1>2 DEF Commands, Steps
<1>6. ASSUME n = "touch" PROVE Place(n, S[k], IF k = Len(S) THEN "end" ELSE S[k + 1])
  <2>1. Len(S) = 2 /\ S[1] = "openDest" /\ S[2] = "closeDest"
    BY <1>6 DEF Steps
  <2>2. k \in {1, 2}
    BY <2>1
  <2> QED
    BY <1>6, <2>1, <2>2 DEF Place
<1>7. ASSUME n = "cat" PROVE Place(n, S[k], IF k = Len(S) THEN "end" ELSE S[k + 1])
  <2>1. Len(S) = 4 /\ S[1] = "openSource" /\ S[2] = "read" /\ S[3] = "emit" /\ S[4] = "closeSource"
    BY <1>7 DEF Steps
  <2>2. k \in {1, 2, 3, 4}
    BY <2>1
  <2> QED
    BY <1>7, <2>1, <2>2 DEF Place
<1>8. ASSUME n = "cp2l" PROVE Place(n, S[k], IF k = Len(S) THEN "end" ELSE S[k + 1])
  <2>1. Len(S) = 4 /\ S[1] = "openSource" /\ S[2] = "read" /\ S[3] = "emit" /\ S[4] = "closeSource"
    BY <1>8 DEF Steps
  <2>2. k \in {1, 2, 3, 4}
    BY <2>1
  <2> QED
    BY <1>8, <2>1, <2>2 DEF Place
<1>9. ASSUME n = "cp" PROVE Place(n, S[k], IF k = Len(S) THEN "end" ELSE S[k + 1])
  <2>1. /\ Len(S) = 6 /\ S[1] = "openSource" /\ S[2] = "openDest" /\ S[3] = "read"
        /\ S[4] = "write" /\ S[5] = "closeSource" /\ S[6] = "closeDest"
    BY <1>9 DEF Steps
  <2>2. k \in {1, 2, 3, 4, 5, 6}
    BY <2>1
  <2> QED
    BY <1>9, <2>1, <2>2 DEF Place
<1>10. ASSUME n = "cp2fs" PROVE Place(n, S[k], IF k = Len(S) THEN "end" ELSE S[k + 1])
  <2>1. Len(S) = 4 /\ S[1] = "openDest" /\ S[2] = "readLinux" /\ S[3] = "write" /\ S[4] = "closeDest"
    BY <1>10 DEF Steps
  <2>2. k \in {1, 2, 3, 4}
    BY <2>1
  <2> QED
    BY <1>10, <2>1, <2>2 DEF Place
<1>11. Place(n, S[k], IF k = Len(S) THEN "end" ELSE S[k + 1])
  BY <1>5, <1>6, <1>7, <1>8, <1>9, <1>10
<1> HIDE DEF S
<1> QED
  BY <1>3, <1>4, <1>11

\* Nothing comes after the last call.
LEMMA EndsThere ==
    ASSUME IInv, ~Prompt, NextCall(Tail(todo)) = "end"
    PROVE  Tail(todo) = <<>>
<1> DEFINE S == Steps[cmd.name]
<1>1. PICK k \in 1 .. Len(S) : todo = SubSeq(S, k, Len(S))
  BY Somewhere
<1>2. S \in Seq(Calls) /\ Len(S) \in Nat
  BY Somewhere, StepsInOrder DEF InOrder
<1>3. Tail(todo) = SubSeq(S, k + 1, Len(S))
  BY <1>1, <1>2, RestOfSteps
<1>4. CASE k = Len(S)
  <2>1. Tail(todo) = SubSeq(S, Len(S) + 1, Len(S))
    BY <1>3, <1>4
  <2> HIDE DEF S
  <2>2. SubSeq(S, Len(S) + 1, Len(S)) = <<>>
    BY <1>2
  <2> QED
    BY <2>1, <2>2
<1>5. CASE k # Len(S)
  <2>1. k + 1 \in 1 .. Len(S)
    BY <1>2, <1>5
  <2>2. SubSeq(S, k + 1, Len(S)) # <<>> /\ Head(SubSeq(S, k + 1, Len(S))) = S[k + 1]
    BY <1>2, <2>1, RestOfSteps
  <2>3. S[k + 1] = "end" /\ S[k + 1] \in Calls
    BY <1>2, <1>3, <2>1, <2>2, ElementOfSeq DEF NextCall
  <2> QED
    BY <2>3 DEF Calls
<1> QED
  BY <1>4, <1>5

\* No descriptor is open when the first file is opened.
LEMMA NothingOpenYet ==
    ASSUME IInv, ~Prompt,
           Head(todo) = "openSource" \/ (Head(todo) = "openDest" /\ cmd.name # "cp")
    PROVE  FreeFds(io) # {}
<1> DEFINE n == cmd.name
           S == Steps[n]
<1>1. PICK k \in 1 .. Len(S) : todo = SubSeq(S, k, Len(S)) /\ Settled(io, cmd, k)
  BY Somewhere
<1>2. n \in Commands /\ InOrder(n, S) /\ S \in Seq(Calls) /\ Len(S) \in Nat
  BY Somewhere, StepsInOrder DEF InOrder
<1>3. S[k] = Head(todo)
  BY <1>1, <1>2, RestOfSteps
<1>4. Place(n, Head(todo), NextCall(Tail(todo)))
  BY Follows
<1>5. n \in {"touch", "cat", "cp", "cp2l", "cp2fs"}
  BY <1>2 DEF Commands, Steps
<1>6. \A fd \in OpenFds(io) : fd # -1
  BY Constants DEF OpenFds, Fds
<1>7. Within(n, S[k], k)
  BY <1>2 DEF Within
<1>8. CASE Head(todo) = "openSource"
  <2>1. cmd.srcFd = -1
    BY <1>1, <1>3, <1>7, <1>8 DEF Settled
  <2>2. cmd.destFd = -1 \/ ~Within(n, "closeDest", k)
    <3>1. CASE n = "cp"
      <4>1. S = <<"openSource", "openDest", "read", "write", "closeSource", "closeDest">>
        BY <3>1 DEF Steps
      <4>2. Len(S) = 6 /\ S[1] = "openSource" /\ S[2] = "openDest"
        BY <4>1
      <4>3. k = 1
        BY <1>2, <1>3, <1>8, <4>2 DEF InOrder
      <4>4. 2 \in k .. Len(S)
        BY <4>2, <4>3
      <4>5. Within(n, "openDest", k)
        BY <4>2, <4>4 DEF Within
      <4> QED
        BY <1>1, <4>5 DEF Settled
    <3>2. CASE n # "cp"
      <4>1. n \in {"cat", "cp2l"}
        BY <1>4, <1>8, <3>2 DEF Place
      <4>2. S = <<"openSource", "read", "emit", "closeSource">>
        BY <4>1 DEF Steps
      <4>3. Len(S) = 4 /\ S[1] = "openSource" /\ S[2] = "read" /\ S[3] = "emit" /\ S[4] = "closeSource"
        BY <4>2
      <4>4. \A j \in k .. Len(S) : j \in {1, 2, 3, 4}
        BY <4>3
      <4> QED
        BY <4>3, <4>4 DEF Within
    <3> QED
      BY <3>1, <3>2
  <2> QED
    BY <1>1, <1>6, <2>1, <2>2, Constants DEF Settled, OpenFds, Fds
<1>9. CASE Head(todo) = "openDest" /\ cmd.name # "cp"
  <2>1. cmd.destFd = -1
    BY <1>1, <1>3, <1>7, <1>9 DEF Settled
  <2>2. ~Within(n, "closeSource", k)
    <3>1. n \in {"touch", "cp2fs"}
      BY <1>4, <1>9 DEF Place
    <3>2. S = <<"openDest", "closeDest">> \/ S = <<"openDest", "readLinux", "write", "closeDest">>
      BY <3>1 DEF Steps
    <3>3. \A j \in 1 .. Len(S) : S[j] # "closeSource"
      <4>1. CASE S = <<"openDest", "closeDest">>
        <5>1. Len(S) = 2 /\ S[1] = "openDest" /\ S[2] = "closeDest" /\ 1 .. 2 = {1, 2}
          BY <4>1
        <5> QED
          BY <5>1
      <4>2. CASE S = <<"openDest", "readLinux", "write", "closeDest">>
        <5>1. /\ Len(S) = 4 /\ S[1] = "openDest" /\ S[2] = "readLinux" /\ S[3] = "write"
              /\ S[4] = "closeDest" /\ 1 .. 4 = {1, 2, 3, 4}
          BY <4>2
        <5> QED
          BY <5>1
      <4> QED
        BY <3>2, <4>1, <4>2
    <3>4. \A j \in k .. Len(S) : j \in 1 .. Len(S)
      BY <1>2
    <3> QED
      BY <3>3, <3>4 DEF Within
  <2> QED
    BY <1>1, <1>6, <2>1, <2>2, Constants DEF Settled, OpenFds, Fds
<1> QED
  BY <1>8, <1>9

-----------------------------------------------------------------------------
(* What the invariant says, and what is left to show after a call.         *)

\* The parts that hold in every state.
LEMMA Always ==
    ASSUME StoreInv
    PROVE  /\ IInv /\ io \in Disk /\ Apart(io) /\ cwdBelow \in BOOLEAN
           /\ cmd \in Local /\ Len(cmd.got) <= Chunk
           /\ out \in Seq(Bytes) /\ Len(out) <= BlockBytes
           /\ stable \in [content : [Files -> Seq(Bytes) \cup {Absent}], shown : Seq(Bytes) \cup {Dead}]
           /\ stable.content \in [Files -> Seq(Bytes) \cup {Absent}]
  BY DEF StoreInv, TypeInv

\* A command under way: what it is called with, and what is as it was.
LEMMA UnderWay ==
    ASSUME StoreInv, ~Prompt
    PROVE  /\ cmd.name \in {"cat", "cp", "cp2l"} => cmd.src \in Files
           /\ cmd.name \in {"cp", "cp2fs"} => ~Private(cmd.dest)
           /\ cmd.name = "cp" => cmd.src # cmd.dest
           /\ cmd.name \in {"cp", "cp2l"} => Listed(io, cmd.src)
           /\ cmd.name \in {"touch", "cp", "cp2fs"} => cmd.dest \in Files /\ Written = {cmd.dest}
           /\ cmd.name \in {"cat", "cp2l"} => Written = {}
           /\ cmd.name # "touch" => cmd.chunk \in Nat \ {0} /\ cmd.chunk <= Chunk
           /\ \A f \in Files \ Written : Contents(io)[f] = stable.content[f]
           /\ \A f \in Files : stable.content[f] # Absent => Listed(io, f)
           /\ ProgressInv
<1>1. ArgumentsInv /\ OthersInv /\ ProgressInv /\ cmd.chunk \in 0 .. Chunk
  BY DEF StoreInv, TypeInv, Local
<1> QED
  BY <1>1, Constants DEF ArgumentsInv, OthersInv, Written

\* The local variables.
LEMMA LocalFields ==
    ASSUME NEW c \in Local
    PROVE  /\ c.name \in DOMAIN Steps \cup {""} /\ c.src \in Files \cup {""}
           /\ c.dest \in Files \cup {""} /\ c.text \in Seq(Bytes) /\ c.chunk \in 0 .. Chunk
           /\ c.srcFd \in Fds \cup {-1} /\ c.destFd \in Fds \cup {-1}
           /\ c.got \in Seq(Bytes) /\ c.readcnt \in -1 .. Chunk
           /\ \A fd \in Fds \cup {-1} :
                [c EXCEPT !.srcFd = fd] \in Local /\ [c EXCEPT !.destFd = fd] \in Local
           /\ \A got \in Seq(Bytes), n \in -1 .. Chunk :
                [c EXCEPT !.got = got, !.readcnt = n] \in Local
           /\ \A got \in Seq(Bytes), n \in -1 .. Chunk, text \in Seq(Bytes) :
                [c EXCEPT !.got = got, !.readcnt = n, !.text = text] \in Local
  BY DEF Local

\* A call that is not the last one.
LEMMA GoesOn ==
    ASSUME NEW s, NEW c, NEW rest, rest # <<>>, NEW shown, Continue(s, c, rest, shown)
    PROVE  /\ io' = s /\ cmd' = c /\ todo' = rest /\ out' = shown /\ stable' = stable
           /\ cwdBelow' = cwdBelow
  BY DEF Continue

\* What such a call has to keep.
LEMMA OnwardStore ==
    ASSUME StoreInv, ~Prompt, IInv', NEW s \in Disk, Apart(s), NEW c \in Local, Len(c.got) <= Chunk,
           c.name = cmd.name, c.src = cmd.src, c.dest = cmd.dest, c.chunk = cmd.chunk,
           NEW rest, rest # <<>>, NEW shown \in Seq(Bytes), Len(shown) <= BlockBytes,
           Continue(s, c, rest, shown),
           \A f \in Files \ Written : Contents(s)[f] = Contents(io)[f],
           \A f \in Files : Listed(io, f) => Listed(s, f), ProgressInv'
    PROVE  StoreInv' /\ UNCHANGED Store!vars
<1>1. /\ io' = s /\ cmd' = c /\ todo' = rest /\ out' = shown /\ stable' = stable
      /\ cwdBelow' = cwdBelow
  BY GoesOn
<1>2. TypeInv' /\ Apart(io)'
  BY <1>1, Always DEF TypeInv
<1>3. Written' = Written
  BY <1>1 DEF Written
<1>4. ArgumentsInv'
  <2>1. ArgumentsInv
    BY DEF StoreInv
  <2>2. cmd'.name = cmd.name /\ cmd'.src = cmd.src /\ cmd'.dest = cmd.dest /\ cmd'.chunk = cmd.chunk
    BY <1>1
  <2>3. Private(cmd.dest)' <=> Private(cmd.dest)
    BY <1>1, <2>2 DEF Private
  <2>4. cmd.src \in Files /\ Listed(io, cmd.src) => Listed(io', cmd'.src)
    BY <1>1, <2>2
  <2> QED
    BY <1>3, <2>1, <2>2, <2>3, <2>4 DEF ArgumentsInv
<1>5. OthersInv'
  BY <1>1, <1>3, UnderWay DEF OthersInv
<1>6. ~Prompt'
  BY <1>1 DEF Prompt
<1>7. StoreInv'
  BY <1>2, <1>4, <1>5, <1>6 DEF StoreInv
<1>8. UNCHANGED Store!vars
  BY <1>1 DEF Store!vars
<1> QED
  BY <1>7, <1>8

\* The last call of a command.
LEMMA LastStore ==
    ASSUME StoreInv, IInv', NEW s \in Disk, Apart(s), NEW c,
           NEW shown \in Seq(Bytes), Len(shown) <= BlockBytes, Continue(s, c, <<>>, shown)
    PROVE  StoreInv' /\ stable'.content = Contents(s) /\ stable'.shown = shown
<1>1. /\ io' = s /\ cmd' = NoCommand /\ todo' = <<>> /\ out' = shown /\ cwdBelow' = cwdBelow
      /\ stable' = [content |-> Contents(s), shown |-> shown]
  BY DEF Continue
<1>2. NoCommand \in Local /\ Len(NoCommand.got) <= Chunk
  BY Constants DEF NoCommand, Local
<1>3. TypeInv' /\ Apart(io)'
  BY <1>1, <1>2, Always, ContentsTyped DEF TypeInv
<1>4. Prompt' /\ stable'.content = Contents(io')
  BY <1>1 DEF Prompt
<1> QED
  BY <1>1, <1>3, <1>4 DEF StoreInv

\* The contents after one file is changed.
LEMMA OneChanged ==
    ASSUME NEW k \in [Files -> Seq(Bytes) \cup {Absent}], NEW s \in Disk, Apart(s), NEW f \in Files,
           \A g \in Files \ {f} : Contents(s)[g] = k[g], NEW v, Contents(s)[f] = v
    PROVE  Contents(s) = [k EXCEPT ![f] = v]
<1>1. Contents(s) \in [Files -> Seq(Bytes) \cup {Absent}]
  BY ContentsTyped
<1> QED
  BY <1>1

\* The contents when none is.
LEMMA NoneChanged ==
    ASSUME NEW k \in [Files -> Seq(Bytes) \cup {Absent}], NEW s \in Disk, Apart(s),
           \A g \in Files : Contents(s)[g] = k[g]
    PROVE  Contents(s) = k
<1>1. Contents(s) \in [Files -> Seq(Bytes) \cup {Absent}]
  BY ContentsTyped
<1> QED
  BY <1>1

-----------------------------------------------------------------------------
(* The calls.                                                              *)

\* The source is opened.
LEMMA OpenSourceStore ==
    ASSUME StoreInv, IInv', OpenSource
    PROVE  StoreInv' /\ [Store!Next]_(Store!vars)
<1> DEFINE f == cmd.src
           r == b_open(io, f, {}, Private(f))
           c == [cmd EXCEPT !.srcFd = r.fd]
<1>1. ~Prompt /\ Head(todo) = "openSource" /\ Continue(r.io, c, Opened(r.fd), out)
  BY DEF OpenSource, At
<1>2. /\ IInv /\ io \in Disk /\ Apart(io) /\ cmd \in Local /\ Len(cmd.got) <= Chunk
      /\ out \in Seq(Bytes) /\ Len(out) <= BlockBytes
      /\ stable.content \in [Files -> Seq(Bytes) \cup {Absent}]
  BY Always
<1>3. Place(cmd.name, "openSource", NextCall(Tail(todo)))
  BY <1>1, <1>2, Follows
<1>4. cmd.name \in {"cat", "cp", "cp2l"} /\ f \in Files /\ Private(f) \in BOOLEAN
  BY <1>1, <1>3, UnderWay DEF Place, Private
<1>5. FreeFds(io) # {}
  BY <1>1, <1>2, NothingOpenYet
<1>6. Untouched /\ (cmd.name = "cp" => Room(cmd.dest)) /\ (cmd.name # "cat" => Listed(io, f))
  <2>1. BeforeOpen
    BY <1>1, UnderWay DEF ProgressInv
  <2>2. cmd.name # "cat" => Listed(io, f)
    BY <1>1, <1>4, UnderWay
  <2> QED
    BY <2>1, <2>2 DEF BeforeOpen
<1>7. CASE Listed(io, f)
  <2>1. /\ r.fd \in FreeFds(io) /\ r.fd \in Fds /\ r.fd # -1
        /\ r.io \in Disk /\ SameFiles(io, r.io) /\ ReaderAt(r.io, r.fd, f, 0)
    <3> HIDE DEF f
    <3> QED
      BY <1>2, <1>4, <1>5, <1>7, OpenReader
  <2> DEFINE s == r.io
             rest == Tail(todo)
  <2> HIDE DEF r
  <2>2. Continue(s, c, rest, out) /\ rest # <<>>
    <3>1. NextCall(Tail(todo)) # "end"
      BY <1>3 DEF Place
    <3> QED
      BY <1>1, <2>1, <3>1 DEF Opened, NextCall
  <2>3. /\ c \in Local /\ c.name = cmd.name /\ c.src = f /\ c.dest = cmd.dest /\ c.chunk = cmd.chunk
        /\ c.got = cmd.got /\ c.srcFd = r.fd /\ c.destFd = cmd.destFd
    BY <1>2, <2>1 DEF Local
  <2>4. s \in Disk /\ Apart(s) /\ Contents(s) = Contents(io) /\ \A g \in Files : Listed(io, g) => Listed(s, g)
    <3>1. Apart(s) /\ Contents(s) = Contents(io)
      BY <1>2, <2>1, FilesSame
    <3> QED
      BY <2>1, <3>1 DEF SameFiles, Listed
  <2> HIDE DEF c
  <2>5. /\ io' = s /\ cmd' = c /\ todo' = rest /\ out' = out /\ stable' = stable
        /\ cwdBelow' = cwdBelow
    BY <2>2, GoesOn
  <2>6. Head(todo') = NextCall(Tail(todo))
    BY <2>2, <2>5 DEF NextCall
  <2>7. CASE cmd.name = "cp"
    <3>1. Head(todo') = "openDest"
      BY <1>3, <2>6, <2>7 DEF Place
    <3>2. Untouched'
      BY <1>6, <2>4, <2>5 DEF Untouched
    <3>3. Room(cmd.dest)'
      <4>1. s.next = io.next /\ (Listed(io, cmd.dest) <=> Listed(s, cmd.dest))
        BY <2>1 DEF SameFiles, Listed
      <4> QED
        BY <1>6, <2>3, <2>5, <2>7, <4>1 DEF Room
    <3>4. BeforeOpen'
      BY <2>3, <2>5, <2>7, <3>2, <3>3 DEF BeforeOpen
    <3>5. ReaderAt(io', cmd'.srcFd, cmd'.src, 0)
      BY <2>1, <2>3, <2>5
    <3>6. ProgressInv'
      BY <3>1, <3>4, <3>5 DEF ProgressInv
    <3> QED
      BY <1>1, <1>2, <2>2, <2>3, <2>4, <3>6, OnwardStore
  <2>8. CASE cmd.name # "cp"
    <3>1. Head(todo') = "read" /\ cmd.name \in {"cat", "cp2l"}
      BY <1>3, <1>4, <2>6, <2>8 DEF Place
    <3>0. PICK t : t = Contents(s)[f]
      OBVIOUS
    <3>2. t \in Seq(Bytes) /\ t \in Sources' /\ 0 \in 0 .. BlockBytes
      <4>1. Listed(s, f)
        BY <1>4, <1>7, <2>4
      <4>2. t \in Seq(Bytes)
        BY <1>4, <2>4, <3>0, <4>1, ContentIs
      <4>3. Sources' = {Contents(s)[f]}
        BY <2>3, <2>5, <3>1 DEF Sources
      <4> QED
        BY <3>0, <4>2, <4>3, Constants
    <3>3. HasRead(t, 0)'
      BY <2>1, <2>3, <2>5, <3>1 DEF HasRead
    <3>4. HasMoved(SubSeq(t, 1, 0))'
      BY <1>6, <2>3, <2>5, <3>1, <3>2, PartsJoin DEF HasMoved, Untouched
    <3>5. BeforeRead'
      <4>1. 0 <= Len(t)
        BY <3>2
      <4> QED
        BY <3>2, <3>3, <3>4, <4>1 DEF BeforeRead
    <3>6. ProgressInv'
      BY <3>1, <3>5 DEF ProgressInv
    <3> QED
      BY <1>1, <1>2, <2>2, <2>3, <2>4, <3>6, OnwardStore
  <2> QED
    BY <2>7, <2>8
<1>8. CASE ~Listed(io, f)
  <2>1. r.io = io /\ r.fd = -1
    BY <1>8, OpenRefused
  <2>2. cmd.name = "cat"
    BY <1>6, <1>8
  <2>3. Continue(io, c, <<>>, out)
    BY <1>1, <2>1, <2>2 DEF Opened
  <2> HIDE DEF c
  <2>4. StoreInv' /\ stable'.content = Contents(io) /\ stable'.shown = out
    BY <1>2, <2>3, LastStore
  <2>5. Store!NoChange
    BY <1>6, <2>4 DEF Store!NoChange, Store!Silent, Untouched
  <2> QED
    BY <2>4, <2>5 DEF Store!Next
<1> QED
  BY <1>7, <1>8

\* What a call that works on the destination leaves alone.
LEMMA DestOnly ==
    ASSUME StoreInv, ~Prompt, cmd.name \in {"touch", "cp", "cp2fs"}, NEW s \in Disk, Apart(s),
           OnlyOf(io, s, cmd.dest), Listed(s, cmd.dest)
    PROVE  /\ \A f \in Files \ Written : Contents(s)[f] = Contents(io)[f]
           /\ \A f \in Files : Listed(io, f) => Listed(s, f)
<1>1. Written = {cmd.dest} /\ io \in Disk /\ Apart(io)
  BY Always, UnderWay
<1> QED
  BY <1>1, OthersSame

\* The source of a copy, while the destination is written.
LEMMA SourceKept ==
    ASSUME StoreInv, ~Prompt, cmd.name = "cp", NEW s \in Disk, Apart(s),
           OnlyOf(io, s, cmd.dest), NEW n \in Nat, ReaderAt(io, cmd.srcFd, cmd.src, n),
           s.fcb[cmd.srcFd] = io.fcb[cmd.srcFd]
    PROVE  ReaderAt(s, cmd.srcFd, cmd.src, n) /\ Contents(s)[cmd.src] = Contents(io)[cmd.src]
<1>1. cmd.src \in Files /\ cmd.src # cmd.dest /\ Listed(io, cmd.src) /\ io \in Disk /\ Apart(io)
  BY Always, UnderWay
<1>2. s.entry[cmd.src] = io.entry[cmd.src] /\ s.data[io.entry[cmd.src].start] = io.data[io.entry[cmd.src].start]
  BY <1>1 DEF OnlyOf
<1>3. ReaderAt(s, cmd.srcFd, cmd.src, n)
  BY <1>2, ReaderKept
<1>4. Contents(s)[cmd.src] = Contents(io)[cmd.src]
  BY <1>1, OthersSame
<1> QED
  BY <1>3, <1>4

\* The destination is opened.
LEMMA OpenDestStore ==
    ASSUME StoreInv, IInv', OpenDest
    PROVE  StoreInv' /\ [Store!Next]_(Store!vars)
<1> DEFINE f == cmd.dest
           r == b_open(io, f, DestFlags, Private(f))
           c == [cmd EXCEPT !.destFd = r.fd]
           rest == Tail(todo)
<1>1. ~Prompt /\ Head(todo) = "openDest" /\ Continue(r.io, c, Opened(r.fd), out)
  BY DEF OpenDest, At
<1>2. /\ IInv /\ io \in Disk /\ Apart(io) /\ cmd \in Local /\ Len(cmd.got) <= Chunk
      /\ out \in Seq(Bytes) /\ Len(out) <= BlockBytes
      /\ stable.content \in [Files -> Seq(Bytes) \cup {Absent}]
  BY Always
<1>3. Place(cmd.name, "openDest", NextCall(Tail(todo)))
  BY <1>1, <1>2, Follows
<1>4. cmd.name \in {"touch", "cp", "cp2fs"} /\ f \in Files /\ Private(f) \in BOOLEAN
  BY <1>1, <1>3, UnderWay DEF Place, Private
<1>5. /\ out = <<>> /\ Contents(io) = stable.content /\ (Listed(io, f) \/ io.next \in Blocks)
      /\ cmd.name = "cp2fs" => cmd.text \in Texts
  <2>1. BeforeOpen
    BY <1>1, UnderWay DEF ProgressInv
  <2> QED
    BY <1>4, <2>1 DEF BeforeOpen, Untouched, Room
<1>6. cmd.name # "cp" => FreeFds(io) # {}
  BY <1>1, <1>2, NothingOpenYet
<1>7. rest # <<>> /\ NextCall(rest) = Head(rest)
  <2>1. NextCall(rest) # "end"
    BY <1>3 DEF Place
  <2> QED
    BY <2>1 DEF NextCall
<1>8. cmd.name = "cp" => ReaderAt(io, cmd.srcFd, cmd.src, 0)
  <2>1. ProgressInv
    BY <1>1, UnderWay
  <2> QED
    BY <1>1, <2>1 DEF ProgressInv
<1>9. r.fd \in Fds \cup {-1} => /\ c \in Local /\ c.name = cmd.name /\ c.src = cmd.src /\ c.dest = f
                                /\ c.chunk = cmd.chunk /\ c.got = cmd.got /\ c.srcFd = cmd.srcFd
                                /\ c.destFd = r.fd /\ c.text = cmd.text
  <2> HIDE DEF r
  <2> QED
    BY <1>2 DEF Local
<1>10. CASE FreeFds(io) = {}
  <2>1. r.io = io /\ r.fd = -1 /\ cmd.name = "cp"
    BY <1>6, <1>10, OpenRefused
  <2>2. Continue(io, c, rest, out)
    BY <1>1, <2>1 DEF Opened
  <2> HIDE DEF r
  <2>3. /\ c \in Local /\ c.name = "cp" /\ c.src = cmd.src /\ c.dest = f
        /\ c.chunk = cmd.chunk /\ c.got = cmd.got /\ c.srcFd = cmd.srcFd /\ c.destFd = -1
    BY <1>9, <2>1
  <2> HIDE DEF c
  <2>4. /\ io' = io /\ cmd' = c /\ todo' = rest /\ out' = out /\ stable' = stable
        /\ cwdBelow' = cwdBelow
    BY <1>7, <2>2, GoesOn
  <2>5. Head(todo') = "read"
    BY <1>3, <1>7, <2>1, <2>4 DEF Place
  <2>6. PICK t : t = Contents(io)[cmd.src]
    OBVIOUS
  <2>7. t \in Seq(Bytes) /\ t \in Sources'
    <3>1. Listed(io, cmd.src) /\ cmd.src \in Files
      BY <1>1, <2>1, UnderWay
    <3>2. Sources' = {Contents(io)[cmd.src]}
      BY <2>3, <2>4 DEF Sources
    <3> QED
      BY <1>2, <2>6, <3>1, <3>2, ContentIs
  <2>8. HasRead(t, 0)'
    BY <1>8, <2>1, <2>3, <2>4 DEF HasRead
  <2>9. HasMoved(SubSeq(t, 1, 0))'
    BY <1>5, <2>3, <2>4 DEF HasMoved
  <2>10. BeforeRead'
    <3>1. 0 <= Len(t) /\ 0 \in 0 .. BlockBytes
      BY <2>7, Constants
    <3> QED
      BY <2>7, <2>8, <2>9, <3>1 DEF BeforeRead
  <2>11. ProgressInv'
    BY <2>5, <2>10 DEF ProgressInv
  <2>12. c.name = cmd.name /\ Len(c.got) <= Chunk
    BY <1>2, <2>1, <2>3
  <2> HIDE DEF rest
  <2> QED
    BY <1>1, <1>2, <1>7, <2>2, <2>3, <2>11, <2>12, OnwardStore
<1>11. CASE FreeFds(io) # {} /\ cmd.name = "touch"
  <2>1. DestFlags = {"WRONLY", "CREAT"}
    BY <1>11 DEF DestFlags
  <2> DEFINE s == r.io
  <2>2. /\ r.fd \in Fds /\ r.fd # -1
        /\ s \in Disk /\ Apart(s) /\ OnlyOf(io, s, f) /\ Listed(s, f)
        /\ s.fcb[r.fd].index = 0
        /\ Contents(s)[f] = IF Listed(io, f) THEN Contents(io)[f] ELSE <<>>
    <3>1. r = b_open(io, f, {"WRONLY", "CREAT"}, Private(f))
      BY <2>1
    <3> HIDE DEF f, r
    <3> QED
      BY <1>2, <1>4, <1>5, <1>11, <3>1, OpenTouched
  <2>3. Continue(s, c, rest, out)
    BY <1>1, <2>2 DEF Opened
  <2> HIDE DEF r
  <2>4. /\ c \in Local /\ c.name = "touch" /\ c.src = cmd.src /\ c.dest = f
        /\ c.chunk = cmd.chunk /\ c.got = cmd.got /\ c.destFd = r.fd
    BY <1>9, <1>11, <2>2
  <2> HIDE DEF c
  <2>5. /\ io' = s /\ cmd' = c /\ todo' = rest /\ out' = out /\ stable' = stable
        /\ cwdBelow' = cwdBelow
    BY <1>7, <2>3, GoesOn
  <2>6. Head(todo') = "closeDest"
    BY <1>3, <1>7, <1>11, <2>5 DEF Place
  <2>7. Contents(s)[f] = IF stable.content[f] = Absent THEN <<>> ELSE stable.content[f]
    <3>1. Listed(io, f) <=> Contents(io)[f] # Absent
      BY <1>2, <1>4, ContentIs
    <3> QED
      BY <1>5, <2>2, <3>1
  <2>8. BeforeClose'
    BY <1>5, <2>2, <2>4, <2>5, <2>7 DEF BeforeClose
  <2>9. ProgressInv'
    BY <2>6, <2>8 DEF ProgressInv
  <2>10. /\ \A g \in Files \ Written : Contents(s)[g] = Contents(io)[g]
         /\ \A g \in Files : Listed(io, g) => Listed(s, g)
    BY <1>1, <1>4, <2>2, DestOnly
  <2>11. c.name = cmd.name /\ Len(c.got) <= Chunk
    BY <1>2, <1>11, <2>4
  <2> HIDE DEF rest, s
  <2> QED
    BY <1>1, <1>2, <1>7, <2>2, <2>3, <2>4, <2>9, <2>10, <2>11, OnwardStore
<1>12. CASE FreeFds(io) # {} /\ cmd.name # "touch"
  <2>1. DestFlags = {"WRONLY", "CREAT", "TRUNC"} /\ ~Private(f)
    BY <1>1, <1>4, <1>12, UnderWay DEF DestFlags
  <2> DEFINE s == r.io
  <2>2. /\ r.fd \in FreeFds(io) /\ r.fd \in Fds /\ r.fd # -1
        /\ s \in Disk /\ Apart(s) /\ OnlyOf(io, s, f) /\ Listed(s, f)
        /\ WriterAt(s, r.fd, f, <<>>)
        /\ \A gd : gd # r.fd => s.fcb[gd] = io.fcb[gd]
    <3>1. r = b_open(io, f, {"WRONLY", "CREAT", "TRUNC"}, Private(f))
      BY <2>1
    <3> HIDE DEF f, r
    <3> QED
      BY <1>2, <1>4, <1>5, <1>12, <2>1, <3>1, OpenWriter
  <2>3. Continue(s, c, rest, out)
    BY <1>1, <2>2 DEF Opened
  <2> HIDE DEF r
  <2>4. /\ c \in Local /\ c.name = cmd.name /\ c.src = cmd.src /\ c.dest = f /\ c.text = cmd.text
        /\ c.chunk = cmd.chunk /\ c.got = cmd.got /\ c.srcFd = cmd.srcFd /\ c.destFd = r.fd
    BY <1>9, <2>2
  <2> HIDE DEF c
  <2>5. /\ io' = s /\ cmd' = c /\ todo' = rest /\ out' = out /\ stable' = stable
        /\ cwdBelow' = cwdBelow
    BY <1>7, <2>3, GoesOn
  <2>6. cmd.name = "cp" => ReaderAt(s, cmd.srcFd, cmd.src, 0) /\ Contents(s)[cmd.src] = Contents(io)[cmd.src]
    <3>1. cmd.name = "cp" => cmd.srcFd # r.fd
      <4>1. cmd.name = "cp" => IsOpen(io, cmd.srcFd)
        BY <1>8 DEF ReaderAt
      <4>2. ~IsOpen(io, r.fd)
        BY <2>2 DEF FreeFds
      <4> QED
        BY <4>1, <4>2
    <3>2. cmd.name = "cp" => s.fcb[cmd.srcFd] = io.fcb[cmd.srcFd]
      BY <2>2, <3>1
    <3> HIDE DEF s
    <3> QED
      BY <1>1, <1>8, <2>2, <3>2, SourceKept
  <2>7. PICK t : t = IF cmd.name = "cp" THEN Contents(s)[cmd.src] ELSE cmd.text
    OBVIOUS
  <2>8. t \in Seq(Bytes) /\ t \in Sources'
    <3>1. CASE cmd.name = "cp"
      <4>1. Listed(io, cmd.src) /\ cmd.src \in Files
        BY <1>1, <3>1, UnderWay
      <4>2. Sources' = {Contents(s)[cmd.src]}
        BY <2>4, <2>5, <3>1 DEF Sources
      <4> QED
        BY <1>2, <2>6, <2>7, <3>1, <4>1, <4>2, ContentIs
    <3>2. CASE cmd.name = "cp2fs"
      <4>1. Sources' = Texts
        BY <2>4, <2>5, <3>2 DEF Sources
      <4> QED
        BY <1>5, <2>7, <3>2, <4>1, ShellAssumption
    <3> QED
      BY <1>4, <1>12, <3>1, <3>2
  <2>9. HasRead(t, 0)'
    <3>1. CASE cmd.name = "cp"
      BY <2>4, <2>5, <2>6, <3>1 DEF HasRead
    <3>2. CASE cmd.name = "cp2fs"
      <4>1. t = cmd.text /\ SubSeq(t, 0 + 1, Len(t)) = t
        BY <2>7, <2>8, <3>2, PartsJoin
      <4> QED
        BY <2>4, <2>5, <3>2, <4>1 DEF HasRead
    <3> QED
      BY <1>4, <1>12, <3>1, <3>2
  <2>10. HasMoved(SubSeq(t, 1, 0))'
    <3>1. SubSeq(t, 1, 0) = <<>> /\ cmd.name \notin {"cat", "cp2l"}
      BY <1>4, <2>8, PartsJoin
    <3> HIDE DEF s
    <3> QED
      BY <1>5, <2>2, <2>4, <2>5, <3>1 DEF HasMoved
  <2>11. BeforeRead'
    <3>1. 0 <= Len(t) /\ 0 \in 0 .. BlockBytes
      BY <2>8, Constants
    <3> QED
      BY <2>8, <2>9, <2>10, <3>1 DEF BeforeRead
  <2>12. Head(todo') \in {"read", "readLinux"}
    BY <1>3, <1>7, <1>12, <2>5 DEF Place
  <2>13. ProgressInv'
    BY <2>11, <2>12 DEF ProgressInv
  <2>14. /\ \A g \in Files \ Written : Contents(s)[g] = Contents(io)[g]
         /\ \A g \in Files : Listed(io, g) => Listed(s, g)
    BY <1>1, <1>4, <2>2, DestOnly
  <2>15. Len(c.got) <= Chunk
    BY <1>2, <2>4
  <2> HIDE DEF rest, s
  <2> QED
    BY <1>1, <1>2, <1>7, <2>2, <2>3, <2>4, <2>13, <2>14, <2>15, OnwardStore
<1> QED
  BY <1>10, <1>11, <1>12

\* What is moved is a sequence of bytes, at most one block long.
LEMMA SourceTyped ==
    ASSUME StoreInv, ~Prompt, NEW t \in Sources,
           cmd.name = "cp2fs" \/ (cmd.src \in Files /\ Listed(io, cmd.src))
    PROVE  t \in Seq(Bytes) /\ Len(t) <= BlockBytes
<1>1. CASE cmd.name = "cp2fs"
  BY <1>1, ShellAssumption DEF Sources
<1>2. CASE cmd.name # "cp2fs"
  <2>1. t = Contents(io)[cmd.src] /\ io \in Disk /\ Apart(io)
    BY <1>2, Always DEF Sources
  <2>2. io.entry[cmd.src].size \in 0 .. BlockBytes
    BY <1>2, <2>1, ListedStart
  <2>3. t \in Seq(Bytes) /\ Len(t) = io.entry[cmd.src].size
    BY <1>2, <2>1, ContentIs
  <2> QED
    BY <2>2, <2>3, Constants
<1> QED
  BY <1>1, <1>2

\* A descriptor that reads is not one that writes.
LEMMA ReaderNotWriter ==
    ASSUME NEW s, NEW fd, NEW f, NEW n, ReaderAt(s, fd, f, n), NEW gd, NEW g, NEW w, WriterAt(s, gd, g, w)
    PROVE  fd # gd
  BY DEF ReaderAt, WriterAt

\* b_read, and what it does for the command.
LEMMA ReadStore ==
    ASSUME StoreInv, IInv', Read
    PROVE  StoreInv' /\ [Store!Next]_(Store!vars)
<1> DEFINE r == b_read(io, cmd.srcFd, cmd.chunk)
           c == [cmd EXCEPT !.got = r.got, !.readcnt = r.readcnt]
           rest == Tail(todo)
           s == r.io
           f == cmd.src
<1>1. ~Prompt /\ Head(todo) = "read" /\ Continue(s, c, rest, out)
  BY DEF Read, At
<1>2. /\ IInv /\ io \in Disk /\ Apart(io) /\ cmd \in Local
      /\ out \in Seq(Bytes) /\ Len(out) <= BlockBytes
  BY Always
<1>3. Place(cmd.name, "read", NextCall(Tail(todo)))
  BY <1>1, <1>2, Follows
<1>4. cmd.name \in {"cat", "cp", "cp2l"} /\ f \in Files /\ cmd.chunk \in Nat \ {0} /\ cmd.chunk <= Chunk
  BY <1>1, <1>3, UnderWay DEF Place
<1>5. rest # <<>> /\ NextCall(rest) = Head(rest)
  <2>1. NextCall(rest) # "end"
    BY <1>3 DEF Place
  <2> QED
    BY <2>1 DEF NextCall
<1>6. PICK t \in Sources, n \in 0 .. BlockBytes :
        n <= Len(t) /\ HasRead(t, n) /\ HasMoved(SubSeq(t, 1, n))
  <2>1. ProgressInv
    BY <1>1, UnderWay
  <2>2. BeforeRead
    BY <1>1, <2>1 DEF ProgressInv
  <2> QED
    BY <2>2 DEF BeforeRead
<1>7. ReaderAt(io, cmd.srcFd, f, n) /\ n \in Nat /\ t = Contents(io)[f] /\ Listed(io, f)
  <2>1. ReaderAt(io, cmd.srcFd, f, n)
    BY <1>4, <1>6 DEF HasRead
  <2>2. Listed(io, f)
    BY <2>1 DEF ReaderAt
  <2>3. t = Contents(io)[f]
    BY <1>4, <1>6 DEF Sources
  <2> QED
    BY <1>6, <2>1, <2>2, <2>3, Constants
<1>8. t \in Seq(Bytes) /\ Len(t) <= BlockBytes /\ Len(t) \in Nat
  <2>1. t \in Seq(Bytes) /\ Len(t) <= BlockBytes
    BY <1>1, <1>4, <1>6, <1>7, SourceTyped
  <2> QED
    BY <2>1
<1>9. /\ s \in Disk /\ SameFiles(io, s)
      /\ \A gd : gd # cmd.srcFd => s.fcb[gd] = io.fcb[gd]
      /\ r.readcnt \in 0 .. cmd.chunk /\ n + r.readcnt <= Len(t)
      /\ r.got = SubSeq(t, n + 1, n + r.readcnt) /\ Len(r.got) = r.readcnt
      /\ ReaderAt(s, cmd.srcFd, f, n + r.readcnt)
      /\ r.readcnt = cmd.chunk \/ n + r.readcnt = Len(t)
  <2>1. /\ r = b_read(io, cmd.srcFd, cmd.chunk) /\ s = r.io
        /\ io \in Disk /\ Apart(io) /\ f \in Files /\ n \in Nat /\ ReaderAt(io, cmd.srcFd, f, n)
        /\ cmd.chunk \in Nat \ {0} /\ t = Contents(io)[f]
    BY <1>2, <1>4, <1>7
  <2> HIDE DEF s, r, f
  <2>2. /\ r.io \in Disk /\ SameFiles(io, r.io)
        /\ \A gd : gd # cmd.srcFd => r.io.fcb[gd] = io.fcb[gd]
        /\ r.readcnt \in 0 .. cmd.chunk /\ n + r.readcnt <= Len(t)
        /\ r.got = SubSeq(t, n + 1, n + r.readcnt) /\ Len(r.got) = r.readcnt
        /\ ReaderAt(r.io, cmd.srcFd, f, n + r.readcnt)
        /\ r.readcnt = cmd.chunk \/ n + r.readcnt = Len(t)
    <3>1. ReadOn(r, io, cmd.srcFd, f, t, n, cmd.chunk)
      BY <2>1, ReadMoves
    <3> QED
      BY <3>1 DEF ReadOn
  <2> QED
    BY <2>1, <2>2
<1> HIDE DEF r
<1>10. /\ r.readcnt \in -1 .. Chunk /\ r.got \in Seq(Bytes) /\ Len(r.got) <= Chunk
       /\ r.readcnt \in Nat /\ n + r.readcnt \in 0 .. BlockBytes
  <2>4. r.readcnt \in 0 .. cmd.chunk
    BY <1>9
  <2>1. r.readcnt \in Nat /\ r.readcnt <= Chunk
    BY <1>4, <2>4, Constants
  <2>2. n + r.readcnt \in Nat /\ n <= n + r.readcnt
    BY <1>7, <2>1
  <2>3. r.got \in Seq(Bytes)
    BY <1>7, <1>8, <1>9, <2>2, PartIs
  <2> QED
    BY <1>8, <1>9, <2>1, <2>2, <2>3, Constants
<1>11. /\ c \in Local /\ c.name = cmd.name /\ c.src = f /\ c.dest = cmd.dest /\ c.chunk = cmd.chunk
       /\ c.got = r.got /\ c.readcnt = r.readcnt /\ c.srcFd = cmd.srcFd /\ c.destFd = cmd.destFd
  BY <1>2, <1>10 DEF Local
<1> HIDE DEF c
<1>12. /\ io' = s /\ cmd' = c /\ todo' = rest /\ out' = out /\ stable' = stable
       /\ cwdBelow' = cwdBelow
  BY <1>1, <1>5, GoesOn
<1>13. Apart(s) /\ Contents(s) = Contents(io) /\ \A g \in Files : Listed(io, g) => Listed(s, g)
  <2>1. Apart(s) /\ Contents(s) = Contents(io)
    BY <1>2, <1>9, FilesSame
  <2> QED
    BY <1>9, <2>1 DEF SameFiles, Listed
<1>14. t \in Sources'
  <2>1. Sources' = {Contents(s)[f]}
    BY <1>4, <1>11, <1>12 DEF Sources
  <2> QED
    BY <1>7, <1>13, <2>1
<1>15. PICK m : m = n + r.readcnt
  OBVIOUS
<1>16. HasRead(t, m)'
  <2>1. ~(cmd'.name = "cp2fs") /\ ReaderAt(io', cmd'.srcFd, cmd'.src, m)
    BY <1>4, <1>9, <1>11, <1>12, <1>15
  <2> QED
    BY <2>1 DEF HasRead
<1>17. PICK w : w = SubSeq(t, 1, n)
  OBVIOUS
<1>18. HasMoved(w)'
  <2>1. CASE cmd.name \in {"cat", "cp2l"}
    BY <1>6, <1>11, <1>12, <1>17, <2>1 DEF HasMoved
  <2>2. CASE cmd.name = "cp"
    <3>1. out = <<>> /\ IF cmd.destFd = -1 THEN Contents(io)[cmd.dest] = stable.content[cmd.dest]
                        ELSE WriterAt(io, cmd.destFd, cmd.dest, w)
      BY <1>6, <1>17, <2>2 DEF HasMoved
    <3>2. WriterAt(io, cmd.destFd, cmd.dest, w) => WriterAt(s, cmd.destFd, cmd.dest, w)
      <4>1. WriterAt(io, cmd.destFd, cmd.dest, w) => cmd.destFd # cmd.srcFd
        BY <1>7, ReaderNotWriter
      <4> QED
        BY <1>9, <4>1, WriterKept DEF SameFiles
    <3> QED
      BY <1>11, <1>12, <1>13, <2>2, <3>1, <3>2 DEF HasMoved
  <2> QED
    BY <1>4, <2>1, <2>2
<1>19. BeforeWrite'
  <2>1. /\ m \in 0 .. BlockBytes /\ n \in 0 .. BlockBytes /\ n <= m /\ m <= Len(t)
        /\ r.readcnt = m - n
    BY <1>6, <1>7, <1>9, <1>10, <1>15
  <2>2. cmd'.got = SubSeq(t, n + 1, m) /\ cmd'.readcnt = m - n /\ (cmd'.readcnt = cmd'.chunk \/ m = Len(t))
    BY <1>9, <1>11, <1>12, <1>15, <2>1
  <2>3. HasMoved(SubSeq(t, 1, n))'
    BY <1>17, <1>18
  <2> QED
    BY <1>14, <1>16, <2>1, <2>2, <2>3 DEF BeforeWrite
<1>20. Head(todo') \in {"write", "emit"}
  BY <1>3, <1>5, <1>12 DEF Place
<1>21. ProgressInv'
  BY <1>19, <1>20 DEF ProgressInv
<1> HIDE DEF rest, s
<1>22. \A g \in Files \ Written : Contents(s)[g] = Contents(io)[g]
  BY <1>13
<1>23. Len(c.got) <= Chunk
  BY <1>10, <1>11
<1> QED
  BY <1>1, <1>2, <1>5, <1>9, <1>11, <1>13, <1>21, <1>22, <1>23, OnwardStore DEF s

\* read of Linux.
LEMMA ReadLinuxStore ==
    ASSUME StoreInv, IInv', ReadLinux
    PROVE  StoreInv' /\ [Store!Next]_(Store!vars)
<1> DEFINE k    == IF cmd.text = Absent THEN -1 ELSE SmallerOf(cmd.chunk, Len(cmd.text))
           some == [cmd EXCEPT !.got = SubSeq(cmd.text, 1, k), !.readcnt = k,
                               !.text = SubSeq(@, k + 1, Len(@))]
           none == [cmd EXCEPT !.got = <<>>, !.readcnt = k]
           c    == IF k > 0 THEN some ELSE none
           rest == Tail(todo)
<1>1. ~Prompt /\ Head(todo) = "readLinux" /\ Continue(io, c, rest, out)
  BY DEF ReadLinux, At
<1>2. /\ IInv /\ io \in Disk /\ Apart(io) /\ cmd \in Local
      /\ out \in Seq(Bytes) /\ Len(out) <= BlockBytes
  BY Always
<1>3. cmd.name = "cp2fs" /\ NextCall(rest) = "write" /\ rest # <<>> /\ NextCall(rest) = Head(rest)
  <2>1. Place(cmd.name, "readLinux", NextCall(rest))
    BY <1>1, <1>2, Follows
  <2>2. cmd.name = "cp2fs" /\ NextCall(rest) = "write"
    BY <2>1 DEF Place
  <2> QED
    BY <2>2 DEF NextCall
<1>4. cmd.chunk \in Nat \ {0} /\ cmd.chunk <= Chunk
  BY <1>1, <1>3, UnderWay
<1>5. PICK t \in Sources, n \in 0 .. BlockBytes :
        n <= Len(t) /\ HasRead(t, n) /\ HasMoved(SubSeq(t, 1, n))
  <2>1. ProgressInv
    BY <1>1, UnderWay
  <2>2. BeforeRead
    BY <1>1, <2>1 DEF ProgressInv
  <2> QED
    BY <2>2 DEF BeforeRead
<1>6. t \in Seq(Bytes) /\ Len(t) <= BlockBytes /\ Len(t) \in Nat /\ n \in Nat /\ t \in Texts
  <2>1. t \in Seq(Bytes) /\ Len(t) <= BlockBytes
    BY <1>1, <1>3, <1>5, SourceTyped
  <2> QED
    BY <1>3, <1>5, <2>1, Constants DEF Sources
<1>7. cmd.text = SubSeq(t, n + 1, Len(t))
  BY <1>3, <1>5 DEF HasRead
<1>8. cmd.text \in Seq(Bytes) /\ Len(cmd.text) = Len(t) - n
  BY <1>5, <1>6, <1>7, PartIs
<1>9. /\ k = IF cmd.chunk <= Len(cmd.text) THEN cmd.chunk ELSE Len(cmd.text)
      /\ k \in Nat /\ k <= cmd.chunk /\ n + k <= Len(t) /\ (k = cmd.chunk \/ n + k = Len(t))
  <2>1. cmd.text # Absent
    BY <1>8, Constants
  <2>2. k = SmallerOf(cmd.chunk, Len(cmd.text))
    BY <2>1
  <2>3. cmd.chunk \in Int /\ Len(cmd.text) \in Int
    BY <1>4, <1>6, <1>8
  <2> HIDE DEF k
  <2>4. k = IF cmd.chunk <= Len(cmd.text) THEN cmd.chunk ELSE Len(cmd.text)
    BY <2>2, <2>3, SmallerIs
  <2> QED
    BY <1>4, <1>5, <1>6, <1>8, <2>4
<1> HIDE DEF k
<1>10. /\ SubSeq(cmd.text, 1, k) = SubSeq(t, n + 1, n + k)
       /\ SubSeq(cmd.text, k + 1, Len(cmd.text)) = SubSeq(t, n + k + 1, Len(t))
       /\ SubSeq(t, n + 1, n + k) \in Seq(Bytes) /\ Len(SubSeq(t, n + 1, n + k)) = k
       /\ SubSeq(t, n + k + 1, Len(t)) \in Seq(Bytes)
  <2>1. /\ SubSeq(cmd.text, 1, k) = SubSeq(t, n + 1, n + k)
        /\ SubSeq(cmd.text, k + 1, Len(cmd.text)) = SubSeq(t, n + k + 1, Len(t))
    <3>1. t \in Seq(Bytes) /\ n \in Nat /\ k \in Nat /\ n + k <= Len(t)
      BY <1>6, <1>9
    <3> HIDE DEF c, some, none
    <3> QED
      BY <1>7, <3>1, PartOfRest
  <2>2. n + k \in Nat /\ n <= n + k /\ (n + k) - n = k
    BY <1>6, <1>9
  <2>3. SubSeq(t, n + 1, n + k) \in Seq(Bytes) /\ Len(SubSeq(t, n + 1, n + k)) = k
    BY <1>6, <1>9, <2>2, PartIs
  <2>4. SubSeq(t, n + k + 1, Len(t)) \in Seq(Bytes)
    BY <1>6, <1>9, <2>2, PartIs
  <2> QED
    BY <2>1, <2>3, <2>4
<1>11. PICK m : m = n + k
  OBVIOUS
<1>12. /\ c \in Local /\ c.name = "cp2fs" /\ c.src = cmd.src /\ c.dest = cmd.dest /\ c.chunk = cmd.chunk
       /\ c.srcFd = cmd.srcFd /\ c.destFd = cmd.destFd /\ c.readcnt = k
       /\ c.got = SubSeq(t, n + 1, m) /\ c.text = SubSeq(t, m + 1, Len(t))
  <2>1. k \in -1 .. Chunk
    BY <1>4, <1>9, Constants
  <2>2. CASE k > 0
    <3>1. c = [cmd EXCEPT !.got = SubSeq(t, n + 1, m), !.readcnt = k, !.text = SubSeq(t, m + 1, Len(t))]
      BY <1>10, <1>11, <2>2
    <3> HIDE DEF c
    <3> QED
      BY <1>2, <1>3, <1>10, <1>11, <2>1, <3>1 DEF Local
  <2>3. CASE ~(k > 0)
    <3>1. k = 0 /\ m = n
      BY <1>6, <1>9, <1>11, <2>3
    <3>2. SubSeq(t, n + 1, m) = <<>>
      BY <1>6, <3>1, SubSeqEmpty
    <3>3. c = [cmd EXCEPT !.got = <<>>, !.readcnt = k] /\ <<>> \in Seq(Bytes)
      BY <2>3
    <3> HIDE DEF c
    <3> QED
      BY <1>2, <1>3, <1>7, <2>1, <3>1, <3>2, <3>3 DEF Local
  <2> QED
    BY <2>2, <2>3
<1> HIDE DEF c
<1>13. /\ io' = io /\ cmd' = c /\ todo' = rest /\ out' = out /\ stable' = stable
       /\ cwdBelow' = cwdBelow
  BY <1>1, <1>3, GoesOn
<1>14. t \in Sources' /\ HasRead(t, m)'
  BY <1>6, <1>12, <1>13 DEF Sources, HasRead
<1>15. PICK w : w = SubSeq(t, 1, n)
  OBVIOUS
<1>16. HasMoved(w)'
  <2>1. HasMoved(w)
    BY <1>5, <1>15
  <2> QED
    BY <1>3, <1>12, <1>13, <2>1 DEF HasMoved
<1>17. BeforeWrite'
  <2>1. /\ m \in 0 .. BlockBytes /\ n \in 0 .. BlockBytes /\ n <= m /\ m <= Len(t) /\ k = m - n
    BY <1>5, <1>6, <1>9, <1>11, Constants
  <2>2. cmd'.got = SubSeq(t, n + 1, m) /\ cmd'.readcnt = m - n /\ (cmd'.readcnt = cmd'.chunk \/ m = Len(t))
    BY <1>9, <1>11, <1>12, <1>13, <2>1
  <2>3. HasMoved(SubSeq(t, 1, n))'
    BY <1>15, <1>16
  <2> QED
    BY <1>14, <2>1, <2>2, <2>3 DEF BeforeWrite
<1>18. Head(todo') = "write"
  BY <1>3, <1>13
<1>19. ProgressInv'
  BY <1>17, <1>18 DEF ProgressInv
<1>20. Len(c.got) <= Chunk /\ c.name = cmd.name
  BY <1>3, <1>4, <1>9, <1>10, <1>11, <1>12, Constants
<1> HIDE DEF rest
<1> QED
  BY <1>1, <1>2, <1>3, <1>12, <1>19, <1>20, OnwardStore

\* The calls to come after a chunk.
LEMMA AfterChunkIs ==
    ASSUME NEW step \in {"write", "emit"}, Place(cmd.name, step, NextCall(Tail(todo)))
    PROVE  /\ AfterChunk # <<>>
           /\ More => Head(AfterChunk) = IF cmd.name = "cp2fs" THEN "readLinux" ELSE "read"
           /\ ~More => Head(AfterChunk) = NextCall(Tail(todo))
<1>1. ASSUME More
      PROVE  AfterChunk # <<>> /\ Head(AfterChunk) = IF cmd.name = "cp2fs" THEN "readLinux" ELSE "read"
  <2>1. AfterChunk = <<IF cmd.name = "cp2fs" THEN "readLinux" ELSE "read">> \o todo
    BY <1>1 DEF AfterChunk, ReadAgain
  <2> QED
    BY <2>1
<1>2. ASSUME ~More PROVE AfterChunk # <<>> /\ Head(AfterChunk) = NextCall(Tail(todo))
  <2>1. AfterChunk = Tail(todo) /\ NextCall(Tail(todo)) # "end"
    BY <1>2 DEF AfterChunk, Place
  <2> QED
    BY <2>1 DEF NextCall
<1> QED
  BY <1>1, <1>2

\* The destination holds the first m bytes, and nothing else has changed.
ChunkMoved(s, t, m) ==
    /\ s \in Disk /\ Apart(s)
    /\ \A f \in Files \ Written : Contents(s)[f] = Contents(io)[f]
    /\ \A f \in Files : Listed(io, f) => Listed(s, f)
    /\ IF cmd.destFd = -1 THEN Contents(s)[cmd.dest] = stable.content[cmd.dest]
       ELSE WriterAt(s, cmd.destFd, cmd.dest, SubSeq(t, 1, m))
    /\ cmd.name = "cp" =>
         ReaderAt(s, cmd.srcFd, cmd.src, m) /\ Contents(s)[cmd.src] = Contents(io)[cmd.src]

\* b_write moves the chunk that has been read.
LEMMA ChunkWritten ==
    ASSUME StoreInv, Write, NEW t \in Sources, t \in Seq(Bytes), Len(t) <= BlockBytes,
           NEW m \in Nat, NEW n \in Nat, n <= m, m <= Len(t), HasRead(t, m),
           NEW v, v = SubSeq(t, 1, n), HasMoved(v), NEW w, w = SubSeq(t, 1, m),
           cmd.got = SubSeq(t, n + 1, m), cmd.name \in {"cp", "cp2fs"},
           NEW s, s = b_write(io, cmd.destFd, cmd.got)
    PROVE  ChunkMoved(s, t, m)
<1>1. io \in Disk /\ Apart(io) /\ ~Prompt /\ cmd.dest \in Files
  BY Always, UnderWay DEF Write, At
<1>2. cmd.name = "cp" => ReaderAt(io, cmd.srcFd, cmd.src, m)
  BY DEF HasRead
<1>3. IF cmd.destFd = -1 THEN Contents(io)[cmd.dest] = stable.content[cmd.dest]
      ELSE WriterAt(io, cmd.destFd, cmd.dest, v)
  BY DEF HasMoved
<1>4. CASE cmd.destFd = -1
  <2>1. ~IsOpen(io, cmd.destFd)
    BY <1>4, Constants DEF IsOpen, Fds
  <2>2. s = io
    BY <2>1 DEF b_write
  <2> QED
    BY <1>1, <1>2, <1>3, <1>4, <2>2 DEF ChunkMoved
<1>5. CASE cmd.destFd # -1
  <2>1. WriterAt(io, cmd.destFd, cmd.dest, v)
    BY <1>3, <1>5
  <2>2. /\ v \in Seq(Bytes) /\ Len(v) = n /\ cmd.got \in Seq(Bytes) /\ Len(cmd.got) = m - n
        /\ v \o cmd.got = w /\ Len(v) + Len(cmd.got) <= BlockBytes
    <3>1. cmd.got \in Seq(Bytes) /\ Len(cmd.got) = m - n
      BY PartIs
    <3>2. v \in Seq(Bytes) /\ Len(v) = n
      <4>1. 0 \in Nat /\ 0 + 1 = 1 /\ 0 <= n /\ n <= Len(t) /\ n - 0 = n
        OBVIOUS
      <4>2. SubSeq(t, 0 + 1, n) \in Seq(Bytes) /\ Len(SubSeq(t, 0 + 1, n)) = n - 0
        BY <4>1, PartIs
      <4> QED
        BY <4>1, <4>2
    <3>3. v \o cmd.got = w
      BY PartsJoin
    <3>4. n + (m - n) <= BlockBytes
      BY Constants
    <3> QED
      BY <3>1, <3>2, <3>3, <3>4
  <2>3. /\ s \in Disk /\ Apart(s) /\ OnlyOf(io, s, cmd.dest) /\ Listed(s, cmd.dest) /\ s.next = io.next
        /\ WriterAt(s, cmd.destFd, cmd.dest, v \o cmd.got)
        /\ \A gd : gd # cmd.destFd => s.fcb[gd] = io.fcb[gd]
    <3>1. WrittenOn(s, io, cmd.destFd, cmd.dest, v \o cmd.got)
      BY <1>1, <2>1, <2>2, WriteMoves
    <3> QED
      BY <3>1 DEF WrittenOn
  <2>4. /\ \A f \in Files \ Written : Contents(s)[f] = Contents(io)[f]
        /\ \A f \in Files : Listed(io, f) => Listed(s, f)
    BY <1>1, <2>3, DestOnly
  <2>5. cmd.name = "cp" =>
          ReaderAt(s, cmd.srcFd, cmd.src, m) /\ Contents(s)[cmd.src] = Contents(io)[cmd.src]
    <3>1. ASSUME cmd.name = "cp" PROVE s.fcb[cmd.srcFd] = io.fcb[cmd.srcFd]
      <4>1. cmd.srcFd # cmd.destFd
        BY <1>2, <2>1, <3>1, ReaderNotWriter
      <4> QED
        BY <2>3, <4>1
    <3> QED
      BY <1>1, <1>2, <2>3, <3>1, SourceKept
  <2> QED
    BY <1>5, <2>2, <2>3, <2>4, <2>5 DEF ChunkMoved
<1> QED
  BY <1>4, <1>5

\* After a chunk the loop goes on, or everything is moved.
LEMMA WriteStore ==
    ASSUME StoreInv, IInv', Write
    PROVE  StoreInv' /\ [Store!Next]_(Store!vars)
<1> DEFINE s == b_write(io, cmd.destFd, cmd.got)
           rest == AfterChunk
<1>1. ~Prompt /\ Head(todo) = "write" /\ Continue(s, cmd, rest, out)
  BY DEF Write, At
<1>2. /\ IInv /\ io \in Disk /\ Apart(io) /\ cmd \in Local /\ Len(cmd.got) <= Chunk
      /\ out \in Seq(Bytes) /\ Len(out) <= BlockBytes
  BY Always
<1>3. Place(cmd.name, "write", NextCall(Tail(todo)))
  BY <1>1, <1>2, Follows
<1>4. cmd.name \in {"cp", "cp2fs"} /\ cmd.dest \in Files
  BY <1>1, <1>3, UnderWay DEF Place
<1>5. PICK t \in Sources, m \in 0 .. BlockBytes, n \in 0 .. BlockBytes :
        /\ n <= m /\ m <= Len(t) /\ HasRead(t, m) /\ HasMoved(SubSeq(t, 1, n))
        /\ cmd.got = SubSeq(t, n + 1, m) /\ cmd.readcnt = m - n
        /\ cmd.readcnt = cmd.chunk \/ m = Len(t)
  <2>1. ProgressInv
    BY <1>1, UnderWay
  <2>2. BeforeWrite
    BY <1>1, <2>1 DEF ProgressInv
  <2> QED
    BY <2>2 DEF BeforeWrite
<1>6. t \in Seq(Bytes) /\ Len(t) <= BlockBytes /\ m \in Nat /\ n \in Nat /\ Len(t) \in Nat
  <2>1. cmd.name = "cp" => cmd.src \in Files /\ Listed(io, cmd.src)
    BY <1>1, UnderWay
  <2>2. t \in Seq(Bytes) /\ Len(t) <= BlockBytes
    BY <1>1, <1>4, <1>5, <2>1, SourceTyped
  <2> QED
    BY <1>5, <2>2, Constants
<1>7. out = <<>>
  BY <1>4, <1>5 DEF HasMoved
<1>8. PICK w : w = SubSeq(t, 1, m)
  OBVIOUS
<1>9. /\ s \in Disk /\ Apart(s)
      /\ \A f \in Files \ Written : Contents(s)[f] = Contents(io)[f]
      /\ \A f \in Files : Listed(io, f) => Listed(s, f)
      /\ IF cmd.destFd = -1 THEN Contents(s)[cmd.dest] = stable.content[cmd.dest]
         ELSE WriterAt(s, cmd.destFd, cmd.dest, w)
      /\ cmd.name = "cp" =>
           ReaderAt(s, cmd.srcFd, cmd.src, m) /\ Contents(s)[cmd.src] = Contents(io)[cmd.src]
  <2>1. PICK v : v = SubSeq(t, 1, n)
    OBVIOUS
  <2>2. HasMoved(v)
    BY <1>5, <2>1
  <2>3. s = b_write(io, cmd.destFd, cmd.got)
    OBVIOUS
  <2> HIDE DEF s
  <2> QED
    <3>1. ChunkMoved(s, t, m)
      BY <1>4, <1>5, <1>6, <2>1, <2>2, <2>3, ChunkWritten
    <3> QED
      BY <1>8, <3>1 DEF ChunkMoved
<1> HIDE DEF s
<1>10. /\ rest # <<>>
       /\ More => Head(rest) = IF cmd.name = "cp2fs" THEN "readLinux" ELSE "read"
       /\ ~More => Head(rest) = NextCall(Tail(todo))
  BY <1>3, AfterChunkIs
<1> HIDE DEF rest
<1>11. /\ io' = s /\ cmd' = cmd /\ todo' = rest /\ out' = out /\ stable' = stable
       /\ cwdBelow' = cwdBelow
  BY <1>1, <1>10, GoesOn
<1>12. t \in Sources' /\ HasRead(t, m)'
  <2>1. CASE cmd.name = "cp"
    BY <1>5, <1>9, <1>11, <2>1 DEF Sources, HasRead
  <2>2. CASE cmd.name = "cp2fs"
    BY <1>5, <1>11, <2>2 DEF Sources, HasRead
  <2> QED
    BY <1>4, <2>1, <2>2
<1>13. HasMoved(w)'
  BY <1>4, <1>7, <1>9, <1>11 DEF HasMoved
<1>14. ProgressInv'
  <2>1. CASE More
    <3>1. BeforeRead'
      <4>1. HasMoved(SubSeq(t, 1, m))'
        BY <1>8, <1>13
      <4> QED
        BY <1>5, <1>12, <4>1 DEF BeforeRead
    <3>2. Head(todo') \in {"read", "readLinux"}
      BY <1>10, <1>11, <2>1
    <3> QED
      BY <3>1, <3>2 DEF ProgressInv
  <2>2. CASE ~More
    <3>1. m = Len(t) /\ w = t
      <4>1. m = Len(t)
        BY <1>5, <2>2 DEF More
      <4> QED
        BY <1>6, <1>8, <4>1, PartsJoin
    <3>2. BeforeClose'
      <4>1. HasMoved(t)'
        BY <1>13, <3>1
      <4> QED
        BY <1>4, <1>11, <1>12, <4>1 DEF BeforeClose
    <3>3. Head(todo') = IF cmd.name = "cp" THEN "closeSource" ELSE "closeDest"
      BY <1>3, <1>4, <1>10, <1>11, <2>2 DEF Place
    <3>4. cmd.name = "cp" => ReaderAt(io', cmd'.srcFd, cmd'.src, io'.entry[cmd'.src].size)
      <4>1. ASSUME cmd.name = "cp" PROVE m = s.entry[cmd.src].size
        <5>1. ReaderAt(s, cmd.srcFd, cmd.src, m) /\ t = Contents(s)[cmd.src] /\ cmd.src \in Files
          BY <1>1, <1>5, <1>9, <4>1, UnderWay DEF Sources
        <5>2. Listed(s, cmd.src)
          BY <5>1 DEF ReaderAt
        <5>3. Len(t) = s.entry[cmd.src].size
          BY <1>9, <5>1, <5>2, ContentIs
        <5> QED
          BY <3>1, <5>3
      <4> QED
        BY <1>9, <1>11, <4>1
    <3> QED
      BY <3>2, <3>3, <3>4 DEF ProgressInv
  <2> QED
    BY <2>1, <2>2
<1> QED
  BY <1>1, <1>2, <1>9, <1>10, <1>11, <1>14, OnwardStore

\* What is read is printed, or written to Linux.
LEMMA EmitStore ==
    ASSUME StoreInv, IInv', Emit
    PROVE  StoreInv' /\ [Store!Next]_(Store!vars)
<1> DEFINE shown == out \o cmd.got
           rest == AfterChunk
<1>1. ~Prompt /\ Head(todo) = "emit" /\ Continue(io, cmd, rest, shown)
  BY DEF Emit, At
<1>2. /\ IInv /\ io \in Disk /\ Apart(io) /\ cmd \in Local /\ Len(cmd.got) <= Chunk
  BY Always
<1>3. Place(cmd.name, "emit", NextCall(Tail(todo)))
  BY <1>1, <1>2, Follows
<1>4. cmd.name \in {"cat", "cp2l"} /\ cmd.src \in Files
  BY <1>1, <1>3, UnderWay DEF Place
<1>5. PICK t \in Sources, m \in 0 .. BlockBytes, n \in 0 .. BlockBytes :
        /\ n <= m /\ m <= Len(t) /\ HasRead(t, m) /\ HasMoved(SubSeq(t, 1, n))
        /\ cmd.got = SubSeq(t, n + 1, m) /\ cmd.readcnt = m - n
        /\ cmd.readcnt = cmd.chunk \/ m = Len(t)
  <2>1. ProgressInv
    BY <1>1, UnderWay
  <2>2. BeforeWrite
    BY <1>1, <2>1 DEF ProgressInv
  <2> QED
    BY <2>2 DEF BeforeWrite
<1>6. ReaderAt(io, cmd.srcFd, cmd.src, m) /\ t = Contents(io)[cmd.src] /\ Listed(io, cmd.src)
  <2>1. ReaderAt(io, cmd.srcFd, cmd.src, m)
    BY <1>4, <1>5 DEF HasRead
  <2>2. Listed(io, cmd.src)
    BY <2>1 DEF ReaderAt
  <2>3. t = Contents(io)[cmd.src]
    BY <1>4, <1>5 DEF Sources
  <2> QED
    BY <2>1, <2>2, <2>3
<1>7. t \in Seq(Bytes) /\ Len(t) <= BlockBytes /\ m \in Nat /\ n \in Nat /\ Len(t) \in Nat
  <2>1. t \in Seq(Bytes) /\ Len(t) <= BlockBytes
    BY <1>1, <1>4, <1>5, <1>6, SourceTyped
  <2> QED
    BY <1>5, <2>1, Constants
<1>8. PICK w : w = SubSeq(t, 1, m)
  OBVIOUS
<1>9. w \in Seq(Bytes) /\ Len(w) = m /\ shown = w
  <2>1. w \in Seq(Bytes) /\ Len(w) = m
    <3>1. 0 \in Nat /\ 0 + 1 = 1 /\ 0 <= m /\ m - 0 = m
      BY <1>7
    <3>2. SubSeq(t, 0 + 1, m) \in Seq(Bytes) /\ Len(SubSeq(t, 0 + 1, m)) = m - 0
      BY <1>5, <1>7, <3>1, PartIs
    <3> QED
      BY <1>8, <3>1, <3>2
  <2>2. out = SubSeq(t, 1, n)
    BY <1>4, <1>5 DEF HasMoved
  <2>3. shown = SubSeq(t, 1, n) \o SubSeq(t, n + 1, m)
    BY <1>5, <2>2
  <2>4. SubSeq(t, 1, n) \o SubSeq(t, n + 1, m) = w
    BY <1>5, <1>7, <1>8, PartsJoin
  <2> QED
    BY <2>1, <2>3, <2>4
<1> HIDE DEF shown
<1>10. /\ rest # <<>>
       /\ More => Head(rest) = IF cmd.name = "cp2fs" THEN "readLinux" ELSE "read"
       /\ ~More => Head(rest) = NextCall(Tail(todo))
  BY <1>3, AfterChunkIs
<1> HIDE DEF rest
<1>11. /\ io' = io /\ cmd' = cmd /\ todo' = rest /\ out' = w /\ stable' = stable
       /\ cwdBelow' = cwdBelow
  BY <1>1, <1>9, <1>10, GoesOn
<1>12. t \in Sources' /\ HasRead(t, m)' /\ HasMoved(w)'
  BY <1>4, <1>5, <1>6, <1>11 DEF Sources, HasRead, HasMoved
<1>13. ProgressInv'
  <2>1. CASE More
    <3>1. BeforeRead'
      <4>1. HasMoved(SubSeq(t, 1, m))'
        BY <1>8, <1>12
      <4> QED
        BY <1>5, <1>12, <4>1 DEF BeforeRead
    <3>2. Head(todo') \in {"read", "readLinux"}
      BY <1>10, <1>11, <2>1
    <3> QED
      BY <3>1, <3>2 DEF ProgressInv
  <2>2. CASE ~More
    <3>1. m = Len(t) /\ w = t
      <4>1. m = Len(t)
        BY <1>5, <2>2 DEF More
      <4> QED
        BY <1>7, <1>8, <4>1, PartsJoin
    <3>2. BeforeClose'
      <4>1. HasMoved(t)'
        BY <1>12, <3>1
      <4> QED
        BY <1>4, <1>11, <1>12, <4>1 DEF BeforeClose
    <3>3. Head(todo') = "closeSource"
      BY <1>3, <1>4, <1>10, <1>11, <2>2 DEF Place
    <3>4. ReaderAt(io', cmd'.srcFd, cmd'.src, io'.entry[cmd'.src].size)
      <4>1. Len(t) = io.entry[cmd.src].size
        BY <1>2, <1>4, <1>6, ContentIs
      <4> QED
        BY <1>6, <1>11, <3>1, <4>1
    <3> QED
      BY <3>2, <3>3, <3>4 DEF ProgressInv
  <2> QED
    BY <2>1, <2>2
<1>14. w \in Seq(Bytes) /\ Len(w) <= BlockBytes
  BY <1>5, <1>7, <1>9, Constants
<1> QED
  BY <1>1, <1>2, <1>9, <1>10, <1>13, <1>14, OnwardStore

\* The source is closed: cat and cp2l have shown it.
LEMMA CloseSourceStore ==
    ASSUME StoreInv, IInv', CloseSource
    PROVE  StoreInv' /\ [Store!Next]_(Store!vars)
<1> DEFINE s == b_close(io, cmd.srcFd)
           f == cmd.src
           rest == Tail(todo)
<1>1. ~Prompt /\ Head(todo) = "closeSource" /\ Continue(s, cmd, rest, out)
  BY DEF CloseSource, At
<1>2. /\ IInv /\ io \in Disk /\ Apart(io) /\ cmd \in Local /\ Len(cmd.got) <= Chunk
      /\ out \in Seq(Bytes) /\ Len(out) <= BlockBytes
      /\ stable.content \in [Files -> Seq(Bytes) \cup {Absent}]
  BY Always
<1>3. Place(cmd.name, "closeSource", NextCall(rest))
  BY <1>1, <1>2, Follows
<1>4. cmd.name \in {"cat", "cp", "cp2l"} /\ f \in Files
  BY <1>1, <1>3, UnderWay DEF Place
<1>5. BeforeClose /\ ReaderAt(io, cmd.srcFd, f, io.entry[f].size)
  <2>1. ProgressInv
    BY <1>1, UnderWay
  <2> QED
    BY <1>1, <2>1 DEF ProgressInv
<1>6. Listed(io, f)
  BY <1>5 DEF ReaderAt
<1>7. PICK t \in Sources : HasMoved(t)
  BY <1>4, <1>5 DEF BeforeClose
<1>8. t = Contents(io)[f] /\ t \in Seq(Bytes) /\ Len(t) <= BlockBytes
  <2>1. t \in Seq(Bytes) /\ Len(t) <= BlockBytes
    BY <1>1, <1>4, <1>6, <1>7, SourceTyped
  <2> QED
    BY <1>4, <1>7, <2>1 DEF Sources
<1>9. /\ s \in Disk /\ SameFiles(io, s) /\ Apart(s) /\ Contents(s) = Contents(io)
      /\ \A gd : gd # cmd.srcFd => s.fcb[gd] = io.fcb[gd]
      /\ \A g \in Files : Listed(io, g) => Listed(s, g)
  <2>1. io.entry[f].size \in Nat
    BY <1>2, <1>4, <1>6, ListedStart, Constants
  <2>2. s \in Disk /\ SameFiles(io, s) /\ \A gd : gd # cmd.srcFd => s.fcb[gd] = io.fcb[gd]
    BY <1>2, <1>4, <1>5, <2>1, CloseReader
  <2> HIDE DEF s
  <2>3. Apart(s) /\ Contents(s) = Contents(io)
    BY <1>2, <2>2, FilesSame
  <2> QED
    BY <2>2, <2>3 DEF SameFiles, Listed
<1> HIDE DEF s
<1>10. CASE cmd.name = "cp"
  <2>1. NextCall(rest) = "closeDest" /\ rest # <<>>
    <3>1. NextCall(rest) = "closeDest"
      BY <1>3, <1>10 DEF Place
    <3> QED
      BY <3>1 DEF NextCall
  <2>2. /\ io' = s /\ cmd' = cmd /\ todo' = rest /\ out' = out /\ stable' = stable
        /\ cwdBelow' = cwdBelow /\ Head(todo') = "closeDest"
    <3> HIDE DEF rest
    <3> QED
      BY <1>1, <2>1, GoesOn DEF NextCall
  <2>3. t \in Sources'
    BY <1>8, <1>9, <1>10, <2>2 DEF Sources
  <2>4. HasMoved(t)'
    <3>1. out = <<>> /\ IF cmd.destFd = -1 THEN Contents(io)[cmd.dest] = stable.content[cmd.dest]
                        ELSE WriterAt(io, cmd.destFd, cmd.dest, t)
      BY <1>7, <1>10 DEF HasMoved
    <3>2. WriterAt(io, cmd.destFd, cmd.dest, t) => WriterAt(s, cmd.destFd, cmd.dest, t)
      <4>1. WriterAt(io, cmd.destFd, cmd.dest, t) => cmd.destFd # cmd.srcFd
        BY <1>5, ReaderNotWriter
      <4> QED
        BY <1>9, <4>1, WriterKept DEF SameFiles
    <3> QED
      BY <1>9, <1>10, <2>2, <3>1, <3>2 DEF HasMoved
  <2>5. BeforeClose'
    BY <1>10, <2>2, <2>3, <2>4 DEF BeforeClose
  <2>6. ProgressInv'
    BY <2>2, <2>5 DEF ProgressInv
  <2> HIDE DEF rest
  <2> QED
    BY <1>1, <1>2, <1>9, <2>1, <2>6, OnwardStore
<1>11. CASE cmd.name # "cp"
  <2>1. rest = <<>> /\ cmd.name \in {"cat", "cp2l"}
    <3>1. NextCall(rest) = "end" /\ cmd.name \in {"cat", "cp2l"}
      BY <1>3, <1>4, <1>11 DEF Place
    <3> QED
      BY <1>1, <1>2, <3>1, EndsThere
  <2>2. Continue(s, cmd, <<>>, out)
    BY <1>1, <2>1
  <2>3. StoreInv' /\ stable'.content = Contents(s) /\ stable'.shown = out
    BY <1>2, <1>9, <2>2, LastStore
  <2>4. out = t /\ Written = {}
    BY <1>1, <1>7, <2>1, UnderWay DEF HasMoved
  <2>5. Contents(s) = stable.content
    <3>1. \A g \in Files : Contents(s)[g] = stable.content[g]
      BY <1>1, <1>9, <2>4, UnderWay
    <3> QED
      BY <1>2, <1>9, <3>1, NoneChanged
  <2>6. stable'.shown = stable.content[f] /\ stable.content[f] # Absent
    BY <1>8, <1>9, <2>3, <2>4, <2>5, Constants
  <2>7. Store!Show(f)
    BY <2>3, <2>5, <2>6 DEF Store!Show, Store!Exists
  <2> QED
    BY <1>4, <2>3, <2>7 DEF Store!Next
<1> QED
  BY <1>10, <1>11

\* The destination is closed: the copy is on the disk.
LEMMA CloseDestStore ==
    ASSUME StoreInv, IInv', CloseDest
    PROVE  StoreInv' /\ [Store!Next]_(Store!vars)
<1> DEFINE s == b_close(io, cmd.destFd)
           f == cmd.dest
<1>1. ~Prompt /\ Head(todo) = "closeDest" /\ Continue(s, cmd, Tail(todo), out)
  BY DEF CloseDest, At
<1>2. /\ IInv /\ io \in Disk /\ Apart(io) /\ out \in Seq(Bytes) /\ Len(out) <= BlockBytes
      /\ stable.content \in [Files -> Seq(Bytes) \cup {Absent}]
  BY Always
<1>3. cmd.name \in {"touch", "cp", "cp2fs"} /\ Tail(todo) = <<>>
  <2>1. Place(cmd.name, "closeDest", NextCall(Tail(todo)))
    BY <1>1, <1>2, Follows
  <2>2. cmd.name \in {"touch", "cp", "cp2fs"} /\ NextCall(Tail(todo)) = "end"
    BY <2>1 DEF Place
  <2> QED
    BY <1>1, <1>2, <2>2, EndsThere
<1>4. /\ f \in Files /\ Written = {f}
      /\ \A g \in Files \ {f} : Contents(io)[g] = stable.content[g]
  BY <1>1, <1>3, UnderWay
<1>5. BeforeClose
  <2>1. ProgressInv
    BY <1>1, UnderWay
  <2> QED
    BY <1>1, <2>1 DEF ProgressInv
<1>6. Continue(s, cmd, <<>>, out)
  BY <1>1, <1>3
<1>7. ASSUME s \in Disk, Apart(s)
      PROVE  StoreInv' /\ stable'.content = Contents(s) /\ stable'.shown = out
  <2> HIDE DEF s
  <2> QED
    BY <1>2, <1>6, <1>7, LastStore
<1>8. CASE cmd.name = "touch"
  <2>1. /\ out = <<>> /\ io.fcb[cmd.destFd].index = 0
        /\ Contents(io)[f] = IF stable.content[f] = Absent THEN <<>> ELSE stable.content[f]
    BY <1>5, <1>8 DEF BeforeClose
  <2>2. s \in Disk /\ SameFiles(io, s)
    <3>1. CASE IsOpen(io, cmd.destFd)
      BY <1>2, <2>1, <3>1, CloseIdle
    <3>2. CASE ~IsOpen(io, cmd.destFd)
      BY <1>2, <3>2 DEF b_close, SameFiles
    <3> QED
      BY <3>1, <3>2
  <2> HIDE DEF s
  <2>3. Apart(s) /\ Contents(s) = Contents(io)
    BY <1>2, <2>2, FilesSame
  <2>4. StoreInv' /\ stable'.content = Contents(s) /\ stable'.shown = <<>>
    BY <1>7, <2>1, <2>2, <2>3 DEF s
  <2>5. CASE stable.content[f] = Absent
    <3>1. Contents(s) = [stable.content EXCEPT ![f] = <<>>]
      BY <1>2, <1>4, <2>1, <2>2, <2>3, <2>5, OneChanged
    <3>2. Store!Touch(f)
      BY <2>4, <2>5, <3>1 DEF Store!Touch, Store!Exists, Store!Put, Store!Silent
    <3> QED
      BY <1>4, <2>4, <3>2 DEF Store!Next
  <2>6. CASE stable.content[f] # Absent
    <3>1. \A g \in Files : Contents(s)[g] = stable.content[g]
      BY <1>4, <2>1, <2>3, <2>6
    <3>2. Contents(s) = stable.content
      BY <1>2, <2>2, <2>3, <3>1, NoneChanged
    <3>3. Store!NoChange
      BY <2>4, <3>2 DEF Store!NoChange, Store!Silent
    <3> QED
      BY <2>4, <3>3 DEF Store!Next
  <2> QED
    BY <2>5, <2>6
<1>9. CASE cmd.name # "touch"
  <2>1. PICK t \in Sources : HasMoved(t)
    BY <1>5, <1>9 DEF BeforeClose
  <2>2. cmd.name = "cp" => cmd.src \in Files /\ Listed(io, cmd.src) /\ cmd.src # f
    BY <1>1, UnderWay
  <2>3. t \in Seq(Bytes) /\ Len(t) <= BlockBytes
    BY <1>1, <1>3, <1>9, <2>2, SourceTyped
  <2>4. /\ out = <<>>
        /\ IF cmd.destFd = -1 THEN Contents(io)[f] = stable.content[f]
           ELSE WriterAt(io, cmd.destFd, f, t)
    BY <1>3, <1>9, <2>1 DEF HasMoved
  <2>5. CASE cmd.destFd = -1
    <3>1. s = io
      <4>1. ~IsOpen(io, cmd.destFd)
        BY <2>5, Constants DEF IsOpen, Fds
      <4> QED
        BY <4>1 DEF b_close
    <3>2. StoreInv' /\ stable'.content = Contents(io) /\ stable'.shown = <<>>
      BY <1>2, <1>7, <2>4, <3>1
    <3>3. \A g \in Files : Contents(io)[g] = stable.content[g]
      BY <1>4, <2>4, <2>5
    <3>4. Contents(io) = stable.content
      BY <1>2, <3>3, NoneChanged
    <3>5. Store!NoChange
      BY <3>2, <3>4 DEF Store!NoChange, Store!Silent
    <3> QED
      BY <3>2, <3>5 DEF Store!Next
  <2>6. CASE cmd.destFd # -1
    <3>1. s \in Disk /\ Apart(s) /\ OnlyOf(io, s, f) /\ Contents(s)[f] = t
      <4>1. WriterAt(io, cmd.destFd, f, t)
        BY <2>4, <2>6
      <4> QED
        BY <1>2, <1>4, <2>3, <4>1, CloseWriter
    <3>2. StoreInv' /\ stable'.content = Contents(s) /\ stable'.shown = <<>>
      BY <1>7, <2>4, <3>1
    <3> HIDE DEF s
    <3>3. \A g \in Files \ {f} : Contents(s)[g] = Contents(io)[g]
      BY <1>2, <3>1, OthersSame
    <3>4. \A g \in Files \ {f} : Contents(s)[g] = stable.content[g]
      BY <1>4, <3>3
    <3>5. Contents(s) = [stable.content EXCEPT ![f] = t]
      BY <1>2, <1>4, <3>1, <3>4, OneChanged
    <3>6. CASE cmd.name = "cp2fs"
      <4>1. t \in Texts
        BY <2>1, <3>6 DEF Sources
      <4>2. Store!Import(f)
        BY <3>2, <3>5, <4>1 DEF Store!Import, Store!Put, Store!Silent
      <4> QED
        BY <1>4, <3>2, <4>2 DEF Store!Next
    <3>7. CASE cmd.name = "cp"
      <4>1. t = Contents(io)[cmd.src]
        BY <2>1, <3>7 DEF Sources
      <4>2. t = stable.content[cmd.src] /\ stable.content[cmd.src] # Absent
        BY <1>4, <2>2, <2>3, <3>7, <4>1, Constants
      <4>3. Store!Copy(cmd.src, f)
        BY <3>2, <3>5, <4>2 DEF Store!Copy, Store!Exists, Store!Put, Store!Silent
      <4> QED
        BY <1>4, <2>2, <3>2, <3>7, <4>3 DEF Store!Next
    <3> QED
      BY <1>3, <1>9, <3>6, <3>7
  <2> QED
    BY <2>5, <2>6
<1> QED
  BY <1>8, <1>9

-----------------------------------------------------------------------------
(* What is typed, and the death of the program.                            *)

\* A command begins.
LEMMA BeginStore ==
    ASSUME StoreInv, IInv', NEW c \in Local, Begin(c), c.got = <<>>,
           ArgumentsInv', c.name \in Commands,
           c.name \in {"touch", "cp", "cp2fs"} => Room(c.dest),
           c.name = "cp2fs" => c.text \in Texts
    PROVE  StoreInv' /\ Store!NoChange
<1>1. /\ Prompt /\ io' = io /\ todo' = Steps[c.name] /\ cmd' = c /\ out' = <<>>
      /\ stable' = [stable EXCEPT !.shown = <<>>] /\ cwdBelow' = cwdBelow
  BY DEF Begin
<1>2. stable'.content = stable.content /\ stable'.shown = <<>> /\ stable.content = Contents(io)
      /\ stable' \in [content : [Files -> Seq(Bytes) \cup {Absent}], shown : Seq(Bytes) \cup {Dead}]
  <2>1. stable.content = Contents(io)
    BY <1>1 DEF StoreInv
  <2>2. <<>> \in Seq(Bytes)
    OBVIOUS
  <2> QED
    BY <1>1, <2>1, <2>2, Always
<1>3. TypeInv' /\ Apart(io)'
  <2>1. <<>> \in Seq(Bytes) /\ Len(<<>>) = 0 /\ 0 <= BlockBytes /\ 0 <= Chunk
    BY Constants
  <2> QED
    BY <1>1, <1>2, <2>1, Always DEF TypeInv
<1>4. OthersInv'
  <2>1. \A f \in Files : Contents(io)[f] # Absent => Listed(io, f)
    BY DEF Contents
  <2> QED
    BY <1>1, <1>2, <2>1 DEF OthersInv
<1>5. Steps[c.name] # <<>> /\ Head(Steps[c.name]) \in {"openSource", "openDest"}
      /\ (c.name = "cp" => Head(Steps[c.name]) = "openSource")
  BY DEF Commands, Steps
<1>6. BeforeOpen'
  <2>1. Untouched'
    BY <1>1, <1>2 DEF Untouched
  <2>2. Room(c.dest)' <=> Room(c.dest)
    BY <1>1 DEF Room
  <2> QED
    BY <1>1, <2>1, <2>2 DEF BeforeOpen, Room
<1>7. ProgressInv'
  BY <1>1, <1>5, <1>6 DEF ProgressInv
<1>8. ~Prompt'
  BY <1>1, <1>5 DEF Prompt
<1>9. StoreInv'
  BY <1>3, <1>4, <1>7, <1>8 DEF StoreInv
<1>10. Store!NoChange
  BY <1>2 DEF Store!NoChange, Store!Silent
<1> QED
  BY <1>9, <1>10

\* A file is removed.
LEMMA RmStore ==
    ASSUME StoreInv, IInv', NEW f \in Files, Rm(f)
    PROVE  StoreInv' /\ [Store!Next]_(Store!vars)
<1> DEFINE s == [data |-> io.data, entry |-> [io.entry EXCEPT ![f] = Unlisted],
                 fcb |-> io.fcb, next |-> io.next]
<1>1. Prompt /\ Listed(io, f) /\ Continue(fs_delete(io, f), cmd, <<>>, <<>>)
  BY DEF Rm
<1>2. /\ io \in Disk /\ Apart(io) /\ stable.content \in [Files -> Seq(Bytes) \cup {Absent}]
      /\ stable.content = Contents(io)
  BY <1>1, Always DEF StoreInv
<1>3. /\ io.data \in Memory /\ io.entry \in [Files -> Entry]
      /\ io.fcb \in [Fds -> Fcb \cup {Closed}] /\ io.next \in 1 .. VolumeBlocks + 1
      /\ io = [data |-> io.data, entry |-> io.entry, fcb |-> io.fcb, next |-> io.next]
  BY <1>2, DiskFields
<1>4. fs_delete(io, f) = s
  BY <1>3 DEF fs_delete
<1>5. Unlisted \in Entry
  BY Constants DEF Unlisted, Entry
<1>6. s \in Disk
  BY <1>3, <1>5 DEF Disk, Memory
<1>7. /\ s.data = io.data /\ s.next = io.next /\ s.entry[f] = Unlisted
      /\ \A g \in Files : g # f => s.entry[g] = io.entry[g]
  BY <1>3
<1> HIDE DEF s
<1>8. ~Listed(s, f) /\ \A g \in Files : g # f => (Listed(s, g) <=> Listed(io, g))
  BY <1>7 DEF Listed
<1>9. Apart(s)
  BY <1>2, <1>7, <1>8 DEF Apart
<1>10. OnlyOf(io, s, f)
  BY <1>7 DEF OnlyOf
<1>11. Contents(s) = [stable.content EXCEPT ![f] = Absent]
  <2>1. Contents(s)[f] = Absent
    BY <1>6, <1>8, <1>9, ContentIs
  <2>2. \A g \in Files \ {f} : Contents(s)[g] = stable.content[g]
    BY <1>2, <1>6, <1>9, <1>10, OthersSame
  <2> QED
    BY <1>2, <1>6, <1>9, <2>1, <2>2, OneChanged
<1>12. stable.content[f] # Absent
  BY <1>1, <1>2, ContentIs
<1>13. StoreInv' /\ stable'.content = Contents(s) /\ stable'.shown = <<>>
  <2>1. Continue(s, cmd, <<>>, <<>>)
    BY <1>1, <1>4
  <2>2. <<>> \in Seq(Bytes) /\ Len(<<>>) <= BlockBytes
    BY Constants
  <2> QED
    BY <1>6, <1>9, <2>1, <2>2, LastStore
<1>14. Store!Remove(f)
  BY <1>11, <1>12, <1>13 DEF Store!Remove, Store!Exists, Store!Put, Store!Silent
<1> QED
  BY <1>13, <1>14 DEF Store!Next

\* The current directory changes.
LEMMA CdStore ==
    ASSUME StoreInv, IInv', NEW below \in BOOLEAN, Cd(below)
    PROVE  StoreInv' /\ Store!NoChange
<1>1. /\ Prompt /\ cwdBelow' = below /\ out' = <<>> /\ stable' = [stable EXCEPT !.shown = <<>>]
      /\ io' = io /\ cmd' = cmd /\ todo' = todo
  BY DEF Cd
<1>2. stable'.content = stable.content /\ stable'.shown = <<>> /\ stable.content = Contents(io)
      /\ stable' \in [content : [Files -> Seq(Bytes) \cup {Absent}], shown : Seq(Bytes) \cup {Dead}]
  <2>1. stable.content = Contents(io)
    BY <1>1 DEF StoreInv
  <2>2. <<>> \in Seq(Bytes)
    OBVIOUS
  <2> QED
    BY <1>1, <2>1, <2>2, Always
<1>3. TypeInv' /\ Apart(io)'
  <2>1. <<>> \in Seq(Bytes) /\ Len(<<>>) = 0 /\ 0 <= BlockBytes
    BY Constants
  <2> QED
    BY <1>1, <1>2, <2>1, Always DEF TypeInv
<1>4. Prompt' /\ stable'.content = Contents(io')
  BY <1>1, <1>2 DEF Prompt
<1>5. StoreInv'
  BY <1>3, <1>4 DEF StoreInv
<1>6. Store!NoChange
  BY <1>2 DEF Store!NoChange, Store!Silent
<1> QED
  BY <1>5, <1>6

\* The program dies: only the destination of a copy may have changed.
LEMMA CrashStore ==
    ASSUME StoreInv, IInv', Crash
    PROVE  StoreInv' /\ [Store!Next]_(Store!vars)
<1> DEFINE s == [data |-> io.data, entry |-> io.entry, fcb |-> [fd \in Fds |-> Closed], next |-> io.next]
<1>1. /\ cwdBelow' = FALSE /\ cmd' = NoCommand /\ todo' = <<>> /\ out' = <<>>
      /\ io' = [io EXCEPT !.fcb = Fresh.fcb]
      /\ stable' = [content |-> Contents(io'), shown |-> Dead]
  BY DEF Crash
<1>2. io \in Disk /\ Apart(io) /\ stable.content \in [Files -> Seq(Bytes) \cup {Absent}]
  BY Always
<1>3. io' = s
  <2>1. io = [data |-> io.data, entry |-> io.entry, fcb |-> io.fcb, next |-> io.next]
    BY <1>2, DiskFields
  <2>2. Fresh.fcb = [fd \in Fds |-> Closed]
    BY DEF Fresh
  <2> QED
    BY <1>1, <2>1, <2>2
<1>4. s \in Disk /\ SameFiles(io, s)
  BY <1>2, DiskFields DEF Disk, Memory, SameFiles
<1> HIDE DEF s
<1>5. Apart(s) /\ Contents(s) = Contents(io) /\ Contents(s) \in [Files -> Seq(Bytes) \cup {Absent}]
  BY <1>2, <1>4, FilesSame, ContentsTyped
<1>6. NoCommand \in Local /\ Len(NoCommand.got) <= Chunk
  BY Constants DEF NoCommand, Local
<1>7. StoreInv'
  <2>1. <<>> \in Seq(Bytes) /\ Len(<<>>) = 0 /\ 0 <= BlockBytes
    BY Constants
  <2>2. TypeInv'
    BY <1>1, <1>3, <1>4, <1>5, <1>6, <2>1 DEF TypeInv
  <2>3. Prompt' /\ stable'.content = Contents(io') /\ Apart(io)'
    BY <1>1, <1>3, <1>5 DEF Prompt
  <2> QED
    BY <2>2, <2>3 DEF StoreInv
<1>8. stable'.content = Contents(io) /\ stable'.shown = Dead
  BY <1>1, <1>3, <1>5
<1>9. PICK d \in Files : \A g \in Files \ {d} : Contents(io)[g] = stable.content[g]
  <2>1. CASE Prompt
    <3>1. stable.content = Contents(io)
      BY <2>1 DEF StoreInv
    <3>2. PICK d : d \in Files
      BY FileOpsAssumption
    <3> QED
      BY <3>1, <3>2
  <2>2. CASE ~Prompt
    <3>1. \A g \in Files \ Written : Contents(io)[g] = stable.content[g]
      BY <2>2, UnderWay
    <3>2. CASE cmd.name \in {"touch", "cp", "cp2fs"}
      BY <2>2, <3>1, <3>2, UnderWay
    <3>3. CASE cmd.name \notin {"touch", "cp", "cp2fs"}
      <4>1. Written = {}
        BY <3>3 DEF Written
      <4>2. PICK d : d \in Files
        BY FileOpsAssumption
      <4> QED
        BY <3>1, <4>1, <4>2
    <3> QED
      BY <3>2, <3>3
  <2> QED
    BY <2>1, <2>2
<1>10. Contents(io)[d] = Absent => stable.content[d] = Absent
  <2>1. Contents(io)[d] = Absent => ~Listed(io, d)
    BY <1>2, ContentIs
  <2>2. CASE Prompt
    BY <2>2 DEF StoreInv
  <2>3. CASE ~Prompt
    BY <2>1, <2>3, UnderWay
  <2> QED
    BY <2>2, <2>3
<1>11. Store!Die(d)
  BY <1>8, <1>9, <1>10 DEF Store!Die, Store!Exists
<1> QED
  BY <1>7, <1>11 DEF Store!Next

-----------------------------------------------------------------------------
(* The specification implements FileStore.                                 *)

\* A volume with no file.
LEMMA InitStore == Init => StoreInv /\ Store!Init
<1> SUFFICES ASSUME Init PROVE StoreInv /\ Store!Init
  OBVIOUS
<1>1. /\ io = Fresh /\ cwdBelow = FALSE /\ cmd = NoCommand /\ todo = <<>> /\ out = <<>>
      /\ stable = [content |-> Contents(Fresh), shown |-> <<>>]
  BY DEF Init
<1>2. \A f \in Files : ~Listed(Fresh, f)
  BY DEF Fresh, Listed
<1>3. Fresh \in Disk
  <2>1. Unlisted \in Entry /\ 1 \in 1 .. VolumeBlocks + 1 /\ JunkBlock \in Buffer
    <3>1. 1 \in 1 .. VolumeBlocks + 1 /\ 0 \in 0 .. BlockBytes
      BY Constants
    <3>2. Junk \in Bytes
      BY DEF Bytes
    <3> QED
      BY <3>1, <3>2 DEF Unlisted, Entry, JunkBlock, Buffer
  <2> QED
    BY <2>1 DEF Fresh, Disk
<1>4. Apart(Fresh)
  BY <1>2 DEF Apart
<1>5. Contents(Fresh) = [f \in Files |-> Absent]
  BY <1>2 DEF Contents
<1>6. NoCommand \in Local /\ Len(NoCommand.got) <= Chunk
  BY Constants DEF NoCommand, Local
<1>7. TypeInv
  <2>1. <<>> \in Seq(Bytes) /\ Len(<<>>) = 0 /\ 0 <= BlockBytes
    BY Constants
  <2>2. stable \in [content : [Files -> Seq(Bytes) \cup {Absent}], shown : Seq(Bytes) \cup {Dead}]
    BY <1>1, <1>5, <2>1
  <2> QED
    BY <1>1, <1>3, <1>6, <2>1, <2>2 DEF TypeInv
<1>8. Prompt /\ stable.content = Contents(io)
  BY <1>1 DEF Prompt
<1>9. StoreInv
  BY <1>1, <1>4, <1>7, <1>8, InitIInv DEF StoreInv
<1>10. Store!Init
  BY <1>1, <1>5 DEF Store!Init
<1> QED
  BY <1>9, <1>10

\* A command that is typed begins with arguments it can work on.
LEMMA TypedStore ==
    ASSUME SafeUse, StoreInv, IInv',
           \/ \E f \in Files : Touch(f) \/ Cat(f) \/ Cp2l(f)
           \/ \E s, d \in Files : Cp(s, d)
           \/ \E t \in Texts \cup {Absent}, d \in Files : Cp2fs(t, d)
    PROVE  StoreInv' /\ Store!NoChange
<1>1. NoCommand \in Local /\ Chunk - 1 \in 0 .. Chunk /\ Chunk - 1 > 0 /\ Chunk \in 0 .. Chunk /\ Chunk > 0
  BY Constants DEF NoCommand, Local
<1>2. ASSUME NEW c \in Local, Begin(c), c.got = <<>>, c.name \in Commands,
             c.name \in {"cat", "cp", "cp2l"} => c.src \in Files,
             c.name \in {"cp", "cp2fs"} => ~Private(c.dest),
             c.name = "cp" => c.src # c.dest,
             c.name \in {"cp", "cp2l"} => Listed(io, c.src),
             c.name \in {"touch", "cp", "cp2fs"} => c.dest \in Files /\ Room(c.dest),
             c.name # "touch" => c.chunk > 0,
             c.name = "cp2fs" => c.text \in Texts
      PROVE  StoreInv' /\ Store!NoChange
  <2>1. cmd' = c /\ io' = io /\ cwdBelow' = cwdBelow
    BY <1>2 DEF Begin
  <2>2. (Private(cmd.dest))' <=> Private(c.dest)
    BY <2>1 DEF Private
  <2>3. ArgumentsInv'
    BY <1>2, <2>1, <2>2 DEF ArgumentsInv, Written
  <2> QED
    BY <1>2, <2>3, BeginStore
<1>3. ASSUME NEW f \in Files, Touch(f) PROVE StoreInv' /\ Store!NoChange
  <2> DEFINE c == [NoCommand EXCEPT !.name = "touch", !.dest = f]
  <2>1. Begin(c) /\ Room(f)
    BY <1>3 DEF Touch
  <2>2. c \in Local /\ c.got = <<>> /\ c.name = "touch" /\ c.dest = f
    BY <1>1 DEF Local, NoCommand, Steps
  <2>3. "touch" \in Commands
    BY DEF Commands, Steps
  <2> HIDE DEF c
  <2> QED
    BY <1>2, <2>1, <2>2, <2>3
<1>4. ASSUME NEW f \in Files, Cat(f) PROVE StoreInv' /\ Store!NoChange
  <2> DEFINE c == [NoCommand EXCEPT !.name = "cat", !.src = f, !.chunk = Chunk - 1]
  <2>1. Begin(c)
    BY <1>4 DEF Cat
  <2>2. c \in Local /\ c.got = <<>> /\ c.name = "cat" /\ c.src = f /\ c.chunk = Chunk - 1
    BY <1>1 DEF Local, NoCommand, Steps
  <2>3. "cat" \in Commands
    BY DEF Commands, Steps
  <2> HIDE DEF c
  <2> QED
    BY <1>1, <1>2, <2>1, <2>2, <2>3
<1>5. ASSUME NEW f \in Files, Cp2l(f) PROVE StoreInv' /\ Store!NoChange
  <2> DEFINE c == [NoCommand EXCEPT !.name = "cp2l", !.src = f, !.chunk = Chunk]
  <2>1. Begin(c) /\ Listed(io, f)
    BY <1>5 DEF Cp2l
  <2>2. c \in Local /\ c.got = <<>> /\ c.name = "cp2l" /\ c.src = f /\ c.chunk = Chunk
    BY <1>1 DEF Local, NoCommand, Steps
  <2>3. "cp2l" \in Commands
    BY DEF Commands, Steps
  <2> HIDE DEF c
  <2> QED
    BY <1>1, <1>2, <2>1, <2>2, <2>3
<1>6. ASSUME NEW s \in Files, NEW d \in Files, Cp(s, d) PROVE StoreInv' /\ Store!NoChange
  <2> DEFINE c == [NoCommand EXCEPT !.name = "cp", !.src = s, !.dest = d, !.chunk = Chunk]
  <2>1. Begin(c) /\ Listed(io, s) /\ s # d /\ ~Private(d) /\ Room(d)
    BY <1>6 DEF Cp, MayCopyTo, SafeUse
  <2>2. c \in Local /\ c.got = <<>> /\ c.name = "cp" /\ c.src = s /\ c.dest = d /\ c.chunk = Chunk
    BY <1>1 DEF Local, NoCommand, Steps
  <2>3. "cp" \in Commands
    BY DEF Commands, Steps
  <2> HIDE DEF c
  <2> QED
    BY <1>1, <1>2, <2>1, <2>2, <2>3
<1>7. ASSUME NEW t \in Texts \cup {Absent}, NEW d \in Files, Cp2fs(t, d) PROVE StoreInv' /\ Store!NoChange
  <2> DEFINE c == [NoCommand EXCEPT !.name = "cp2fs", !.dest = d, !.text = t, !.chunk = Chunk]
  <2>1. Begin(c) /\ t \in Texts /\ t \in Seq(Bytes) /\ ~Private(d) /\ Room(d)
    BY <1>7, ShellAssumption DEF Cp2fs, MayCopyTo, SafeUse
  <2>2. /\ c \in Local /\ c.got = <<>> /\ c.name = "cp2fs" /\ c.dest = d /\ c.chunk = Chunk
        /\ c.text = t
    BY <1>1, <2>1 DEF Local, NoCommand, Steps
  <2>3. "cp2fs" \in Commands
    BY DEF Commands, Steps
  <2> HIDE DEF c
  <2> QED
    BY <1>1, <1>2, <2>1, <2>2, <2>3
<1> QED
  BY <1>3, <1>4, <1>5, <1>6, <1>7

\* Every step keeps the invariant, and is a step of FileStore or none.
LEMMA NextStore == SafeUse /\ StoreInv /\ [Next]_vars => StoreInv' /\ [Store!Next]_(Store!vars)
<1> SUFFICES ASSUME SafeUse, StoreInv, [Next]_vars PROVE StoreInv' /\ [Store!Next]_(Store!vars)
  OBVIOUS
<1>1. IInv'
  BY Always, NextIInv
<1>2. Store!NoChange => Store!Next
  BY DEF Store!Next
<1>3. CASE CodeStep
  BY <1>1, <1>3, OpenSourceStore, OpenDestStore, ReadStore, ReadLinuxStore, WriteStore, EmitStore,
     CloseSourceStore, CloseDestStore DEF CodeStep
<1>4. CASE Crash
  BY <1>1, <1>4, CrashStore
<1>5. CASE \E f \in Files : Rm(f)
  BY <1>1, <1>5, RmStore
<1>6. CASE \E below \in BOOLEAN : Cd(below)
  BY <1>1, <1>2, <1>6, CdStore
<1>7. CASE \/ \E f \in Files : Touch(f) \/ Cat(f) \/ Cp2l(f)
           \/ \E s, d \in Files : Cp(s, d)
           \/ \E t \in Texts \cup {Absent}, d \in Files : Cp2fs(t, d)
  BY <1>1, <1>2, <1>7, TypedStore
<1>8. CASE UNCHANGED vars
  <2>1. /\ io' = io /\ cwdBelow' = cwdBelow /\ cmd' = cmd /\ todo' = todo /\ out' = out
        /\ stable' = stable
    BY <1>8 DEF vars
  <2>2. UNCHANGED Store!vars
    BY <2>1 DEF Store!vars
  <2>3. TypeInv' /\ Apart(io)' /\ (Prompt' <=> Prompt)
    BY <2>1, Always DEF TypeInv, Prompt
  <2>4. (ArgumentsInv /\ OthersInv /\ ProgressInv)' <=> (ArgumentsInv /\ OthersInv /\ ProgressInv)
    BY <2>1 DEF ArgumentsInv, OthersInv, ProgressInv, Written, Private, BeforeOpen, BeforeRead,
       BeforeWrite, BeforeClose, Untouched, Room, Sources, HasRead, HasMoved
  <2> QED
    BY <1>1, <2>1, <2>2, <2>3, <2>4 DEF StoreInv
<1> QED
  BY <1>3, <1>4, <1>5, <1>6, <1>7, <1>8 DEF Next

\* Whatever a command has done so far, it has read and written a beginning of
\* the content it moves, and has touched no file but its destination
\* (fsshell.c:346, 519).
THEOREM StoreIsKept == SafeUse => (Spec => []StoreInv)
<1> SUFFICES ASSUME SafeUse PROVE Spec => []StoreInv
  OBVIOUS
<1>1. Init => StoreInv
  BY InitStore
<1>2. StoreInv /\ [Next]_vars => StoreInv'
  BY NextStore
<1> QED
  BY <1>1, <1>2, PTL DEF Spec

\* The types of the variables.
THEOREM TypeCorrect == SafeUse => (Spec => []TypeOK)
<1> SUFFICES ASSUME SafeUse PROVE Spec => []TypeOK
  OBVIOUS
<1>1. StoreInv => TypeOK
  <2> SUFFICES ASSUME StoreInv PROVE TypeOK
    OBVIOUS
  <2>1. /\ io \in Disk /\ cwdBelow \in BOOLEAN /\ cmd \in Local /\ Len(cmd.got) <= Chunk
        /\ Len(out) <= BlockBytes /\ IInv
    BY Always
  <2>2. io.entry \in [Files -> Entry] /\ io.next \in 1 .. VolumeBlocks + 1
    BY <2>1 DEF Disk
  <2>3. ASSUME ~Prompt PROVE Range(todo) \subseteq Range(Steps[cmd.name])
    <3> DEFINE S == Steps[cmd.name]
    <3>1. PICK k \in 1 .. Len(S) : todo = SubSeq(S, k, Len(S))
      BY <2>1, <2>3, Somewhere
    <3>2. S \in Seq(Calls) /\ Len(S) \in Nat
      BY <2>1, <2>3, Somewhere, StepsInOrder DEF InOrder
    <3> HIDE DEF S
    <3>3. SubSeq(S, k, Len(S)) \in Seq(Calls) /\ Len(SubSeq(S, k, Len(S))) = Len(S) - k + 1
          /\ \A i \in 1 .. Len(S) - k + 1 : SubSeq(S, k, Len(S))[i] = S[k + i - 1]
      BY <3>2
    <3>4. ASSUME NEW i \in DOMAIN todo PROVE todo[i] \in Range(S)
      <4>1. i \in 1 .. Len(S) - k + 1 /\ k + i - 1 \in 1 .. Len(S)
        BY <3>1, <3>2, <3>3, <3>4
      <4>2. k + i - 1 \in DOMAIN S /\ todo[i] = S[k + i - 1]
        BY <3>1, <3>2, <3>3, <4>1
      <4> QED
        BY <4>2 DEF Range
    <3>5. Range(todo) \subseteq Range(S)
      BY <3>4 DEF Range
    <3> QED
      BY <3>5 DEF S
  <2> QED
    BY <2>1, <2>2, <2>3, LocalFields DEF TypeOK, Entry
<1> QED
  BY <1>1, StoreIsKept, PTL

\* The shell keeps the promise of FileStore: after a copy the destination is
\* equal to the source, cat and cp2l show what is there, no command touches
\* another file, and a crash harms the destination only (fsshell.c:346, 519).
THEOREM ImplementsFileStore == SafeUse => (Spec => StoreSpec)
<1> SUFFICES ASSUME SafeUse PROVE Spec => StoreSpec
  OBVIOUS
<1>1. Init => StoreInv /\ Store!Init
  BY InitStore
<1>2. StoreInv /\ [Next]_vars => StoreInv' /\ [Store!Next]_(Store!vars)
  BY NextStore
<1> QED
  BY <1>1, <1>2, PTL DEF Spec, StoreSpec, Store!Spec
=============================================================================
