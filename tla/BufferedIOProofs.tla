--------------------------- MODULE BufferedIOProofs ---------------------------
(***************************************************************************)
(* Proofs about BufferedIO: what is written into files of one block is     *)
(* read back and kept, whatever else is opened, written, read, moved,      *)
(* closed and removed in between.                                          *)
(***************************************************************************)
EXTENDS BufferedIO, LeastElements, SequenceTheorems

-----------------------------------------------------------------------------
(* Numbers.                                                                *)

\* SmallerOf chooses the smaller of two numbers.
LEMMA SmallerIs ==
    ASSUME NEW a \in Int, NEW b \in Int
    PROVE  SmallerOf(a, b) = IF a <= b THEN a ELSE b
<1> DEFINE m == IF a <= b THEN a ELSE b
<1>1. m \in {a, b} /\ \A y \in {a, b} : m <= y
  OBVIOUS
<1>2. \A x \in {a, b} : (\A y \in {a, b} : x <= y) => x = m
  OBVIOUS
<1> QED
  BY <1>1, <1>2 DEF SmallerOf, Min

\* So does Max the greater one.
LEMMA GreaterIs ==
    ASSUME NEW a \in Int, NEW b \in Int
    PROVE  Max({a, b}) = IF a <= b THEN b ELSE a
<1> DEFINE m == IF a <= b THEN b ELSE a
<1>1. m \in {a, b} /\ \A y \in {a, b} : m >= y
  OBVIOUS
<1>2. \A x \in {a, b} : (\A y \in {a, b} : x >= y) => x = m
  OBVIOUS
<1> QED
  BY <1>1, <1>2 DEF Max

\* The constants as the code has them: one block has room for every file.
LEMMA Constants ==
    ASSUME SafeUse
    PROVE  /\ BlockBytes \in Nat /\ BlockBytes > 0 /\ MaxBytes \in Nat /\ MaxBytes <= BlockBytes
           /\ VolumeBlocks \in Nat /\ MaxFcbs \in Nat /\ MaxFcbs > 0
           /\ "none" \notin Files
  BY FileOpsAssumption, BufferedIOAssumption DEF SafeUse

\* Within one block, positions are offsets, and the end is the next block's start.
LEMMA OneBlock ==
    ASSUME SafeUse, NEW n \in 0 .. MaxBytes
    PROVE  /\ n < BlockBytes => n \div BlockBytes = 0 /\ n % BlockBytes = n /\ n \in Offsets
           /\ n >= BlockBytes => n = BlockBytes /\ n \div BlockBytes = 1 /\ n % BlockBytes = 0
<1>1. BlockBytes \in Nat /\ BlockBytes > 0 /\ n \in Nat /\ n <= BlockBytes
  BY Constants
<1>2. n < BlockBytes => n \div BlockBytes = 0 /\ n % BlockBytes = n
  BY <1>1
<1>3. BlockBytes \div BlockBytes = 1 /\ BlockBytes % BlockBytes = 0
  BY <1>1
<1> QED
  BY <1>1, <1>2, <1>3 DEF Offsets

-----------------------------------------------------------------------------
(* b_write: the bytes one after the other.                                 *)

\* What PutByte works on.
Memory  == [Blocks -> Buffer]
AnyFcb  == [file : Files, flags : Modes, private : {FALSE}, own : {Unlisted},
            index : 0 .. BlockBytes, currentBlk : Nat, buflen : 0 .. BlockBytes, buf : Buffer]
Written == [c : AnyFcb, data : Memory, start : Nat]

Updated(s, i, blk, buf, data) ==
    [s EXCEPT !.c.buf = buf, !.c.index = i, !.c.currentBlk = blk, !.data = data]

\* The fields of an updated record.
LEMMA UpdatedStart ==
    ASSUME NEW s \in Written, NEW i, NEW blk, NEW buf, NEW data, NEW w,
           w = Updated(s, i, blk, buf, data)
    PROVE  w.start = s.start /\ w.data = data
  BY DEF Updated, Written

\* And those of its descriptor.
LEMMA UpdatedFcb ==
    ASSUME NEW s \in Written, NEW i, NEW blk, NEW buf, NEW data, NEW w,
           w = Updated(s, i, blk, buf, data)
    PROVE  /\ w.c.file = s.c.file /\ w.c.flags = s.c.flags /\ w.c.buflen = s.c.buflen
           /\ w.c.buf = buf /\ w.c.index = i /\ w.c.currentBlk = blk
<1>1. s.c \in AnyFcb /\ w.c = [s.c EXCEPT !.buf = buf, !.index = i, !.currentBlk = blk]
  BY DEF Updated, Written
<1> QED
  BY <1>1 DEF AnyFcb

\* It is of its type if the new values are.
LEMMA UpdatedTyped ==
    ASSUME NEW s \in Written, NEW i \in 0 .. BlockBytes, NEW blk \in Nat, NEW buf \in Buffer,
           NEW data \in Memory
    PROVE  Updated(s, i, blk, buf, data) \in Written
  BY DEF Updated, Written, AnyFcb

\* A byte more, and everything is still of its type; where it went.
LEMMA PutByteIs ==
    ASSUME SafeUse, NEW s \in Written, NEW byte \in Byte
    PROVE  LET i   == IF s.c.index = BlockBytes THEN 0 ELSE s.c.index
               buf == [s.c.buf EXCEPT ![i] = byte]
               blk == s.c.currentBlk
           IN  /\ i \in Offsets /\ buf \in Buffer
               /\ PutByte(s, byte) \in Written
               /\ PutByte(s, byte) =
                    IF i + 1 = BlockBytes
                    THEN Updated(s, 0, blk + 1, buf, WriteBlock(s.data, s.start + blk, buf))
                    ELSE Updated(s, i + 1, blk, buf, s.data)
<1> DEFINE i   == IF s.c.index = BlockBytes THEN 0 ELSE s.c.index
           buf == [s.c.buf EXCEPT ![i] = byte]
           blk == s.c.currentBlk
<1>1. s.c \in AnyFcb /\ s.data \in Memory
  BY DEF Written
<1>2. i \in Offsets
  <2>1. BlockBytes \in Nat /\ BlockBytes > 0 /\ s.c.index \in 0 .. BlockBytes
    BY <1>1, Constants DEF AnyFcb
  <2> QED
    BY <2>1 DEF Offsets
<1>3. buf \in Buffer
  BY <1>1, <1>2 DEF Buffer, AnyFcb
<1>4. blk \in Nat
  BY <1>1 DEF AnyFcb
<1>5. WriteBlock(s.data, s.start + blk, buf) \in Memory
  BY <1>1, <1>3 DEF WriteBlock, Memory
<1>6. CASE i + 1 = BlockBytes
  <2>1. PutByte(s, byte) = Updated(s, 0, blk + 1, buf, WriteBlock(s.data, s.start + blk, buf))
    BY <1>6 DEF PutByte, Full, Updated
  <2>2. 0 \in 0 .. BlockBytes /\ blk + 1 \in Nat
    BY <1>4, Constants
  <2> HIDE DEF i, buf, blk
  <2>3. PutByte(s, byte) \in Written
    BY <1>3, <1>5, <2>1, <2>2, UpdatedTyped
  <2> QED
    BY <1>2, <1>3, <1>6, <2>1, <2>3 DEF i, buf, blk
<1>7. CASE i + 1 # BlockBytes
  <2>1. PutByte(s, byte) = Updated(s, i + 1, blk, buf, s.data)
    BY <1>7 DEF PutByte, Full, Updated
  <2>2. i + 1 \in 0 .. BlockBytes
    BY <1>2, Constants DEF Offsets
  <2> HIDE DEF i, buf, blk
  <2>3. PutByte(s, byte) \in Written
    BY <1>1, <1>3, <1>4, <2>1, <2>2, UpdatedTyped
  <2> QED
    BY <1>2, <1>3, <1>7, <2>1, <2>3 DEF i, buf, blk
<1> QED
  BY <1>6, <1>7

\* In the first block, a byte goes to the offset that is the index.
LEMMA PutByteInBlock ==
    ASSUME SafeUse, NEW s \in Written, NEW byte \in Byte, NEW i, i = s.c.index, i < BlockBytes,
           s.c.currentBlk = 0, NEW buf, buf = [s.c.buf EXCEPT ![i] = byte]
    PROVE  /\ buf \in Buffer /\ PutByte(s, byte) \in Written
           /\ i + 1 = BlockBytes =>
                PutByte(s, byte) = Updated(s, 0, 1, buf, WriteBlock(s.data, s.start, buf))
           /\ i + 1 # BlockBytes => PutByte(s, byte) = Updated(s, i + 1, 0, buf, s.data)
<1>1. (IF s.c.index = BlockBytes THEN 0 ELSE s.c.index) = i /\ s.start + 0 = s.start /\ 0 + 1 = 1
  BY Constants DEF Written, AnyFcb
<1>2. buf \in Buffer /\ PutByte(s, byte) \in Written
  BY <1>1, PutByteIs
<1>3. PutByte(s, byte) = IF i + 1 = BlockBytes
                         THEN Updated(s, 0, 0 + 1, buf, WriteBlock(s.data, s.start + 0, buf))
                         ELSE Updated(s, i + 1, 0, buf, s.data)
  BY <1>1, PutByteIs
<1> QED
  BY <1>1, <1>2, <1>3

Folded(base, bytes) == FoldLeft(PutByte, base, bytes)

\* The states the fold goes through; it is the last of them.
RunsThrough(w, base, bytes, n) ==
    /\ w \in [0 .. n -> Written] /\ w[0] = base
    /\ \A k \in 1 .. n : w[k] = PutByte(w[k - 1], bytes[k])
    /\ Folded(base, bytes) = w[n]

\* A fold goes through such states.
LEMMA FoldedBytes ==
    ASSUME SafeUse, NEW base \in Written, NEW n \in Nat, NEW bytes \in [1 .. n -> Byte]
    PROVE  \E w : RunsThrough(w, base, bytes, n)
<1> DEFINE step == [k \in 1 .. n |-> [s \in Written |-> PutByte(s, bytes[k])]]
           Table(g) == g = [s \in SUBSET (1 .. n) |->
                              IF s = {} THEN base ELSE PutByte(g[s \ {Max(s)}], bytes[Max(s)])]
<1>1. step \in [1 .. n -> [Written -> Written]]
  BY PutByteIs
<1>2. ASSUME NEW s \in SUBSET (1 .. n), s # {} PROVE Max(s) \in s /\ \A x \in s : x <= Max(s)
  <2>1. s \subseteq Nat /\ \A x \in s : x <= n
    OBVIOUS
  <2> QED
    BY <1>2, <2>1, MaxNat
<1>3. \E g : Table(g)
  <2>1. PICK g \in [SUBSET (1 .. n) -> Written] : IsFoldTable(g, n, base, step)
    <3>1. base \in Written /\ n \in Nat
      OBVIOUS
    <3> HIDE DEF step, Table
    <3> QED
      BY <1>1, <3>1, FoldTable
  <2>2. ASSUME NEW s \in SUBSET (1 .. n), s # {}
        PROVE  step[Max(s)][g[s \ {Max(s)}]] = PutByte(g[s \ {Max(s)}], bytes[Max(s)])
    <3>1. Max(s) \in 1 .. n /\ g[s \ {Max(s)}] \in Written
      BY <1>2, <2>2
    <3> QED
      BY <3>1
  <2>3. \A s \in SUBSET (1 .. n) :
          g[s] = IF s = {} THEN base ELSE PutByte(g[s \ {Max(s)}], bytes[Max(s)])
    <3> HIDE DEF step
    <3> QED
      BY <2>1, <2>2 DEF IsFoldTable
  <2> QED
    BY <2>3
<1> DEFINE g == CHOOSE g : Table(g)
<1>4. Table(g)
  BY <1>3
<1>5. Folded(base, bytes) = g[1 .. n]
  BY DEF Folded, FoldLeft, MapThenFoldSet
<1>6. ASSUME NEW k \in 0 .. n PROVE 1 .. k \in SUBSET (1 .. n)
  OBVIOUS
<1>7. g[1 .. 0] = base
  <2>1. 1 .. 0 = {} /\ {} \in SUBSET (1 .. n)
    OBVIOUS
  <2> HIDE DEF g
  <2> QED
    BY <1>4, <2>1
<1>8. ASSUME NEW k \in 1 .. n PROVE g[1 .. k] = PutByte(g[1 .. k - 1], bytes[k])
  <2>1. 1 .. k \in SUBSET (1 .. n) /\ 1 .. k # {} /\ (1 .. k) \ {k} = 1 .. k - 1
    OBVIOUS
  <2>2. Max(1 .. k) = k
    <3>1. Max(1 .. k) \in 1 .. k /\ \A x \in 1 .. k : x <= Max(1 .. k)
      BY <1>2, <2>1
    <3>2. k \in 1 .. k
      OBVIOUS
    <3> QED
      BY <3>1, <3>2
  <2> HIDE DEF g
  <2> QED
    BY <1>4, <2>1, <2>2
<1> DEFINE w == [k \in 0 .. n |-> g[1 .. k]]
           P == {k \in 0 .. n : w[k] \in Written}
<1>9. 0 .. n \subseteq P
  <2>1. 0 \in P
    BY <1>7
  <2>2. ASSUME NEW k \in 0 .. n - 1, k \in P PROVE k + 1 \in P
    <3>1. k + 1 \in 1 .. n /\ (k + 1) - 1 = k /\ k \in 0 .. n
      OBVIOUS
    <3>2. w[k + 1] = PutByte(w[k], bytes[k + 1])
      <4> HIDE DEF g
      <4> QED
        BY <1>8, <3>1
    <3>3. w[k] \in Written /\ bytes[k + 1] \in Byte
      BY <2>2, <3>1
    <3> HIDE DEF w
    <3>4. w[k + 1] \in Written
      BY <3>2, <3>3, PutByteIs
    <3> QED
      BY <3>1, <3>4
  <2> HIDE DEF P
  <2> QED
    BY <2>1, <2>2, BoundedInduction
<1>10. w \in [0 .. n -> Written]
  BY <1>9
<1>11. w[0] = base /\ Folded(base, bytes) = w[n]
  <2>1. 0 \in 0 .. n /\ n \in 0 .. n
    OBVIOUS
  <2> HIDE DEF g
  <2> QED
    BY <1>5, <1>7, <2>1
<1>12. ASSUME NEW k \in 1 .. n PROVE w[k] = PutByte(w[k - 1], bytes[k])
  <2>1. k \in 0 .. n /\ k - 1 \in 0 .. n
    OBVIOUS
  <2> HIDE DEF g
  <2> QED
    BY <1>8, <2>1
<1> HIDE DEF w
<1>13. RunsThrough(w, base, bytes, n)
  BY <1>10, <1>11, <1>12 DEF RunsThrough
<1> QED
  BY <1>13

-----------------------------------------------------------------------------
(* The state and its parts.                                                *)

\* Types of the parts of io.
LEMMA IoTypes ==
    ASSUME TypeInv
    PROVE  /\ io.data \in Memory /\ io.entry \in [Files -> Entry]
           /\ io.fcb \in [Fds -> Fcb \cup {Closed}] /\ io.next \in 1 .. VolumeBlocks + 1
           /\ io = [data |-> io.data, entry |-> io.entry, fcb |-> io.fcb, next |-> io.next]
  BY DEF TypeInv, Memory

\* An open descriptor has the fields of one; a closed one has no file.
LEMMA OpenFields ==
    ASSUME SafeUse, TypeInv, NEW fd \in Fds
    PROVE  /\ IsOpen(io, fd) <=> io.fcb[fd] \in Fcb
           /\ ~IsOpen(io, fd) <=> io.fcb[fd] = Closed
           /\ \A f \in Files : fd \in OpenFor(io, f) <=> IsOpen(io, fd) /\ io.fcb[fd].file = f
<1>1. io.fcb[fd] \in Fcb \cup {Closed}
  BY IoTypes
<1>2. Closed \notin Fcb /\ Closed.file \notin Files
  BY Constants DEF Closed, Fcb
<1> QED
  BY <1>1, <1>2 DEF IsOpen, OpenFor

\* An open descriptor is not a closed one.
LEMMA FcbOpen ==
    ASSUME SafeUse, NEW c \in Fcb
    PROVE  c # Closed
<1>1. c.file \in Files
  BY DEF Fcb
<1>2. Closed.file \notin Files
  BY Constants DEF Closed
<1> QED
  BY <1>1, <1>2

\* The fields of an open descriptor.
LEMMA FcbFields ==
    ASSUME NEW c \in Fcb
    PROVE  /\ c.file \in Files /\ c.flags \in Modes /\ c.private = FALSE /\ c.own = Unlisted
           /\ c.index \in 0 .. BlockBytes /\ c.currentBlk \in {0, 1}
           /\ c.buflen \in 0 .. BlockBytes /\ c.buf \in Buffer
           /\ EntryOf(io, c) = io.entry[c.file]
  BY DEF Fcb, EntryOf

\* It has what the bytes are put into.
LEMMA FcbAny ==
    ASSUME NEW c \in Fcb
    PROVE  c \in AnyFcb
<1>1. c = [file |-> c.file, flags |-> c.flags, private |-> c.private, own |-> c.own,
           index |-> c.index, currentBlk |-> c.currentBlk, buflen |-> c.buflen, buf |-> c.buf]
  BY DEF Fcb
<1>2. c.currentBlk \in {0, 1}
  BY FcbFields
<1>3. c.currentBlk \in Nat
  BY <1>2
<1> QED
  BY <1>1, <1>3, FcbFields DEF AnyFcb

\* The fields of an entry.
LEMMA EntryFields ==
    ASSUME NEW e \in Entry
    PROVE  /\ e.start \in Blocks \cup {0} /\ e.size \in 0 .. MaxBytes
           /\ e = [start |-> e.start, size |-> e.size]
  BY DEF Entry

\* The byte at a position of a file is in its only block.
LEMMA DiskByte ==
    ASSUME SafeUse, NEW e \in Entry, NEW p \in 0 .. e.size - 1
    PROVE  p \in Offsets /\ p \div BlockBytes = 0 /\ p % BlockBytes = p
<1>1. e.size \in 0 .. MaxBytes
  BY EntryFields
<1>2. p \in 0 .. MaxBytes /\ p < BlockBytes
  BY <1>1, Constants
<1> QED
  BY <1>2, OneBlock

-----------------------------------------------------------------------------
(* One step: a descriptor, the file it is of, and the block of the file.   *)

\* DescriptorInv of a descriptor c at position q of a file with the entry e
\* and the g-th content.
Fits(c, e, q, g) ==
    /\ e # Unlisted
    /\ Position(c) = q /\ q <= e.size
    /\ ~Readable(c.flags) => c.index < BlockBytes
    /\ Readable(c.flags) /\ (q < e.size \/ ~Writable(c.flags)) => c.buflen = e.size
    /\ c.currentBlk = 0 \/ ~Writable(c.flags) => \A p \in 0 .. e.size - 1 : c.buf[p] = <<c.file, g, p>>

\* It is the same.
LEMMA DescriptorFits ==
    ASSUME NEW fd \in Fds
    PROVE  DescriptorInv(fd) <=>
             Fits(io.fcb[fd], io.entry[io.fcb[fd].file], pos[fd], gen[io.fcb[fd].file])
  BY DEF DescriptorInv, Fits, Listed, Truth

\* What a call on descriptor fd of file f may do: it leaves the blocks of the
\* other files alone, and the entry of a file that others have open.
MayStep(fd, f, c, e, data, next, q, g) ==
    /\ c \in Fcb \cup {Closed} /\ e \in Entry /\ data \in Memory
    /\ next \in 1 .. VolumeBlocks + 1 /\ q \in 0 .. MaxBytes /\ g \in {0, 1}
    /\ IsOpen(io, fd) => io.fcb[fd].file = f
    /\ e.start \in Blocks /\ io.next <= next /\ e.start < next
    /\ Listed(io, f) => e.start = io.entry[f].start
    /\ ~Listed(io, f) => e.start >= io.next
    /\ \A b \in Blocks : b # e.start => data[b] = io.data[b]
    /\ \A gd \in Fds \ {fd} : IsOpen(io, gd) /\ io.fcb[gd].file = f =>
         /\ io.fcb[gd].flags = {} /\ (c # Closed => c.flags = {})
         /\ e = io.entry[f] /\ g = gen[f]
    /\ c # Closed => c.file = f /\ Fits(c, e, q, g)
    /\ c = Closed \/ ~Writable(c.flags) \/ c.index = 0 =>
         \A p \in 0 .. e.size - 1 : data[e.start][p] = <<f, g, p>>

\* It does it.
Steps(fd, f, c, e, data, next, q, g) ==
    /\ io' = [data |-> data, entry |-> [io.entry EXCEPT ![f] = e],
              fcb |-> [io.fcb EXCEPT ![fd] = c], next |-> next]
    /\ pos' = [pos EXCEPT ![fd] = q]
    /\ gen' = [gen EXCEPT ![f] = g]
    /\ faithful' = TRUE

\* Then everything is in order again.
LEMMA FileStep ==
    ASSUME SafeUse, IInv, NEW fd \in Fds, NEW f \in Files, NEW c, NEW e, NEW data, NEW next,
           NEW q, NEW g, MayStep(fd, f, c, e, data, next, q, g), Steps(fd, f, c, e, data, next, q, g)
    PROVE  IInv'
<1> USE DEF IInv
<1>0. /\ c \in Fcb \cup {Closed} /\ e \in Entry /\ data \in Memory
      /\ next \in 1 .. VolumeBlocks + 1 /\ q \in 0 .. MaxBytes /\ g \in {0, 1}
      /\ e.start \in Blocks /\ io.next <= next /\ e.start < next
  BY DEF MayStep
<1>1. /\ io'.data = data /\ io'.next = next
      /\ io'.entry = [io.entry EXCEPT ![f] = e] /\ io'.fcb = [io.fcb EXCEPT ![fd] = c]
      /\ pos' = [pos EXCEPT ![fd] = q] /\ gen' = [gen EXCEPT ![f] = g] /\ faithful' = TRUE
  BY DEF Steps
<1>2. TypeInv'
  <2>1. io'.entry \in [Files -> Entry] /\ io'.fcb \in [Fds -> Fcb \cup {Closed}]
    BY <1>0, <1>1, IoTypes
  <2>2. io' \in [data : [Blocks -> Buffer], entry : [Files -> Entry],
                 fcb : [Fds -> Fcb \cup {Closed}], next : 1 .. VolumeBlocks + 1]
    BY <1>0, <2>1 DEF Memory, Steps
  <2>3. pos' \in [Fds -> 0 .. MaxBytes] /\ gen' \in [Files -> {0, 1}]
    BY <1>0, <1>1 DEF TypeInv
  <2> QED
    BY <1>1, <2>2, <2>3 DEF TypeInv
<1>3. /\ io.entry \in [Files -> Entry] /\ io.fcb \in [Fds -> Fcb \cup {Closed}]
      /\ pos \in [Fds -> 0 .. MaxBytes] /\ gen \in [Files -> {0, 1}]
      /\ io.next \in 1 .. VolumeBlocks + 1 /\ VolumeBlocks \in Nat
  BY IoTypes, Constants DEF TypeInv
<1>4. /\ io'.entry[f] = e /\ \A h \in Files \ {f} : io'.entry[h] = io.entry[h]
      /\ io'.fcb[fd] = c /\ \A gd \in Fds \ {fd} : io'.fcb[gd] = io.fcb[gd]
      /\ pos'[fd] = q /\ \A gd \in Fds \ {fd} : pos'[gd] = pos[gd]
      /\ gen'[f] = g /\ \A h \in Files \ {f} : gen'[h] = gen[h]
  BY <1>1, <1>3
<1>5. /\ Listed(io, f)' /\ e # Unlisted
      /\ \A h \in Files \ {f} : Listed(io, h)' <=> Listed(io, h)
  BY <1>0, <1>4, Constants DEF Listed, Unlisted, Blocks
<1>6. BlocksInv'
  <2>1. ASSUME NEW h \in Files, Listed(io, h)' PROVE io'.entry[h].start \in 1 .. io'.next - 1
    <3>1. CASE h = f
      BY <1>0, <1>1, <1>3, <1>4, <3>1 DEF Blocks
    <3>2. CASE h # f
      <4>1. io.entry[h].start \in 1 .. io.next - 1
        BY <1>5, <2>1, <3>2 DEF BlocksInv
      <4> QED
        BY <1>0, <1>1, <1>3, <1>4, <3>2, <4>1
    <3> QED
      BY <3>1, <3>2
  <2>2. ASSUME NEW h \in Files \ {f}, Listed(io, h) PROVE io.entry[h].start # e.start
    <3>1. io.entry[h].start \in 1 .. io.next - 1
      BY <2>2 DEF BlocksInv
    <3>2. CASE Listed(io, f)
      BY <2>2, <3>2 DEF BlocksInv, MayStep
    <3>3. CASE ~Listed(io, f)
      BY <1>3, <3>1, <3>3 DEF Blocks, MayStep
    <3> QED
      BY <3>2, <3>3
  <2>3. ASSUME NEW h \in Files, NEW k \in Files, Listed(io, h)', Listed(io, k)', h # k
        PROVE  io'.entry[h].start # io'.entry[k].start
    <3>1. CASE h = f \/ k = f
      BY <1>4, <1>5, <2>2, <2>3, <3>1
    <3>2. CASE h # f /\ k # f
      BY <1>4, <1>5, <2>3, <3>2 DEF BlocksInv
    <3> QED
      BY <3>1, <3>2
  <2> QED
    BY <2>1, <2>3 DEF BlocksInv
<1>7. \A gd \in Fds : (IsOpen(io, gd) <=> io.fcb[gd] # Closed) /\ (IsOpen(io, gd)' <=> io'.fcb[gd] # Closed)
  BY DEF IsOpen
<1>8. SharingInv'
  <2>1. ASSUME NEW gd \in Fds, NEW hd \in Fds, IsOpen(io, gd)', IsOpen(io, hd)', gd # hd,
               io'.fcb[gd].file = io'.fcb[hd].file
        PROVE  io'.fcb[gd].flags = {}
    <3>1. CASE gd = fd
      BY <1>4, <1>7, <2>1, <3>1 DEF MayStep
    <3>2. CASE hd = fd
      BY <1>4, <1>7, <2>1, <3>2 DEF MayStep
    <3>3. CASE gd # fd /\ hd # fd
      BY <1>4, <1>7, <2>1, <3>3 DEF SharingInv
    <3> QED
      BY <3>1, <3>2, <3>3
  <2> QED
    BY <2>1 DEF SharingInv
<1>9. ASSUME NEW gd \in Fds, IsOpen(io, gd)' PROVE DescriptorInv(gd)'
  <2>1. DescriptorInv(gd)' <=>
          Fits(io'.fcb[gd], io'.entry[io'.fcb[gd].file], pos'[gd], gen'[io'.fcb[gd].file])
    BY DEF DescriptorInv, Fits, Listed, Truth
  <2>2. CASE gd = fd
    BY <1>4, <1>7, <1>9, <2>1, <2>2 DEF MayStep
  <2>3. CASE gd # fd
    <3>1. io'.fcb[gd] = io.fcb[gd] /\ IsOpen(io, gd)
      BY <1>4, <1>7, <1>9, <2>3
    <3>2. Fits(io.fcb[gd], io.entry[io.fcb[gd].file], pos[gd], gen[io.fcb[gd].file])
      BY <3>1, DescriptorFits
    <3>3. io.fcb[gd].file \in Files
      BY <3>1, OpenFields, FcbFields
    <3>4. io'.entry[io.fcb[gd].file] = io.entry[io.fcb[gd].file] /\ gen'[io.fcb[gd].file] = gen[io.fcb[gd].file]
      BY <1>4, <2>3, <3>1, <3>3 DEF MayStep
    <3> QED
      BY <1>4, <2>1, <2>3, <3>1, <3>2, <3>4
  <2> QED
    BY <2>2, <2>3
<1>10. DiskInv'
  <2>1. ASSUME NEW h \in Files,
               (\A gd \in OpenFor(io, h) : Writable(io.fcb[gd].flags) => io.fcb[gd].index = 0)',
               NEW p \in 0 .. io'.entry[h].size - 1
        PROVE  OnDisk(io, h, p)' = Truth(h, p)'
    <3>1. CASE h = f
      <4>1. c = Closed \/ ~Writable(c.flags) \/ c.index = 0
        BY <1>4, <2>1, <3>1 DEF OpenFor, MayStep
      <4>2. OnDisk(io', f, p) = io'.data[io'.entry[f].start][p]
        <5>1. p \div BlockBytes = 0 /\ p % BlockBytes = p
          BY <1>0, <1>4, <3>1, DiskByte
        <5>2. io'.entry[f].start \in Nat
          BY <1>0, <1>4 DEF Blocks
        <5> QED
          BY <5>1, <5>2 DEF OnDisk
      <4> QED
        BY <1>1, <1>4, <3>1, <4>1, <4>2 DEF Truth, MayStep
    <3>2. CASE h # f
      <4>1. io'.entry[h] = io.entry[h] /\ gen'[h] = gen[h] /\ io.entry[h] \in Entry
        BY <1>3, <1>4, <3>2
      <4>2. \A gd \in OpenFor(io, h) : Writable(io.fcb[gd].flags) => io.fcb[gd].index = 0
        <5>1. ASSUME NEW gd \in OpenFor(io, h) PROVE gd \in Fds \ {fd} /\ gd \in OpenFor(io', h)
          <6>1. gd \in Fds /\ io.fcb[gd].file = h /\ IsOpen(io, gd)
            BY OpenFields DEF OpenFor
          <6> QED
            BY <1>4, <3>2, <6>1 DEF OpenFor, MayStep
        <5> QED
          BY <1>4, <2>1, <5>1
      <4>3. OnDisk(io, h, p) = Truth(h, p)
        BY <4>1, <4>2 DEF DiskInv
      <4>4. io.entry[h].start \in Blocks \ {e.start}
        <5>1. p \in 0 .. io.entry[h].size - 1 /\ Listed(io, h)
          BY <4>1 DEF Listed, Unlisted
        <5>2. io.entry[h].start \in 1 .. io.next - 1
          BY <5>1 DEF BlocksInv
        <5>3. io'.entry[h].start # io'.entry[f].start
          BY <1>5, <1>6, <3>2, <5>1 DEF BlocksInv
        <5> QED
          BY <1>3, <1>4, <4>1, <5>2, <5>3 DEF Blocks
      <4>5. /\ OnDisk(io, h, p) = io.data[io.entry[h].start][p]
            /\ OnDisk(io', h, p) = io'.data[io'.entry[h].start][p]
        <5>1. p \div BlockBytes = 0 /\ p % BlockBytes = p
          BY <4>1, DiskByte
        <5>2. io.entry[h].start \in Nat
          BY <4>4 DEF Blocks
        <5> QED
          BY <4>1, <5>1, <5>2 DEF OnDisk
      <4> QED
        BY <1>1, <4>1, <4>3, <4>4, <4>5 DEF Truth, MayStep
    <3> QED
      BY <3>1, <3>2
  <2> QED
    BY <2>1 DEF DiskInv
<1> QED
  BY <1>2, <1>6, <1>8, <1>9, <1>10

-----------------------------------------------------------------------------
(* b_open.                                                                 *)

\* The descriptor b_open makes: where it is and what it has loaded.
JustOpened(c, f, flags, e) ==
    /\ c \in Fcb /\ c.file = f /\ c.flags = flags
    /\ Position(c) = IF "APPEND" \in flags THEN e.size ELSE 0
    /\ c.index < BlockBytes
    /\ Readable(flags) => c.buflen = e.size
    /\ e.size > 0 /\ (Readable(flags) \/ ("APPEND" \in flags /\ c.currentBlk = 0)) =>
         c.buf = io.data[e.start]

\* b_open makes it so.
LEMMA NewFcbIs ==
    ASSUME SafeUse, TypeInv, NEW f \in Files, NEW flags \in Modes, NEW e \in Entry,
           e.start \in Blocks
    PROVE  JustOpened(NewFcb(io, f, flags, FALSE, e), f, flags, e)
<1> DEFINE append == "APPEND" \in flags
           blk    == IF append THEN e.size \div BlockBytes ELSE 0
           index  == IF append THEN e.size % BlockBytes ELSE 0
           first  == IF Readable(flags) /\ e.size > 0
                     THEN ReadBlock(io.data, e.start, JunkBlock) ELSE JunkBlock
           buf    == IF AppendLoads(flags, index)
                     THEN ReadBlock(io.data, e.start + blk, first) ELSE first
           buflen == IF Readable(flags) THEN SmallerOf(e.size, BlockBytes) ELSE 0
           c      == NewFcb(io, f, flags, FALSE, e)
<1>1. c = [file |-> f, flags |-> flags, private |-> FALSE, own |-> Unlisted,
           index |-> index, currentBlk |-> blk, buflen |-> buflen, buf |-> buf]
  BY DEF NewFcb
<1>2. e.size \in 0 .. MaxBytes /\ BlockBytes \in Nat /\ BlockBytes > 0 /\ MaxBytes <= BlockBytes
      /\ MaxBytes \in Nat
  BY EntryFields, Constants
<1>3. /\ blk \in {0, 1} /\ index \in 0 .. BlockBytes /\ index < BlockBytes
      /\ blk * BlockBytes + index = IF append THEN e.size ELSE 0
      /\ append /\ blk = 0 => index = e.size
      /\ index > 0 => blk = 0
  <2>1. CASE ~append
    BY <1>2, <2>1
  <2>2. CASE append /\ e.size < BlockBytes
    <3>1. blk = 0 /\ index = e.size
      BY <1>2, <2>2, OneBlock
    <3> HIDE DEF blk, index
    <3> QED
      BY <1>2, <2>2, <3>1
  <2>3. CASE append /\ e.size >= BlockBytes
    <3>1. blk = 1 /\ index = 0 /\ e.size = BlockBytes
      BY <1>2, <2>3, OneBlock
    <3> HIDE DEF blk, index
    <3> QED
      BY <1>2, <2>3, <3>1
  <2> QED
    BY <1>2, <2>1, <2>2, <2>3
<1>4. SmallerOf(e.size, BlockBytes) = e.size
  BY <1>2, SmallerIs
<1>5. buflen \in 0 .. BlockBytes /\ (Readable(flags) => buflen = e.size)
  BY <1>2, <1>4
<1>6. JunkBlock \in Buffer
  BY DEF JunkBlock, Buffer, Byte
<1>7. io.data \in [Blocks -> Buffer]
  BY IoTypes DEF Memory
<1> HIDE DEF index, blk, buflen
<1>8. first \in Buffer /\ (Readable(flags) /\ e.size > 0 => first = io.data[e.start])
  BY <1>6, <1>7 DEF ReadBlock
<1> HIDE DEF first
<1>9. /\ buf \in Buffer
      /\ AppendLoads(flags, index) => buf = io.data[e.start]
      /\ ~AppendLoads(flags, index) => buf = first
  <2>1. AppendLoads(flags, index) => e.start + blk = e.start
    <3>1. AppendLoads(flags, index) => blk = 0
      BY <1>3 DEF AppendLoads
    <3>2. e.start \in Nat
      BY DEF Blocks
    <3> QED
      BY <3>1, <3>2
  <2> QED
    BY <1>7, <1>8, <2>1 DEF ReadBlock
<1>10. e.size > 0 /\ (Readable(flags) \/ (append /\ blk = 0)) => buf = io.data[e.start]
  <2>1. ~Readable(flags) => Writable(flags)
    BY DEF Readable, Writable
  <2>2. e.size > 0 /\ ~Readable(flags) /\ append /\ blk = 0 => AppendLoads(flags, index)
    BY <1>2, <1>3, <2>1 DEF AppendLoads
  <2> QED
    BY <1>8, <1>9, <2>2
<1> HIDE DEF buf, append, c
<1>11. c \in Fcb
  BY <1>1, <1>3, <1>5, <1>9 DEF Fcb
<1>12. Position(c) = blk * BlockBytes + index
  BY <1>1 DEF Position
<1>13. /\ c.file = f /\ c.flags = flags /\ c.index = index /\ c.currentBlk = blk
       /\ c.buflen = buflen /\ c.buf = buf
  BY <1>1
<1> QED
  <2>1. JustOpened(c, f, flags, e)
    BY <1>3, <1>5, <1>10, <1>11, <1>12, <1>13 DEF append, JustOpened
  <2> QED
    BY <2>1 DEF c

\* While only readers have a file open, the disk has all of it.
LEMMA ContentOnDisk ==
    ASSUME SafeUse, IInv, NEW f \in Files, Listed(io, f),
           \A fd \in OpenFor(io, f) : Writable(io.fcb[fd].flags) => io.fcb[fd].index = 0
    PROVE  \A p \in 0 .. io.entry[f].size - 1 : io.data[io.entry[f].start][p] = Truth(f, p)
<1> TAKE p \in 0 .. io.entry[f].size - 1
<1>1. OnDisk(io, f, p) = Truth(f, p)
  BY DEF IInv, DiskInv
<1>2. io.entry[f] \in Entry
  BY IoTypes DEF IInv
<1>3. p \div BlockBytes = 0 /\ p % BlockBytes = p
  BY <1>2, DiskByte
<1>4. io.entry[f].start \in Nat
  BY <1>2 DEF Entry, Blocks
<1> QED
  BY <1>1, <1>3, <1>4 DEF OnDisk

\* b_open: the descriptor is at the start or, to append, at the end; what was
\* there is in the buffer, or the file has been made empty.
LEMMA OpenKeeps ==
    ASSUME SafeUse, IInv, NEW f \in Files, NEW flags \in Modes, Open(f, flags)
    PROVE  IInv'
<1> DEFINE no   == FALSE
           fd   == Min(FreeFds(io))
           e    == OpenedEntry(io, f, flags)
           c    == NewFcb(io, f, flags, no, e)
           new  == ~Listed(io, f) \/ "TRUNC" \in flags
           next == IF Listed(io, f) THEN io.next ELSE io.next + 1
           q    == IF "APPEND" \in flags THEN e.size ELSE 0
           g    == IF new THEN 1 - gen[f] ELSE gen[f]
           io2  == [io EXCEPT !.entry[f] = e, !.fcb[fd] = c, !.next = next]
<1>1. TypeInv
  BY DEF IInv
<1>2. fd \in Fds /\ ~IsOpen(io, fd)
  <2>1. FreeFds(io) # {}
    BY DEF Open, b_open
  <2>2. FreeFds(io) \subseteq Nat
    BY DEF FreeFds, Fds
  <2>3. fd \in FreeFds(io)
    BY <2>1, <2>2, MinNat
  <2> HIDE DEF fd
  <2> QED
    BY <2>3 DEF FreeFds
<1>3. b_open(io, f, flags, no) = [io |-> io2, fd |-> fd]
  BY DEF Open, b_open
<1>4. /\ io' = io2
      /\ pos' = [pos EXCEPT ![fd] = IF "APPEND" \in flags THEN io'.entry[f].size ELSE 0]
      /\ gen' = [gen EXCEPT ![f] = g] /\ faithful' = faithful
      /\ Listed(io, f) \/ io.next \in Blocks
      /\ \A gd \in OpenFor(io, f) : Compatible(flags, io.fcb[gd].flags)
  <2> HIDE DEF no, io2, fd, e, c, next
  <2>1. /\ io' = b_open(io, f, flags, no).io
        /\ pos' = [pos EXCEPT ![b_open(io, f, flags, no).fd] =
                     IF "APPEND" \in flags THEN b_open(io, f, flags, no).io.entry[f].size ELSE 0]
        /\ gen' = [gen EXCEPT ![f] = g] /\ faithful' = faithful
        /\ Listed(io, f) \/ io.next \in Blocks
        /\ \A gd \in OpenFor(io, f) : Compatible(flags, io.fcb[gd].flags)
    BY DEF Open, no
  <2>2. b_open(io, f, flags, no).io = io2 /\ b_open(io, f, flags, no).fd = fd
    BY <1>3
  <2> QED
    BY <2>1, <2>2
<1> HIDE DEF no, fd
<1>5. /\ io.entry[f] \in Entry /\ io.next \in 1 .. VolumeBlocks + 1 /\ VolumeBlocks \in Nat
      /\ io.data \in Memory /\ gen[f] \in {0, 1}
  BY <1>1, IoTypes, Constants DEF TypeInv
<1>6. /\ e \in Entry /\ e.start \in Blocks /\ e.start < next /\ io.next <= next
      /\ next \in 1 .. VolumeBlocks + 1
      /\ Listed(io, f) => e.start = io.entry[f].start
      /\ ~Listed(io, f) => e.start >= io.next
      /\ new => e.size = 0
      /\ ~new => e = io.entry[f]
  <2>1. CASE Listed(io, f)
    <3>1. io.entry[f].start \in 1 .. io.next - 1
      BY <2>1 DEF IInv, BlocksInv
    <3>2. e = IF "TRUNC" \in flags THEN [start |-> io.entry[f].start, size |-> 0] ELSE io.entry[f]
      BY <1>5, <2>1 DEF OpenedEntry, Entry
    <3>3. next = io.next /\ (new <=> "TRUNC" \in flags)
      BY <2>1
    <3> HIDE DEF e, next, new
    <3> QED
      BY <1>5, <2>1, <3>1, <3>2, <3>3, Constants DEF Entry, Blocks
  <2>2. CASE ~Listed(io, f)
    <3>1. e = [start |-> io.next, size |-> 0] /\ io.next \in Blocks
      BY <1>4, <2>2 DEF OpenedEntry
    <3>2. next = io.next + 1 /\ new
      BY <2>2
    <3> HIDE DEF e, next, new
    <3> QED
      BY <1>5, <2>2, <3>1, <3>2, Constants DEF Entry, Blocks
  <2> QED
    BY <2>1, <2>2
<1> HIDE DEF e, next
<1>7. /\ c \in Fcb /\ c.file = f /\ c.flags = flags /\ Position(c) = q /\ c.index < BlockBytes
      /\ Readable(flags) => c.buflen = e.size
      /\ e.size > 0 /\ (Readable(flags) \/ ("APPEND" \in flags /\ c.currentBlk = 0)) =>
           c.buf = io.data[e.start]
  <2>1. e \in Entry /\ e.start \in Blocks
    BY <1>6
  <2>2. JustOpened(c, f, flags, e)
    BY <1>1, <2>1, NewFcbIs DEF no
  <2> HIDE DEF c
  <2> QED
    BY <2>2 DEF JustOpened
<1>8. c # Closed
  BY <1>7, FcbOpen
<1> HIDE DEF c
<1>9. /\ io' = [data |-> io.data, entry |-> [io.entry EXCEPT ![f] = e],
                fcb |-> [io.fcb EXCEPT ![fd] = c], next |-> next]
      /\ io'.entry[f] = e
  <2>1. io = [data |-> io.data, entry |-> io.entry, fcb |-> io.fcb, next |-> io.next]
    BY <1>1, IoTypes
  <2>2. io.entry \in [Files -> Entry]
    BY <1>1, IoTypes
  <2>3. io' = [data |-> io.data, entry |-> [io.entry EXCEPT ![f] = e],
                fcb |-> [io.fcb EXCEPT ![fd] = c], next |-> next]
    BY <1>4, <2>1
  <2> QED
    BY <2>2, <2>3
<1>10. pos' = [pos EXCEPT ![fd] = q] /\ q \in 0 .. MaxBytes /\ q <= e.size /\ e.size \in Nat
  <2>1. e.size \in 0 .. MaxBytes /\ MaxBytes \in Nat
    BY <1>6, EntryFields, Constants
  <2>2. q \in 0 .. MaxBytes /\ q <= e.size
    BY <2>1
  <2>3. q = IF "APPEND" \in flags THEN io'.entry[f].size ELSE 0
    BY <1>9
  <2> HIDE DEF q
  <2> QED
    BY <1>4, <2>1, <2>2, <2>3
<1>11. g \in {0, 1} /\ faithful' = TRUE
  BY <1>1, <1>4, <1>5 DEF TypeInv
<1>12. ASSUME NEW gd \in OpenFor(io, f) PROVE io.fcb[gd].flags = {} /\ flags = {}
  BY <1>4, <1>12 DEF Compatible, SafeUse
<1>13. ~Writable({})
  BY DEF Writable
<1>14. ASSUME NEW gd \in Fds \ {fd}, IsOpen(io, gd), io.fcb[gd].file = f
       PROVE  io.fcb[gd].flags = {} /\ flags = {} /\ e = io.entry[f] /\ g = gen[f]
  <2>1. io.fcb[gd].flags = {} /\ flags = {}
    BY <1>12, <1>14 DEF OpenFor
  <2>2. Listed(io, f)
    BY <1>14 DEF IInv, DescriptorInv
  <2>3. ~new
    BY <2>1, <2>2
  <2> QED
    BY <1>6, <2>1, <2>3
<1>15. ASSUME NEW p \in 0 .. e.size - 1 PROVE io.data[e.start][p] = <<f, g, p>>
  <2>1. ~new
    BY <1>6, <1>10
  <2>2. io.data[io.entry[f].start][p] = Truth(f, p)
    BY <1>6, <1>12, <1>13, <2>1, ContentOnDisk
  <2> QED
    BY <1>6, <2>1, <2>2 DEF Truth
<1>16. Fits(c, e, q, g)
  <2>1. e # Unlisted
    BY <1>6 DEF Unlisted, Blocks
  <2>2. ASSUME c.currentBlk = 0 \/ ~Writable(c.flags), NEW p \in 0 .. e.size - 1
        PROVE  c.buf[p] = <<c.file, g, p>>
    <3>1. e.size > 0 /\ ~new
      BY <1>6, <1>10
    <3>2. ~Readable(flags) => Writable(flags) /\ flags \cap {"TRUNC", "APPEND"} # {}
      BY DEF Readable, Writable, SafeUse
    <3>3. c.buf = io.data[e.start]
      BY <1>7, <2>2, <3>1, <3>2
    <3> QED
      BY <1>7, <1>15, <3>3
  <2> QED
    BY <1>7, <1>10, <2>1, <2>2 DEF Fits
<1> HIDE DEF q, g, new
<1>17. MayStep(fd, f, c, e, io.data, next, q, g)
  BY <1>2, <1>5, <1>6, <1>7, <1>8, <1>10, <1>11, <1>14, <1>15, <1>16 DEF MayStep
<1>18. Steps(fd, f, c, e, io.data, next, q, g)
  BY <1>4, <1>9, <1>10, <1>11 DEF Steps
<1> QED
  BY <1>2, <1>17, <1>18, FileStep

-----------------------------------------------------------------------------
(* b_write.                                                                *)

\* A buffer after n bytes of the g-th content of f from offset i on.
Filled(buf, f, g, i, n) ==
    [p \in Offsets |-> IF i <= p /\ p < i + n THEN <<f, g, p>> ELSE buf[p]]

\* r is s after n bytes: in the buffer or, if it is full, on the disk as well.
AfterBytes(r, s, f, g, n) ==
    /\ r \in Written /\ r.start = s.start
    /\ r.c.file = s.c.file /\ r.c.flags = s.c.flags /\ r.c.buflen = s.c.buflen
    /\ r.c.buf = Filled(s.c.buf, f, g, s.c.index, n)
    /\ s.c.index + n < BlockBytes =>
         r.c.index = s.c.index + n /\ r.c.currentBlk = 0 /\ r.data = s.data
    /\ s.c.index + n = BlockBytes =>
         r.c.index = 0 /\ r.c.currentBlk = 1 /\ r.data = WriteBlock(s.data, s.start, r.c.buf)

\* The loop of b_write, as long as it stays in the first block.
LEMMA WrittenBytes ==
    ASSUME SafeUse, NEW s \in Written, NEW f \in Files, NEW g \in {0, 1}, NEW n \in Nat,
           s.c.currentBlk = 0, s.c.index < BlockBytes, s.c.index + n <= MaxBytes,
           NEW bytes, bytes = [k \in 1 .. n |-> <<f, g, s.c.index + k - 1>>]
    PROVE  AfterBytes(Folded(s, bytes), s, f, g, n)
<1> DEFINE i == s.c.index
<1>1. /\ i \in Nat /\ BlockBytes \in Nat /\ MaxBytes \in Nat /\ MaxBytes <= BlockBytes
      /\ s.c.buf \in Buffer /\ s.start \in Nat /\ s.c.file \in Files
  BY Constants DEF Written, AnyFcb
<1>2. bytes \in [1 .. n -> Byte]
  <2>1. ASSUME NEW k \in 1 .. n PROVE <<f, g, i + k - 1>> \in Byte
    <3>1. i + k - 1 \in 0 .. MaxBytes
      BY <1>1
    <3> QED
      BY <3>1 DEF Byte
  <2> QED
    BY <2>1
<1>3. PICK w : RunsThrough(w, s, bytes, n)
  BY <1>2, FoldedBytes
<1>8. /\ w \in [0 .. n -> Written] /\ w[0] = s
      /\ \A k \in 1 .. n : w[k] = PutByte(w[k - 1], bytes[k])
      /\ Folded(s, bytes) = w[n]
  BY <1>3 DEF RunsThrough
<1> DEFINE P == {k \in 0 .. n : AfterBytes(w[k], s, f, g, k)}
<1>4. 0 \in P
  <2>1. Filled(s.c.buf, f, g, i, 0) = s.c.buf
    <3>1. ASSUME NEW p \in Offsets PROVE ~(i <= p /\ p < i + 0)
      BY <1>1 DEF Offsets
    <3>2. Filled(s.c.buf, f, g, i, 0) = [p \in Offsets |-> s.c.buf[p]]
      BY <3>1 DEF Filled
    <3>3. s.c.buf \in [Offsets -> Byte]
      BY <1>1 DEF Buffer
    <3> QED
      BY <3>2, <3>3
  <2> QED
    BY <1>1, <1>8, <2>1 DEF AfterBytes
<1>5. ASSUME NEW k \in 0 .. n - 1, k \in P PROVE k + 1 \in P
  <2> DEFINE r   == w[k]
             buf == Filled(s.c.buf, f, g, i, k + 1)
  <2>1. /\ r \in Written /\ r.start = s.start
        /\ r.c.file = s.c.file /\ r.c.flags = s.c.flags /\ r.c.buflen = s.c.buflen
        /\ r.c.buf = Filled(s.c.buf, f, g, i, k)
        /\ r.c.index = i + k /\ r.c.currentBlk = 0 /\ r.data = s.data
        /\ i + k < BlockBytes
    BY <1>1, <1>5, <1>8 DEF AfterBytes
  <2>2. k + 1 \in 1 .. n /\ bytes[k + 1] = <<f, g, i + k>> /\ bytes[k + 1] \in Byte
    <3>1. k + 1 \in 1 .. n /\ i + (k + 1) - 1 = i + k
      BY <1>1
    <3> QED
      BY <1>2, <3>1
  <2>3. w[k + 1] = PutByte(r, bytes[k + 1])
    BY <1>8, <2>2
  <2>4. [r.c.buf EXCEPT ![i + k] = bytes[k + 1]] = buf
    <3>1. i + k \in Offsets
      BY <1>1, <2>1 DEF Offsets
    <3>2. ASSUME NEW p \in Offsets
          PROVE  [Filled(s.c.buf, f, g, i, k) EXCEPT ![i + k] = <<f, g, i + k>>][p] = buf[p]
      <4> HIDE DEF i
      <4>1. CASE p = i + k
        BY <1>1, <3>1, <4>1 DEF Filled, Offsets
      <4>2. CASE p # i + k
        <5>1. (i <= p /\ p < i + k) <=> (i <= p /\ p < i + (k + 1))
          BY <1>1, <4>2 DEF Offsets
        <5> QED
          BY <3>1, <4>2, <5>1 DEF Filled
      <4> QED
        BY <4>1, <4>2
    <3>3. [Filled(s.c.buf, f, g, i, k) EXCEPT ![i + k] = <<f, g, i + k>>] = buf
      BY <3>2 DEF Filled
    <3> QED
      BY <2>1, <2>2, <3>3
  <2> HIDE DEF r, buf, P, i
  <2>5. /\ buf \in Buffer /\ PutByte(r, bytes[k + 1]) \in Written
        /\ (i + k) + 1 = BlockBytes =>
             PutByte(r, bytes[k + 1]) = Updated(r, 0, 1, buf, WriteBlock(r.data, r.start, buf))
        /\ (i + k) + 1 # BlockBytes =>
             PutByte(r, bytes[k + 1]) = Updated(r, (i + k) + 1, 0, buf, r.data)
    BY <2>1, <2>2, <2>4, PutByteInBlock
  <2>9. (i + k) + 1 = i + (k + 1)
    BY <1>1
  <2>7. CASE i + (k + 1) = BlockBytes
    <3> DEFINE data == WriteBlock(s.data, s.start, buf)
    <3>1. w[k + 1] = Updated(r, 0, 1, buf, data)
      BY <2>1, <2>3, <2>5, <2>9, <2>7
    <3> HIDE DEF data
    <3>2. w[k + 1].start = r.start /\ w[k + 1].data = data
      BY <2>1, <3>1, UpdatedStart
    <3> HIDE DEF data
    <3>3. /\ w[k + 1].c.file = r.c.file /\ w[k + 1].c.flags = r.c.flags
          /\ w[k + 1].c.buflen = r.c.buflen /\ w[k + 1].c.buf = buf
          /\ w[k + 1].c.index = 0 /\ w[k + 1].c.currentBlk = 1
      BY <2>1, <3>1, UpdatedFcb
    <3>4. AfterBytes(w[k + 1], s, f, g, k + 1)
      BY <1>1, <2>1, <2>3, <2>5, <2>7, <3>2, <3>3 DEF AfterBytes, buf, data, i
    <3> QED
      BY <2>2, <3>4 DEF P
  <2>8. CASE i + (k + 1) # BlockBytes
    <3>1. w[k + 1] = Updated(r, i + (k + 1), 0, buf, s.data)
      BY <2>1, <2>3, <2>5, <2>9, <2>8
    <3>2. w[k + 1].start = r.start /\ w[k + 1].data = s.data
      BY <2>1, <3>1, UpdatedStart
    <3>3. /\ w[k + 1].c.file = r.c.file /\ w[k + 1].c.flags = r.c.flags
          /\ w[k + 1].c.buflen = r.c.buflen /\ w[k + 1].c.buf = buf
          /\ w[k + 1].c.index = i + (k + 1) /\ w[k + 1].c.currentBlk = 0
      BY <2>1, <3>1, UpdatedFcb
    <3>4. AfterBytes(w[k + 1], s, f, g, k + 1)
      BY <1>1, <2>1, <2>3, <2>5, <2>8, <3>2, <3>3 DEF AfterBytes, buf, i
    <3> QED
      BY <2>2, <3>4 DEF P
  <2> QED
    BY <2>7, <2>8
<1>6. 0 .. n \subseteq P
  <2> HIDE DEF P
  <2> QED
    BY <1>4, <1>5, BoundedInduction
<1>7. n \in P
  <2> HIDE DEF P
  <2>1. n \in 0 .. n
    OBVIOUS
  <2> QED
    BY <1>6, <2>1
<1> QED
  BY <1>7, <1>8

\* A descriptor c that is open, the file it is of, and the entry of the file.
Opened(fd, c, f, e) ==
    /\ c \in Fcb /\ f \in Files /\ e \in Entry /\ e.start \in Blocks /\ e.start < io.next
    /\ Listed(io, f) /\ Fits(c, e, pos[fd], gen[f]) /\ EntryOf(io, c) = e
    /\ gen[f] \in {0, 1} /\ pos[fd] \in 0 .. MaxBytes
    /\ c = io.fcb[fd] /\ f = c.file /\ e = io.entry[f]

\* Every open descriptor is one.
LEMMA OpenedIs ==
    ASSUME SafeUse, IInv, NEW fd \in Fds, IsOpen(io, fd)
    PROVE  Opened(fd, io.fcb[fd], io.fcb[fd].file, io.entry[io.fcb[fd].file])
<1> DEFINE c == io.fcb[fd]
           f == c.file
           e == io.entry[f]
<1>1. TypeInv /\ DescriptorInv(fd)
  BY DEF IInv
<1>2. c \in Fcb
  BY <1>1, OpenFields
<1>3. f \in Files /\ EntryOf(io, c) = e
  <2> HIDE DEF c
  <2> QED
    BY <1>2, FcbFields
<1>4. e \in Entry /\ gen[f] \in {0, 1} /\ pos[fd] \in 0 .. MaxBytes
  BY <1>1, <1>3, IoTypes DEF TypeInv
<1>5. Listed(io, f) /\ Fits(c, e, pos[fd], gen[f])
  BY <1>1, DescriptorFits DEF DescriptorInv
<1>6. e.start \in Blocks /\ e.start < io.next
  <2>1. e.start \in 1 .. io.next - 1 /\ io.next \in 1 .. VolumeBlocks + 1
    BY <1>1, <1>3, <1>5, IoTypes DEF IInv, BlocksInv
  <2> QED
    BY <2>1, Constants DEF Blocks
<1> QED
  BY <1>2, <1>3, <1>4, <1>5, <1>6 DEF Opened

\* Another descriptor of the file only reads, and this one too.
LEMMA OthersRead ==
    ASSUME SafeUse, IInv, NEW fd \in Fds, IsOpen(io, fd), NEW gd \in Fds \ {fd}, IsOpen(io, gd),
           io.fcb[gd].file = io.fcb[fd].file
    PROVE  io.fcb[gd].flags = {} /\ io.fcb[fd].flags = {}
  BY DEF IInv, SharingInv

\* What a b_write that stays in the block makes of io.
WrittenIo(fd, r, f, e) ==
    [data |-> r.data,
     entry |-> [io.entry EXCEPT ![f] = [start |-> e.start, size |-> Max({e.size, Position(r.c)})]],
     fcb |-> [io.fcb EXCEPT ![fd] = r.c], next |-> io.next]

\* It does so.
LEMMA WriteIs ==
    ASSUME SafeUse, IInv, NEW fd \in Fds, NEW c, NEW f, NEW e, Opened(fd, c, f, e),
           NEW bytes, bytes # <<>>, IsOpen(io, fd), Writable(c.flags),
           NEW r, r = Folded([c |-> c, data |-> io.data, start |-> e.start], bytes),
           r \in Written, r.c.file = f
    PROVE  b_write(io, fd, bytes) = WrittenIo(fd, r, f, e)
<1> DEFINE size  == Max({e.size, Position(r.c)})
           entry == [io.entry EXCEPT ![f].size = size]
<1>1. c = io.fcb[fd] /\ EntryOf(io, c) = e /\ e = io.entry[f] /\ e \in Entry
  BY DEF Opened
<1>2. r.c.private = FALSE /\ EntryOf(io, r.c) = e
  BY <1>1 DEF Written, AnyFcb, EntryOf
<1>3. Grow(io, r.c, Position(r.c)) = [c |-> r.c, entry |-> entry]
  BY <1>2 DEF Grow
<1>4. b_write(io, fd, bytes) = [io EXCEPT !.fcb[fd] = r.c, !.data = r.data, !.entry = entry]
  <2> DEFINE s == Folded([c |-> io.fcb[fd], data |-> io.data,
                          start |-> EntryOf(io, io.fcb[fd]).start], bytes)
  <2>1. s = r
    BY <1>1
  <2>2. IsOpen(io, fd) /\ Writable(io.fcb[fd].flags)
    BY <1>1
  <2>3. b_write(io, fd, bytes) =
          [io EXCEPT !.fcb[fd] = Grow(io, s.c, Position(s.c)).c, !.data = s.data,
                     !.entry = Grow(io, s.c, Position(s.c)).entry]
    BY <2>2 DEF b_write, Folded
  <2> HIDE DEF entry, s
  <2> QED
    BY <1>3, <2>1, <2>3
<1>5. [e EXCEPT !.size = size] = [start |-> e.start, size |-> size]
  <2> HIDE DEF size
  <2> QED
    BY <1>1 DEF Entry
<1>6. entry = [io.entry EXCEPT ![f] = [start |-> e.start, size |-> size]]
  <2> HIDE DEF size
  <2> QED
    BY <1>1, <1>5
<1>7. io = [data |-> io.data, entry |-> io.entry, fcb |-> io.fcb, next |-> io.next]
  BY IoTypes DEF IInv
<1> HIDE DEF entry, size
<1>8. b_write(io, fd, bytes) = [data |-> r.data, entry |-> entry,
                                fcb |-> [io.fcb EXCEPT ![fd] = r.c], next |-> io.next]
  BY <1>4, <1>7
<1> QED
  BY <1>6, <1>8 DEF size, WrittenIo

\* b_write: the buffer of the descriptor has the bytes, or the disk has them,
\* and the entry has grown to where they end.
LEMMA WriteKeeps ==
    ASSUME SafeUse, IInv, NEW fd \in Fds, NEW count \in 1 .. MaxBytes, Write(fd, count)
    PROVE  IInv'
<1> DEFINE c     == io.fcb[fd]
           f     == c.file
           e     == io.entry[f]
           g     == gen[f]
           i     == c.index
           q     == pos[fd] + count
           base  == [c |-> c, data |-> io.data, start |-> e.start]
           bytes == [k \in 1 .. count |-> Truth(f, pos[fd] + k - 1)]
           r     == Folded(base, bytes)
           size  == IF e.size <= q THEN q ELSE e.size
           e2    == [start |-> e.start, size |-> size]
<1>1. /\ IsOpen(io, fd) /\ Writable(c.flags) /\ q <= MaxBytes
      /\ io' = b_write(io, fd, bytes)
      /\ pos' = [pos EXCEPT ![fd] = q] /\ gen' = gen /\ faithful' = faithful
  BY DEF Write
<1>2. Opened(fd, c, f, e)
  BY <1>1, OpenedIs
<1> HIDE DEF c, f, e, r
<1>3. /\ c \in Fcb /\ f \in Files /\ e \in Entry /\ e.start \in Blocks /\ e.start < io.next
      /\ Listed(io, f) /\ Fits(c, e, pos[fd], g) /\ EntryOf(io, c) = e
      /\ g \in {0, 1} /\ pos[fd] \in 0 .. MaxBytes
      /\ c = io.fcb[fd] /\ f = c.file /\ e = io.entry[f]
  BY <1>2 DEF Opened
<1>4. /\ BlockBytes \in Nat /\ BlockBytes > 0 /\ MaxBytes \in Nat /\ MaxBytes <= BlockBytes
      /\ e.size \in 0 .. MaxBytes /\ i \in 0 .. BlockBytes /\ c.currentBlk \in {0, 1}
      /\ c.buf \in Buffer /\ c.buflen \in 0 .. BlockBytes /\ c.flags \in Modes
  BY <1>3, Constants, EntryFields, FcbFields
<1>5. /\ pos[fd] = c.currentBlk * BlockBytes + i /\ pos[fd] <= e.size
      /\ Readable(c.flags) /\ pos[fd] < e.size => c.buflen = e.size
      /\ c.currentBlk = 0 => \A p \in 0 .. e.size - 1 : c.buf[p] = <<f, g, p>>
  BY <1>3 DEF Fits, Position
<1>6. c.currentBlk = 0 /\ pos[fd] = i /\ i < BlockBytes /\ i + count <= MaxBytes /\ q = i + count
  <2>1. c.currentBlk # 1
    BY <1>1, <1>4, <1>5
  <2> QED
    BY <1>1, <1>4, <1>5, <2>1
<1>7. base \in Written
  <2>1. io.data \in Memory
    BY IoTypes DEF IInv
  <2>2. c \in AnyFcb
    BY <1>3, FcbAny
  <2> QED
    BY <1>3, <2>1, <2>2 DEF Written, Blocks
<1>8. bytes = [k \in 1 .. count |-> <<f, g, base.c.index + k - 1>>] /\ bytes # <<>>
  <2>1. bytes = [k \in 1 .. count |-> <<f, g, base.c.index + k - 1>>]
    BY <1>6 DEF Truth
  <2>2. 1 \in DOMAIN bytes
    OBVIOUS
  <2>3. DOMAIN <<>> = {}
    OBVIOUS
  <2> QED
    BY <2>1, <2>2, <2>3
<1> HIDE DEF bytes, g
<1>9. AfterBytes(r, base, f, g, count)
  <2>1. base.c.currentBlk = 0 /\ base.c.index < BlockBytes /\ base.c.index + count <= MaxBytes
    BY <1>6
  <2>2. count \in Nat
    OBVIOUS
  <2> HIDE DEF base
  <2> QED
    BY <1>3, <1>7, <1>8, <2>1, <2>2, WrittenBytes DEF r
<1>10. /\ r \in Written /\ r.start = e.start
       /\ r.c.file = f /\ r.c.flags = c.flags /\ r.c.buflen = c.buflen
       /\ r.c.buf = Filled(c.buf, f, g, i, count)
       /\ i + count < BlockBytes => r.c.index = i + count /\ r.c.currentBlk = 0 /\ r.data = io.data
       /\ i + count = BlockBytes =>
            r.c.index = 0 /\ r.c.currentBlk = 1 /\ r.data = WriteBlock(io.data, e.start, r.c.buf)
  BY <1>3, <1>9 DEF AfterBytes
<1>11. /\ r.c.index \in 0 .. BlockBytes /\ r.c.index < BlockBytes /\ r.c.currentBlk \in {0, 1}
       /\ r.c.index = 0 => i + count = BlockBytes
       /\ Position(r.c) = q
  <2>1. CASE i + count < BlockBytes
    BY <1>4, <1>6, <1>10, <2>1 DEF Position
  <2>2. CASE i + count = BlockBytes
    BY <1>4, <1>6, <1>10, <2>2 DEF Position
  <2> QED
    BY <1>4, <1>6, <2>1, <2>2
<1>12. q \in 0 .. MaxBytes /\ size \in 0 .. MaxBytes /\ q <= size /\ size = Max({e.size, q})
  BY <1>4, <1>6, GreaterIs
<1>13. r.c \in Fcb /\ r.data \in Memory
  <2>1. r.c \in AnyFcb /\ r.data \in Memory
    BY <1>10 DEF Written
  <2> QED
    BY <1>11, <2>1 DEF AnyFcb, Fcb
<1>14. e2 \in Entry /\ e2.start = e.start /\ e2.size = size /\ e2 # Unlisted
  <2> HIDE DEF size
  <2> QED
    BY <1>3, <1>12 DEF Entry, Unlisted, Blocks
<1>15. ASSUME NEW p \in 0 .. size - 1 PROVE r.c.buf[p] = <<f, g, p>>
  <2>1. p \in Offsets
    BY <1>4, <1>12 DEF Offsets
  <2>2. r.c.buf[p] = IF i <= p /\ p < i + count THEN <<f, g, p>> ELSE c.buf[p]
    BY <1>10, <2>1 DEF Filled
  <2>3. ~(i <= p /\ p < i + count) => p \in 0 .. e.size - 1
    BY <1>4, <1>5, <1>6
  <2> QED
    BY <1>5, <1>6, <2>2, <2>3
<1>16. Fits(r.c, e2, q, g)
  <2>1. Readable(c.flags) /\ q < size => c.buflen = size
    BY <1>4, <1>5, <1>6
  <2> HIDE DEF e2, q, size
  <2> QED
    BY <1>1, <1>10, <1>11, <1>12, <1>14, <1>15, <2>1 DEF Fits
<1>17. io' = [data |-> r.data, entry |-> [io.entry EXCEPT ![f] = e2],
              fcb |-> [io.fcb EXCEPT ![fd] = r.c], next |-> io.next]
  <2>1. b_write(io, fd, bytes) = WrittenIo(fd, r, f, e)
    <3>1. r = Folded([c |-> c, data |-> io.data, start |-> e.start], bytes)
      BY DEF r
    <3> HIDE DEF base
    <3> QED
      BY <1>1, <1>2, <1>8, <1>10, <3>1, WriteIs
  <2> QED
    BY <1>1, <1>11, <1>12, <2>1 DEF WrittenIo
<1>18. ASSUME NEW gd \in Fds \ {fd}, IsOpen(io, gd), io.fcb[gd].file = f PROVE FALSE
  <2>1. c.flags = {}
    BY <1>1, <1>3, <1>18, OthersRead
  <2> QED
    BY <1>1, <2>1 DEF Writable
<1>19. \A b \in Blocks : b # e.start => r.data[b] = io.data[b]
  <2>1. io.data \in [Blocks -> Buffer]
    BY IoTypes DEF IInv, Memory
  <2> QED
    BY <1>3, <1>4, <1>6, <1>10, <2>1 DEF WriteBlock
<1>20. r.c.index = 0 => r.data[e.start] = r.c.buf
  <2>1. io.data \in [Blocks -> Buffer]
    BY IoTypes DEF IInv, Memory
  <2> QED
    BY <1>3, <1>10, <1>11, <2>1 DEF WriteBlock
<1>21. io.next \in 1 .. VolumeBlocks + 1 /\ io.next <= io.next /\ faithful = TRUE /\ gen \in [Files -> {0, 1}]
  BY IoTypes, Constants DEF IInv, TypeInv
<1>22. r.c # Closed
  BY <1>13, FcbOpen
<1> HIDE DEF q, size, e2
<1>23. MayStep(fd, f, r.c, e2, r.data, io.next, q, g)
  BY <1>1, <1>3, <1>10, <1>12, <1>13, <1>14, <1>15, <1>16, <1>18, <1>19, <1>20, <1>21, <1>22 DEF MayStep
<1>24. Steps(fd, f, r.c, e2, r.data, io.next, q, g)
  <2>1. gen' = [gen EXCEPT ![f] = g]
    BY <1>1, <1>3, <1>21 DEF g
  <2> QED
    BY <1>1, <1>17, <1>21, <2>1 DEF Steps
<1> QED
  BY <1>3, <1>23, <1>24, FileStep

-----------------------------------------------------------------------------
(* b_read.                                                                 *)

\* The slice of a buffer has the length asked for.
LEMMA SliceIs ==
    ASSUME SafeUse, NEW buf \in Buffer, NEW i \in Nat, NEW n \in Nat, i + n <= BlockBytes
    PROVE  Slice(buf, i, n) \in Seq(Byte) /\ Len(Slice(buf, i, n)) = n
<1>1. ASSUME NEW k \in 1 .. n PROVE buf[i + k - 1] \in Byte
  <2>1. i + k - 1 \in Offsets
    BY Constants DEF Offsets
  <2> QED
    BY <2>1 DEF Buffer
<1>2. Slice(buf, i, n) \in [1 .. n -> Byte]
  BY <1>1 DEF Slice
<1> HIDE DEF Slice
<1>3. Slice(buf, i, n) \in Seq(Byte)
  BY <1>2
<1>4. Len(Slice(buf, i, n)) \in Nat /\ DOMAIN Slice(buf, i, n) = 1 .. Len(Slice(buf, i, n))
  BY <1>3, LenProperties
<1> QED
  BY <1>2, <1>3, <1>4

\* What is read of a buffer that has enough is cut out of it.
LEMMA ReadIs ==
    ASSUME SafeUse, NEW fd \in Fds, NEW c \in Fcb, c = io.fcb[fd], IsOpen(io, fd),
           Readable(c.flags), NEW count, NEW n \in Nat, n > 0,
           n = Count(count, EntryOf(io, c).size - Position(c)), c.index + n <= c.buflen,
           NEW r, r = b_read(io, fd, count)
    PROVE  /\ r.io = [io EXCEPT !.fcb[fd] = [c EXCEPT !.index = c.index + n]]
           /\ r.got = Slice(c.buf, c.index, n) /\ Len(r.got) = n
<1> DEFINE got == Slice(c.buf, c.index, n)
           c2  == [c EXCEPT !.index = c.index + n]
<1>1. c.index \in Nat /\ c.currentBlk \in Nat /\ c.buflen \in 0 .. BlockBytes /\ c.buf \in Buffer
  <2>1. c.index \in 0 .. BlockBytes /\ c.currentBlk \in {0, 1}
    BY FcbFields
  <2>2. c.buflen \in 0 .. BlockBytes /\ c.buf \in Buffer
    BY FcbFields
  <2> QED
    BY <2>1, <2>2, Constants
<1>2. got \in Seq(Byte) /\ Len(got) = n
  BY <1>1, Constants, SliceIs
<1>3. SmallerOf(c.buflen - c.index, n) = n
  BY <1>1, SmallerIs
<1> HIDE DEF got
<1>4. FromBuffer(c, n) = [got |-> got, c |-> c2]
  BY <1>1, <1>3 DEF FromBuffer, Advance, got
<1> HIDE DEF c2
<1>5. c2.currentBlk = c.currentBlk /\ c2 = [c2 EXCEPT !.currentBlk = c.currentBlk]
  BY DEF c2, Fcb
<1>6. \A s : FlattenSeq([i \in 1 .. 0 |-> s[i]]) = <<>>
  BY DEF FlattenSeq
<1>7. WholeBlocks(io, [got |-> got, c |-> c2], n) = [got |-> got, c |-> c2]
  <2>1. (n - Len(got)) \div BlockBytes = 0
    <3>1. BlockBytes \in Nat /\ BlockBytes > 0 /\ n - Len(got) = 0
      BY <1>2, Constants
    <3> QED
      BY <3>1
  <2> DEFINE block(i) == ReadBlock(io.data, Target(io, c2) + i - 1, JunkBlock)
             none == [i \in 1 .. 0 |-> Slice(block(i), 0, BlockBytes)]
  <2>2. FlattenSeq(none) = <<>>
    BY DEF FlattenSeq
  <2>3. got \o <<>> = got
    BY <1>2, ConcatEmptySeq
  <2>4. c2.currentBlk + 0 = c.currentBlk
    BY <1>1, <1>5
  <2> DEFINE R == [got |-> got, c |-> c2]
  <2>5. WholeBlocks(io, R, n) =
          [got |-> got \o FlattenSeq(none), c |-> [c2 EXCEPT !.currentBlk = c2.currentBlk + 0]]
    BY <2>1 DEF WholeBlocks
  <2> HIDE DEF none
  <2> QED
    BY <1>5, <2>2, <2>3, <2>4, <2>5
<1>8. LastBlock(io, [got |-> got, c |-> c2], n) = [got |-> got, c |-> c2]
  BY <1>2 DEF LastBlock
<1>9. r = [io |-> [io EXCEPT !.fcb[fd] = c2], got |-> got, readcnt |-> Len(got)]
  <2> DEFINE s == LastBlock(io, WholeBlocks(io, FromBuffer(c, n), n), n)
  <2>1. s = [got |-> got, c |-> c2]
    BY <1>4, <1>7, <1>8
  <2>2. r = [io |-> [io EXCEPT !.fcb[fd] = s.c], got |-> s.got, readcnt |-> Len(s.got)]
    BY DEF b_read
  <2> HIDE DEF s
  <2> QED
    BY <2>1, <2>2
<1> QED
  BY <1>2, <1>9 DEF got, c2

\* b_read: the descriptor is moved by what it has read, which is what the file
\* holds there.
LEMMA ReadKeeps ==
    ASSUME SafeUse, IInv, NEW fd \in Fds, NEW count \in 1 .. MaxBytes, Read(fd, count)
    PROVE  IInv'
<1> DEFINE c   == io.fcb[fd]
           f   == c.file
           e   == io.entry[f]
           g   == gen[f]
           r   == b_read(io, fd, count)
           due == Max({0, SmallerOf(count, e.size - pos[fd])})
<1>1. /\ IsOpen(io, fd) /\ Readable(c.flags) /\ io' = r.io
      /\ faithful' = (r.got = [k \in 1 .. due |-> Truth(f, pos[fd] + k - 1)])
      /\ pos' = [pos EXCEPT ![fd] = pos[fd] + Len(r.got)] /\ gen' = gen
  BY DEF Read
<1>2. Opened(fd, c, f, e)
  BY <1>1, OpenedIs
<1>3. pos \in [Fds -> 0 .. MaxBytes] /\ gen \in [Files -> {0, 1}] /\ faithful = TRUE
  BY DEF IInv, TypeInv
<1> HIDE DEF c, f, e
<1>4. /\ c \in Fcb /\ f \in Files /\ e \in Entry /\ e.start \in Blocks /\ e.start < io.next
      /\ Listed(io, f) /\ Fits(c, e, pos[fd], g) /\ EntryOf(io, c) = e
      /\ g \in {0, 1} /\ pos[fd] \in 0 .. MaxBytes
      /\ c = io.fcb[fd] /\ f = c.file /\ e = io.entry[f]
  BY <1>2 DEF Opened
<1>5. /\ BlockBytes \in Nat /\ BlockBytes > 0 /\ MaxBytes \in Nat /\ MaxBytes <= BlockBytes
      /\ e.size \in 0 .. MaxBytes /\ c.index \in 0 .. BlockBytes /\ c.currentBlk \in {0, 1}
  BY <1>4, Constants, EntryFields, FcbFields
<1>6. /\ pos[fd] = c.currentBlk * BlockBytes + c.index /\ pos[fd] <= e.size /\ Position(c) = pos[fd]
      /\ pos[fd] < e.size => c.buflen = e.size
      /\ c.currentBlk = 0 => \A p \in 0 .. e.size - 1 : c.buf[p] = <<f, g, p>>
  BY <1>1, <1>4 DEF Fits, Position
<1> HIDE DEF g, r
<1>7. CASE pos[fd] = e.size
  <2>1. e.size - pos[fd] = 0 /\ Count(count, e.size - pos[fd]) = 0
    BY <1>5, <1>7 DEF Count
  <2>2. r = [io |-> io, got |-> <<>>, readcnt |-> 0]
    BY <1>1, <1>4, <1>6, <2>1 DEF b_read, r
  <2>3. due = 0
    <3>1. SmallerOf(count, 0) = 0
      BY SmallerIs
    <3>2. Max({0, 0}) = 0
      BY GreaterIs
    <3> QED
      BY <2>1, <3>1, <3>2
  <2>4. [k \in 1 .. 0 |-> Truth(f, pos[fd] + k - 1)] = <<>>
    OBVIOUS
  <2>5. io' = io /\ gen' = gen /\ faithful' = faithful
    BY <1>1, <1>3, <2>2, <2>3, <2>4
  <2>6. pos' = pos
    <3>1. Len(<<>>) = 0
      OBVIOUS
    <3> QED
      BY <1>1, <1>3, <1>4, <2>2, <3>1
  <2> QED
    BY <2>5, <2>6 DEF IInv, TypeInv, BlocksInv, SharingInv, DiskInv, DescriptorInv, Truth
<1>8. CASE pos[fd] # e.size
  <2> DEFINE n  == IF count <= e.size - pos[fd] THEN count ELSE e.size - pos[fd]
             c2 == [c EXCEPT !.index = c.index + n]
             q  == pos[fd] + n
  <2>1. pos[fd] < e.size /\ c.currentBlk = 0 /\ c.index = pos[fd] /\ c.buflen = e.size
    <3>1. pos[fd] < e.size
      BY <1>4, <1>5, <1>6, <1>8
    <3>2. c.currentBlk # 1
      BY <1>4, <1>5, <1>6, <3>1
    <3> QED
      BY <1>5, <1>6, <3>1, <3>2
  <2>2. n \in 1 .. MaxBytes /\ n <= e.size - pos[fd] /\ c.index + n <= e.size
    BY <1>4, <1>5, <2>1
  <2>3. SmallerOf(count, e.size - pos[fd]) = n
    BY <1>4, <1>5, SmallerIs
  <2>4. Count(count, e.size - pos[fd]) = n /\ due = n
    <3>1. Max({0, n}) = n
      <4> HIDE DEF n
      <4> QED
        BY <2>2, GreaterIs
    <3> HIDE DEF n
    <3> QED
      BY <1>4, <1>5, <2>1, <2>3, <3>1 DEF Count
  <2> HIDE DEF n, due
  <2>5. r.io = [io EXCEPT !.fcb[fd] = c2] /\ r.got = Slice(c.buf, c.index, n) /\ Len(r.got) = n
    <3>1. n \in Nat /\ n > 0 /\ n = Count(count, EntryOf(io, c).size - Position(c)) /\ c.index + n <= c.buflen
      BY <1>4, <1>6, <2>1, <2>2, <2>4
    <3> QED
      BY <1>1, <1>4, <3>1, ReadIs DEF r
  <2>6. faithful' = TRUE
    <3>1. ASSUME NEW k \in 1 .. n PROVE c.buf[c.index + k - 1] = Truth(f, pos[fd] + k - 1)
      <4>1. c.index + k - 1 \in 0 .. e.size - 1
        BY <1>4, <1>5, <2>1, <2>2
      <4> QED
        BY <1>6, <2>1, <4>1 DEF Truth, g
    <3>2. Slice(c.buf, c.index, n) = [k \in 1 .. n |-> Truth(f, pos[fd] + k - 1)]
      BY <3>1 DEF Slice
    <3> QED
      BY <1>1, <2>4, <2>5, <3>2
  <2>7. c2.index = c.index + n /\ c2.currentBlk = 0 /\ c2.buf = c.buf /\ c2.flags = c.flags
        /\ c2.file = f /\ c2.buflen = c.buflen
    BY <1>4, <2>1 DEF Fcb
  <2>8. c2 \in Fcb
    <3>1. c.index + n \in 0 .. BlockBytes
      BY <1>5, <2>2
    <3> QED
      BY <1>4, <3>1 DEF Fcb
  <2>9. c2 # Closed
    BY <2>8, FcbOpen
  <2> HIDE DEF c2
  <2>10. q \in 0 .. MaxBytes /\ q <= e.size /\ Position(c2) = q /\ q > 0 /\ c2.index > 0
    BY <1>4, <1>5, <2>1, <2>2, <2>7 DEF Position
  <2>11. Fits(c2, e, q, g)
    BY <1>1, <1>4, <1>6, <2>1, <2>7, <2>10 DEF Fits
  <2>12. ASSUME NEW gd \in Fds \ {fd}, IsOpen(io, gd), io.fcb[gd].file = f
         PROVE  io.fcb[gd].flags = {} /\ c.flags = {}
    BY <1>1, <1>4, <2>12, OthersRead
  <2>13. ASSUME ~Writable(c.flags), NEW p \in 0 .. e.size - 1 PROVE io.data[e.start][p] = <<f, g, p>>
    <3>1. ASSUME NEW hd \in OpenFor(io, f) PROVE ~Writable(io.fcb[hd].flags)
      <4>1. hd \in Fds /\ IsOpen(io, hd) /\ io.fcb[hd].file = f
        BY <1>4, OpenFields DEF OpenFor, IInv
      <4> QED
        BY <1>4, <2>12, <2>13, <4>1 DEF Writable
    <3>2. io.data[io.entry[f].start][p] = Truth(f, p)
      BY <1>4, <2>13, <3>1, ContentOnDisk
    <3> QED
      BY <1>4, <3>2 DEF Truth, g
  <2>14. io.next \in 1 .. VolumeBlocks + 1 /\ io.next <= io.next /\ io.data \in Memory
    BY IoTypes, Constants DEF IInv
  <2> HIDE DEF q
  <2>15. ASSUME NEW gd \in Fds \ {fd}, IsOpen(io, gd), io.fcb[gd].file = f
         PROVE  /\ io.fcb[gd].flags = {} /\ (c2 # Closed => c2.flags = {})
                /\ e = io.entry[f] /\ g = gen[f]
    BY <1>4, <2>7, <2>12, <2>15 DEF g
  <2>16. c2 = Closed \/ ~Writable(c2.flags) \/ c2.index = 0 =>
           \A p \in 0 .. e.size - 1 : io.data[e.start][p] = <<f, g, p>>
    BY <2>7, <2>9, <2>10, <2>13
  <2>17. MayStep(fd, f, c2, e, io.data, io.next, q, g)
    BY <1>4, <2>7, <2>8, <2>10, <2>11, <2>14, <2>15, <2>16 DEF MayStep
  <2>18. io' = [data |-> io.data, entry |-> [io.entry EXCEPT ![f] = e],
                fcb |-> [io.fcb EXCEPT ![fd] = c2], next |-> io.next]
    <3>1. io = [data |-> io.data, entry |-> io.entry, fcb |-> io.fcb, next |-> io.next]
          /\ io.entry \in [Files -> Entry]
      BY IoTypes DEF IInv
    <3>2. [io.entry EXCEPT ![f] = e] = io.entry
      BY <1>4, <3>1
    <3> QED
      BY <1>1, <2>5, <3>1, <3>2
  <2>19. Steps(fd, f, c2, e, io.data, io.next, q, g)
    <3>1. gen' = [gen EXCEPT ![f] = g]
      BY <1>1, <1>3, <1>4 DEF g
    <3>2. pos' = [pos EXCEPT ![fd] = q]
      BY <1>1, <2>5 DEF q
    <3> QED
      BY <2>6, <2>18, <3>1, <3>2 DEF Steps
  <2> QED
    BY <1>4, <2>17, <2>19, FileStep
<1> QED
  BY <1>7, <1>8

-----------------------------------------------------------------------------
(* b_seek, b_close and fs_delete.                                          *)

\* A state in which nothing has changed is in order.
LEMMA StutterKeeps ==
    ASSUME IInv, UNCHANGED vars
    PROVE  IInv'
  BY DEF vars, IInv, TypeInv, BlocksInv, SharingInv, DiskInv, DescriptorInv, Truth

\* io after b_seek has moved a descriptor to a position.
MovedTo(fd, to) ==
    [io EXCEPT !.fcb[fd].currentBlk = to \div BlockBytes, !.fcb[fd].index = to % BlockBytes]

\* The position asked for, of a descriptor that is at some position.
Asked(offset, whence, at, size) ==
    CASE whence = "SEEK_SET" -> offset
      [] whence = "SEEK_CUR" -> at + offset
      [] whence = "SEEK_END" -> size + offset

\* The position is the one asked for, or the end.
LEMMA SeekIs ==
    ASSUME NEW fd \in Fds, IsOpen(io, fd), NEW offset \in Int, NEW whence \in Whences,
           NEW size, size = EntryOf(io, io.fcb[fd]).size, NEW due,
           due = Asked(offset, whence, Position(io.fcb[fd]), size)
    PROVE  b_seek(io, fd, offset, whence) = IF due < 0 THEN io ELSE MovedTo(fd, SmallerOf(due, size))
<1> DEFINE end  == EntryOf(io, io.fcb[fd]).size
           from == CASE whence = "SEEK_SET" -> 0
                     [] whence = "SEEK_CUR" -> Position(io.fcb[fd])
                     [] whence = "SEEK_END" -> end
<1>1. from + offset = due
  <2>1. CASE whence = "SEEK_SET"
    BY <2>1 DEF Asked
  <2>2. CASE whence = "SEEK_CUR"
    BY <2>2 DEF Asked
  <2>3. CASE whence = "SEEK_END"
    BY <2>3 DEF Asked
  <2> QED
    BY <2>1, <2>2, <2>3 DEF Whences
<1>2. b_seek(io, fd, offset, whence) =
        IF ~IsOpen(io, fd) \/ from + offset < 0 THEN io ELSE MovedTo(fd, SmallerOf(from + offset, end))
  BY DEF b_seek, MovedTo
<1>3. end = size
  OBVIOUS
<1> HIDE DEF from, end
<1> QED
  BY <1>1, <1>2, <1>3

\* b_seek of a descriptor that only reads: all of the file is in its buffer,
\* wherever it goes.
LEMMA SeekKeeps ==
    ASSUME SafeUse, IInv, NEW fd \in Fds, NEW offset \in -MaxBytes .. MaxBytes,
           NEW whence \in Whences, Seek(fd, offset, whence)
    PROVE  IInv'
<1> DEFINE c    == io.fcb[fd]
           f    == c.file
           e    == io.entry[f]
           g    == gen[f]
           due  == Asked(offset, whence, pos[fd], e.size)
           q    == SmallerOf(due, e.size)
           c2   == [c EXCEPT !.currentBlk = q \div BlockBytes, !.index = q % BlockBytes]
<1>1. /\ IsOpen(io, fd) /\ c.flags \in Seekers /\ io' = b_seek(io, fd, offset, whence)
      /\ pos' = [pos EXCEPT ![fd] = IF due < 0 THEN pos[fd] ELSE q]
      /\ gen' = gen /\ faithful' = faithful
  BY DEF Seek, Asked
<1>2. Opened(fd, c, f, e)
  BY <1>1, OpenedIs
<1>3. pos \in [Fds -> 0 .. MaxBytes] /\ gen \in [Files -> {0, 1}] /\ faithful = TRUE
  BY DEF IInv, TypeInv
<1> HIDE DEF c, f, e
<1>4. /\ c \in Fcb /\ f \in Files /\ e \in Entry /\ e.start \in Blocks /\ e.start < io.next
      /\ Listed(io, f) /\ Fits(c, e, pos[fd], g) /\ EntryOf(io, c) = e
      /\ g \in {0, 1} /\ pos[fd] \in 0 .. MaxBytes
      /\ c = io.fcb[fd] /\ f = c.file /\ e = io.entry[f]
  BY <1>2 DEF Opened
<1>5. /\ BlockBytes \in Nat /\ BlockBytes > 0 /\ MaxBytes \in Nat /\ MaxBytes <= BlockBytes
      /\ e.size \in 0 .. MaxBytes /\ offset \in Int
  BY <1>4, Constants, EntryFields
<1>6. ~Writable(c.flags) /\ Readable(c.flags)
  BY <1>1 DEF SafeUse, Readable, Writable
<1>7. /\ e # Unlisted /\ Position(c) = pos[fd] /\ c.buflen = e.size
      /\ \A p \in 0 .. e.size - 1 : c.buf[p] = <<f, g, p>>
  BY <1>4, <1>6 DEF Fits
<1> HIDE DEF g
<1>8. due \in Int
  <2>1. CASE whence = "SEEK_SET"
    BY <1>5, <2>1 DEF Asked
  <2>2. CASE whence = "SEEK_CUR"
    BY <1>4, <1>5, <2>2 DEF Asked
  <2>3. CASE whence = "SEEK_END"
    BY <1>5, <2>3 DEF Asked
  <2> QED
    BY <2>1, <2>2, <2>3 DEF Whences
<1>9. io' = IF due < 0 THEN io ELSE MovedTo(fd, q)
  <2>1. due = Asked(offset, whence, Position(io.fcb[fd]), e.size)
    BY <1>4, <1>7
  <2>2. e.size = EntryOf(io, io.fcb[fd]).size
    BY <1>4
  <2> HIDE DEF due
  <2> QED
    BY <1>1, <1>4, <1>5, <2>1, <2>2, SeekIs
<1> HIDE DEF due, q
<1>10. CASE due < 0
  <2>1. pos' = pos
    BY <1>1, <1>3, <1>10
  <2> QED
    BY <1>1, <1>9, <1>10, <2>1, StutterKeeps DEF vars
<1>11. CASE ~(due < 0)
  <2>1. q \in 0 .. MaxBytes /\ q <= e.size
    <3>1. q = IF due <= e.size THEN due ELSE e.size
      BY <1>5, <1>8, SmallerIs DEF q
    <3> QED
      BY <1>5, <1>8, <1>11, <3>1
  <2>2. /\ q % BlockBytes \in 0 .. BlockBytes /\ q \div BlockBytes \in {0, 1}
        /\ (q \div BlockBytes) * BlockBytes + (q % BlockBytes) = q
    <3>1. CASE q < BlockBytes
      <4>1. q \div BlockBytes = 0 /\ q % BlockBytes = q
        BY <2>1, <3>1, OneBlock
      <4> QED
        BY <1>5, <2>1, <3>1, <4>1
    <3>2. CASE ~(q < BlockBytes)
      <4>1. q = BlockBytes /\ q \div BlockBytes = 1 /\ q % BlockBytes = 0
        BY <1>5, <2>1, <3>2, OneBlock
      <4> QED
        BY <1>5, <4>1
    <3> QED
      BY <3>1, <3>2
  <2>3. c2 \in Fcb
    BY <1>4, <2>2 DEF Fcb
  <2>4. c2.file = f /\ c2.flags = c.flags /\ c2.buflen = c.buflen /\ c2.buf = c.buf /\ Position(c2) = q
    <3>1. c2.index = q % BlockBytes /\ c2.currentBlk = q \div BlockBytes
      BY <1>4 DEF Fcb
    <3>2. c2.file = f /\ c2.flags = c.flags /\ c2.buflen = c.buflen /\ c2.buf = c.buf
      BY <1>4 DEF Fcb
    <3> HIDE DEF c2
    <3> QED
      BY <2>2, <3>1, <3>2 DEF Position
  <2>5. io' = [data |-> io.data, entry |-> [io.entry EXCEPT ![f] = e],
               fcb |-> [io.fcb EXCEPT ![fd] = c2], next |-> io.next]
    <3>1. io = [data |-> io.data, entry |-> io.entry, fcb |-> io.fcb, next |-> io.next]
      BY IoTypes DEF IInv
    <3>2. io.entry \in [Files -> Entry] /\ io.fcb \in [Fds -> Fcb \cup {Closed}]
      BY IoTypes DEF IInv
    <3>3. [io.entry EXCEPT ![f] = e] = io.entry
      BY <1>4, <3>2
    <3>4. io' = [io EXCEPT !.fcb[fd] = c2]
      BY <1>4, <1>9, <1>11, <3>1, <3>2 DEF MovedTo
    <3> HIDE DEF c2
    <3> QED
      BY <3>1, <3>3, <3>4
  <2>6. c2 # Closed
    BY <2>3, FcbOpen
  <2> HIDE DEF c2
  <2>7. Fits(c2, e, q, g)
    BY <1>6, <1>7, <2>1, <2>4 DEF Fits
  <2>8. ASSUME NEW gd \in Fds \ {fd}, IsOpen(io, gd), io.fcb[gd].file = f
        PROVE  /\ io.fcb[gd].flags = {} /\ (c2 # Closed => c2.flags = {})
               /\ e = io.entry[f] /\ g = gen[f]
    BY <1>1, <1>4, <2>4, <2>8, OthersRead DEF g
  <2>9. ASSUME NEW p \in 0 .. e.size - 1 PROVE io.data[e.start][p] = <<f, g, p>>
    <3>1. ASSUME NEW hd \in OpenFor(io, f) PROVE ~Writable(io.fcb[hd].flags)
      <4>1. hd \in Fds /\ IsOpen(io, hd) /\ io.fcb[hd].file = f
        BY <1>4, OpenFields DEF OpenFor, IInv
      <4> QED
        BY <1>4, <1>6, <2>8, <4>1 DEF Writable
    <3>2. io.data[io.entry[f].start][p] = Truth(f, p)
      BY <1>4, <3>1, ContentOnDisk
    <3> QED
      BY <1>4, <3>2 DEF Truth, g
  <2>10. io.next \in 1 .. VolumeBlocks + 1 /\ io.next <= io.next /\ io.data \in Memory
    BY IoTypes, Constants DEF IInv
  <2>11. MayStep(fd, f, c2, e, io.data, io.next, q, g)
    BY <1>4, <2>1, <2>3, <2>4, <2>7, <2>8, <2>9, <2>10 DEF MayStep
  <2>12. Steps(fd, f, c2, e, io.data, io.next, q, g)
    <3>1. gen' = [gen EXCEPT ![f] = g]
      BY <1>1, <1>3, <1>4 DEF g
    <3> QED
      BY <1>1, <1>3, <1>11, <2>5, <3>1 DEF Steps
  <2> QED
    BY <1>4, <2>11, <2>12, FileStep
<1> QED
  BY <1>10, <1>11

\* b_close: what was only in the buffer is on the disk, and a reader has
\* written over its block what was there.
LEMMA CloseKeeps ==
    ASSUME SafeUse, IInv, NEW fd \in Fds, Close(fd)
    PROVE  IInv'
<1> DEFINE c    == io.fcb[fd]
           f    == c.file
           e    == io.entry[f]
           g    == gen[f]
           data == Flushed(io, c)
<1>1. /\ IsOpen(io, fd) /\ io' = b_close(io, fd) /\ pos' = [pos EXCEPT ![fd] = 0]
      /\ gen' = gen /\ faithful' = faithful
  BY DEF Close
<1>2. Opened(fd, c, f, e)
  BY <1>1, OpenedIs
<1>3. pos \in [Fds -> 0 .. MaxBytes] /\ gen \in [Files -> {0, 1}] /\ faithful = TRUE
  BY DEF IInv, TypeInv
<1>4. io' = [io EXCEPT !.data = data, !.fcb[fd] = Closed]
  BY <1>1 DEF b_close
<1> HIDE DEF c, f, e
<1>5. /\ c \in Fcb /\ f \in Files /\ e \in Entry /\ e.start \in Blocks /\ e.start < io.next
      /\ Listed(io, f) /\ Fits(c, e, pos[fd], g) /\ EntryOf(io, c) = e
      /\ g \in {0, 1} /\ pos[fd] \in 0 .. MaxBytes
      /\ c = io.fcb[fd] /\ f = c.file /\ e = io.entry[f]
  BY <1>2 DEF Opened
<1>6. /\ BlockBytes \in Nat /\ BlockBytes > 0 /\ MaxBytes \in Nat /\ MaxBytes <= BlockBytes
      /\ e.size \in 0 .. MaxBytes /\ c.index \in 0 .. BlockBytes /\ c.currentBlk \in {0, 1}
      /\ c.buf \in Buffer
  BY <1>5, Constants, EntryFields, FcbFields
<1> HIDE DEF g
<1>7. c.index > 0 => c.currentBlk = 0
  <2>1. pos[fd] = c.currentBlk * BlockBytes + c.index /\ pos[fd] <= e.size
    BY <1>5 DEF Fits, Position
  <2>2. c.currentBlk = 1 => c.index = 0
    BY <1>6, <2>1
  <2> QED
    BY <1>6, <2>2
<1>8. c.index > 0 => \A p \in 0 .. e.size - 1 : c.buf[p] = <<f, g, p>>
  BY <1>5, <1>7 DEF Fits
<1>9. io.data \in [Blocks -> Buffer]
  BY IoTypes DEF IInv, Memory
<1>10. data = IF c.index > 0 THEN [io.data EXCEPT ![e.start] = c.buf] ELSE io.data
  <2>1. c.index > 0 => Target(io, c) = e.start
    <3>1. e.start + 0 = e.start
      BY <1>5 DEF Blocks
    <3> QED
      BY <1>5, <1>7, <3>1 DEF Target
  <2> QED
    BY <1>5, <2>1 DEF Flushed, WriteBlock
<1> HIDE DEF data
<1>11. data \in Memory /\ \A b \in Blocks : b # e.start => data[b] = io.data[b]
  BY <1>5, <1>6, <1>9, <1>10 DEF Memory
<1>12. ASSUME NEW gd \in Fds \ {fd}, IsOpen(io, gd), io.fcb[gd].file = f
       PROVE  /\ io.fcb[gd].flags = {} /\ (Closed # Closed => Closed.flags = {})
              /\ e = io.entry[f] /\ g = gen[f]
  BY <1>1, <1>5, <1>12, OthersRead DEF g
<1>13. ASSUME NEW p \in 0 .. e.size - 1 PROVE data[e.start][p] = <<f, g, p>>
  <2>1. CASE c.index > 0
    <3>1. data[e.start] = c.buf
      BY <1>5, <1>9, <1>10, <2>1
    <3> QED
      BY <1>8, <2>1, <3>1
  <2>2. CASE ~(c.index > 0)
    <3>1. ASSUME NEW hd \in OpenFor(io, f) PROVE Writable(io.fcb[hd].flags) => io.fcb[hd].index = 0
      <4>1. hd \in Fds /\ IsOpen(io, hd) /\ io.fcb[hd].file = f
        BY <1>5, OpenFields DEF OpenFor, IInv
      <4>2. hd # fd => ~Writable(io.fcb[hd].flags)
        BY <1>12, <4>1 DEF Writable
      <4>3. c.index = 0
        BY <1>6, <2>2
      <4> QED
        BY <1>5, <4>2, <4>3
    <3>2. io.data[io.entry[f].start][p] = Truth(f, p)
      BY <1>5, <3>1, ContentOnDisk
    <3>3. data = io.data
      BY <1>10, <2>2
    <3> QED
      BY <1>5, <3>2, <3>3 DEF Truth, g
  <2> QED
    BY <2>1, <2>2
<1>14. io.next \in 1 .. VolumeBlocks + 1 /\ io.next <= io.next
  BY IoTypes, Constants DEF IInv
<1>15. MayStep(fd, f, Closed, e, data, io.next, 0, g)
  <2>1. 0 \in 0 .. MaxBytes /\ Closed \in Fcb \cup {Closed}
    BY <1>6
  <2> QED
    BY <1>5, <1>11, <1>12, <1>13, <1>14, <2>1 DEF MayStep
<1>16. Steps(fd, f, Closed, e, data, io.next, 0, g)
  <2>1. gen' = [gen EXCEPT ![f] = g]
    BY <1>1, <1>3, <1>5 DEF g
  <2>2. io = [data |-> io.data, entry |-> io.entry, fcb |-> io.fcb, next |-> io.next]
    BY IoTypes DEF IInv
  <2>3. io.entry \in [Files -> Entry]
    BY IoTypes DEF IInv
  <2>4. [io.entry EXCEPT ![f] = e] = io.entry
    BY <1>5, <2>3
  <2>5. io' = [data |-> data, entry |-> [io.entry EXCEPT ![f] = e],
               fcb |-> [io.fcb EXCEPT ![fd] = Closed], next |-> io.next]
    BY <1>4, <2>2, <2>4
  <2> QED
    BY <1>1, <1>3, <2>1, <2>5 DEF Steps
<1> QED
  BY <1>5, <1>15, <1>16, FileStep

\* fs_delete: the entry goes; nobody has the file open.
LEMMA DeleteKeeps ==
    ASSUME SafeUse, IInv, NEW f \in Files, Delete(f)
    PROVE  IInv'
<1>1. /\ OpenFor(io, f) = {} /\ io' = [io EXCEPT !.entry[f] = Unlisted]
      /\ pos' = pos /\ gen' = gen /\ faithful' = faithful
  BY DEF Delete, fs_delete
<1>2. TypeInv
  BY DEF IInv
<1>3. /\ io.data \in Memory /\ io.entry \in [Files -> Entry]
      /\ io.fcb \in [Fds -> Fcb \cup {Closed}] /\ io.next \in 1 .. VolumeBlocks + 1
      /\ io = [data |-> io.data, entry |-> io.entry, fcb |-> io.fcb, next |-> io.next]
  BY <1>2, IoTypes
<1>4. io' = [data |-> io.data, entry |-> [io.entry EXCEPT ![f] = Unlisted],
             fcb |-> io.fcb, next |-> io.next]
  BY <1>1, <1>3
<1>5. /\ io'.data = io.data /\ io'.fcb = io.fcb /\ io'.next = io.next
      /\ io'.entry[f] = Unlisted /\ \A h \in Files \ {f} : io'.entry[h] = io.entry[h]
  BY <1>3, <1>4
<1>6. TypeInv'
  <2>1. Unlisted \in Entry
    BY Constants DEF Unlisted, Entry
  <2>2. [io.entry EXCEPT ![f] = Unlisted] \in [Files -> Entry]
    BY <1>3, <2>1
  <2> QED
    BY <1>1, <1>2, <1>3, <1>4, <2>2 DEF TypeInv, Memory
<1>7. \A h \in Files : Listed(io, h)' => h # f /\ Listed(io, h)
  BY <1>5 DEF Listed
<1>8. BlocksInv'
  <2>1. BlocksInv
    BY DEF IInv
  <2> QED
    BY <1>5, <1>7, <2>1 DEF BlocksInv
<1>9. SharingInv'
  BY <1>5 DEF IInv, SharingInv, IsOpen
<1>10. DiskInv'
  <2>1. ASSUME NEW h \in Files,
               (\A fd \in OpenFor(io, h) : Writable(io.fcb[fd].flags) => io.fcb[fd].index = 0)',
               NEW p \in 0 .. io'.entry[h].size - 1
        PROVE  OnDisk(io, h, p)' = Truth(h, p)'
    <3>1. h # f
      BY <1>5, <2>1 DEF Unlisted
    <3>2. io'.entry[h] = io.entry[h]
      BY <1>5, <3>1
    <3>3. OpenFor(io', h) = OpenFor(io, h)
      BY <1>5 DEF OpenFor
    <3>4. OnDisk(io, h, p) = Truth(h, p)
      BY <1>5, <2>1, <3>2, <3>3 DEF IInv, DiskInv
    <3> QED
      BY <1>1, <1>5, <3>2, <3>4 DEF OnDisk, Truth
  <2> QED
    BY <2>1 DEF DiskInv
<1>11. ASSUME NEW fd \in Fds, IsOpen(io, fd)' PROVE DescriptorInv(fd)'
  <2>1. IsOpen(io, fd)
    BY <1>5, <1>11 DEF IsOpen
  <2>2. io.fcb[fd].file # f
    BY <1>1 DEF OpenFor
  <2>3. io.fcb[fd].file \in Files
    BY <1>2, <2>1, OpenFields, FcbFields
  <2>4. io'.entry[io.fcb[fd].file] = io.entry[io.fcb[fd].file]
    BY <1>5, <2>2, <2>3
  <2>5. DescriptorInv(fd)
    BY <2>1 DEF IInv
  <2> QED
    BY <1>1, <1>5, <2>4, <2>5 DEF DescriptorInv, Listed, Truth
<1> QED
  BY <1>6, <1>8, <1>9, <1>10, <1>11 DEF IInv

-----------------------------------------------------------------------------
(* The theorems.                                                           *)

\* The volume starts empty, and nothing is open.
LEMMA InitInv ==
    ASSUME SafeUse, Init
    PROVE  IInv
<1>1. /\ io = Fresh /\ pos = [fd \in Fds |-> 0] /\ gen = [f \in Files |-> 0] /\ faithful = TRUE
  BY DEF Init
<1>2. JunkBlock \in Buffer
  BY DEF JunkBlock, Buffer, Byte
<1>3. Unlisted \in Entry
  BY Constants DEF Unlisted, Entry
<1>4. 1 \in 1 .. VolumeBlocks + 1 /\ 0 \in 0 .. MaxBytes
  BY Constants
<1>5. /\ io.data = [b \in Blocks |-> JunkBlock] /\ io.entry = [f \in Files |-> Unlisted]
      /\ io.fcb = [fd \in Fds |-> Closed] /\ io.next = 1
  BY <1>1 DEF Fresh
<1>6. TypeInv
  BY <1>1, <1>2, <1>3, <1>4 DEF TypeInv, Fresh
<1>7. BlocksInv
  BY <1>5 DEF BlocksInv, Listed
<1>8. \A fd \in Fds : ~IsOpen(io, fd)
  BY <1>5 DEF IsOpen
<1>9. SharingInv
  BY <1>8 DEF SharingInv
<1>10. DiskInv
  BY <1>5 DEF DiskInv, Unlisted
<1> QED
  BY <1>6, <1>7, <1>8, <1>9, <1>10 DEF IInv

\* Every call of b_io.c keeps the invariant.
LEMMA NextKeeps ==
    ASSUME SafeUse, IInv, [Next]_vars
    PROVE  IInv'
<1>1. ASSUME NEW f \in Files, NEW flags \in Modes, Open(f, flags) PROVE IInv'
  BY <1>1, OpenKeeps
<1>2. ASSUME NEW f \in Files, NEW flags \in Modes, OpenRefused(f, flags) PROVE IInv'
  BY <1>2, StutterKeeps DEF OpenRefused
<1>3. ASSUME NEW fd \in Fds, NEW count \in 1 .. MaxBytes, Write(fd, count) PROVE IInv'
  BY <1>3, WriteKeeps
<1>4. ASSUME NEW fd \in Fds, NEW count \in 1 .. MaxBytes, Read(fd, count) PROVE IInv'
  BY <1>4, ReadKeeps
<1>5. ASSUME NEW fd \in Fds, NEW offset \in -MaxBytes .. MaxBytes, NEW whence \in Whences,
             Seek(fd, offset, whence)
      PROVE  IInv'
  BY <1>5, SeekKeeps
<1>6. ASSUME NEW fd \in Fds, Close(fd) PROVE IInv'
  BY <1>6, CloseKeeps
<1>7. ASSUME NEW f \in Files, Delete(f) PROVE IInv'
  BY <1>7, DeleteKeeps
<1>8. CASE UNCHANGED vars
  BY <1>8, StutterKeeps
<1> QED
  BY <1>1, <1>2, <1>3, <1>4, <1>5, <1>6, <1>7, <1>8 DEF Next

\* In every state any callers can reach, with the uses SafeUse allows, the
\* invariant holds: descriptors are where they should be, buffers and disk
\* have the files (b_io.c:186 to 560).
THEOREM Inductive == SafeUse => (Spec => []IInv)
<1> SUFFICES ASSUME SafeUse PROVE Spec => []IInv
  OBVIOUS
<1>1. Init => IInv
  BY InitInv
<1>2. IInv /\ [Next]_vars => IInv'
  BY NextKeeps
<1> QED
  BY <1>1, <1>2, PTL DEF Spec

\* What b_close has flushed is the file, byte for byte, until it is written
\* again; readers that come and go write nothing else (b_io.c:356, 548).
THEOREM WrittenIsKept == SafeUse => (Spec => []ContentKept)
<1>1. ASSUME IInv PROVE ContentKept
  BY <1>1 DEF IInv, DiskInv, ContentKept
<1> QED
  BY <1>1, Inductive, PTL

\* b_read returns what the file has at the position of the descriptor.
THEOREM ReadIsFaithful == SafeUse => (Spec => []ReadsFaithful)
<1>1. ASSUME IInv PROVE ReadsFaithful
  BY <1>1 DEF IInv, TypeInv, ReadsFaithful
<1> QED
  BY <1>1, Inductive, PTL

\* Block and index of a descriptor are the bytes it has gone over.
THEOREM PositionIsKept == SafeUse => (Spec => []PositionKept)
<1>1. ASSUME IInv PROVE PositionKept
  BY <1>1 DEF IInv, DescriptorInv, PositionKept
<1> QED
  BY <1>1, Inductive, PTL
=============================================================================
