-------------------------- MODULE CommandLineProofs --------------------------
(***************************************************************************)
(* Proofs about CommandLine, for lines of any length: the array of the     *)
(* arguments, whose size is guessed from the length of the line, is never  *)
(* overrun, and the arguments are those that quotes and escapes describe.  *)
(***************************************************************************)
EXTENDS CommandLine, LeastElements

Text == Chars \cup {NUL}

\* The characters the scan distinguishes.
LEMMA Characters ==
    /\ Space \in Text /\ NUL \in Text /\ Space # NUL
    /\ \A c \in Quotes \cup {NUL} : c \in Text
  BY DEF Text, Chars, Quotes, Space, NUL, Backslash, SINGLE_QUOTE, DOUBLE_QUOTE

\* The spaces from a plain space on: the last one, and what follows is none.
LEMMA RunEndFacts ==
    ASSUME cmd \in Seq(Text), NEW p \in Nat, p > 0, p <= cmdLen, cmd[p] = Space
    PROVE  /\ RunEnd(p) \in p .. cmdLen
           /\ RunEnd(p) + 1 <= cmdLen => cmd[RunEnd(p) + 1] # Space
           /\ \A r \in p .. RunEnd(p) : cmd[r] = Space
<1> DEFINE S == {q \in p .. cmdLen : \A r \in p .. q : cmd[r] = Space}
           e == Max(S)
<1>1. cmdLen \in Nat
  BY DEF cmdLen
<1>2. p \in S
  BY <1>1
<1>3. S \subseteq Nat /\ S # {} /\ \A x \in S : x <= cmdLen
  BY <1>1, <1>2
<1>4. S \subseteq p .. cmdLen /\ \A q \in S : \A r \in p .. q : cmd[r] = Space
  OBVIOUS
<1>5. \A q \in p .. cmdLen : (\A r \in p .. q : cmd[r] = Space) => q \in S
  OBVIOUS
<1>6. RunEnd(p) = e
  BY DEF RunEnd
<1> HIDE DEF S
<1>7. e \in S /\ \A q \in S : e >= q
  BY <1>1, <1>3, MaxNat
<1> HIDE DEF e
<1>8. e \in p .. cmdLen
  BY <1>4, <1>7
<1>9. ASSUME e + 1 <= cmdLen, cmd[e + 1] = Space PROVE FALSE
  <2>1. \A r \in p .. e + 1 : r \in p .. e \/ r = e + 1
    BY <1>1, <1>8
  <2>2. \A r \in p .. e + 1 : cmd[r] = Space
    BY <1>4, <1>7, <1>9, <2>1
  <2>3. e + 1 \in p .. cmdLen
    BY <1>1, <1>8, <1>9
  <2>4. e + 1 \in S
    BY <1>5, <2>2, <2>3
  <2> QED
    BY <1>7, <1>8, <2>4
<1> QED
  BY <1>4, <1>6, <1>7, <1>8, <1>9

-----------------------------------------------------------------------------
(* The array of the arguments.                                             *)

\* Before the first line.
LEMMA InitArray == Init => ArrayInv
  BY DEF Init, ArrayInv, TypeOK, Text, Separators, cmdLen, Chars, Quotes

\* A line is read: the scan starts on a copy of it, with no argument yet.
LEMMA ReadLineArray ==
    ASSUME ArrayInv, ReadLine
    PROVE  ArrayInv'
<1>1. PICK l \in Lines : line' = l /\ cmd' = l
  BY DEF ReadLine
<1>2. PICK n \in 1 .. MaxLine : l \in [1 .. n -> Chars]
  BY DEF Lines
<1>3. n \in Nat /\ n > 0
  BY CommandLineAssumption
<1>4. l \in Seq(Chars \cup {NUL}) /\ Len(l) = n
  BY <1>2, <1>3
<1>5. cmdv' = <<1>> /\ i' = 1 /\ quote' = NUL /\ pc' = "scan"
  BY DEF ReadLine
<1>6. cmdv' \in Seq(Nat) /\ Len(cmdv') = 1 /\ cmdv'[1] = 1 /\ cmdv' # <<>>
  BY <1>5
<1> QED
  BY <1>1, <1>3, <1>4, <1>5, <1>6 DEF ArrayInv, TypeOK, Separators, cmdLen

\* A step of the scan that leaves the arguments alone and moves on.
LEMMA MoveOnArray ==
    ASSUME ArrayInv, Scanning, i' \in {i + 1, i + 2},
           quote' \in Quotes \cup {NUL}, UNCHANGED <<line, pc, cmd, cmdv>>
    PROVE  ArrayInv'
<1>1. pc = "scan" /\ i \in Nat /\ i <= cmdLen /\ cmdLen \in Nat /\ Len(cmdv) \in Nat
  BY DEF Scanning, ArrayInv, TypeOK, cmdLen
<1>2. i' \in 0 .. cmdLen + 2 /\ i' > i
  BY <1>1
<1>3. TypeOK'
  BY <1>2 DEF ArrayInv, TypeOK, cmdLen
<1>4. cmdLen' = cmdLen /\ Separators' = Separators /\ Separators \in Int
  BY <1>1 DEF cmdLen, Separators
<1>5. 2 * Separators < i'
  BY <1>1, <1>2, <1>4 DEF ArrayInv
<1> QED
  BY <1>1, <1>2, <1>3, <1>4, <1>5 DEF ArrayInv

\* The one step that adds an argument.
LEMMA SeparateArray ==
    ASSUME ArrayInv, Separate
    PROVE  ArrayInv'
<1> DEFINE next == RunEnd(i) + 1
<1>1. /\ Scanning /\ cmd[i] = Space /\ cmd' = [cmd EXCEPT ![i] = NUL]
      /\ cmdv' = (IF next <= cmdLen THEN Append(cmdv, next) ELSE cmdv)
      /\ i' = next /\ UNCHANGED <<line, pc, quote>>
  BY DEF Separate, Follows, Goto
<1>2. /\ pc = "scan" /\ i \in Nat /\ i > 0 /\ i <= cmdLen /\ cmdLen \in Nat
      /\ cmd \in Seq(Text) /\ cmdv \in Seq(Nat)
  BY <1>1 DEF Scanning, ArrayInv, TypeOK, cmdLen, Text
<1>3. /\ RunEnd(i) \in i .. cmdLen
      /\ next <= cmdLen => cmd[next] # Space
  BY <1>1, <1>2, RunEndFacts
<1> HIDE DEF next
<1>4. next \in i + 1 .. cmdLen + 1 /\ next \in Nat
  BY <1>2, <1>3 DEF next
<1>5. cmd' \in Seq(Text) /\ Len(cmd') = Len(cmd)
  BY <1>1, <1>2, Characters DEF cmdLen
<1>6. cmdLen' = cmdLen
  BY <1>5 DEF cmdLen
<1>7. next <= cmdLen => cmd'[next] = cmd[next]
  BY <1>1, <1>2, <1>4 DEF cmdLen
<1>8. 2 * Separators < i /\ 2 * Separators <= cmdLen /\ Separators = Len(cmdv) - 1 /\ Len(cmdv) \in Nat
  BY <1>1, <1>2 DEF ArrayInv, Separators
<1>9. CASE next <= cmdLen
  <2>1. cmdv' = Append(cmdv, next)
    BY <1>1, <1>9
  <2>2. /\ cmdv' \in Seq(Nat) /\ Len(cmdv') = Len(cmdv) + 1 /\ cmdv' # <<>>
        /\ \A k \in 1 .. Len(cmdv) : cmdv'[k] = cmdv[k]
        /\ cmdv'[Len(cmdv) + 1] = next
    BY <1>2, <1>4, <2>1
  <2>3. \A k \in 1 .. Len(cmdv') : cmdv'[k] \in 1 .. cmdLen
    <3>1. \A k \in 1 .. Len(cmdv') : k \in 1 .. Len(cmdv) \/ k = Len(cmdv) + 1
      BY <1>8, <2>2
    <3>2. \A k \in 1 .. Len(cmdv) : cmdv[k] \in 1 .. cmdLen
      BY DEF ArrayInv, TypeOK
    <3>3. next \in 1 .. cmdLen
      BY <1>2, <1>4, <1>9
    <3> QED
      BY <2>2, <3>1, <3>2, <3>3
  <2>4. TypeOK'
    BY <1>1, <1>2, <1>4, <1>5, <1>6, <2>3 DEF ArrayInv, TypeOK, Text
  <2>5. 2 * Separators' <= next /\ 2 * Separators' <= cmdLen
    BY <1>2, <1>4, <1>8, <1>9, <2>2 DEF Separators
  <2> QED
    BY <1>1, <1>2, <1>3, <1>4, <1>6, <1>7, <1>9, <2>2, <2>4, <2>5 DEF ArrayInv
<1>10. CASE next > cmdLen
  <2>1. cmdv' = cmdv /\ Separators' = Separators
    BY <1>1, <1>2, <1>4, <1>10 DEF Separators
  <2>2. TypeOK'
    BY <1>1, <1>2, <1>4, <1>5, <1>6, <2>1 DEF ArrayInv, TypeOK, Text
  <2>3. 2 * Separators' <= next
    BY <1>2, <1>4, <1>8, <2>1
  <2> QED
    BY <1>1, <1>2, <1>4, <1>6, <1>8, <1>10, <2>1, <2>2, <2>3 DEF ArrayInv
<1> QED
  BY <1>2, <1>4, <1>9, <1>10

\* Every step keeps the invariant.
LEMMA NextArray == ArrayInv /\ [Next]_vars => ArrayInv'
<1> SUFFICES ASSUME ArrayInv, [Next]_vars PROVE ArrayInv'
  OBVIOUS
<1>1. CASE ReadLine
  BY <1>1, ReadLineArray
<1>2. CASE Ordinary \/ Escape \/ OpenQuote \/ InQuotes
  <2>1. /\ Scanning /\ i' \in {i + 1, i + 2} /\ UNCHANGED <<line, pc, cmd, cmdv>>
    BY <1>2 DEF Ordinary, Escape, OpenQuote, InQuotes, Goto, Skipped
  <2>2. quote' \in Quotes \cup {NUL}
    BY <1>2 DEF Ordinary, Escape, OpenQuote, InQuotes, ArrayInv, TypeOK
  <2> QED
    BY <2>1, <2>2, MoveOnArray
<1>3. CASE Separate
  BY <1>3, SeparateArray
<1>4. CASE EndOfLine
  BY <1>4 DEF EndOfLine, ArrayInv, TypeOK, cmdLen
<1>5. CASE Return
  BY <1>5 DEF Return, ArrayInv, TypeOK, cmdLen
<1>6. CASE UNCHANGED vars
  BY <1>6 DEF vars, ArrayInv, TypeOK, cmdLen, Separators
<1> QED
  BY <1>1, <1>2, <1>3, <1>4, <1>5, <1>6 DEF Next, CodeStep

-----------------------------------------------------------------------------
(* What the characters of the line mean.                                   *)

Modes == [in : Quotes \cup {NUL}, escaped : BOOLEAN]

\* A character makes a mode of a mode.
LEMMA AfterMode ==
    ASSUME NEW m \in Modes, NEW c \in Chars
    PROVE  After(m, c) \in Modes
  BY DEF After, Modes

\* The mode at a position is made of the one before, and the line starts plain.
LEMMA ModeIs ==
    ASSUME NEW l \in Seq(Chars)
    PROVE  /\ Mode(l, 1) = Plain
           /\ \A p \in 1 .. Len(l) : Mode(l, p + 1) = After(Mode(l, p), l[p])
           /\ \A p \in 1 .. Len(l) + 1 : Mode(l, p) \in Modes
<1> DEFINE n == Len(l)
           step == [k \in 1 .. n |-> [m \in Modes |-> After(m, l[k])]]
           Table(g) == g = [q \in 1 .. n + 1 |-> IF q = 1 THEN Plain ELSE After(g[q - 1], l[q - 1])]
<1>1. n \in Nat /\ \A k \in 1 .. n : l[k] \in Chars
  OBVIOUS
<1>2. step \in [1 .. n -> [Modes -> Modes]]
  <2> HIDE DEF n
  <2> QED
    BY <1>1, AfterMode
<1>3. Plain \in Modes
  BY DEF Plain, Modes
<1> HIDE DEF n
<1>4. PICK w \in [0 .. n -> Modes] : w[0] = Plain /\ \A k \in 1 .. n : w[k] = step[k][w[k - 1]]
  <2> HIDE DEF step
  <2>1. n \in Nat
    BY <1>1
  <2>2. \E w \in [0 .. n -> Modes] : w[0] = Plain /\ \A k \in 1 .. n : w[k] = step[k][w[k - 1]]
    BY <1>2, <1>3, <2>1, Iteration
  <2> QED
    BY <2>2
<1>5. \A k \in 1 .. n : w[k] = After(w[k - 1], l[k])
  <2> SUFFICES ASSUME NEW k \in 1 .. n PROVE w[k] = After(w[k - 1], l[k])
    OBVIOUS
  <2>1. w[k - 1] \in Modes
    BY <1>1, <1>4
  <2> QED
    BY <1>4, <2>1
<1> DEFINE v == [q \in 1 .. n + 1 |-> w[q - 1]]
<1>6. Table(v)
  <2>1. ASSUME NEW q \in 1 .. n + 1
        PROVE  v[q] = IF q = 1 THEN Plain ELSE After(v[q - 1], l[q - 1])
    <3>1. CASE q = 1
      BY <1>4, <3>1
    <3>2. CASE q # 1
      <4>1. q - 1 \in 1 .. n /\ q - 1 \in 1 .. n + 1
        BY <1>1, <3>2
      <4>2. w[q - 1] = After(w[q - 2], l[q - 1]) /\ v[q] = w[q - 1] /\ v[q - 1] = w[q - 2]
        BY <1>1, <1>5, <4>1
      <4> QED
        BY <3>2, <4>2
    <3> QED
      BY <3>1, <3>2
  <2>2. v = [q \in 1 .. n + 1 |-> v[q]]
    OBVIOUS
  <2> HIDE DEF v
  <2> QED
    BY <2>1, <2>2
<1> DEFINE g == CHOOSE g : Table(g)
<1>7. Table(g)
  <2> HIDE DEF v, Table
  <2> QED
    BY <1>6
<1>8. \A p : Mode(l, p) = g[p]
  BY DEF Mode, n
<1> HIDE DEF g
<1>9. g[1] = Plain /\ \A p \in 1 .. n : g[p + 1] = After(g[p], l[p])
  <2>1. 1 \in 1 .. n + 1 /\ \A p \in 1 .. n : p + 1 \in 1 .. n + 1 /\ p + 1 # 1 /\ (p + 1) - 1 = p
    BY <1>1
  <2> QED
    BY <1>7, <2>1
<1> DEFINE P == {p \in 0 .. n : g[p + 1] \in Modes}
<1>10. 0 .. n \subseteq P
  <2>1. 0 \in P
    BY <1>1, <1>3, <1>9
  <2>2. ASSUME NEW p \in 0 .. n - 1, p \in P PROVE p + 1 \in P
    <3>1. p + 1 \in 1 .. n /\ g[(p + 1) + 1] = After(g[p + 1], l[p + 1])
      BY <1>1, <1>9
    <3>2. g[(p + 1) + 1] \in Modes
      BY <1>1, <2>2, <3>1, AfterMode
    <3> QED
      BY <1>1, <3>1, <3>2
  <2> HIDE DEF P
  <2> QED
    BY <1>1, <2>1, <2>2, BoundedInduction
<1>11. \A p \in 1 .. n + 1 : g[p] \in Modes
  <2> SUFFICES ASSUME NEW p \in 1 .. n + 1 PROVE g[p] \in Modes
    OBVIOUS
  <2>1. p - 1 \in 0 .. n /\ (p - 1) + 1 = p
    BY <1>1
  <2> QED
    BY <1>10, <2>1
<1> QED
  BY <1>8, <1>9, <1>11 DEF n

-----------------------------------------------------------------------------
(* The scan.                                                               *)

\* What one character makes of a mode that is not escaped, and of one that is.
LEMMA AfterIs ==
    ASSUME NEW q \in Quotes \cup {NUL}, NEW c \in Chars
    PROVE  /\ c = Backslash =>
                After([in |-> q, escaped |-> FALSE], c) = [in |-> q, escaped |-> TRUE]
           /\ q = NUL /\ c \notin Quotes \cup {Backslash} =>
                After([in |-> q, escaped |-> FALSE], c) = [in |-> q, escaped |-> FALSE]
           /\ q = NUL /\ c \in Quotes =>
                After([in |-> q, escaped |-> FALSE], c) = [in |-> c, escaped |-> FALSE]
           /\ q # NUL /\ c # Backslash =>
                After([in |-> q, escaped |-> FALSE], c) =
                  [in |-> IF c = q THEN NUL ELSE q, escaped |-> FALSE]
           /\ After([in |-> q, escaped |-> TRUE], c) = [in |-> q, escaped |-> FALSE]
<1>1. NUL \notin Chars /\ Backslash \notin Quotes /\ NUL \notin Quotes
  BY DEF Chars, Quotes, Space, NUL, Backslash, SINGLE_QUOTE, DOUBLE_QUOTE
<1> QED
  BY <1>1 DEF After

\* The scan at a character: the line is still as it was typed from there on.
AtCharacter(c, m) ==
    /\ pc = "scan" /\ i \in 1 .. Len(line) /\ Len(line) \in Nat /\ cmdLen = Len(line)
    /\ c = line[i] /\ c = cmd[i] /\ c \in Chars
    /\ quote \in Quotes \cup {NUL}
    /\ m = [in |-> quote, escaped |-> FALSE] /\ Mode(line, i) = m
    /\ Mode(line, i + 1) = After(m, c)
    /\ i + 1 <= Len(line) => line[i + 1] \in Chars /\ Mode(line, i + 2) = After(After(m, c), line[i + 1])

\* A scan that has not ended is at one.
LEMMA ScanningIs ==
    ASSUME IInv, Scanning
    PROVE  AtCharacter(line[i], Mode(line, i))
<1>1. pc = "scan" /\ i <= cmdLen /\ cmdLen = Len(cmd) /\ Len(cmd) = Len(line) /\ i \in Nat /\ i > 0
  BY DEF Scanning, IInv, ArrayInv, TypeOK, cmdLen
<1>2. line \in Seq(Chars) /\ Len(line) \in Nat /\ ScanInv /\ quote \in Quotes \cup {NUL}
  BY <1>1 DEF IInv, ArrayInv, TypeOK
<1>3. i \in 1 .. Len(line)
  BY <1>1, <1>2
<1>4. cmd[i] = line[i] /\ line[i] \in Chars /\ Mode(line, i) = [in |-> quote, escaped |-> FALSE]
  BY <1>2, <1>3 DEF ScanInv
<1>5. Mode(line, i + 1) = After(Mode(line, i), line[i])
  BY <1>2, <1>3, ModeIs
<1>6. ASSUME i + 1 <= Len(line)
      PROVE  line[i + 1] \in Chars /\ Mode(line, i + 2) = After(After(Mode(line, i), line[i]), line[i + 1])
  <2>1. i + 1 \in 1 .. Len(line) /\ (i + 1) + 1 = i + 2
    BY <1>1, <1>2, <1>6
  <2>2. Mode(line, (i + 1) + 1) = After(Mode(line, i + 1), line[i + 1])
    BY <1>2, <2>1, ModeIs
  <2> QED
    BY <1>2, <1>5, <2>1, <2>2
<1> QED
  BY <1>1, <1>2, <1>3, <1>4, <1>5, <1>6 DEF AtCharacter

\* What the scan finds at the position it goes to.
Arrived(p, q) ==
    /\ p <= Len(line) + 1 => Mode(line, p) = [in |-> q, escaped |-> FALSE]
    /\ p > Len(line) => Mode(line, Len(line) + 1).in = q

\* A step over characters that are no gaps.
LEMMA PassScan ==
    ASSUME IInv, Scanning, ArrayInv', NEW p \in {i + 1, i + 2}, i' = p,
           UNCHANGED <<line, pc, cmd, cmdv>>, ~Gap(line, i),
           p = i + 2 /\ i + 1 <= Len(line) => ~Gap(line, i + 1), Arrived(p, quote')
    PROVE  IInv'
<1>1. AtCharacter(line[i], Mode(line, i))
  BY ScanningIs
<1>2. pc = "scan" /\ i \in 1 .. Len(line) /\ Len(line) \in Nat /\ cmdLen = Len(line)
  BY <1>1 DEF AtCharacter
<1>3. ScanInv /\ line \in Seq(Chars)
  BY <1>2 DEF IInv
<1>4. \A r \in i .. p - 1 : r <= Len(line) => ~Gap(line, r)
  <2> SUFFICES ASSUME NEW r \in i .. p - 1, r <= Len(line) PROVE ~Gap(line, r)
    OBVIOUS
  <2>1. r = i \/ (r = i + 1 /\ p = i + 2)
    BY <1>2
  <2> QED
    BY <2>1
<1>5. \A r \in 1 .. Len(line) : (r < p /\ FirstGap(line, r)) <=> (r < i /\ FirstGap(line, r))
  <2> SUFFICES ASSUME NEW r \in 1 .. Len(line)
               PROVE  (r < p /\ FirstGap(line, r)) <=> (r < i /\ FirstGap(line, r))
    OBVIOUS
  <2>1. r < p /\ ~(r < i) => r \in i .. p - 1
    BY <1>2
  <2>2. r < i => r < p
    BY <1>2
  <2> QED
    BY <1>4, <2>1, <2>2 DEF FirstGap
<1>6. {r \in Starts(line) : r <= p} = {r \in Starts(line) : r <= i}
  <2>1. ASSUME NEW r \in Starts(line), r <= p PROVE r <= i
    <3>1. CASE r = 1
      BY <1>2, <3>1
    <3>2. CASE r # 1
      <4>1. r \in 2 .. Len(line) /\ Gap(line, r - 1)
        BY <3>2 DEF Starts
      <4>2. ~(r - 1 \in i .. p - 1)
        BY <1>2, <1>4, <4>1
      <4> QED
        BY <1>2, <2>1, <4>1, <4>2
    <3> QED
      BY <3>1, <3>2
  <2>2. ASSUME NEW r \in Starts(line), r <= i PROVE r <= p
    <3>1. r \in Int
      BY DEF Starts
    <3> QED
      BY <1>2, <2>2, <3>1
  <2> QED
    BY <2>1, <2>2
<1>7. p <= Len(line) => ~Gap(line, p - 1)
  <2>1. p - 1 \in i .. p - 1 /\ (p <= Len(line) => p - 1 <= Len(line))
    BY <1>2
  <2> QED
    BY <1>4, <2>1
<1>8. ScanInv'
  BY <1>3, <1>5, <1>6, <1>7 DEF ScanInv, Arrived
<1>9. p > 0 /\ line # <<>>
  BY <1>2 DEF IInv
<1> QED
  BY <1>2, <1>3, <1>8, <1>9 DEF IInv

\* A character outside quotes that has no meaning of its own.
LEMMA OrdinaryScan ==
    ASSUME IInv, ArrayInv', Ordinary
    PROVE  IInv'
<1> DEFINE c == line[i]
           m == Mode(line, i)
<1>1. AtCharacter(c, m) /\ Scanning
  BY ScanningIs DEF Ordinary
<1>2. quote = NUL /\ c \notin Quotes \cup {Backslash} /\ c # Space
  BY <1>1 DEF Ordinary, AtCharacter
<1>3. Mode(line, i + 1) = [in |-> quote, escaped |-> FALSE]
  BY <1>1, <1>2, AfterIs DEF AtCharacter
<1>4. ~Gap(line, i)
  BY <1>2 DEF Gap
<1>5. Arrived(i + 1, quote)
  <2>1. i + 1 > Len(line) => i + 1 = Len(line) + 1
    BY <1>1 DEF AtCharacter
  <2> QED
    BY <1>3, <2>1 DEF Arrived
<1>6. i' = i + 1 /\ UNCHANGED <<line, pc, cmd, cmdv>> /\ quote' = quote /\ ~(i + 1 = i + 2)
  BY <1>1 DEF Ordinary, Goto, AtCharacter
<1> QED
  BY <1>1, <1>4, <1>5, <1>6, PassScan

\* A backslash, and the character behind it, whatever it is, if there is one.
LEMMA EscapeScan ==
    ASSUME IInv, ArrayInv', Escape
    PROVE  IInv'
<1> DEFINE c == line[i]
           m == Mode(line, i)
<1>1. AtCharacter(c, m) /\ Scanning
  BY ScanningIs DEF Escape
<1>2. c = Backslash
  BY <1>1 DEF Escape, AtCharacter
<1>3. /\ i \in 1 .. Len(line) /\ Len(line) \in Nat /\ c \in Chars /\ quote \in Quotes \cup {NUL}
      /\ m = [in |-> quote, escaped |-> FALSE] /\ Mode(line, i + 1) = After(m, c)
      /\ i + 1 <= Len(line) =>
           line[i + 1] \in Chars /\ Mode(line, i + 2) = After(After(m, c), line[i + 1])
  BY <1>1 DEF AtCharacter
<1>4. Mode(line, i + 1) = [in |-> quote, escaped |-> TRUE]
  BY <1>2, <1>3, AfterIs
<1>5. i + 1 <= Len(line) => Mode(line, i + 2) = [in |-> quote, escaped |-> FALSE]
  <2> SUFFICES ASSUME i + 1 <= Len(line) PROVE Mode(line, i + 2) = [in |-> quote, escaped |-> FALSE]
    OBVIOUS
  <2>1. line[i + 1] \in Chars /\ Mode(line, i + 2) = After([in |-> quote, escaped |-> TRUE], line[i + 1])
    BY <1>3, <1>4
  <2>2. After([in |-> quote, escaped |-> TRUE], line[i + 1]) = [in |-> quote, escaped |-> FALSE]
    BY <1>3, <2>1, AfterIs
  <2> QED
    BY <2>1, <2>2
<1>6. ~Gap(line, i) /\ ~Gap(line, i + 1)
  <2>1. Backslash # Space /\ Plain.escaped = FALSE
    BY DEF Backslash, Space, Plain
  <2>2. Mode(line, i + 1).escaped = TRUE
    BY <1>4
  <2> QED
    BY <1>2, <2>1, <2>2 DEF Gap
<1>7. Arrived(i + 2, quote)
  <2>1. CASE i + 1 <= Len(line)
    <3>1. i + 2 <= Len(line) + 1 /\ (i + 2 > Len(line) => i + 2 = Len(line) + 1)
      BY <1>3, <2>1
    <3> QED
      BY <1>5, <2>1, <3>1 DEF Arrived
  <2>2. CASE ~(i + 1 <= Len(line))
    <3>1. ~(i + 2 <= Len(line) + 1) /\ i + 1 = Len(line) + 1
      BY <1>3, <2>2
    <3> QED
      BY <1>4, <3>1 DEF Arrived
  <2> QED
    BY <2>1, <2>2
<1>8. i' = i + 2 /\ UNCHANGED <<line, pc, cmd, cmdv>> /\ quote' = quote
  BY DEF Escape, Goto, Skipped
<1> QED
  BY <1>1, <1>6, <1>7, <1>8, PassScan

\* A quote outside quotes.
LEMMA OpenQuoteScan ==
    ASSUME IInv, ArrayInv', OpenQuote
    PROVE  IInv'
<1> DEFINE c == line[i]
           m == Mode(line, i)
<1>1. AtCharacter(c, m) /\ Scanning
  BY ScanningIs DEF OpenQuote
<1>2. quote = NUL /\ c \in Quotes /\ quote' = c
  BY <1>1 DEF OpenQuote, AtCharacter
<1>3. Mode(line, i + 1) = [in |-> c, escaped |-> FALSE]
  <2>1. c \in Chars /\ quote \in Quotes \cup {NUL} /\ Mode(line, i + 1) = After([in |-> quote, escaped |-> FALSE], c)
    BY <1>1 DEF AtCharacter
  <2>2. After([in |-> quote, escaped |-> FALSE], c) = [in |-> c, escaped |-> FALSE]
    BY <1>2, <2>1, AfterIs
  <2> QED
    BY <2>1, <2>2
<1>4. ~Gap(line, i)
  <2>1. Space \notin Quotes
    BY DEF Space, Quotes, SINGLE_QUOTE, DOUBLE_QUOTE
  <2> QED
    BY <1>2, <2>1 DEF Gap
<1>5. Arrived(i + 1, c)
  <2>1. i + 1 > Len(line) => i + 1 = Len(line) + 1
    BY <1>1 DEF AtCharacter
  <2> QED
    BY <1>3, <2>1 DEF Arrived
<1>6. i' = i + 1 /\ UNCHANGED <<line, pc, cmd, cmdv>> /\ ~(i + 1 = i + 2)
  BY <1>1 DEF OpenQuote, Goto, AtCharacter
<1> QED
  BY <1>1, <1>2, <1>4, <1>5, <1>6, PassScan

\* A character in quotes, the one that closes them or another.
LEMMA InQuotesScan ==
    ASSUME IInv, ArrayInv', InQuotes
    PROVE  IInv'
<1> DEFINE c == line[i]
           m == Mode(line, i)
<1>1. AtCharacter(c, m) /\ Scanning
  BY ScanningIs DEF InQuotes
<1>2. quote # NUL /\ c # Backslash /\ quote' = IF c = quote THEN NUL ELSE quote
  BY <1>1 DEF InQuotes, AtCharacter, Closes
<1>3. Mode(line, i + 1) = [in |-> quote', escaped |-> FALSE]
  BY <1>1, <1>2, AfterIs DEF AtCharacter
<1>4. ~Gap(line, i)
  <2>1. m.in = quote /\ Plain.in = NUL
    BY <1>1 DEF AtCharacter, Plain
  <2> QED
    BY <1>2, <2>1 DEF Gap
<1>5. Arrived(i + 1, quote')
  <2>1. i + 1 > Len(line) => i + 1 = Len(line) + 1
    BY <1>1 DEF AtCharacter
  <2> QED
    BY <1>3, <2>1 DEF Arrived
<1>6. i' = i + 1 /\ UNCHANGED <<line, pc, cmd, cmdv>> /\ ~(i + 1 = i + 2)
  BY <1>1 DEF InQuotes, Goto, AtCharacter
<1> QED
  BY <1>1, <1>4, <1>5, <1>6, PassScan

\* A run of spaces outside quotes: all of them are gaps.
LEMMA RunOfGaps ==
    ASSUME NEW l \in Seq(Chars), NEW p \in 1 .. Len(l), NEW e \in p .. Len(l),
           Mode(l, p) = Plain, \A r \in p .. e : l[r] = Space
    PROVE  Mode(l, e + 1) = Plain /\ \A r \in p .. e : Gap(l, r)
<1>1. Space \in Chars /\ Space \notin Quotes \cup {Backslash} /\ Len(l) \in Nat
  <2>1. Space \in Chars /\ Space \notin Quotes \cup {Backslash}
    BY DEF Chars, Quotes, Space, Backslash, SINGLE_QUOTE, DOUBLE_QUOTE
  <2> QED
    BY <2>1
<1>2. After(Plain, Space) = Plain
  BY <1>1, AfterIs DEF Plain
<1> DEFINE n == e - p + 1
           P == {k \in 0 .. n : Mode(l, p + k) = Plain}
<1>3. n \in Nat
  OBVIOUS
<1>4. 0 \in P
  BY <1>3
<1>5. ASSUME NEW k \in 0 .. n - 1, k \in P PROVE k + 1 \in P
  <2>1. p + k \in p .. e /\ p + k \in 1 .. Len(l) /\ (p + k) + 1 = p + (k + 1)
    BY <1>1
  <2>2. Mode(l, (p + k) + 1) = After(Mode(l, p + k), l[p + k])
    BY <2>1, ModeIs
  <2>3. Mode(l, (p + k) + 1) = Plain
    BY <1>2, <1>5, <2>1, <2>2
  <2>4. Mode(l, p + (k + 1)) = Plain
    BY <2>1, <2>3
  <2> QED
    BY <1>3, <2>4
<1>6. 0 .. n \subseteq P
  <2> HIDE DEF P, n
  <2> QED
    BY <1>3, <1>4, <1>5, BoundedInduction
<1>7. ASSUME NEW r \in p .. e + 1 PROVE Mode(l, r) = Plain
  <2>1. r - p \in 0 .. n /\ p + (r - p) = r
    BY <1>1
  <2> QED
    BY <1>6, <2>1
<1>8. Mode(l, e + 1) = Plain
  <2>1. e + 1 \in p .. e + 1
    BY <1>1
  <2> QED
    BY <1>7, <2>1
<1>9. \A r \in p .. e : r \in p .. e + 1
  BY <1>1
<1> QED
  BY <1>7, <1>8, <1>9 DEF Gap

\* Adding an argument behind the others.
LEMMA ArgumentAdded ==
    ASSUME cmdv \in Seq(Nat), NEW n \in Nat, cmdv' = Append(cmdv, n),
           \A k \in 1 .. Len(cmdv) : cmdv[k] < n,
           \A k \in 2 .. Len(cmdv) : cmdv[k - 1] < cmdv[k]
    PROVE  /\ Range(cmdv') = Range(cmdv) \cup {n}
           /\ \A k \in 2 .. Len(cmdv') : cmdv'[k - 1] < cmdv'[k]
<1>1. /\ cmdv' \in Seq(Nat) /\ Len(cmdv') = Len(cmdv) + 1 /\ Len(cmdv) \in Nat
      /\ \A k \in 1 .. Len(cmdv) : cmdv'[k] = cmdv[k]
      /\ cmdv'[Len(cmdv) + 1] = n
      /\ DOMAIN cmdv = 1 .. Len(cmdv) /\ DOMAIN cmdv' = 1 .. Len(cmdv')
  OBVIOUS
<1>2. 1 .. Len(cmdv') = (1 .. Len(cmdv)) \cup {Len(cmdv) + 1}
  BY <1>1
<1>3. Range(cmdv') = Range(cmdv) \cup {n}
  BY <1>1, <1>2 DEF Range
<1>4. ASSUME NEW k \in 2 .. Len(cmdv') PROVE cmdv'[k - 1] < cmdv'[k]
  <2>1. k - 1 \in 1 .. Len(cmdv) /\ (k \in 2 .. Len(cmdv) \/ k = Len(cmdv) + 1)
    BY <1>1
  <2>2. CASE k \in 2 .. Len(cmdv)
    <3>1. k \in 1 .. Len(cmdv)
      BY <1>1, <2>2
    <3> QED
      BY <1>1, <2>1, <2>2, <3>1
  <2>3. CASE k = Len(cmdv) + 1
    BY <1>1, <2>1, <2>3
  <2> QED
    BY <2>1, <2>2, <2>3
<1> QED
  BY <1>3, <1>4

\* A space outside quotes: the first one of the run becomes a NUL, and an
\* argument starts behind the last one.
LEMMA SeparateScan ==
    ASSUME IInv, ArrayInv', Separate
    PROVE  IInv'
<1> DEFINE c == line[i]
           m == Mode(line, i)
           e == RunEnd(i)
           next == e + 1
<1>1. AtCharacter(c, m) /\ Scanning
  BY ScanningIs DEF Separate
<1>2. /\ pc = "scan" /\ i \in 1 .. Len(line) /\ Len(line) \in Nat /\ cmdLen = Len(line)
      /\ quote = NUL /\ c = Space /\ cmd[i] = Space /\ m = Plain
  BY <1>1 DEF AtCharacter, Separate, Plain
<1>3. /\ cmd' = [cmd EXCEPT ![i] = NUL]
      /\ cmdv' = (IF next <= Len(line) THEN Append(cmdv, next) ELSE cmdv)
      /\ i' = next /\ UNCHANGED <<line, pc, quote>>
  BY <1>2 DEF Separate, Follows, Goto
<1>4. /\ ScanInv /\ line \in Seq(Chars) /\ line # <<>> /\ cmd \in Seq(Text) /\ Len(cmd) = Len(line)
      /\ cmdv \in Seq(Nat)
  BY <1>2 DEF IInv, ArrayInv, TypeOK, Text
<1>5. /\ e \in i .. Len(line) /\ (next <= Len(line) => cmd[next] # Space)
      /\ \A r \in i .. e : cmd[r] = Space
  BY <1>2, <1>4, RunEndFacts
<1> HIDE DEF e, c, m
<1>6. \A r \in i .. Len(line) : cmd[r] = line[r]
  <2> SUFFICES ASSUME NEW r \in i .. Len(line) PROVE cmd[r] = line[r]
    OBVIOUS
  <2>1. r \in 1 .. Len(line) /\ ~(r < i)
    BY <1>2
  <2> QED
    BY <1>4, <2>1 DEF ScanInv
<1>7. \A r \in i .. e : line[r] = Space
  <2>1. \A r \in i .. e : r \in i .. Len(line)
    BY <1>2, <1>5
  <2> QED
    BY <1>5, <1>6, <2>1
<1>8. Mode(line, next) = Plain /\ \A r \in i .. e : Gap(line, r)
  BY <1>2, <1>4, <1>5, <1>7, RunOfGaps DEF m
<1>9. next \in Nat /\ next > i /\ next > 0 /\ next <= Len(line) + 1
  BY <1>2, <1>5
<1>10. next <= Len(line) => line[next] # Space
  <2>1. next <= Len(line) => next \in i .. Len(line)
    BY <1>2, <1>9
  <2> QED
    BY <1>5, <1>6, <2>1
<1>11. FirstGap(line, i)
  <2>1. i # 1 => ~Gap(line, i - 1)
    <3>1. i # 1 => 1 < i /\ i <= Len(line)
      BY <1>2
    <3> QED
      BY <1>2, <1>4, <3>1 DEF ScanInv, c
  <2>2. i \in i .. e
    BY <1>2, <1>5
  <2> QED
    BY <1>8, <2>1, <2>2 DEF FirstGap
<1>12. ASSUME NEW p \in 1 .. Len(line)
       PROVE  cmd'[p] = IF p < next /\ FirstGap(line, p) THEN NUL ELSE line[p]
  <2>1. cmd[p] = IF p < i /\ FirstGap(line, p) THEN NUL ELSE line[p]
    BY <1>4 DEF ScanInv
  <2>2. p \in DOMAIN cmd
    BY <1>4
  <2>3. CASE p = i
    BY <1>3, <1>9, <1>11, <2>2, <2>3
  <2>4. CASE p < i
    <3>1. p # i /\ p < next
      BY <1>2, <1>9, <2>4
    <3> QED
      BY <1>3, <2>1, <2>2, <2>4, <3>1
  <2>5. CASE i < p /\ p <= e
    <3>1. p - 1 \in i .. e /\ p # 1 /\ ~(p < i) /\ p # i
      BY <1>2, <1>5, <2>5
    <3>2. ~FirstGap(line, p)
      BY <1>8, <3>1 DEF FirstGap
    <3> QED
      BY <1>3, <2>1, <2>2, <3>1, <3>2
  <2>6. CASE p > e
    <3>1. ~(p < next) /\ ~(p < i) /\ p # i
      BY <1>2, <1>5, <2>6
    <3> QED
      BY <1>3, <2>1, <2>2, <3>1
  <2> QED
    BY <1>2, <1>5, <2>3, <2>4, <2>5, <2>6
<1>13. next <= Len(line) => next \in Starts(line)
  <2> SUFFICES ASSUME next <= Len(line) PROVE next \in Starts(line)
    OBVIOUS
  <2>1. next \in 2 .. Len(line) /\ next - 1 = e /\ e \in i .. e
    BY <1>2, <1>5, <1>9
  <2>2. Gap(line, next - 1) /\ ~Gap(line, next)
    BY <1>8, <1>10, <2>1 DEF Gap
  <2> HIDE DEF next
  <2> QED
    BY <2>1, <2>2 DEF Starts
<1>14. \A p \in Starts(line) : p <= next <=> p <= i \/ p = next
  <2> SUFFICES ASSUME NEW p \in Starts(line) PROVE p <= next <=> p <= i \/ p = next
    OBVIOUS
  <2>1. p = 1 \/ (p \in 2 .. Len(line) /\ ~Gap(line, p))
    BY DEF Starts
  <2>2. p \notin i + 1 .. e
    <3>1. p \in i + 1 .. e => p # 1 /\ p \in i .. e
      BY <1>2, <1>5
    <3> QED
      BY <1>8, <2>1, <3>1
  <2>3. p \in Int
    BY <2>1
  <2> QED
    BY <1>2, <1>5, <2>2, <2>3
<1> HIDE DEF next
<1>15. Range(cmdv) = {p \in Starts(line) : p <= i} /\ \A k \in 2 .. Len(cmdv) : cmdv[k - 1] < cmdv[k]
  BY <1>4 DEF ScanInv
<1>16. Range(cmdv') = {p \in Starts(line) : p <= next} /\ \A k \in 2 .. Len(cmdv') : cmdv'[k - 1] < cmdv'[k]
  <2>1. CASE next <= Len(line)
    <3>1. \A k \in 1 .. Len(cmdv) : cmdv[k] < next
      <4> SUFFICES ASSUME NEW k \in 1 .. Len(cmdv) PROVE cmdv[k] < next
        OBVIOUS
      <4>1. cmdv[k] \in Range(cmdv) /\ cmdv[k] \in Nat
        BY <1>4 DEF Range
      <4>2. cmdv[k] <= i
        BY <1>15, <4>1
      <4> QED
        BY <1>2, <1>9, <4>1, <4>2
    <3>2. cmdv' = Append(cmdv, next)
      BY <1>3, <2>1
    <3>3. /\ Range(cmdv') = Range(cmdv) \cup {next}
          /\ \A k \in 2 .. Len(cmdv') : cmdv'[k - 1] < cmdv'[k]
      BY <1>4, <1>9, <1>15, <3>1, <3>2, ArgumentAdded
    <3> QED
      BY <1>13, <1>14, <1>15, <2>1, <3>3
  <2>2. CASE ~(next <= Len(line))
    <3>1. cmdv' = cmdv
      BY <1>3, <2>2
    <3>2. \A p \in Starts(line) : p # next
      <4>1. \A p \in Starts(line) : p = 1 \/ p <= Len(line)
        BY DEF Starts
      <4>2. 1 <= Len(line)
        BY <1>2
      <4> QED
        BY <2>2, <4>1, <4>2
    <3> QED
      BY <1>14, <1>15, <3>1, <3>2
  <2> QED
    BY <2>1, <2>2
<1>17. ScanInv'
  <2>1. Mode(line, next) = [in |-> quote, escaped |-> FALSE] /\ (next > Len(line) => next = Len(line) + 1)
    BY <1>2, <1>8, <1>9 DEF Plain
  <2> QED
    BY <1>3, <1>10, <1>12, <1>16, <2>1 DEF ScanInv
<1> QED
  BY <1>2, <1>3, <1>4, <1>9, <1>17 DEF IInv

\* A line that is read: nothing of it is scanned.
LEMMA ReadLineScan ==
    ASSUME IInv, ArrayInv', ReadLine
    PROVE  IInv'
<1>1. PICK l \in Lines : line' = l /\ cmd' = l
  BY DEF ReadLine
<1>2. PICK n \in 1 .. MaxLine : l \in [1 .. n -> Chars]
  BY DEF Lines
<1>3. n \in Nat /\ n > 0 /\ l \in Seq(Chars) /\ Len(l) = n /\ l # <<>>
  BY <1>2, CommandLineAssumption
<1>4. cmdv' = <<1>> /\ i' = 1 /\ quote' = NUL /\ pc' = "scan"
  BY DEF ReadLine
<1>5. Len(cmdv') = 1 /\ Range(cmdv') = {1}
  BY <1>4 DEF Range
<1>6. {p \in Starts(l) : p <= 1} = {1}
  BY DEF Starts
<1>7. Mode(l, 1) = [in |-> NUL, escaped |-> FALSE]
  BY <1>3, ModeIs DEF Plain
<1>8. ~(1 > n) /\ ~(1 < 1) /\ \A p \in 1 .. n : ~(p < 1)
  BY <1>3
<1>9. ScanInv'
  BY <1>1, <1>3, <1>4, <1>5, <1>6, <1>7, <1>8 DEF ScanInv
<1> QED
  BY <1>1, <1>3, <1>4, <1>9 DEF IInv

\* Every step keeps both parts of the invariant.
LEMMA NextIInv == IInv /\ [Next]_vars => IInv'
<1> SUFFICES ASSUME IInv, [Next]_vars PROVE IInv'
  OBVIOUS
<1>1. ArrayInv'
  BY NextArray DEF IInv
<1>2. CASE ReadLine
  BY <1>1, <1>2, ReadLineScan
<1>3. CASE Ordinary
  BY <1>1, <1>3, OrdinaryScan
<1>4. CASE Escape
  BY <1>1, <1>4, EscapeScan
<1>5. CASE OpenQuote
  BY <1>1, <1>5, OpenQuoteScan
<1>6. CASE InQuotes
  BY <1>1, <1>6, InQuotesScan
<1>7. CASE Separate
  BY <1>1, <1>7, SeparateScan
<1>8. CASE EndOfLine
  <2>1. /\ pc = "scan" /\ i > cmdLen /\ UNCHANGED <<line, cmd, cmdv, i, quote>>
        /\ pc' = IF quote = NUL THEN "run" ELSE "unterminated"
    BY <1>8 DEF EndOfLine
  <2>2. ScanInv' /\ line # <<>> /\ i > 0
    BY <2>1 DEF IInv, ScanInv
  <2> QED
    BY <1>1, <2>1, <2>2 DEF IInv, cmdLen
<1>9. CASE Return
  <2>1. line' = <<>> /\ pc' = "prompt"
    BY <1>9 DEF Return
  <2> QED
    BY <1>1, <2>1 DEF IInv
<1>10. CASE UNCHANGED vars
  BY <1>1, <1>10 DEF vars, IInv, ScanInv, cmdLen
<1> QED
  BY <1>2, <1>3, <1>4, <1>5, <1>6, <1>7, <1>8, <1>9, <1>10 DEF Next, CodeStep

-----------------------------------------------------------------------------
(* The arguments at the end of the scan.                                   *)

\* The text up to the first cut is the text up to the first end, if what is
\* cut is an end, every end has a cut before it, and the rest is the same.
LEMMA UptoSame ==
    ASSUME NEW S, NEW l \in Seq(S), NEW d \in Seq(S), NEW n \in Nat, Len(l) = n, Len(d) = n,
           NEW s \in 1 .. n, NEW N, NEW G, N \subseteq G,
           \A g \in s .. n : g \in G => \E m \in s .. g : m \in N,
           \A p \in 1 .. n : p \notin N => d[p] = l[p]
    PROVE  Upto(d, s, N) = Upto(l, s, G)
<1> DEFINE A == {q \in s .. n : q \in N} \cup {n + 1}
           B == {q \in s .. n : q \in G} \cup {n + 1}
<1>1. A \subseteq Nat /\ B \subseteq Nat /\ A # {} /\ B # {} /\ A \subseteq B
  OBVIOUS
<1>2. A \subseteq s .. n + 1 /\ \A p \in s .. n : p \in N => p \in A
  OBVIOUS
<1>3. ASSUME NEW b \in B PROVE \E a \in A : a <= b
  <2>1. CASE b = n + 1
    BY <2>1
  <2>2. CASE b # n + 1
    <3>1. b \in s .. n /\ b \in G
      BY <1>3, <2>2
    <3>2. PICK m \in s .. b : m \in N
      BY <3>1
    <3>3. m \in s .. n /\ m <= b
      BY <3>1
    <3> QED
      BY <3>2, <3>3
  <2> QED
    BY <2>1, <2>2
<1>4. Upto(d, s, N) = SubSeq(d, s, Min(A) - 1) /\ Upto(l, s, G) = SubSeq(l, s, Min(B) - 1)
  BY DEF Upto
<1> HIDE DEF A, B
<1>5. /\ Min(A) \in A /\ \A y \in A : Min(A) <= y
      /\ Min(B) \in B /\ \A y \in B : Min(B) <= y
  BY <1>1, MinNat
<1> DEFINE k == Min(A)
<1>6. Min(B) = k
  <2>1. Min(B) <= k
    BY <1>1, <1>5
  <2>2. PICK a \in A : a <= Min(B)
    BY <1>3, <1>5
  <2>3. k <= a /\ a \in Nat /\ k \in Nat /\ Min(B) \in Nat
    BY <1>1, <1>5
  <2> HIDE DEF k
  <2> QED
    BY <2>1, <2>2, <2>3
<1>7. k \in s .. n + 1 /\ \A y \in A : k <= y
  BY <1>2, <1>5
<1> HIDE DEF k
<1>8. \A p \in s .. k - 1 : p \in 1 .. n /\ p \notin N /\ p \in Nat
  <2> SUFFICES ASSUME NEW p \in s .. k - 1 PROVE p \in 1 .. n /\ p \notin N /\ p \in Nat
    OBVIOUS
  <2>1. p \in s .. n /\ p \in 1 .. n /\ p \in Nat /\ ~(k <= p)
    BY <1>7
  <2> QED
    BY <1>2, <1>7, <2>1
<1> DEFINE U == SubSeq(d, s, k - 1)
           V == SubSeq(l, s, k - 1)
<1>9. /\ U \in Seq(S) /\ Len(U) = k - s /\ \A j \in 1 .. Len(U) : U[j] = d[s + j - 1]
      /\ V \in Seq(S) /\ Len(V) = k - s /\ \A j \in 1 .. Len(V) : V[j] = l[s + j - 1]
  BY <1>7, <1>8
<1> HIDE DEF U, V
<1>10. \A j \in 1 .. Len(U) : U[j] = V[j]
  <2> SUFFICES ASSUME NEW j \in 1 .. Len(U) PROVE U[j] = V[j]
    OBVIOUS
  <2>1. s + j - 1 \in s .. k - 1
    BY <1>7, <1>9
  <2>2. d[s + j - 1] = l[s + j - 1]
    BY <1>8, <2>1
  <2> QED
    BY <1>9, <2>2
<1>11. U = V
  BY <1>9, <1>10
<1> QED
  BY <1>4, <1>6, <1>11 DEF k, U, V

\* Every gap behind the start of an argument has a first gap between them.
LEMMA GapsBegin ==
    ASSUME NEW l \in Seq(Chars), NEW s \in Starts(l), NEW g \in s .. Len(l), Gap(l, g)
    PROVE  \E m \in s .. g : FirstGap(l, m)
<1> DEFINE M == {m \in s .. g : Gap(l, m)}
           m == Min(M)
<1>1. s \in Nat /\ s > 0 /\ g \in Nat /\ (s = 1 \/ ~Gap(l, s))
  BY DEF Starts
<1>2. M \subseteq Nat /\ M # {}
  BY <1>1
<1> HIDE DEF M
<1>3. m \in M /\ \A y \in M : m <= y
  BY <1>2, MinNat
<1> HIDE DEF m
<1>4. m \in s .. g /\ Gap(l, m)
  BY <1>3 DEF M
<1>5. ASSUME m # 1, Gap(l, m - 1) PROVE FALSE
  <2>1. m # s
    BY <1>1, <1>4, <1>5
  <2>2. m - 1 \in s .. g /\ ~(m <= m - 1)
    BY <1>1, <1>4, <2>1
  <2> QED
    BY <1>3, <1>5, <2>2 DEF M
<1> QED
  BY <1>4, <1>5 DEF FirstGap

\* The arguments are those of the line.
LEMMA FaithfulAtEnd ==
    ASSUME IInv
    PROVE  ArgumentsFaithful
<1>1. ASSUME pc = "unterminated" PROVE ~Terminated(line)
  <2>1. quote # NUL /\ i > Len(line) /\ ScanInv
    BY <1>1 DEF IInv, ArrayInv, TypeOK, cmdLen
  <2> QED
    BY <2>1 DEF ScanInv, Terminated
<1>2. ASSUME pc = "run"
      PROVE  /\ Terminated(line)
             /\ Range(cmdv) = Starts(line) /\ \A k \in 2 .. Len(cmdv) : cmdv[k - 1] < cmdv[k]
             /\ \A k \in 1 .. Len(cmdv) :
                  Upto(cmd, cmdv[k], {q \in 1 .. cmdLen : cmd[q] = NUL})
                    = Upto(line, cmdv[k], {q \in 1 .. cmdLen : Gap(line, q)})
  <2>1. /\ quote = NUL /\ i > Len(line) /\ ScanInv /\ cmdLen = Len(line) /\ i \in Int
        /\ line \in Seq(Chars) /\ line # <<>> /\ cmd \in Seq(Text) /\ Len(cmd) = Len(line)
    BY <1>2 DEF IInv, ArrayInv, TypeOK, cmdLen, Text
  <2>2. Terminated(line) /\ \A k \in 2 .. Len(cmdv) : cmdv[k - 1] < cmdv[k]
    BY <2>1 DEF ScanInv, Terminated
  <2>3. Len(line) \in Nat /\ Len(line) > 0 /\ line \in Seq(Text)
    BY <2>1 DEF Text
  <2>4. \A p \in Starts(line) : p \in 1 .. Len(line) /\ p <= i
    <3>1. \A p \in Starts(line) : p \in 1 .. Len(line)
      BY <2>3 DEF Starts
    <3> QED
      BY <2>1, <2>3, <3>1
  <2>5. Range(cmdv) = Starts(line)
    BY <2>1, <2>4 DEF ScanInv
  <2> DEFINE N == {q \in 1 .. cmdLen : cmd[q] = NUL}
             G == {q \in 1 .. cmdLen : Gap(line, q)}
  <2>6. \A p \in 1 .. Len(line) : cmd[p] = IF FirstGap(line, p) THEN NUL ELSE line[p]
    <3>1. \A p \in 1 .. Len(line) : p < i
      BY <2>1, <2>3
    <3> QED
      BY <2>1, <3>1 DEF ScanInv
  <2>7. \A p \in 1 .. Len(line) : p \in N <=> FirstGap(line, p)
    <3>1. NUL \notin Chars
      BY DEF Chars, Quotes, Space, NUL, Backslash, SINGLE_QUOTE, DOUBLE_QUOTE
    <3>2. \A p \in 1 .. Len(line) : line[p] \in Chars
      BY <2>1
    <3> QED
      BY <2>1, <2>6, <3>1, <3>2
  <2>8. N \subseteq G
    <3>1. \A p \in N : p \in 1 .. Len(line) /\ FirstGap(line, p)
      BY <2>1, <2>7
    <3> QED
      BY <2>1, <3>1 DEF FirstGap
  <2>9. \A p \in 1 .. Len(line) : p \notin N => cmd[p] = line[p]
    BY <2>6, <2>7
  <2>10. ASSUME NEW k \in 1 .. Len(cmdv) PROVE Upto(cmd, cmdv[k], N) = Upto(line, cmdv[k], G)
    <3> DEFINE s == cmdv[k]
    <3>1. s \in Starts(line)
      <4>1. k \in DOMAIN cmdv
        BY <1>2 DEF IInv, ArrayInv
      <4> QED
        BY <2>5, <4>1 DEF Range
    <3>2. s \in 1 .. Len(line)
      BY <2>4, <3>1
    <3> HIDE DEF s
    <3>3. ASSUME NEW g \in s .. Len(line), g \in G PROVE \E m \in s .. g : m \in N
      <4>1. Gap(line, g)
        BY <3>3
      <4>2. PICK m \in s .. g : FirstGap(line, m)
        BY <2>1, <3>1, <4>1, GapsBegin
      <4>3. m \in 1 .. Len(line)
        BY <2>3, <3>2
      <4> QED
        BY <2>7, <4>2, <4>3
    <3> HIDE DEF N, G
    <3>4. Upto(cmd, s, N) = Upto(line, s, G)
      BY <2>1, <2>3, <2>8, <2>9, <3>2, <3>3, UptoSame
    <3> QED
      BY <3>4 DEF s
  <2> QED
    BY <2>2, <2>5, <2>10
<1> QED
  BY <1>1, <1>2 DEF ArgumentsFaithful

-----------------------------------------------------------------------------
(* The theorems.                                                           *)

\* The scan keeps the inductive invariant, on lines of any length.
THEOREM Inductive == Spec => []IInv
<1>1. Init => IInv
  <2>1. Init => line = <<>> /\ pc = "prompt"
    BY DEF Init
  <2> QED
    BY <2>1, InitArray DEF IInv
<1> QED
  BY <1>1, NextIInv, PTL DEF Spec

\* Every argument is a position in the line, and the scan leaves the line by
\* one escaped character at most.
THEOREM TypeCorrect == Spec => []TypeOK
<1>1. IInv => TypeOK
  BY DEF IInv, ArrayInv
<1> QED
  BY <1>1, Inductive, PTL

\* For a line of any length the arguments and the NULL behind them fit into
\* the array that processcommand has allocated (fsshell.c:619).
THEOREM ArgumentsAlwaysFit == Spec => []ArgumentsFit
<1>1. IInv => ArgumentsFit
  <2> SUFFICES ASSUME IInv, pc = "scan" PROVE Len(cmdv) + 1 <= Capacity
    BY DEF ArgumentsFit
  <2>1. Len(cmdv) \in Nat /\ cmdLen \in Nat /\ 2 * (Len(cmdv) - 1) <= cmdLen
    BY DEF IInv, ArrayInv, TypeOK, cmdLen, Separators
  <2>2. Len(cmdv) - 1 <= cmdLen \div 2
    BY <2>1
  <2> QED
    BY <2>1, <2>2 DEF Capacity
<1> QED
  BY <1>1, Inductive, PTL

\* The scan that cuts the line as it goes finds the arguments that quotes and
\* escapes describe, in lines of any length, and refuses a line that leaves a
\* quote open (fsshell.c:625 to 692).
THEOREM ArgumentsAreFaithful == Spec => []ArgumentsFaithful
  BY FaithfulAtEnd, Inductive, PTL
=============================================================================
