----------------------------- MODULE CommandLine -----------------------------
(***************************************************************************)
(* How a line becomes the arguments of a command: processcommand of        *)
(* fsshell.c, one character at a time.  The line is cut in place, by NULs; *)
(* the arguments are positions in it, kept in an array whose size is       *)
(* computed from the length of the line before it is scanned.              *)
(*                                                                         *)
(* All characters without a meaning of their own are one, "x".  Positions  *)
(* start at 1.  Dispatching the command is left to Shell and Directory.    *)
(***************************************************************************)
EXTENDS Integers, Sequences, FiniteSetsExt, SequencesExt

CONSTANT MaxLine  \* bound on the length of a line

ASSUME CommandLineAssumption == MaxLine \in Nat

SINGLE_QUOTE == "'"
DOUBLE_QUOTE == "\""
Backslash    == "\\"
Space        == " "
NUL          == ""
Quotes       == {SINGLE_QUOTE, DOUBLE_QUOTE}
Chars        == Quotes \cup {Backslash, Space, "x"}

VARIABLES
    line,   \* the line as it was typed
    cmd,    \* the same, with the NULs put in
    cmdv,   \* where the arguments start
    i,      \* the character under the scan
    quote,  \* the quote the scan is looking for, NUL outside quotes
    pc      \* "prompt", "scan", "run" or "unterminated"

vars == <<line, cmd, cmdv, i, quote, pc>>

cmdLen == Len(cmd)

\* Entries of the array, the NULL at the end included.
Capacity == (cmdLen \div 2) + 2

Init ==
    /\ line = <<>> /\ cmd = <<>> /\ cmdv = <<>>
    /\ i = 0 /\ quote = NUL /\ pc = "prompt"

-----------------------------------------------------------------------------
\* Empty lines are not processed.
Lines == UNION {[1 .. n -> Chars] : n \in 1 .. MaxLine}

\* The first argument starts where the line does.
ReadLine ==
    /\ pc = "prompt"
    /\ \E l \in Lines : line' = l /\ cmd' = l
    /\ cmdv' = <<1>> /\ i' = 1 /\ quote' = NUL /\ pc' = "scan"

Scanning == pc = "scan" /\ i <= cmdLen
Goto(p)  == i' = p /\ UNCHANGED <<line, pc>>

Ordinary ==
    /\ Scanning /\ quote = NUL /\ cmd[i] \notin Quotes \cup {Backslash, Space}
    /\ Goto(i + 1) /\ UNCHANGED <<cmd, cmdv, quote>>

\* Mutant: the scan does not move on.
SkippedStuck(p) == p
Skipped(p) == p + 2

\* The next character is skipped, in quotes as well.
Escape ==
    /\ Scanning /\ cmd[i] = Backslash
    /\ Goto(Skipped(i)) /\ UNCHANGED <<cmd, cmdv, quote>>

\* Mutant: every space of a run separates.
RunEndFirst(p) == p

\* The last of the spaces from position p on.
RunEnd(p) == Max({q \in p .. cmdLen : \A r \in p .. q : cmd[r] = Space})

\* Mutant: an argument is expected behind the last space.
FollowsAlways(p) == TRUE
Follows(p) == p <= cmdLen

\* The argument before ends here, and the next one starts behind the spaces
\* if the line does not end there.
Separate ==
    LET next == RunEnd(i) + 1
    IN  /\ Scanning /\ quote = NUL /\ cmd[i] = Space
        /\ cmd' = [cmd EXCEPT ![i] = NUL]
        /\ cmdv' = IF Follows(next) THEN Append(cmdv, next) ELSE cmdv
        /\ Goto(next) /\ UNCHANGED quote

OpenQuote ==
    /\ Scanning /\ quote = NUL /\ cmd[i] \in Quotes
    /\ quote' = cmd[i]
    /\ Goto(i + 1) /\ UNCHANGED <<cmd, cmdv>>

\* Mutant: any quote ends the string.
ClosesAny(c) == c \in Quotes
Closes(c) == c = quote

InQuotes ==
    /\ Scanning /\ quote # NUL /\ cmd[i] # Backslash
    /\ quote' = IF Closes(cmd[i]) THEN NUL ELSE quote
    /\ Goto(i + 1) /\ UNCHANGED <<cmd, cmdv>>

EndOfLine ==
    /\ pc = "scan" /\ i > cmdLen
    /\ pc' = IF quote = NUL THEN "run" ELSE "unterminated"
    /\ UNCHANGED <<line, cmd, cmdv, i, quote>>

\* The command has run, or not, and its line is freed.
Return ==
    /\ pc \in {"run", "unterminated"}
    /\ line' = <<>> /\ cmd' = <<>> /\ cmdv' = <<>>
    /\ i' = 0 /\ quote' = NUL /\ pc' = "prompt"

CodeStep ==
    \/ Ordinary \/ Escape \/ Separate \/ OpenQuote \/ InQuotes \/ EndOfLine \/ Return

Next == ReadLine \/ CodeStep

Spec == Init /\ [][Next]_vars /\ WF_vars(CodeStep)

-----------------------------------------------------------------------------
(* What the arguments should be: each character is plain, quoted or        *)
(* escaped by what comes before it, and arguments are separated by the     *)
(* plain spaces.                                                           *)

Plain == [in |-> NUL, escaped |-> FALSE]

After(m, c) ==
    CASE m.escaped                          -> [m EXCEPT !.escaped = FALSE]
      [] ~m.escaped /\ c = Backslash        -> [m EXCEPT !.escaped = TRUE]
      [] ~m.escaped /\ c \in Quotes /\ m.in = NUL -> [m EXCEPT !.in = c]
      [] ~m.escaped /\ c = m.in             -> [m EXCEPT !.in = NUL]
      [] OTHER                              -> m

\* What the characters before position p make of the one there.
Mode(l, p) ==
    LET mode[q \in 1 .. Len(l) + 1] == IF q = 1 THEN Plain ELSE After(mode[q - 1], l[q - 1])
    IN  mode[p]

Gap(l, p)     == l[p] = Space /\ Mode(l, p) = Plain
Terminated(l) == Mode(l, Len(l) + 1).in = NUL
Starts(l)     == {1} \cup {p \in 2 .. Len(l) : Gap(l, p - 1) /\ ~Gap(l, p)}

\* The text from p to the first position that ends it.
Upto(l, p, ends) == SubSeq(l, p, Min({q \in p .. Len(l) : q \in ends} \cup {Len(l) + 1}) - 1)

-----------------------------------------------------------------------------
(* Properties.                                                             *)

\* Types; the scan passes the end of the line by one escaped character.
TypeOK ==
    /\ cmd \in Seq(Chars \cup {NUL}) /\ Len(cmd) = Len(line)
    /\ i \in 0 .. cmdLen + 2
    /\ \A k \in 1 .. Len(cmdv) : cmdv[k] \in 1 .. cmdLen
    /\ quote \in Quotes \cup {NUL}
    /\ pc \in {"prompt", "scan", "run", "unterminated"}

\* The arguments and the NULL behind them fit into the array, whose size is
\* guessed from half the length of the line (fsshell.c:619).
ArgumentsFit == pc = "scan" => Len(cmdv) + 1 <= Capacity

\* A command gets the arguments that quotes and escapes describe, in their
\* order, each cut at its end; a string that is not closed is refused.  A
\* space in front of the command makes the first argument empty.
ArgumentsFaithful ==
    /\ pc = "unterminated" => ~Terminated(line)
    /\ pc = "run" =>
         /\ Terminated(line)
         /\ Range(cmdv) = Starts(line) /\ \A k \in 2 .. Len(cmdv) : cmdv[k - 1] < cmdv[k]
         /\ \A k \in 1 .. Len(cmdv) :
              Upto(cmd, cmdv[k], {q \in 1 .. cmdLen : cmd[q] = NUL})
                = Upto(line, cmdv[k], {q \in 1 .. cmdLen : Gap(line, q)})

\* The scan of every line ends.
LineEnds == pc = "scan" ~> pc = "prompt"

-----------------------------------------------------------------------------
(* The inductive invariant, in two parts.  Behind ArgumentsFit: an         *)
(* argument costs at least two characters, its own and the space in front  *)
(* of it, except that a space in front of the command costs one.  At a     *)
(* space the character of the argument before it has been paid for.        *)

Separators == Len(cmdv) - 1

ArrayInv ==
    /\ TypeOK
    /\ cmdv \in Seq(Nat)
    /\ pc = "scan" =>
         /\ cmdLen > 0 /\ i > 0 /\ cmdv # <<>>
         /\ 2 * Separators <= cmdLen
         /\ 2 * Separators <= i
         /\ i <= cmdLen /\ cmd[i] = Space => 2 * Separators < i

\* Behind ArgumentsFaithful: what the scan has gone over is cut at the first
\* gap of each run, an argument has been put down behind each run, and quote
\* is what the characters before make of the one under the scan.
FirstGap(l, p) == Gap(l, p) /\ (p = 1 \/ ~Gap(l, p - 1))

ScanInv ==
    /\ \A p \in 1 .. Len(line) : cmd[p] = IF p < i /\ FirstGap(line, p) THEN NUL ELSE line[p]
    /\ Range(cmdv) = {p \in Starts(line) : p <= i}
    /\ \A k \in 2 .. Len(cmdv) : cmdv[k - 1] < cmdv[k]
    /\ i <= Len(line) + 1 => Mode(line, i) = [in |-> quote, escaped |-> FALSE]
    /\ i > Len(line) => Mode(line, Len(line) + 1).in = quote
    /\ 1 < i /\ i <= Len(line) => (line[i] = Space => ~Gap(line, i - 1))

IInv ==
    /\ ArrayInv
    /\ line \in Seq(Chars)
    /\ pc # "prompt" => line # <<>> /\ i > 0 /\ ScanInv
    /\ pc = "run" => quote = NUL /\ i > cmdLen
    /\ pc = "unterminated" => quote # NUL /\ i > cmdLen
=============================================================================
