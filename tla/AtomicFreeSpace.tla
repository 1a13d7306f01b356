--------------------------- MODULE AtomicFreeSpace ---------------------------
(***************************************************************************)
(* The allocator as the rest of the program uses it: each call is one step *)
(* that maps the volume (table and head) and its arguments to a new volume *)
(* and a result, by the operators of FatOps.                               *)
(***************************************************************************)
EXTENDS FatOps

VARIABLES volume, answer

vars == <<volume, answer>>

Init == volume = initFreeSpace /\ answer = [op |-> "none"]

Allocate(n) ==
    LET r == allocateBlocks(volume, n)
    IN  /\ volume' = r.vol
        /\ answer' = [op |-> "allocate", location |-> NoBlock, n |-> n, start |-> r.start]

Extend(c, n) ==
    LET r == extendChain(volume, c, n)
    IN  /\ volume' = r.vol
        /\ answer' = [op |-> "extend", location |-> c, n |-> n, start |-> r.start]

Release(location, n) ==
    /\ volume' = releaseBlocks(volume, location, n)
    /\ answer' = [op |-> "release", location |-> location, n |-> n, start |-> NoBlock]

\* The caller has used the answer.
Consume == answer' = [op |-> "none"] /\ UNCHANGED volume

\* The arguments are those of the answer: a step explains one call.
Next ==
    \/ answer'.op = "allocate" /\ Allocate(answer'.n)
    \/ answer'.op = "extend" /\ Extend(answer'.location, answer'.n)
    \/ answer'.op = "release" /\ Release(answer'.location, answer'.n)
    \/ Consume

Spec == Init /\ [][Next]_vars
=============================================================================
