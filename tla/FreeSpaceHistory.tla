-------------------------- MODULE FreeSpaceHistory --------------------------
(***************************************************************************)
(* FreeSpace with two history variables, to compare what a whole call did  *)
(* with the operator of FatOps that stands for it: call is the call in     *)
(* progress with the volume it started from, answer the one that just      *)
(* returned.                                                               *)
(***************************************************************************)
EXTENDS FreeSpace

VARIABLES call, answer

hvars == <<vars, call, answer>>

NoAnswer == [op |-> "none"]
Volume   == [fat |-> fat, head |-> head]

HInit == Init /\ call = NoAnswer /\ answer = NoAnswer

\* The call that the first step of a call begins.
Begun ==
    CASE pc' = "scan"    -> [op |-> "allocate", location |-> NoBlock, n |-> alloc'.want]
      [] pc' = "walk"    -> [op |-> "extend", location |-> ext'.chain, n |-> ext'.amount]
      [] pc' = "release" -> [op |-> "release", location |-> rel'.location, n |-> rel'.max]

\* What the step that returns gives back: only SaveHead and LinkChain return
\* a chain.
Result ==
    CASE pc = "save" -> alloc.start
      [] pc = "link" -> ext.chain
      [] OTHER       -> NoBlock

Record ==
    /\ call' = IF pc' = "idle" THEN NoAnswer
               ELSE IF pc = "idle"
               THEN [op |-> Begun.op, location |-> Begun.location, n |-> Begun.n, before |-> Volume]
               ELSE call
    /\ answer' = IF pc # "idle" /\ pc' = "idle"
                 THEN [op |-> call.op, location |-> call.location, n |-> call.n, start |-> Result]
                 ELSE IF pc = "idle" /\ pc' # "idle" THEN NoAnswer
                 ELSE answer

HNext == Next /\ Record
HSpec == HInit /\ [][HNext]_hvars

\* The volume as the callers see it: it changes when a call returns.
Atomic == INSTANCE AtomicFreeSpace WITH
    volume <- IF pc = "idle" THEN Volume ELSE call.before

\* Without faults, every call of allocateBlocks, extendChain and releaseBlocks
\* leaves the table, the head and the result that the operator of FatOps of
\* the same name computes, failed requests and stale locations included.
CallsAreAtomic == Atomic!Spec

-----------------------------------------------------------------------------
(* The inductive invariant behind CallsAreAtomic: how much of the operator *)
(* of FatOps a loop has done.                                              *)

\* No fault, and the table has an entry for every block.
Faultless == Faults = {} /\ TotalBlocks <= FatBlocks * EntriesPerBlock

\* What the call in progress is to return, and its call of allocateBlocks.
Outcome ==
    CASE call.op = "allocate" -> allocateBlocks(call.before, call.n)
      [] call.op = "extend"   -> extendChain(call.before, call.location, call.n)
      [] call.op = "release"  -> [vol   |-> releaseBlocks(call.before, call.location, call.n),
                                  start |-> NoBlock]

Allocated == allocateBlocks(call.before, call.n)
Gathered == Lowest(Reachable(call.before), call.n)

\* The walk of extendChain from c ends at e.
EndsAt(table, c, e) ==
    LastOfChain(table, c) = e /\ readFATEntry(table, e) \in {BLOCK_RESERVED, e}

CalledInv ==
    /\ diskHead = head
    /\ pc = "idle" => call = NoAnswer /\ ext = NoExt
    /\ pc \in {"idle", "walk"} => taken = {}
    /\ pc # "idle" =>
         /\ call.op = "allocate" => call.location = NoBlock
         /\ call \in [op : {"allocate", "extend", "release"}, location : Words, n : Nat,
                      before : [fat : [Blocks -> Words], head : Words]]
    /\ pc \in {"walk", "scan", "save", "link"} =>
         /\ call.n > 0
         /\ \/ call.op = "allocate" /\ ext = NoExt /\ pc \in {"scan", "save"}
            \/ /\ call.op = "extend" /\ ext.amount = call.n
               /\ ext.chain = call.location /\ ext.chain # NoBlock

SearchInv ==
    /\ pc = "walk" =>
         /\ Volume = call.before
         /\ \A e \in Words : EndsAt(fat, ext.cur, e) => EndsAt(fat, call.location, e)
    /\ pc \in {"scan", "save", "link"} /\ call.op = "extend" =>
         ext.last = LastOfChain(call.before.fat, call.location)

CollectInv ==
    /\ pc = "scan" =>
         /\ head = call.before.head /\ alloc.want = call.n
         /\ taken = {b \in Reachable(call.before) : b < alloc.cur}
         /\ fat = Linked(call.before.fat, taken)
         /\ alloc.got = Cardinality(taken) /\ alloc.got <= alloc.want
         /\ taken = {} => alloc.start = NoBlock /\ alloc.prev = NoBlock
         /\ taken # {} => alloc.start = Min(taken) /\ alloc.prev = Max(taken)
         /\ alloc.got = alloc.want => alloc.cur = alloc.prev + 1
         /\ alloc.cur = head \/ (head \in Blocks /\ head < alloc.cur)
    /\ pc = "save" =>
         /\ head = call.before.head
         /\ Allocated = [vol |-> [fat |-> fat, head |-> alloc.cur], start |-> alloc.start]
    /\ pc = "link" => Allocated = [vol |-> Volume, start |-> alloc.start]
    /\ pc \in {"save", "link"} => alloc.start # NoBlock

\* What releaseBlocks is called with: by the caller, for what a scan has
\* collected, or for the chain that could not be linked.
ReleaseInv ==
    pc = "release" =>
        \E vol \in {call.before, Allocated.vol,
                    [call.before EXCEPT !.fat = Linked(call.before.fat, Gathered)]} :
            /\ Outcome = [vol |-> releaseBlocks(vol, rel.location, rel.max), start |-> NoBlock]
            /\ head = vol.head /\ rel.done <= rel.max
            /\ ReleaseWalk(vol, rel.location, rel.done) =
                 [fat |-> fat, cur |-> rel.cur, freeHead |-> rel.freeHead]

\* At every disk access of a call, the table, the head and the locals are what
\* the operator for the call has after so many turns of its loop: the scan of
\* freeSpace.c:93, the walk of freeSpace.c:157, the loop of freeSpace.c:191.
HInv == TypeOK /\ CalledInv /\ SearchInv /\ CollectInv /\ ReleaseInv
=============================================================================
