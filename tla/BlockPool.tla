------------------------------ MODULE BlockPool ------------------------------
(***************************************************************************)
(* What the allocator promises its callers, whatever the disk does: a pool *)
(* of blocks from which each block goes to one chain at a time.  A grant   *)
(* takes blocks out of the pool and gives them to one chain; a chain can   *)
(* be dropped; blocks can be lost from the pool, and a block that belongs  *)
(* to no chain can come back to it.                                        *)
(***************************************************************************)
CONSTANTS Block, None

VARIABLES pool, owner

vars == <<pool, owner>>

Init ==
    /\ pool \in SUBSET Block
    /\ owner = [b \in Block |-> None]

Grant(S, c) ==
    /\ c \in Block
    /\ pool' = pool \ S
    /\ owner' = [b \in Block |-> IF b \in S THEN c ELSE owner[b]]

Lose(S) ==
    /\ pool' = pool \ S
    /\ UNCHANGED owner

Drop(c) ==
    /\ owner' = [b \in Block |-> IF owner[b] = c THEN None ELSE owner[b]]
    /\ UNCHANGED pool

Reclaim(S) ==
    /\ \A b \in S : owner[b] = None
    /\ pool' = pool \cup S
    /\ UNCHANGED owner

Next ==
    \/ \E S \in SUBSET pool, c \in Block : Grant(S, c)
    \/ \E S \in SUBSET pool : Lose(S)
    \/ \E S \in SUBSET Block : Reclaim(S)
    \/ \E c \in Block \cup {None} : Drop(c)

Spec == Init /\ [][Next]_vars

\* A block still in the pool belongs to no chain.
PoolUnowned == \A b \in pool : owner[b] = None
=============================================================================
