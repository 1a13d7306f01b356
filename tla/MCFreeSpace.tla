---------------------------- MODULE MCFreeSpace ----------------------------
(***************************************************************************)
(* Values for the runs of FreeSpace: a volume of one VCB block, one table  *)
(* block and a handful of data blocks.                                     *)
(***************************************************************************)
EXTENDS FreeSpace

\* Start blocks a stale directory entry can hold: a failed allocation (-1), a
\* block of the middle of a chain, a block that is still free.
StaleLocations == {NoBlock, 3}
=============================================================================
