------------------------- MODULE MCFreeSpaceHistory -------------------------
(***************************************************************************)
(* Values for the run of FreeSpaceHistory.                                 *)
(***************************************************************************)
EXTENDS FreeSpaceHistory

\* A failed allocation, and a data block that is free, taken or inside a
\* chain.
StaleLocations == {NoBlock, 3}
=============================================================================
