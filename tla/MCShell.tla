------------------------------- MODULE MCShell -------------------------------
(***************************************************************************)
(* Contents for the runs of Shell: none, as long as the copy buffer, as    *)
(* long as a block.                                                        *)
(***************************************************************************)
EXTENDS Shell

Byte(k) == <<k>>
BufferText == [k \in 1 .. Chunk |-> Byte(k)]
BlockText  == [k \in 1 .. BlockBytes |-> Byte(k + Chunk)]

MCTexts == {BufferText, BlockText}
=============================================================================
