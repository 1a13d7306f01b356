---------------------------- MODULE MCBufferedIO ----------------------------
(***************************************************************************)
(* Flags for the runs of BufferedIO, as the shell combines them, and more. *)
(***************************************************************************)
EXTENDS BufferedIO

READ     == {}
TRUNCATE == {"WRONLY", "CREAT", "TRUNC"}
APPEND   == {"WRONLY", "CREAT", "APPEND"}
UPDATE   == {"RDWR", "CREAT"}

SafeModes   == {READ, TRUNCATE, APPEND, UPDATE}
Readers     == {READ}
WriteOnly   == {TRUNCATE}
Updaters    == {READ, UPDATE}
WriteModes  == {READ, {"WRONLY", "CREAT"}}
NoModes     == {}
=============================================================================
