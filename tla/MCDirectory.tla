---------------------------- MODULE MCDirectory ----------------------------
(***************************************************************************)
(* Path names for the runs of DirectoryTree.                               *)
(***************************************************************************)
EXTENDS DirectoryTree

Rel(names) == [abs |-> FALSE, names |-> names]
Abs(names) == [abs |-> TRUE, names |-> names]

\* Names in the root and one level down, relative and absolute.
PlainPaths == {Rel(<<"a">>), Rel(<<"d">>), Rel(<<"d", "a">>), Abs(<<"a">>), Rel(<<"..">>)}

\* Three levels: the parent of the last name is a copy of a copy.
DeepPaths == {Rel(<<"a">>), Rel(<<"d">>), Rel(<<"d", "d">>), Rel(<<"d", "d", "a">>), Rel(<<"..">>)}

\* The root again, through "..".
DotDotPaths == {Rel(<<"a">>), Rel(<<"d">>), Rel(<<"..", "a">>)}

RenamePaths == {Rel(<<"d">>), Rel(<<"e">>), Rel(<<"d", "a">>), Rel(<<"d", "b">>)}

DotPaths == {Rel(<<"d">>), Rel(<<"d", ".">>)}

\* Freed slots carry the name "NULL".
NullPaths == {Rel(<<"a">>), Rel(<<"b">>), Rel(<<"NULL">>)}
=============================================================================
