---------------------------- MODULE DirectoryTree ----------------------------
(***************************************************************************)
(* The directory layer with a history variable, the tree of entries that   *)
(* the disk holds, and the name space it implements.                       *)
(***************************************************************************)
EXTENDS Listing

VARIABLE tree

TInit == Init /\ tree = Tree
TNext == Next /\ tree' = TreeOn(disk')
TSpec == TInit /\ [][TNext]_<<vars, tree>>

NS == INSTANCE NameSpace WITH Root <- rootStart, Nothing <- NoBlock

\* The entries on the disk that a path can reach change one at a time, and as
\* NameSpace says: nothing is lost, doubled, or removed with entries below it,
\* whichever table an operation of mfs.c works on.
NameSpaceSpec == NS!Spec

-----------------------------------------------------------------------------
(* The inductive invariant behind NameSpaceSpec, CwdFaithful and           *)
(* LongListFaithful.                                                       *)

\* From disk d to disk D the tree takes one step or none, a directory that can
\* still be reached keeps its name, and one that could not be reached, as a
\* current directory that has been removed, still cannot.
TreeStep(d, D, here) ==
    /\ TreeOn(D) = TreeOn(d) \/ NS!Step(TreeOn(d), TreeOn(D))
    /\ \A e \in TreeOn(d) : e.isDir /\ e.start \in DirsOn(D) => e \in TreeOn(D)
    /\ here \in DirsOn(D) => here \in DirsOn(d)

\* Every queued write, wherever it is cut, is such a step.
StepsInv ==
    \A k \in 1 .. Len(pending), n \in Cuts :
      LET before == DiskAfter(disk, pending, k - 1)
      IN  TreeStep(before, Written(before, pending[k], n), cwdTable[0].start)

\* No directory has a name twice.
UniqueNames(t) == \A e, f \in t : e.dir = f.dir /\ e.name = f.name => e = f

TInv ==
    /\ IInv /\ StepsInv
    /\ tree = Tree /\ UniqueNames(tree)
    /\ CwdFaithful
=============================================================================
