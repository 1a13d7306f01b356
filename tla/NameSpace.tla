------------------------------ MODULE NameSpace ------------------------------
(***************************************************************************)
(* What the directories promise: a tree of named entries that changes one  *)
(* entry at a time.  An entry is added under an unused name of an existing *)
(* directory and points to storage nothing else points to; an entry is     *)
(* removed only when nothing is below it; a rename keeps the storage and   *)
(* the kind.                                                               *)
(***************************************************************************)
CONSTANTS
    Root,    \* the storage of the root directory
    Nothing  \* the storage of an entry that has none

VARIABLE tree  \* set of [dir, name, isDir, start] records

Init == tree = {}

Directories(t) == {Root} \cup {e.start : e \in {f \in t : f.isDir}}
Used(t, dir)   == {e.name : e \in {f \in t : f.dir = dir}}
Storage(t)     == {Root} \cup {e.start : e \in t}

Fresh(t, e) ==
    /\ e.dir \in Directories(t)
    /\ e.name \notin Used(t, e.dir)

\* From tree s to tree t: e has a new name, and storage of its own,
Added(s, e, t) ==
    /\ e \notin s
    /\ Fresh(s, e)
    /\ e.start \notin Storage(s) \ {Nothing}
    /\ t = s \cup {e}

\* or it had nothing below it,
Removed(s, e, t) ==
    /\ e \in s
    /\ e.isDir => Used(s, e.start) = {}
    /\ t = s \ {e}

\* or f is e under another name.
Renamed(s, e, f, t) ==
    /\ e \in s /\ Fresh(s, f)
    /\ f.start = e.start /\ f.isDir = e.isDir
    /\ t = (s \ {e}) \cup {f}

Step(s, t) ==
    \/ \E e \in t \ s : Added(s, e, t)
    \/ \E e \in s \ t : Removed(s, e, t)
    \/ \E e \in s \ t, f \in t \ s : Renamed(s, e, f, t)

Next == Step(tree, tree')

Spec == Init /\ [][Next]_tree
=============================================================================
