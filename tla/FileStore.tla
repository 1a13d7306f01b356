------------------------------ MODULE FileStore ------------------------------
(***************************************************************************)
(* What the file commands of the shell promise: a map from files to their  *)
(* contents.  A command changes one file at most, and a copy is equal to   *)
(* what was copied.  Only when the program dies in the middle of a copy is *)
(* the content of the destination, and of nothing else, up to chance.      *)
(***************************************************************************)
CONSTANTS
    Files,   \* the files
    Texts,   \* what can be brought in from outside
    Absent,  \* the content of a file that does not exist
    Dead     \* shown after the program has died

VARIABLES
    content,  \* the content of each file
    shown     \* what the last command has brought out

vars == <<content, shown>>

Exists(f) == content[f] # Absent
Put(f, c) == content' = [content EXCEPT ![f] = c]
Silent    == shown' = <<>>

Init == content = [f \in Files |-> Absent] /\ shown = <<>>

Touch(f)   == ~Exists(f) /\ Put(f, <<>>) /\ Silent
Remove(f)  == Exists(f) /\ Put(f, Absent) /\ Silent
Copy(s, d) == Exists(s) /\ Put(d, content[s]) /\ Silent
Import(d)  == (\E t \in Texts : Put(d, t)) /\ Silent
Show(f)    == Exists(f) /\ shown' = content[f] /\ UNCHANGED content
NoChange   == Silent /\ UNCHANGED content

\* The program dies while it works on d, which existed or was to.
Die(d) ==
    /\ \A f \in Files \ {d} : content'[f] = content[f]
    /\ content'[d] = Absent => ~Exists(d)
    /\ shown' = Dead

Next ==
    \/ \E f \in Files : Touch(f) \/ Remove(f) \/ Import(f) \/ Show(f) \/ Die(f)
    \/ \E s, d \in Files : Copy(s, d)
    \/ NoChange

Spec == Init /\ [][Next]_vars
=============================================================================
