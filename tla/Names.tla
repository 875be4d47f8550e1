------------------------------- MODULE Names -------------------------------
(***************************************************************************)
(* Paths of a file system: sequences of names, as pathpkg.Clean leaves     *)
(* them.  The root, which is no file, is << >>.                            *)
(***************************************************************************)
EXTENDS Naturals, Sequences

CONSTANT Paths      \* the paths that are used, without the root

\* Every directory on the way to a path is a path.
ASSUME NamesAssumption ==
    /\ Paths \subseteq Seq(STRING) \ {<< >>}
    /\ \A q \in Paths : \A n \in 1 .. Len(q) : [i \in 1 .. n |-> q[i]] \in Paths

\* pathpkg.Dir, without "/" and "." which both stand for the root.
Parent(p) == [i \in 1 .. Len(p) - 1 |-> p[i]]

\* q is in p, or in a directory in p, ...: "p/" is a prefix of q.
Within(p, q) == Len(p) < Len(q) /\ \A i \in 1 .. Len(p) : p[i] = q[i]

\* The name of the directory d, taken for a name in d.
OwnName(d) == Append(d, d[Len(d)])
=============================================================================
