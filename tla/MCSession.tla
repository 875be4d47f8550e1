----------------------------- MODULE MCSession -----------------------------
EXTENDS Session, TLC

\* A directory, a file in it, and a name that sorts before the directory.
MCPaths   == {<< "a" >>, << "a", "b" >>, << "a.txt" >>}
MCHeld    == {<< "a", "b" >>, << "a.txt" >>}
MCExtends == {<< "a", "a.txt" >>}

Symmetry == Permutations(Sessions) \union Permutations(Jobs)
=============================================================================
