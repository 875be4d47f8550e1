---------------------------- MODULE MCServerConn ----------------------------
EXTENDS ServerConn, TLC

\* Which transfer and which job is used first makes no difference to safety.
Symmetry == Permutations(Dts) \union Permutations(Jobs)
=============================================================================
