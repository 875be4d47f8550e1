------------------------------ MODULE MCMapFS ------------------------------
EXTENDS MapFS

\* Three levels, two names in one directory, one of them the directory's own.
MCPaths == {<< "a" >>, << "a", "a" >>, << "a", "b" >>, << "a", "a", "c" >>}
MCHeld  == {<< "a", "a", "c" >>}
MCMade  == {<< "a", "b" >>}
=============================================================================
