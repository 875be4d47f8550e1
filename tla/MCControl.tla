----------------------------- MODULE MCControl -----------------------------
EXTENDS Control

MCPaths == {<< "a" >>, << "a", "b" >>}

\* The anonymous user of AnonymousAuthorizer, one with a file system of its
\* own, one with the server's, one with none, one whom nobody knows.
MCGrants ==
    [u \in Users |->
        CASE u = "anonymous" -> [fs |-> "main", readOnly |-> TRUE]
          [] u = "alice"     -> [fs |-> "home", readOnly |-> FALSE]
          [] u = "bob"       -> [fs |-> Nil, readOnly |-> FALSE]
          [] u = "carol"     -> [fs |-> Null, readOnly |-> FALSE]
          [] OTHER           -> Refused]
=============================================================================
