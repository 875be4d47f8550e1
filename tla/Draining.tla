------------------------------ MODULE Draining ------------------------------
(***************************************************************************)
(* What the server promises about its end: clients enter as long as it is  *)
(* up, nobody enters once it drains, and it is over only when the last     *)
(* client has left or was made to leave.                                   *)
(***************************************************************************)
CONSTANT Conns

VARIABLES phase, served

Init == phase = "up" /\ served = {}

Enter(c) ==
    /\ phase = "up"
    /\ c \notin served
    /\ served' = served \union {c}
    /\ UNCHANGED phase

Leave(C) ==
    /\ served' = served \ C
    /\ UNCHANGED phase

Drain ==
    /\ phase = "up"
    /\ phase' = "draining"
    /\ UNCHANGED served

Finish ==
    /\ phase = "draining" /\ served = {}
    /\ phase' = "over"
    /\ UNCHANGED served

\* Whoever is left is made to leave.
Force ==
    /\ phase = "draining"
    /\ phase' = "over" /\ served' = {}

Next == \/ \E c \in Conns : Enter(c)
        \/ \E C \in SUBSET served : Leave(C)
        \/ Drain \/ Finish \/ Force

Spec == Init /\ [][Next]_<< phase, served >>
=============================================================================
