------------------------------ MODULE PortSet -------------------------------
(***************************************************************************)
(* What the pool of passive ports promises: a set of free ports, from      *)
(* which a transfer takes any one and to which it gives back the one it    *)
(* has.  A port whose transfer fails to listen is lost.                    *)
(***************************************************************************)
EXTENDS Integers

CONSTANTS AllPorts, Transfers, NoPort

VARIABLES free, owned

Init ==
    /\ free = AllPorts
    /\ owned = [t \in Transfers |-> NoPort]

Acquire(t) ==
    /\ owned[t] = NoPort
    /\ \E p \in free :
          /\ free' = free \ {p}
          /\ owned' = [owned EXCEPT ![t] = p]

Release(t) ==
    /\ owned[t] # NoPort
    /\ free' = free \union {owned[t]}
    /\ owned' = [owned EXCEPT ![t] = NoPort]

Lose(t) ==
    /\ owned[t] # NoPort
    /\ owned' = [owned EXCEPT ![t] = NoPort]
    /\ UNCHANGED free

Next == \E t \in Transfers : Acquire(t) \/ Release(t) \/ Lose(t)

Spec == Init /\ [][Next]_<< free, owned >>
=============================================================================
