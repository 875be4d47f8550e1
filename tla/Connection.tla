----------------------------- MODULE Connection -----------------------------
(***************************************************************************)
(* What a control connection promises to the server: it rests, or is busy  *)
(* with a command or a data transfer, until it is told to end.  From then  *)
(* on it begins nothing.  One that rests ends at once; one that is busy    *)
(* ends when it has nothing more to do, and never rests again.             *)
(***************************************************************************)

VARIABLES
    phase,      \* "idle", "busy", "ending" or "gone"
    told        \* that it has to end

Init == phase = "idle" /\ told = FALSE

Begin ==
    /\ phase = "idle" /\ ~told
    /\ phase' = "busy"
    /\ UNCHANGED told

Rest ==
    /\ phase = "busy" /\ ~told
    /\ phase' = "idle"
    /\ UNCHANGED told

Tell ==
    /\ told' = TRUE
    /\ phase' = IF phase = "idle" THEN "ending" ELSE phase

\* The client leaves, or the server has told it to end.
End ==
    /\ phase \in {"idle", "busy"}
    /\ phase' = "ending"
    /\ told' = TRUE

Leave ==
    /\ phase = "ending"
    /\ phase' = "gone"
    /\ UNCHANGED told

Next == Begin \/ Rest \/ Tell \/ End \/ Leave

Spec == Init /\ [][Next]_<< phase, told >>
=============================================================================
