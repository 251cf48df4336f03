-------------------------------- MODULE Rpc --------------------------------
(***************************************************************************)
(* What a connection to soju promises of the requests made over it:  soju  *)
(* deals with each at most once, perhaps never, perhaps after the caller   *)
(* has given up; and a caller that is answered is answered once, after     *)
(* soju dealt with the request.                                            *)
(***************************************************************************)
EXTENDS Naturals

CONSTANT Calls

VARIABLES
    asked,    \* requests made
    decided,  \* decided[i]: what soju decided of request i
    outcome   \* outcome[i]: how request i ended for the caller

vars == <<asked, decided, outcome>>

Init ==
    /\ asked = {}
    /\ decided = [i \in Calls |-> "none"]
    /\ outcome = [i \in Calls |-> "none"]

Ask(i) ==
    /\ i \notin asked
    /\ asked' = asked \cup {i}
    /\ UNCHANGED <<decided, outcome>>

Decide(i) ==
    /\ i \in asked
    /\ decided[i] = "none"
    /\ \E verdict \in {"ok", "err"} : decided' = [decided EXCEPT ![i] = verdict]
    /\ UNCHANGED <<asked, outcome>>

Answer(i) ==
    /\ decided[i] # "none"
    /\ outcome[i] = "none"
    /\ outcome' = [outcome EXCEPT ![i] = "answered"]
    /\ UNCHANGED <<asked, decided>>

GiveUp(i) ==
    /\ i \in asked
    /\ outcome[i] = "none"
    /\ outcome' = [outcome EXCEPT ![i] = "gaveup"]
    /\ UNCHANGED <<asked, decided>>

Next == \E i \in Calls : Ask(i) \/ Decide(i) \/ Answer(i) \/ GiveUp(i)

Spec == Init /\ [][Next]_vars
=============================================================================
