------------------------------ MODULE MCPages ------------------------------
(* Small instances of Pages for TLC.                                       *)
EXTENDS Pages, TLC

CONSTANTS t1, t2, s1, s2

Symmetric == Permutations(Tabs)

OneSession == (t1 :> s1) @@ (t2 :> s1)

(* A network with a name that is also another's host, and that other one,  *)
(* which has no name.                                                      *)
TwoNets ==
    (1 :> [NoNet EXCEPT !.name = "a", !.host = "h", !.pass = "p"])
        @@ (2 :> [NoNet EXCEPT !.host = "a", !.tls = "0"])

(* A network that takes the first one's name, once that is free.           *)
Another == {[NoNet EXCEPT !.name = "a", !.host = "h"]}
=============================================================================
