------------------------------ MODULE MCWatch ------------------------------
(* Small instances of Watch for TLC.                                       *)
EXTENDS Watch, TLC

CONSTANTS n1, c1, f1

OneFile == n1 :> f1

NoOps == n1 :> {}

OneOp == n1 :> {c1}
=============================================================================
