------------------------------ MODULE MCPolicy ------------------------------
(* Small instances of Policy for TLC.                                      *)
EXTENDS Policy, TLC

CONSTANTS a1, a2

Symmetric == Permutations(Admins)

Ops(v) == KeyLine("op-channels", v)
SkipYes == KeyLine("skip", "yes")
Secret == KeyLine("password", "yes")

(* Every text of up to three lines, of one network and the default, that   *)
(* is valid, says nothing twice and begins with a header; with op-channels *)
(* "a".  And one of two networks, one with a network in two places, and    *)
(* one that sets the op-channels of a network to nothing.                  *)
AllTexts ==
    {t \in SeqOf({Header("n1"), Header("default"), Ops("a"), SkipYes}, 3) :
        WellFormed(t) /\ (t # <<>> => t[1].is = "header")}
    \cup {<<Header("n1"), SkipYes, Header("n2"), Ops("a")>>,
          <<Header("n1"), Ops("a"), Header("n1"), SkipYes>>,
          <<Header("default"), Ops("a"), Header("n1"), Ops("")>>}

FewTexts == {<<>>, <<Header("n1"), Ops("a")>>}

(* A fine text, one that says a key twice, one with a credential, one that *)
(* does not parse.                                                         *)
PostedTexts ==
    {<<Header("n2"), SkipYes>>, <<Header("n1"), Ops("a"), Ops("a")>>,
     <<Header("n1"), Secret>>, <<Header("n1"), Junk>>}

(* The watcher's own configuration says something of n2 only.              *)
OwnOps == [n \in Sections |-> IF n = "n2" THEN "b" ELSE "unset"]

(* The page lists the networks soju has; the file may know others.         *)
AllForms ==
    [{"n1"} -> {"", "b"}]
    \cup {f \in [{"n1", "n2"} -> {"", "b"}] : f["n1"] # f["n2"]}

OneForm == {[n \in {"n1"} |-> "b"]}
=============================================================================
