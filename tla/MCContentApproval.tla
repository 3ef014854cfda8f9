-------------------------- MODULE MCContentApproval --------------------------
(* Instances of ContentApproval: two managers review, an editor approves.    *)
EXTENDS ContentApproval, TLC

CONSTANTS r1, r2, r3, r4, r5, a1, a2, e1, none

TwoStages == 0 :> {a1, a2} @@ 1 :> {e1}
(* The first stage takes both managers (by default any one of them).         *)
BothFirst == 0 :> 2 @@ 1 :> 1

Symmetric == Permutations({r1, r2, r3, r4, r5}) \cup Permutations({a1, a2})
=============================================================================
