------------------------ MODULE MCBillingSubscription ------------------------
(* Instances of BillingSubscription: names of requests, users and plans.     *)
EXTENDS BillingSubscription, TLC

CONSTANTS r1, r2, r3, u1, p1, p2, p3, none

Symmetric == Permutations({r1, r2, r3}) \cup Permutations({p1, p2})
=============================================================================
