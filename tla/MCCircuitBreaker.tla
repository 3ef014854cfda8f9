-------------------------- MODULE MCCircuitBreaker --------------------------
(* Instances of CircuitBreaker: which calls there are.                       *)
EXTENDS CircuitBreaker, TLC

CONSTANTS c1, c2, never

(* Calls are interchangeable; used where only invariants are checked.        *)
CallSymmetry == Permutations(Calls)

=============================================================================
