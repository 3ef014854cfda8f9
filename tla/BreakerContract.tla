-------------------------- MODULE BreakerContract --------------------------
(***************************************************************************)
(* What a circuit breaker promises its callers, whatever its counters and    *)
(* configuration: once open it lets no call through for a full reset period, *)
(* unless an operator closes it; it then half-opens for a call that goes     *)
(* through, and closes or opens again on a result of such a call.            *)
(***************************************************************************)
EXTENDS Integers, FiniteSets

CONSTANTS Calls, ResetTimeout

VARIABLES
  mode,      \* "CLOSED", "OPEN" or "HALF_OPEN"
  hold,      \* time for which an open breaker still refuses calls
  inFlight   \* calls that have been let through and have no result yet

vars == <<mode, hold, inFlight>>

Init == mode = "CLOSED" /\ hold = 0 /\ inFlight = {}

(* A call goes through a closed or half-open breaker, or half-opens one.     *)
LetThrough(c) ==
  /\ c \notin inFlight
  /\ mode = "OPEN" => hold = 0
  /\ mode' = IF mode = "OPEN" THEN "HALF_OPEN" ELSE mode
  /\ inFlight' = inFlight \cup {c}
  /\ UNCHANGED hold

(* A result leaves the mode alone or trips, and closes a half-open breaker.  *)
Result(c) ==
  /\ c \in inFlight
  /\ inFlight' = inFlight \ {c}
  /\ \/ UNCHANGED <<mode, hold>>
     \/ mode # "OPEN" /\ mode' = "OPEN" /\ hold' = ResetTimeout
     \/ mode = "HALF_OPEN" /\ mode' = "CLOSED" /\ hold' = 0

Operator ==
  /\ \/ mode' = "CLOSED" /\ hold' = 0
     \/ mode' = "OPEN" /\ hold' = ResetTimeout
  /\ UNCHANGED inFlight

TimePasses ==
  /\ hold > 0
  /\ hold' = hold - 1
  /\ UNCHANGED <<mode, inFlight>>

Next ==
  \/ \E c \in Calls : LetThrough(c) \/ Result(c)
  \/ Operator
  \/ TimePasses

Spec == Init /\ [][Next]_vars

=============================================================================
