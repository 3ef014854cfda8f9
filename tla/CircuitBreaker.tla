--------------------------- MODULE CircuitBreaker ---------------------------
(***************************************************************************)
(* One CircuitBreaker of infrastructure/utils/circuit-breaker.ts: the calls  *)
(* it lets through, their results, the operations an operator calls, and its *)
(* monitoring timer.  The code is single-threaded: every function up to the  *)
(* next await is one action, and the results of calls come back in any order.*)
(*                                                                           *)
(* Time is relative, in units of Tick: how long ago or how far ahead an      *)
(* instant is, saturated where the code stops telling values apart.          *)
(***************************************************************************)
EXTENDS Integers

CONSTANTS
  Calls,             \* calls of execute() that can be in flight together
  FailureThreshold, SuccessThreshold,
  Timeout,           \* how long a call may take
  ResetTimeout,      \* how long the breaker stays open
  MonitoringPeriod,  \* interval of the monitoring timer
  MaxRequests,       \* bound: calls of execute() since the last reset()
  NoTime             \* an undefined Date

ASSUME BreakerAssumption ==
  /\ FailureThreshold \in Nat \ {0}
  /\ SuccessThreshold \in Nat \ {0}
  /\ Timeout \in Nat \ {0}
  /\ ResetTimeout \in Nat \ {0}
  /\ MonitoringPeriod \in Nat \ {0}
  /\ NoTime \notin Nat

(* As in the default configuration (10 s and 60 s).                          *)
ASSUME TimeoutAssumption == Timeout < ResetTimeout

VARIABLES
  state, failures, successes, requests,
  nextAttempt,        \* time until nextAttempt, NoTime if it is undefined
  lastFailureTime,    \* time since, up to MonitoringPeriod + 1
  lastSuccessTime,
  monitor,            \* time since the monitoring timer fired, NoTime if cleared
  running,            \* time each call has been running for, NoTime if it is not
  admitted            \* history: the state in which a call was let through

counters == <<failures, successes, requests>>
instants == <<nextAttempt, lastFailureTime, lastSuccessTime, monitor>>
vars == <<state, counters, instants, running, admitted>>

CircuitState == {"CLOSED", "OPEN", "HALF_OPEN"}

Init ==
  /\ state = "CLOSED"
  /\ failures = 0 /\ successes = 0 /\ requests = 0
  /\ nextAttempt = NoTime /\ lastFailureTime = NoTime /\ lastSuccessTime = NoTime
  /\ monitor = 0
  /\ running = [c \in Calls |-> NoTime]
  /\ admitted = [c \in Calls |-> "CLOSED"]

Running(c) == running[c] # NoTime
Settle(c) ==
  /\ running' = [running EXCEPT ![c] = NoTime]
  /\ admitted' = [admitted EXCEPT ![c] = "CLOSED"]

(* Date.now() < nextAttempt, in the OPEN state.                              *)
Blocked == state = "OPEN" /\ nextAttempt # NoTime /\ nextAttempt > 0

(* execute() while the breaker blocks: the fallback or an error, no call.    *)
Reject ==
  /\ Blocked
  /\ requests < MaxRequests
  /\ requests' = requests + 1
  /\ UNCHANGED <<state, failures, successes, instants, running, admitted>>

Admit(c) ==
  /\ ~Running(c)
  /\ requests < MaxRequests
  /\ requests' = requests + 1
  /\ running' = [running EXCEPT ![c] = 0]
  /\ state' = IF state = "OPEN" THEN "HALF_OPEN" ELSE state
  /\ admitted' = [admitted EXCEPT ![c] = state']
  /\ UNCHANGED <<failures, successes, instants>>

(* Mutant: an open breaker half-opens at the first call.                     *)
ExecuteAtOnce(c) == Admit(c)

(* execute(): an open breaker half-opens once nextAttempt is reached.        *)
Execute(c) == ~Blocked /\ Admit(c)

(* Mutant: the failures are kept when the breaker closes.                    *)
onSuccessKeepsFailures(c) ==
  /\ successes' = successes + 1
  /\ lastSuccessTime' = 0
  /\ \/ /\ state = "HALF_OPEN" /\ successes' >= SuccessThreshold
        /\ state' = "CLOSED" /\ nextAttempt' = NoTime
     \/ /\ ~(state = "HALF_OPEN" /\ successes' >= SuccessThreshold)
        /\ UNCHANGED <<state, nextAttempt>>
  /\ Settle(c)
  /\ UNCHANGED <<failures, requests, lastFailureTime, monitor>>

onSuccess(c) ==
  /\ successes' = successes + 1
  /\ lastSuccessTime' = 0
  /\ \/ /\ state = "HALF_OPEN" /\ successes' >= SuccessThreshold
        /\ state' = "CLOSED" /\ failures' = 0 /\ nextAttempt' = NoTime
     \/ /\ ~(state = "HALF_OPEN" /\ successes' >= SuccessThreshold)
        /\ UNCHANGED <<state, failures, nextAttempt>>
  /\ Settle(c)
  /\ UNCHANGED <<requests, lastFailureTime, monitor>>

onFailure(c) ==
  /\ failures' = failures + 1
  /\ lastFailureTime' = 0
  /\ \/ /\ state # "OPEN" /\ failures' >= FailureThreshold
        /\ state' = "OPEN" /\ nextAttempt' = ResetTimeout
     \/ /\ ~(state # "OPEN" /\ failures' >= FailureThreshold)
        /\ UNCHANGED <<state, nextAttempt>>
  /\ Settle(c)
  /\ UNCHANGED <<successes, requests, lastSuccessTime, monitor>>

(* The race of fn() and the timer: fn() resolves, fn() rejects, or the timer *)
(* rejects first; what fn() does after that is ignored.                      *)
Succeed(c) == Running(c) /\ onSuccess(c)
Fail(c) == Running(c) /\ onFailure(c)
TimeOut(c) == Running(c) /\ running[c] = Timeout /\ onFailure(c)

reset ==
  /\ state' = "CLOSED"
  /\ failures' = 0 /\ successes' = 0 /\ requests' = 0
  /\ nextAttempt' = NoTime /\ lastFailureTime' = NoTime /\ lastSuccessTime' = NoTime
  /\ UNCHANGED <<monitor, running, admitted>>

(* Mutant: the operator's opening has no deadline.                           *)
ForceOpenKeepsAttempt ==
  /\ state' = "OPEN"
  /\ nextAttempt' = IF nextAttempt = NoTime THEN 0 ELSE nextAttempt
  /\ UNCHANGED <<counters, lastFailureTime, lastSuccessTime, monitor, running, admitted>>

forceOpen ==
  /\ state' = "OPEN"
  /\ nextAttempt' = ResetTimeout
  /\ UNCHANGED <<counters, lastFailureTime, lastSuccessTime, monitor, running, admitted>>

forceClosed ==
  /\ state' = "CLOSED"
  /\ failures' = 0
  /\ nextAttempt' = NoTime
  /\ UNCHANGED <<successes, requests, lastFailureTime, lastSuccessTime, monitor,
                 running, admitted>>

(* destroy() stops the monitoring; whoever holds the breaker can still use it.*)
destroy ==
  /\ monitor' = NoTime
  /\ UNCHANGED <<state, counters, nextAttempt, lastFailureTime, lastSuccessTime,
                 running, admitted>>

(* Mutant: the counters have no floor.                                       *)
DecayNoFloor(n, since) == IF since # NoTime /\ since > MonitoringPeriod THEN n - 1 ELSE n

(* A counter loses one at a monitoring tick a period after the last event.   *)
Decay(n, since) ==
  IF since # NoTime /\ since > MonitoringPeriod /\ n > 0 THEN n - 1 ELSE n

Monitor ==
  /\ monitor # NoTime /\ monitor = MonitoringPeriod
  /\ monitor' = 0
  /\ failures' = Decay(failures, lastFailureTime)
  /\ successes' = Decay(successes, lastSuccessTime)
  /\ UNCHANGED <<state, requests, nextAttempt, lastFailureTime, lastSuccessTime,
                 running, admitted>>

(* A unit of time; timers fire before it passes their deadline.              *)
Older(t, limit) == IF t = NoTime THEN NoTime ELSE IF t < limit THEN t + 1 ELSE t

Tick ==
  /\ \A c \in Calls : running[c] # Timeout
  /\ monitor # MonitoringPeriod
  /\ nextAttempt' = IF nextAttempt = NoTime THEN NoTime
                    ELSE IF nextAttempt > 0 THEN nextAttempt - 1 ELSE 0
  /\ lastFailureTime' = Older(lastFailureTime, MonitoringPeriod + 1)
  /\ lastSuccessTime' = Older(lastSuccessTime, MonitoringPeriod + 1)
  /\ monitor' = Older(monitor, MonitoringPeriod)
  /\ running' = [c \in Calls |-> Older(running[c], Timeout)]
  /\ UNCHANGED <<state, counters, admitted>>

Next ==
  \/ Reject
  \/ \E c \in Calls : Execute(c) \/ Succeed(c) \/ Fail(c) \/ TimeOut(c)
  \/ reset \/ forceOpen \/ forceClosed \/ destroy
  \/ Monitor
  \/ Tick

Spec == Init /\ [][Next]_vars

isHealthy == state = "CLOSED" \/ (state = "HALF_OPEN" /\ failures < FailureThreshold)

-----------------------------------------------------------------------------
TypeOK ==
  /\ state \in CircuitState
  /\ failures \in Nat /\ successes \in Nat /\ requests \in Nat
  /\ nextAttempt \in (0 .. ResetTimeout) \cup {NoTime}
  /\ lastFailureTime \in (0 .. (MonitoringPeriod + 1)) \cup {NoTime}
  /\ lastSuccessTime \in (0 .. (MonitoringPeriod + 1)) \cup {NoTime}
  /\ monitor \in (0 .. MonitoringPeriod) \cup {NoTime}
  /\ running \in [Calls -> (0 .. Timeout) \cup {NoTime}]
  /\ admitted \in [Calls -> CircuitState]

(* However results, decay and operators interleave, a closed breaker is      *)
(* always below its threshold: no failure is swallowed that should have      *)
(* opened it, and closing it never leaves a count that reopens it at once    *)
(* (onSuccess, onFailure, forceClosed, reset).                               *)
BelowThreshold == state = "CLOSED" => failures < FailureThreshold

(* A breaker that is not closed always has the instant at which it may be    *)
(* tried again: it cannot stay open for ever (onFailure, forceOpen), and a   *)
(* closed one has none left over from an earlier opening.                    *)
AttemptScheduled == nextAttempt = NoTime <=> state = "CLOSED"

(* The verdict on a half-open breaker comes from the calls that probe it: a  *)
(* call let through before it opened has settled by then, for it times out   *)
(* before the breaker may half-open (execute, createTimeoutPromise).         *)
VerdictsAreFresh ==
  state = "HALF_OPEN" => \A c \in Calls : Running(c) => admitted[c] = "HALF_OPEN"

(* The breaker implements its contract, BreakerContract: once open it lets   *)
(* nothing through for a whole reset period, unless an operator closes it,   *)
(* and only a result of a call in flight or an operator changes its mind.    *)
Hold == IF nextAttempt = NoTime THEN 0 ELSE nextAttempt
InFlight == {c \in Calls : Running(c)}
Contract == INSTANCE BreakerContract WITH mode <- state, hold <- Hold, inFlight <- InFlight
ContractSpec == Contract!Spec

=============================================================================
