------------------------ MODULE CircuitBreakerProofs ------------------------
(***************************************************************************)
(* Proofs about CircuitBreaker, for every number of calls, every threshold   *)
(* and every period.                                                         *)
(***************************************************************************)
EXTENDS CircuitBreaker, TLAPS

USE DEF counters, instants

LEMMA DecayTyped ==
  ASSUME NEW n \in Nat, NEW t
  PROVE  /\ Decay(n, t) \in Nat
         /\ Decay(n, t) <= n
  BY DEF Decay

LEMMA OlderTyped ==
  ASSUME NEW limit \in Nat, NEW t \in (0 .. limit) \cup {NoTime}
  PROVE  Older(t, limit) \in (0 .. limit) \cup {NoTime}
  BY BreakerAssumption DEF Older

(* Every variable keeps its type: no order of results, timers and operations *)
(* makes a counter negative or an instant run past the point where it counts.*)
THEOREM TypeCorrect == Spec => []TypeOK
<1>1. Init => TypeOK
  BY BreakerAssumption DEF Init, TypeOK, CircuitState
<1>2. TypeOK /\ [Next]_vars => TypeOK'
  <2> SUFFICES ASSUME TypeOK, [Next]_vars PROVE TypeOK'
    OBVIOUS
  <2> USE BreakerAssumption DEF TypeOK, CircuitState
  <2>1. CASE Reject
    BY <2>1 DEF Reject
  <2>2. ASSUME NEW c \in Calls, Execute(c) PROVE TypeOK'
    BY <2>2 DEF Execute, Admit
  <2>3. ASSUME NEW c \in Calls, onSuccess(c) PROVE TypeOK'
    BY <2>3 DEF onSuccess, Settle
  <2>4. ASSUME NEW c \in Calls, onFailure(c) PROVE TypeOK'
    BY <2>4 DEF onFailure, Settle
  <2>5. CASE reset \/ forceOpen \/ forceClosed \/ destroy
    BY <2>5 DEF reset, forceOpen, forceClosed, destroy
  <2>6. CASE Monitor
    BY <2>6, DecayTyped DEF Monitor
  <2>7. CASE Tick
    <3>1. running' \in [Calls -> (0 .. Timeout) \cup {NoTime}]
      BY <2>7, OlderTyped DEF Tick
    <3>2. nextAttempt' \in (0 .. ResetTimeout) \cup {NoTime}
      BY <2>7 DEF Tick
    <3>3. /\ lastFailureTime' \in (0 .. (MonitoringPeriod + 1)) \cup {NoTime}
          /\ lastSuccessTime' \in (0 .. (MonitoringPeriod + 1)) \cup {NoTime}
          /\ monitor' \in (0 .. MonitoringPeriod) \cup {NoTime}
      BY <2>7, OlderTyped DEF Tick
    <3>. QED BY <2>7, <3>1, <3>2, <3>3 DEF Tick
  <2>8. CASE UNCHANGED vars
    BY <2>8 DEF vars
  <2>. QED
    BY <2>1, <2>2, <2>3, <2>4, <2>5, <2>6, <2>7, <2>8 DEF Next, Succeed, Fail, TimeOut
<1>. QED BY <1>1, <1>2, PTL DEF Spec

(* Closed means below the threshold, and closed means no attempt scheduled.  *)
StateInv == BelowThreshold /\ AttemptScheduled

LEMMA StateInvStep == TypeOK /\ StateInv /\ [Next]_vars => StateInv'
<1> SUFFICES ASSUME TypeOK, StateInv, [Next]_vars PROVE StateInv'
  OBVIOUS
<1> USE BreakerAssumption DEF TypeOK, CircuitState, StateInv, BelowThreshold, AttemptScheduled
<1>1. CASE Reject
  BY <1>1 DEF Reject
<1>2. ASSUME NEW c \in Calls, Execute(c) PROVE StateInv'
  BY <1>2 DEF Execute, Admit
<1>3. ASSUME NEW c \in Calls, onSuccess(c) PROVE StateInv'
  BY <1>3 DEF onSuccess
<1>4. ASSUME NEW c \in Calls, onFailure(c) PROVE StateInv'
  BY <1>4 DEF onFailure
<1>5. CASE reset \/ forceOpen \/ forceClosed \/ destroy
  BY <1>5 DEF reset, forceOpen, forceClosed, destroy
<1>6. CASE Monitor
  <2>1. failures' <= failures /\ failures' \in Nat
    BY <1>6, DecayTyped DEF Monitor
  <2>. QED BY <1>6, <2>1 DEF Monitor
<1>7. CASE Tick
  BY <1>7 DEF Tick
<1>8. CASE UNCHANGED vars
  BY <1>8 DEF vars
<1>. QED
  BY <1>1, <1>2, <1>3, <1>4, <1>5, <1>6, <1>7, <1>8 DEF Next, Succeed, Fail, TimeOut

LEMMA InitState == Init => StateInv
  BY BreakerAssumption DEF Init, StateInv, BelowThreshold, AttemptScheduled

(* A closed breaker is below its threshold.                                  *)
THEOREM BelowThresholdCorrect == Spec => []BelowThreshold
<1>1. Spec => []StateInv
  BY InitState, StateInvStep, TypeCorrect, PTL DEF Spec
<1>2. StateInv => BelowThreshold
  BY DEF StateInv
<1>. QED BY <1>1, <1>2, PTL

(* Exactly a breaker that is not closed has an attempt scheduled.            *)
THEOREM AttemptScheduledCorrect == Spec => []AttemptScheduled
<1>1. Spec => []StateInv
  BY InitState, StateInvStep, TypeCorrect, PTL DEF Spec
<1>2. StateInv => AttemptScheduled
  BY DEF StateInv
<1>. QED BY <1>1, <1>2, PTL

-----------------------------------------------------------------------------
(* VerdictsAreFresh.  While the breaker is open, a call from before has been *)
(* running at least as long as the breaker has been open: when the reset     *)
(* period is over it would have run for longer than its timeout.             *)

SettlesBeforeProbing ==
  state = "OPEN" => \A c \in Calls : Running(c) => running[c] + nextAttempt >= ResetTimeout

FreshInv == SettlesBeforeProbing /\ VerdictsAreFresh

LEMMA FreshStep ==
  TypeOK /\ TypeOK' /\ StateInv /\ FreshInv /\ [Next]_vars => FreshInv'
<1> SUFFICES ASSUME TypeOK, TypeOK', StateInv, FreshInv, [Next]_vars PROVE FreshInv'
  OBVIOUS
<1> USE BreakerAssumption, TimeoutAssumption
    DEF TypeOK, CircuitState, FreshInv, SettlesBeforeProbing, VerdictsAreFresh, Running
<1>t. ASSUME state = "OPEN" PROVE nextAttempt \in Nat
  BY <1>t DEF StateInv, AttemptScheduled
<1>1. CASE Reject
  BY <1>1 DEF Reject
<1>2. ASSUME NEW c \in Calls, Execute(c) PROVE FreshInv'
  <2>1. CASE state = "OPEN"
    <3>1. nextAttempt = 0
      BY <1>2, <2>1, <1>t DEF Execute, Blocked
    <3>2. \A d \in Calls : ~Running(d)
      BY <2>1, <3>1
    <3>. QED BY <1>2, <2>1, <3>2 DEF Execute, Admit
  <2>2. CASE state # "OPEN"
    BY <1>2, <2>2 DEF Execute, Admit
  <2>. QED BY <2>1, <2>2
<1>3. ASSUME NEW c \in Calls, onSuccess(c) PROVE FreshInv'
  BY <1>3 DEF onSuccess, Settle
<1>4. ASSUME NEW c \in Calls, onFailure(c) PROVE FreshInv'
  BY <1>4 DEF onFailure, Settle
<1>5. CASE reset \/ forceOpen \/ forceClosed \/ destroy
  BY <1>5 DEF reset, forceOpen, forceClosed, destroy
<1>6. CASE Monitor
  BY <1>6 DEF Monitor
<1>7. CASE Tick
  <2>1. \A c \in Calls : Running(c) => running'[c] = running[c] + 1
    BY <1>7 DEF Tick, Older
  <2>2. \A c \in Calls : ~Running(c) => ~Running(c)'
    BY <1>7 DEF Tick, Older
  <2>3. CASE state = "OPEN"
    <3>1. nextAttempt' \in Nat /\ nextAttempt' >= nextAttempt - 1
      BY <1>7, <2>3, <1>t DEF Tick
    <3>. QED BY <1>7, <2>1, <2>2, <2>3, <3>1, <1>t DEF Tick
  <2>4. CASE state # "OPEN"
    BY <1>7, <2>2, <2>4 DEF Tick
  <2>. QED BY <2>3, <2>4
<1>8. CASE UNCHANGED vars
  BY <1>8 DEF vars
<1>. QED
  BY <1>1, <1>2, <1>3, <1>4, <1>5, <1>6, <1>7, <1>8 DEF Next, Succeed, Fail, TimeOut

(* When calls time out sooner than the breaker half-opens, no result of a    *)
(* call from before the opening is taken for a verdict on the recovery.      *)
THEOREM VerdictsAreFreshCorrect == Spec => []VerdictsAreFresh
<1>1. Init => FreshInv
  BY DEF Init, FreshInv, SettlesBeforeProbing, VerdictsAreFresh
<1>2. Spec => []StateInv
  BY InitState, StateInvStep, TypeCorrect, PTL DEF Spec
<1>3. Spec => []FreshInv
  BY <1>1, <1>2, FreshStep, TypeCorrect, PTL DEF Spec
<1>4. FreshInv => VerdictsAreFresh
  BY DEF FreshInv
<1>. QED BY <1>3, <1>4, PTL

-----------------------------------------------------------------------------
(* The breaker implements its contract.                                      *)

LEMMA ContractStep == TypeOK /\ StateInv /\ [Next]_vars => [Contract!Next]_(Contract!vars)
<1> SUFFICES ASSUME TypeOK, StateInv, [Next]_vars, ~(UNCHANGED Contract!vars)
             PROVE  Contract!Next
  OBVIOUS
<1> USE BreakerAssumption DEF TypeOK, CircuitState, Contract!vars
<1>h. ASSUME UNCHANGED nextAttempt PROVE UNCHANGED Hold
  BY <1>h DEF Hold
<1>f. ASSUME UNCHANGED running PROVE UNCHANGED InFlight
  BY <1>f DEF InFlight, Running
<1>1. CASE Reject \/ destroy \/ Monitor \/ UNCHANGED vars
  BY <1>1, <1>h, <1>f DEF Reject, destroy, Monitor, vars
<1>2. ASSUME NEW c \in Calls, Execute(c) PROVE Contract!LetThrough(c)
  <2>1. c \notin InFlight /\ InFlight' = InFlight \cup {c}
    BY <1>2 DEF Execute, Admit, InFlight, Running
  <2>2. state = "OPEN" => Hold = 0
    BY <1>2 DEF Execute, Blocked, Hold
  <2>. QED BY <1>2, <2>1, <2>2, <1>h DEF Execute, Admit, Contract!LetThrough
<1>3. ASSUME NEW c \in Calls, Running(c), Settle(c)
      PROVE  c \in InFlight /\ InFlight' = InFlight \ {c}
  BY <1>3 DEF Settle, InFlight, Running
<1>4. ASSUME NEW c \in Calls, Running(c), onSuccess(c) PROVE Contract!Result(c)
  <2>1. UNCHANGED <<state, Hold>> \/ (state = "HALF_OPEN" /\ state' = "CLOSED" /\ Hold' = 0)
    BY <1>4 DEF onSuccess, Hold
  <2>. QED BY <1>3, <1>4, <2>1 DEF onSuccess, Contract!Result
<1>5. ASSUME NEW c \in Calls, Running(c), onFailure(c) PROVE Contract!Result(c)
  <2>1. UNCHANGED <<state, Hold>> \/ (state # "OPEN" /\ state' = "OPEN" /\ Hold' = ResetTimeout)
    BY <1>5 DEF onFailure, Hold
  <2>. QED BY <1>3, <1>5, <2>1 DEF onFailure, Contract!Result
<1>6. CASE reset \/ forceOpen \/ forceClosed
  <2>1. (state' = "CLOSED" /\ Hold' = 0) \/ (state' = "OPEN" /\ Hold' = ResetTimeout)
    BY <1>6 DEF reset, forceOpen, forceClosed, Hold
  <2>2. UNCHANGED running
    BY <1>6 DEF reset, forceOpen, forceClosed
  <2>. QED BY <2>1, <2>2, <1>f DEF Contract!Operator, Contract!Next
<1>7. CASE Tick
  <2>1. \A c \in Calls : Running(c) <=> Running(c)'
    BY <1>7 DEF Tick, Older, Running
  <2>2. UNCHANGED InFlight
    BY <2>1 DEF InFlight
  <2>3. Hold' = Hold \/ (Hold > 0 /\ Hold' = Hold - 1)
    <3>1. CASE nextAttempt = NoTime
      BY <1>7, <3>1 DEF Tick, Hold
    <3>2. CASE nextAttempt # NoTime
      <4>1. nextAttempt \in Nat /\ Hold = nextAttempt
        BY <3>2 DEF Hold
      <4>2. nextAttempt' = IF nextAttempt > 0 THEN nextAttempt - 1 ELSE 0
        BY <1>7, <3>2 DEF Tick
      <4>3. nextAttempt' \in Nat /\ Hold' = nextAttempt'
        BY <4>1, <4>2 DEF Hold
      <4>. QED BY <4>1, <4>2, <4>3
    <3>. QED BY <3>1, <3>2
  <2>. QED BY <1>7, <2>2, <2>3 DEF Tick, Contract!TimePasses, Contract!Next
<1>. QED
  BY <1>1, <1>2, <1>4, <1>5, <1>6, <1>7 DEF Next, Succeed, Fail, TimeOut, Contract!Next

(* Once open, the breaker refuses every call for the whole reset period      *)
(* unless an operator closes it, and only a result or an operator closes or  *)
(* reopens it: it implements BreakerContract.                                *)
THEOREM ImplementsContract == Spec => ContractSpec
<1>1. Init => Contract!Init
  BY BreakerAssumption DEF Init, Contract!Init, Running, Hold, InFlight
<1>2. Spec => []StateInv
  BY InitState, StateInvStep, TypeCorrect, PTL DEF Spec
<1>3. Spec => Contract!Spec
  BY <1>1, <1>2, ContractStep, TypeCorrect, PTL DEF Spec, Contract!Spec
<1>. QED BY <1>3 DEF ContractSpec

=============================================================================
