---------------------------- MODULE EventDelivery ----------------------------
(***************************************************************************)
(* Delivery of the events of one type: MessageBus.publishEvent and           *)
(* subscribe (consume, acknowledge, retryMessage, nack), the RabbitMQ queues *)
(* it declares, and the circuit breaker that EventCoordinator.               *)
(* subscribeToEvent wraps around each service's handler.                     *)
(*                                                                           *)
(* A copy of an event is one message in the queue of one service, with the   *)
(* number of retries in its x-retry-count header.  Copies that are alike are *)
(* counted.  A breaker is known by its contract (BreakerContract, which      *)
(* CircuitBreaker implements): its counters and times are abstracted.        *)
(***************************************************************************)
EXTENDS Integers, FiniteSets

CONSTANTS
  Services,     \* the subscribers, each with a queue of its own
  Events,       \* calls of publishEvent
  MaxRetries,   \* options.maxRetries || config.retry.maxRetries
  MaxCrashes    \* bound: crashes of services

ASSUME DeliveryAssumption == MaxRetries \in Nat \ {0}

VARIABLES
  published,   \* events that reached the events exchange
  waiting,     \* copies in the queues of the services
  unacked,     \* copies a handler is working on
  retrying,    \* copies rejected for now, their retry queue being declared
  answered,    \* copies whose acknowledgement or rejection is on its way
  delayed,     \* messages in the retry queues
  handled,     \* <<service, event>>: its handler has returned
  dropped,     \* <<service, event>>: its subscriber rejected a copy for good
  breaker,     \* the mode of each service's breaker
  resting,     \* services whose open breaker still refuses calls
  failed,      \* services a handler of which has failed or timed out
  retried,     \* <<event, n>>: the event was sent to its n-th retry queue
  crashes

queueVars == <<waiting, unacked, retrying, answered, delayed>>
breakerVars == <<breaker, resting>>
vars == <<published, queueVars, handled, dropped, breakerVars, failed, retried, crashes>>

-----------------------------------------------------------------------------
Level == 0 .. MaxRetries
Copy == Services \X Events \X Level
Mode == {"CLOSED", "OPEN", "HALF_OPEN"}

ServiceOf(c) == c[1]
EventOf(c) == c[2]
RetryCount(c) == c[3]

Init ==
  /\ published = {}
  /\ waiting = [c \in Copy |-> 0]
  /\ unacked = [c \in Copy |-> 0]
  /\ retrying = [c \in Copy |-> 0]
  /\ answered = [c \in Copy |-> 0]
  /\ delayed = [m \in Events \X Level |-> 0]
  /\ handled = {} /\ dropped = {}
  /\ breaker = [s \in Services |-> "CLOSED"]
  /\ resting = {} /\ failed = {} /\ retried = {}
  /\ crashes = 0

(* The events exchange copies a message to the queue of every service that   *)
(* is bound to `*.<type>`.                                                   *)
Route(e, n) ==
  waiting' = [c \in Copy |-> IF EventOf(c) = e /\ RetryCount(c) = n
                             THEN waiting[c] + 1 ELSE waiting[c]]

publishEvent(e) ==
  /\ e \notin published
  /\ published' = published \cup {e}
  /\ Route(e, 0)
  /\ UNCHANGED <<unacked, retrying, answered, delayed, handled, dropped, breakerVars, failed,
                 retried, crashes>>

-----------------------------------------------------------------------------
(* The breaker of service s lets a call through, ...                         *)
Blocked(s) == breaker[s] = "OPEN" /\ s \in resting

Admit(s) ==
  /\ ~Blocked(s)
  /\ breaker' = IF breaker[s] = "OPEN" THEN [breaker EXCEPT ![s] = "HALF_OPEN"] ELSE breaker
  /\ UNCHANGED resting

(* ... a failure opens it or leaves it, ...                                  *)
onFailure(s) ==
  \/ UNCHANGED breakerVars
  \/ /\ breaker[s] # "OPEN"
     /\ breaker' = [breaker EXCEPT ![s] = "OPEN"]
     /\ resting' = resting \cup {s}

(* Mutant: the outcomes are swapped.                                         *)
onSuccessOpens(s) == onFailure(s)

(* ... and a success closes it or leaves it.                                 *)
onSuccess(s) ==
  /\ \/ UNCHANGED breaker
     \/ breaker[s] = "HALF_OPEN" /\ breaker' = [breaker EXCEPT ![s] = "CLOSED"]
  /\ UNCHANGED resting

ResetTimeout(s) ==
  /\ s \in resting
  /\ resting' = resting \ {s}
  /\ UNCHANGED <<published, queueVars, handled, dropped, breaker, failed, retried, crashes>>

-----------------------------------------------------------------------------
(* Mutants of the catch block: no limit, and one retry too few.              *)
RejectNoLimit(c) ==
  /\ retrying' = [retrying EXCEPT ![c] = @ + 1]
  /\ UNCHANGED <<answered, dropped>>

RejectEarly(c) ==
  \/ /\ RetryCount(c) + 1 < MaxRetries
     /\ retrying' = [retrying EXCEPT ![c] = @ + 1]
     /\ UNCHANGED <<answered, dropped>>
  \/ /\ RetryCount(c) + 1 >= MaxRetries
     /\ dropped' = dropped \cup {<<ServiceOf(c), EventOf(c)>>}
     /\ answered' = [answered EXCEPT ![c] = @ + 1]
     /\ UNCHANGED retrying

(* The catch block: retryMessage declares a retry queue and waits for it;    *)
(* or, after the last retry, the copy is rejected without requeueing: the    *)
(* dead letter exchange is direct and no queue is bound to the key the       *)
(* message has there.                                                        *)
Reject(c) ==
  \/ /\ RetryCount(c) < MaxRetries
     /\ retrying' = [retrying EXCEPT ![c] = @ + 1]
     /\ UNCHANGED <<answered, dropped>>
  \/ /\ RetryCount(c) = MaxRetries
     /\ dropped' = dropped \cup {<<ServiceOf(c), EventOf(c)>>}
     /\ answered' = [answered EXCEPT ![c] = @ + 1]
     /\ UNCHANGED retrying

(* A consumer takes a copy: an open breaker refuses it at once, ...          *)
Refuse(c) ==
  /\ waiting[c] > 0
  /\ Blocked(ServiceOf(c))
  /\ waiting' = [waiting EXCEPT ![c] = @ - 1]
  /\ Reject(c)
  /\ UNCHANGED <<published, unacked, delayed, handled, breakerVars, failed, retried, crashes>>

(* ... otherwise the handler is called.                                      *)
Deliver(c) ==
  /\ waiting[c] > 0
  /\ Admit(ServiceOf(c))
  /\ waiting' = [waiting EXCEPT ![c] = @ - 1]
  /\ unacked' = [unacked EXCEPT ![c] = @ + 1]
  /\ UNCHANGED <<published, retrying, answered, delayed, handled, dropped, failed, retried,
                 crashes>>

(* The handler returns: the copy is acknowledged, which RabbitMQ hears later.*)
Handle(c) ==
  /\ unacked[c] > 0
  /\ unacked' = [unacked EXCEPT ![c] = @ - 1]
  /\ answered' = [answered EXCEPT ![c] = @ + 1]
  /\ handled' = handled \cup {<<ServiceOf(c), EventOf(c)>>}
  /\ onSuccess(ServiceOf(c))
  /\ UNCHANGED <<published, waiting, retrying, delayed, dropped, failed, retried, crashes>>

(* It throws, or the breaker's timeout is over.                              *)
Fail(c) ==
  /\ unacked[c] > 0
  /\ unacked' = [unacked EXCEPT ![c] = @ - 1]
  /\ failed' = failed \cup {ServiceOf(c)}
  /\ onFailure(ServiceOf(c))
  /\ Reject(c)
  /\ UNCHANGED <<published, waiting, delayed, handled, retried, crashes>>

(* The retry queue of the copy's routing key and count, which all services   *)
(* share, is there: the message is published to it and the copy acknowledged.*)
retryMessage(c) ==
  /\ retrying[c] > 0
  /\ retrying' = [retrying EXCEPT ![c] = @ - 1]
  /\ answered' = [answered EXCEPT ![c] = @ + 1]
  /\ delayed' = [delayed EXCEPT ![<<EventOf(c), RetryCount(c) + 1>>] = @ + 1]
  /\ retried' = retried \cup {<<EventOf(c), RetryCount(c) + 1>>}
  /\ UNCHANGED <<published, waiting, unacked, handled, dropped, breakerVars, failed, crashes>>

(* RabbitMQ hears that a copy is acknowledged or rejected, and removes it.   *)
Remove(c) ==
  /\ answered[c] > 0
  /\ answered' = [answered EXCEPT ![c] = @ - 1]
  /\ UNCHANGED <<published, waiting, unacked, retrying, delayed, handled, dropped, breakerVars,
                 failed, retried, crashes>>

(* Mutant: a retry queue without a dead letter exchange.                     *)
ExpireForGood(e, n) ==
  /\ delayed[<<e, n>>] > 0
  /\ delayed' = [delayed EXCEPT ![<<e, n>>] = @ - 1]
  /\ UNCHANGED <<published, waiting, unacked, retrying, answered, handled, dropped, breakerVars,
                 failed, retried, crashes>>

(* The time in the retry queue is over: RabbitMQ moves the message to the    *)
(* events exchange, under its old routing key.                               *)
Expire(e, n) ==
  /\ delayed[<<e, n>>] > 0
  /\ delayed' = [delayed EXCEPT ![<<e, n>>] = @ - 1]
  /\ Route(e, n)
  /\ UNCHANGED <<published, unacked, retrying, answered, handled, dropped, breakerVars, failed,
                 retried, crashes>>

(* What RabbitMQ has given to service s and has no answer for.               *)
Unanswered(c) == unacked[c] + retrying[c] + answered[c]

Without(queue, s) == [c \in Copy |-> IF ServiceOf(c) = s THEN 0 ELSE queue[c]]

(* Mutant: messages are acknowledged when they are delivered.                *)
CrashNoAck(s) ==
  /\ crashes < MaxCrashes
  /\ crashes' = crashes + 1
  /\ unacked' = Without(unacked, s)
  /\ retrying' = Without(retrying, s)
  /\ answered' = Without(answered, s)
  /\ breaker' = [breaker EXCEPT ![s] = "CLOSED"]
  /\ resting' = resting \ {s}
  /\ UNCHANGED <<published, waiting, delayed, handled, dropped, failed, retried>>

(* A service dies and starts again: RabbitMQ requeues what it had no answer  *)
(* for, also what was handled or is in a retry queue already, and the        *)
(* service's breaker is a new one.                                           *)
Crash(s) ==
  /\ crashes < MaxCrashes
  /\ crashes' = crashes + 1
  /\ waiting' = [c \in Copy |-> IF ServiceOf(c) = s THEN waiting[c] + Unanswered(c)
                                                     ELSE waiting[c]]
  /\ unacked' = Without(unacked, s)
  /\ retrying' = Without(retrying, s)
  /\ answered' = Without(answered, s)
  /\ breaker' = [breaker EXCEPT ![s] = "CLOSED"]
  /\ resting' = resting \ {s}
  /\ UNCHANGED <<published, delayed, handled, dropped, failed, retried>>

Next ==
  \/ \E e \in Events : publishEvent(e)
  \/ \E c \in Copy : \/ Refuse(c) \/ Deliver(c) \/ Handle(c) \/ Fail(c)
                     \/ retryMessage(c) \/ Remove(c)
  \/ \E e \in Events, n \in Level : Expire(e, n)
  \/ \E s \in Services : ResetTimeout(s) \/ Crash(s)

Spec == Init /\ [][Next]_vars

(* A consumer takes what waits in its queue, every call is settled (the      *)
(* breaker has a timeout), RabbitMQ declares queues and hears its consumers, *)
(* and the retry queues have a time to live.                                 *)
Fairness ==
  /\ \A c \in Copy : /\ WF_vars(Refuse(c) \/ Deliver(c)) /\ WF_vars(Handle(c) \/ Fail(c))
                      /\ WF_vars(retryMessage(c)) /\ WF_vars(Remove(c))
  /\ \A e \in Events, n \in Level : WF_vars(Expire(e, n))

FairSpec == Spec /\ Fairness

-----------------------------------------------------------------------------
TypeOK ==
  /\ published \subseteq Events
  /\ waiting \in [Copy -> Nat]
  /\ unacked \in [Copy -> Nat]
  /\ retrying \in [Copy -> Nat]
  /\ answered \in [Copy -> Nat]
  /\ delayed \in [Events \X Level -> Nat]
  /\ handled \subseteq Services \X Events
  /\ dropped \subseteq Services \X Events
  /\ breaker \in [Services -> Mode]
  /\ resting \subseteq Services
  /\ failed \subseteq Services
  /\ retried \subseteq Events \X Level
  /\ crashes \in Nat

(* Copies of event e that service s has still to answer or will be given.    *)
Pending(s, e) ==
  \E n \in Level : \/ waiting[<<s, e, n>>] > 0 \/ unacked[<<s, e, n>>] > 0
                   \/ retrying[<<s, e, n>>] > 0 \/ delayed[<<e, n>>] > 0

(* However the services fail, retry, crash and refuse, a published event is  *)
(* never lost on the way to a service: it is still to be handled there, has  *)
(* been handled, or was given up after a rejection; a copy that is answered  *)
(* for a retry is in the retry queue by then (subscribe, retryMessage).      *)
NotLost ==
  \A e \in published, s \in Services :
    Pending(s, e) \/ <<s, e>> \in handled \/ <<s, e>> \in dropped

(* A service gives an event up only after the event has been through every   *)
(* retry queue, whichever service sent it there: no copy skips a retry or    *)
(* starts with a count of its own (getRetryCount, retryMessage).             *)
GivenUpAfterAllRetries ==
  \A s \in Services, e \in Events :
    <<s, e>> \in dropped => \A n \in 1 .. MaxRetries : <<e, n>> \in retried

(* A service no handler of which has ever failed gives no event up: the      *)
(* failures and the breakers of the others cost it repeated deliveries, but  *)
(* never a message (the breaker of subscribeToEvent is the service's own).   *)
OnlyFailingServicesGiveUp ==
  \A s \in Services, e \in Events : <<s, e>> \in dropped => s \in failed

(* The bus implements its contract, DeliveryContract: a service stops being   *)
(* owed an event by handling it or, after all retries and a failure of its   *)
(* own, by giving it up; and what is owed to nobody is never delivered again *)
(* (subscribe, retryMessage).                                                *)
Unsettled(s, e) == Pending(s, e) \/ \E n \in Level : answered[<<s, e, n>>] > 0

Owed == {x \in Services \X Events : Unsettled(x[1], x[2])}

Contract == INSTANCE DeliveryContract WITH owed <- Owed, givenUp <- dropped
ContractSpec == Contract!Spec

(* Retries end: every published event is handled or given up by every        *)
(* service, and no copy of it goes round for ever.                           *)
Settled(s, e) == ~Unsettled(s, e) /\ (<<s, e>> \in handled \/ <<s, e>> \in dropped)

EveryEventSettles ==
  \A e \in Events : e \in published ~> \A s \in Services : Settled(s, e)

=============================================================================
