------------------------- MODULE EventDeliveryProofs -------------------------
(***************************************************************************)
(* Proofs about EventDelivery, for any number of services, events, retries   *)
(* and crashes.                                                              *)
(***************************************************************************)
EXTENDS EventDelivery, TLAPS

-----------------------------------------------------------------------------
(* Types.                                                                    *)

LEMMA CopyFields ==
  \A c \in Copy : /\ ServiceOf(c) \in Services /\ EventOf(c) \in Events
                  /\ RetryCount(c) \in Level
                  /\ c = <<ServiceOf(c), EventOf(c), RetryCount(c)>>
  BY DEF Copy, ServiceOf, EventOf, RetryCount

LEMMA NextLevel ==
  \A n \in Level : n < MaxRetries => n + 1 \in Level
  BY DeliveryAssumption DEF Level

LEMMA RouteTyped ==
  ASSUME TypeOK, NEW e \in Events, NEW n \in Level, Route(e, n)
  PROVE  waiting' \in [Copy -> Nat]
  BY DEF TypeOK, Route

LEMMA RejectTyped ==
  ASSUME TypeOK, NEW c \in Copy, Reject(c)
  PROVE  /\ retrying' \in [Copy -> Nat]
         /\ answered' \in [Copy -> Nat]
         /\ dropped' \subseteq Services \X Events
<1>1. ServiceOf(c) \in Services /\ EventOf(c) \in Events
  BY CopyFields
<1>2. CASE retrying' = [retrying EXCEPT ![c] = @ + 1] /\ UNCHANGED <<answered, dropped>>
  BY <1>2 DEF TypeOK
<1>3. CASE /\ answered' = [answered EXCEPT ![c] = @ + 1] /\ UNCHANGED retrying
           /\ dropped' = dropped \cup {<<ServiceOf(c), EventOf(c)>>}
  BY <1>1, <1>3 DEF TypeOK
<1>. QED BY <1>2, <1>3 DEF Reject

(* Only copies below the last count are sent to a retry queue.               *)
RetriesAreLow == \A c \in Copy : retrying[c] > 0 => RetryCount(c) < MaxRetries

LEMMA WithoutTyped ==
  ASSUME NEW queue \in [Copy -> Nat], NEW s \in Services
  PROVE  Without(queue, s) \in [Copy -> Nat]
  BY DEF Without

LEMMA BreakerTyped ==
  ASSUME TypeOK, NEW s \in Services, Admit(s) \/ onSuccess(s) \/ onFailure(s)
  PROVE  breaker' \in [Services -> Mode] /\ resting' \subseteq Services
  BY DEF TypeOK, Mode, Admit, onSuccess, onFailure, breakerVars

LEMMA TypeStep ==
  ASSUME TypeOK, RetriesAreLow, [Next]_vars
  PROVE  TypeOK'
<1>1. CASE UNCHANGED vars
  BY <1>1 DEF TypeOK, vars, queueVars, breakerVars
<1>2. ASSUME NEW e \in Events, publishEvent(e)
      PROVE  TypeOK'
  BY <1>2, RouteTyped, DeliveryAssumption DEF TypeOK, publishEvent, breakerVars, Level
<1>3. ASSUME NEW c \in Copy, Refuse(c)
      PROVE  TypeOK'
  BY <1>3, RejectTyped DEF TypeOK, Refuse, breakerVars
<1>4. ASSUME NEW c \in Copy, Deliver(c)
      PROVE  TypeOK'
  BY <1>4, BreakerTyped, CopyFields DEF TypeOK, Deliver
<1>5. ASSUME NEW c \in Copy, Handle(c)
      PROVE  TypeOK'
  BY <1>5, BreakerTyped, CopyFields DEF TypeOK, Handle
<1>6. ASSUME NEW c \in Copy, Fail(c)
      PROVE  TypeOK'
  BY <1>6, BreakerTyped, RejectTyped, CopyFields DEF TypeOK, Fail
<1>7. ASSUME NEW e \in Events, NEW n \in Level, Expire(e, n)
      PROVE  TypeOK'
  BY <1>7, RouteTyped DEF TypeOK, Expire, breakerVars
<1>8. ASSUME NEW s \in Services, ResetTimeout(s)
      PROVE  TypeOK'
  BY <1>8 DEF TypeOK, ResetTimeout, queueVars
<1>9. ASSUME NEW s \in Services, Crash(s)
      PROVE  TypeOK'
  <2>1. /\ unacked' \in [Copy -> Nat]
        /\ retrying' \in [Copy -> Nat]
        /\ answered' \in [Copy -> Nat]
    BY <1>9, WithoutTyped DEF TypeOK, Crash
  <2>2. waiting' \in [Copy -> Nat]
    BY <1>9 DEF TypeOK, Crash, Unanswered
  <2>. QED BY <1>9, <2>1, <2>2 DEF TypeOK, Crash, Mode
<1>10. ASSUME NEW c \in Copy, retryMessage(c)
       PROVE  TypeOK'
  <2>1. RetryCount(c) + 1 \in Level /\ EventOf(c) \in Events
    BY <1>10, CopyFields, NextLevel DEF retryMessage, RetriesAreLow
  <2>2. /\ retrying' \in [Copy -> Nat]
        /\ answered' \in [Copy -> Nat]
        /\ delayed' \in [Events \X Level -> Nat]
    BY <1>10, <2>1 DEF TypeOK, retryMessage
  <2>3. retried' \subseteq Events \X Level
    BY <1>10, <2>1 DEF TypeOK, retryMessage
  <2>. QED BY <1>10, <2>2, <2>3 DEF TypeOK, retryMessage, breakerVars
<1>11. ASSUME NEW c \in Copy, Remove(c)
       PROVE  TypeOK'
  BY <1>11 DEF TypeOK, Remove, breakerVars
<1>. QED BY <1>1, <1>2, <1>3, <1>4, <1>5, <1>6, <1>7, <1>8, <1>9, <1>10, <1>11 DEF Next

LEMMA LowStep ==
  ASSUME TypeOK, RetriesAreLow, [Next]_vars
  PROVE  RetriesAreLow'
<1>1. CASE UNCHANGED vars \/ UNCHANGED retrying
  BY <1>1 DEF vars, queueVars, RetriesAreLow
<1>2. ASSUME NEW c \in Copy, Refuse(c) \/ Fail(c)
      PROVE  RetriesAreLow'
  BY <1>2 DEF Refuse, Fail, Reject, TypeOK, RetriesAreLow
<1>3. ASSUME NEW c \in Copy, retryMessage(c)
      PROVE  RetriesAreLow'
  BY <1>3 DEF retryMessage, TypeOK, RetriesAreLow
<1>4. ASSUME NEW s \in Services, Crash(s)
      PROVE  RetriesAreLow'
  BY <1>4 DEF Crash, Without, TypeOK, RetriesAreLow
<1>5. ASSUME NEW c \in Copy, Deliver(c) \/ Handle(c) \/ Remove(c)
      PROVE  UNCHANGED retrying
  BY <1>5 DEF Deliver, Handle, Remove
<1>6. ASSUME NEW e \in Events, NEW n \in Level, publishEvent(e) \/ Expire(e, n)
      PROVE  UNCHANGED retrying
  BY <1>6 DEF publishEvent, Expire
<1>7. ASSUME NEW s \in Services, ResetTimeout(s)
      PROVE  UNCHANGED retrying
  BY <1>7 DEF ResetTimeout, queueVars
<1>8. Level # {}
  BY DeliveryAssumption DEF Level
<1>. QED BY <1>1, <1>2, <1>3, <1>4, <1>5, <1>6, <1>7, <1>8 DEF Next

LEMMA TypeInvariant == Spec => [](TypeOK /\ RetriesAreLow)
<1>1. Init => TypeOK /\ RetriesAreLow
  BY DEF Init, TypeOK, Mode, RetriesAreLow
<1>. QED BY <1>1, TypeStep, LowStep, PTL DEF Spec

(* Counts of copies never go negative and every copy keeps a retry count     *)
(* within the configured maximum (publishEvent, subscribe, retryMessage).    *)
THEOREM TypeCorrect == Spec => []TypeOK
  BY TypeInvariant, PTL

-----------------------------------------------------------------------------
(* Nothing is lost.                                                          *)

LEMMA RouteGrows ==
  ASSUME TypeOK, NEW e \in Events, NEW n \in Level, Route(e, n)
  PROVE  /\ \A c \in Copy : waiting'[c] >= waiting[c]
         /\ \A s \in Services : waiting'[<<s, e, n>>] > 0
  BY DEF TypeOK, Route, Copy, EventOf, RetryCount

(* A rejected copy is to be retried, or the service gives up.                *)
LEMMA RejectKeeps ==
  ASSUME TypeOK, NEW c \in Copy, Reject(c)
  PROVE  /\ \A d \in Copy : retrying'[d] >= retrying[d]
         /\ dropped \subseteq dropped'
         /\ retrying'[c] > 0 \/ <<ServiceOf(c), EventOf(c)>> \in dropped'
  BY DEF TypeOK, Reject

(* Event e is at service s with count n, or on the way there.                *)
Copies(s, e, n) ==
  \/ waiting[<<s, e, n>>] > 0 \/ unacked[<<s, e, n>>] > 0
  \/ retrying[<<s, e, n>>] > 0 \/ delayed[<<e, n>>] > 0

(* What is pending stays pending when no count of its copies falls to zero.   *)
LEMMA PendingKept ==
  ASSUME NEW s \in Services, NEW e \in Events, Pending(s, e),
         \A n \in Level : Copies(s, e, n) => Copies(s, e, n)'
  PROVE  Pending(s, e)'
  BY DEF Pending, Copies

LEMMA CopyOf == \A s \in Services, e \in Events, n \in Level : <<s, e, n>> \in Copy
  BY DEF Copy

LEMMA NotLostStep ==
  ASSUME TypeOK, RetriesAreLow, NotLost, [Next]_vars
  PROVE  NotLost'
<1>1. CASE UNCHANGED vars
  BY <1>1 DEF vars, queueVars, NotLost, Pending
<1>2. ASSUME NEW e \in Events, publishEvent(e)
      PROVE  NotLost'
  <2>1. 0 \in Level
    BY DeliveryAssumption DEF Level
  <2>2. /\ \A c \in Copy : waiting'[c] >= waiting[c]
        /\ \A s \in Services : waiting'[<<s, e, 0>>] > 0
    BY <1>2, <2>1, RouteGrows DEF publishEvent
  <2>3. waiting' \in [Copy -> Nat]
    BY <1>2, <2>1, RouteTyped DEF publishEvent
  <2>4. SUFFICES ASSUME NEW f \in published', NEW s \in Services
                 PROVE  (Pending(s, f) \/ <<s, f>> \in handled \/ <<s, f>> \in dropped)'
    BY DEF NotLost
  <2>5. CASE f = e
    BY <2>1, <2>2, <2>5 DEF Pending
  <2>6. CASE f # e
    <3>1. f \in published /\ f \in Events
      BY <1>2, <2>6 DEF publishEvent, TypeOK
    <3>2. \A n \in Level : waiting[<<s, f, n>>] > 0 => waiting'[<<s, f, n>>] > 0
      BY <2>2, <2>3, <3>1, CopyOf DEF TypeOK
    <3>3. UNCHANGED <<unacked, retrying, delayed, handled, dropped>>
      BY <1>2 DEF publishEvent
    <3>. QED BY <3>1, <3>2, <3>3, PendingKept DEF NotLost, Copies
  <2>. QED BY <2>5, <2>6
<1>3. ASSUME NEW c \in Copy, Refuse(c) \/ Fail(c)
      PROVE  NotLost'
  <2>1. Reject(c) /\ UNCHANGED <<published, handled, delayed>>
    BY <1>3 DEF Refuse, Fail
  <2>2. \A d \in Copy : d # c => waiting'[d] = waiting[d] /\ unacked'[d] = unacked[d]
    BY <1>3 DEF Refuse, Fail, TypeOK
  <2>3. \A d \in Copy : retrying[d] > 0 => retrying'[d] > 0
    <3>1. retrying \in [Copy -> Nat] /\ retrying' \in [Copy -> Nat]
      BY <2>1, RejectTyped DEF TypeOK
    <3>2. \A d \in Copy : retrying'[d] >= retrying[d]
      BY <2>1, RejectKeeps
    <3>. QED BY <3>1, <3>2
  <2>4. SUFFICES ASSUME NEW e \in published, NEW s \in Services
                 PROVE  (Pending(s, e) \/ <<s, e>> \in handled \/ <<s, e>> \in dropped)'
    BY <2>1 DEF NotLost
  <2>e. e \in Events
    BY <2>4 DEF TypeOK
  <2>5. CASE e = EventOf(c) /\ s = ServiceOf(c)
    <3>1. RetryCount(c) \in Level /\ c = <<s, e, RetryCount(c)>>
      BY <2>5, CopyFields
    <3>2. CASE retrying'[c] > 0
      BY <3>1, <3>2 DEF Pending
    <3>. QED BY <2>1, <2>5, <3>2, RejectKeeps
  <2>6. CASE ~(e = EventOf(c) /\ s = ServiceOf(c))
    <3>1. \A n \in Level : <<s, e, n>> \in Copy /\ <<s, e, n>> # c
      BY <2>6, <2>e DEF Copy, ServiceOf, EventOf
    <3>2. Pending(s, e) => Pending(s, e)'
      BY <2>1, <2>2, <2>3, <2>e, <3>1, PendingKept DEF Copies
    <3>. QED BY <2>1, <3>2, RejectKeeps DEF NotLost
  <2>. QED BY <2>5, <2>6
<1>4. ASSUME NEW c \in Copy, Deliver(c)
      PROVE  NotLost'
  <2>1. \A d \in Copy : (waiting[d] > 0 \/ unacked[d] > 0)
                           => (waiting'[d] > 0 \/ unacked'[d] > 0)
    BY <1>4 DEF Deliver, TypeOK
  <2>2. UNCHANGED <<published, retrying, delayed, handled, dropped>>
    BY <1>4 DEF Deliver
  <2>. QED BY <2>1, <2>2, CopyOf, PendingKept DEF TypeOK, NotLost, Copies
<1>5. ASSUME NEW c \in Copy, Handle(c)
      PROVE  NotLost'
  <2>1. \A d \in Copy : d # c => unacked'[d] = unacked[d]
    BY <1>5 DEF Handle, TypeOK
  <2>2. \A s \in Services, e \in Events, n \in Level :
          <<s, e, n>> = c => s = ServiceOf(c) /\ e = EventOf(c)
    BY DEF Copy, ServiceOf, EventOf
  <2>3. UNCHANGED <<published, waiting, retrying, delayed, dropped>>
        /\ handled' = handled \cup {<<ServiceOf(c), EventOf(c)>>}
    BY <1>5 DEF Handle
  <2>4. ASSUME NEW s \in Services, NEW e \in Events, Pending(s, e),
               ~(s = ServiceOf(c) /\ e = EventOf(c))
        PROVE  Pending(s, e)'
    BY <2>1, <2>2, <2>3, <2>4, CopyOf, PendingKept DEF Copies
  <2>. QED BY <2>3, <2>4 DEF NotLost, TypeOK
<1>6. ASSUME NEW e \in Events, NEW n \in Level, Expire(e, n)
      PROVE  NotLost'
  <2>1. /\ \A c \in Copy : waiting'[c] >= waiting[c]
        /\ \A s \in Services : waiting'[<<s, e, n>>] > 0
    BY <1>6, RouteGrows DEF Expire
  <2>2. waiting' \in [Copy -> Nat]
    BY <1>6, RouteTyped DEF Expire
  <2>3. \A f \in Events, m \in Level :
          <<f, m>> # <<e, n>> => delayed'[<<f, m>>] = delayed[<<f, m>>]
    BY <1>6 DEF Expire, TypeOK
  <2>4. UNCHANGED <<published, unacked, retrying, handled, dropped>>
    BY <1>6 DEF Expire
  <2>5. ASSUME NEW s \in Services, NEW f \in Events, Pending(s, f)
        PROVE  Pending(s, f)'
    <3>1. CASE f = e
      BY <2>1, <3>1 DEF Pending
    <3>2. CASE f # e
      <4>1. \A m \in Level : waiting[<<s, f, m>>] > 0 => waiting'[<<s, f, m>>] > 0
        BY <2>1, <2>2, CopyOf DEF TypeOK
      <4>2. \A m \in Level : delayed'[<<f, m>>] = delayed[<<f, m>>]
        BY <2>3, <3>2
      <4>. QED BY <2>4, <2>5, <4>1, <4>2, PendingKept DEF Copies
    <3>. QED BY <3>1, <3>2
  <2>. QED BY <2>4, <2>5 DEF NotLost, TypeOK
<1>7. ASSUME NEW s \in Services, ResetTimeout(s)
      PROVE  NotLost'
  BY <1>7 DEF ResetTimeout, queueVars, NotLost, Pending
<1>8. ASSUME NEW s \in Services, Crash(s)
      PROVE  NotLost'
  <2>1. \A d \in Copy : (waiting[d] > 0 \/ unacked[d] > 0 \/ retrying[d] > 0)
                           => (waiting'[d] > 0 \/ unacked'[d] > 0 \/ retrying'[d] > 0)
    BY <1>8 DEF Crash, TypeOK, Unanswered, Without
  <2>2. UNCHANGED <<published, delayed, handled, dropped>>
    BY <1>8 DEF Crash
  <2>. QED BY <2>1, <2>2, CopyOf, PendingKept DEF TypeOK, NotLost, Copies
<1>9. ASSUME NEW c \in Copy, retryMessage(c)
      PROVE  NotLost'
  <2>1. /\ RetryCount(c) + 1 \in Level
        /\ delayed'[<<EventOf(c), RetryCount(c) + 1>>] > 0
        /\ \A m \in Events \X Level : delayed[m] > 0 => delayed'[m] > 0
    BY <1>9, CopyFields, NextLevel DEF retryMessage, RetriesAreLow, TypeOK
  <2>2. \A d \in Copy : d # c => retrying'[d] = retrying[d]
    BY <1>9 DEF retryMessage, TypeOK
  <2>3. UNCHANGED <<published, waiting, unacked, handled, dropped>>
    BY <1>9 DEF retryMessage
  <2>4. ASSUME NEW s \in Services, NEW e \in Events, Pending(s, e)
        PROVE  Pending(s, e)'
    <3>1. CASE e = EventOf(c)
      BY <2>1, <3>1 DEF Pending
    <3>2. CASE e # EventOf(c)
      <4>1. \A n \in Level : <<s, e, n>> \in Copy /\ <<s, e, n>> # c
        BY <3>2 DEF Copy, EventOf
      <4>. QED BY <2>1, <2>2, <2>3, <2>4, <4>1, PendingKept DEF Copies
    <3>. QED BY <3>1, <3>2
  <2>. QED BY <2>3, <2>4 DEF NotLost, TypeOK
<1>10. ASSUME NEW c \in Copy, Remove(c)
       PROVE  NotLost'
  BY <1>10 DEF Remove, NotLost, Pending
<1>. QED BY <1>1, <1>2, <1>3, <1>4, <1>5, <1>6, <1>7, <1>8, <1>9, <1>10 DEF Next

(* A published event is never lost on the way to a service: it is still to   *)
(* be handled there, was handled, or was given up after a rejection.         *)
THEOREM NotLostCorrect == Spec => []NotLost
<1>1. Init => NotLost
  BY DEF Init, NotLost
<1>. QED BY <1>1, TypeInvariant, NotLostStep, PTL DEF Spec

-----------------------------------------------------------------------------
(* Retries go level by level.                                                *)

(* Event e has been published and sent to the retry queues 1 to n.           *)
Reached(e, n) == e \in published /\ \A m \in 1 .. n : <<e, m>> \in retried

(* A copy with count n exists only if the event has got that far.            *)
Exists(c) == waiting[c] > 0 \/ unacked[c] > 0 \/ retrying[c] > 0 \/ answered[c] > 0

CountsAreEarned ==
  /\ \A c \in Copy : Exists(c) => Reached(EventOf(c), RetryCount(c))
  /\ \A e \in Events, n \in Level : delayed[<<e, n>>] > 0 => Reached(e, n)

RetryInv == CountsAreEarned /\ GivenUpAfterAllRetries

LEMMA RetryStep ==
  ASSUME TypeOK, RetriesAreLow, RetryInv, [Next]_vars
  PROVE  RetryInv'
<1>1. CASE UNCHANGED vars
  BY <1>1 DEF vars, queueVars, RetryInv, CountsAreEarned, GivenUpAfterAllRetries, Reached,
              Exists
<1>2. ASSUME NEW e \in Events, publishEvent(e)
      PROVE  RetryInv'
  <2>1. \A c \in Copy : waiting'[c] > 0
                           => waiting[c] > 0 \/ (EventOf(c) = e /\ RetryCount(c) = 0)
    BY <1>2 DEF publishEvent, Route, TypeOK
  <2>2. UNCHANGED <<unacked, retrying, answered, delayed, dropped, retried>>
        /\ published' = published \cup {e}
    BY <1>2 DEF publishEvent
  <2>3. Reached(e, 0)'
    BY <2>2 DEF Reached
  <2>4. ASSUME NEW c \in Copy, Exists(c)'
        PROVE  Reached(EventOf(c), RetryCount(c))'
    BY <2>1, <2>2, <2>3, <2>4, CopyFields DEF RetryInv, CountsAreEarned, Reached, Exists
  <2>. QED BY <2>2, <2>4 DEF RetryInv, CountsAreEarned, GivenUpAfterAllRetries, Reached
<1>3. ASSUME NEW c \in Copy, Refuse(c) \/ Fail(c)
      PROVE  RetryInv'
  <2>1. Reject(c) /\ Exists(c) /\ UNCHANGED <<published, delayed, retried>>
    BY <1>3 DEF Refuse, Fail, Exists
  <2>2. \A d \in Copy : Exists(d)' => Exists(d)
    BY <1>3 DEF Refuse, Fail, Reject, TypeOK, Exists
  <2>3. Reached(EventOf(c), RetryCount(c))
    BY <2>1 DEF RetryInv, CountsAreEarned
  <2>4. CountsAreEarned'
    BY <2>1, <2>2 DEF RetryInv, CountsAreEarned, Reached
  <2>5. GivenUpAfterAllRetries'
    <3>1. CASE dropped' = dropped
      BY <2>1, <3>1 DEF RetryInv, GivenUpAfterAllRetries
    <3>2. CASE RetryCount(c) = MaxRetries /\ dropped' = dropped \cup {<<ServiceOf(c), EventOf(c)>>}
      BY <2>1, <2>3, <3>2 DEF RetryInv, GivenUpAfterAllRetries, Reached
    <3>. QED BY <2>1, <3>1, <3>2 DEF Reject
  <2>. QED BY <2>4, <2>5 DEF RetryInv
<1>4. ASSUME NEW c \in Copy, Deliver(c) \/ Handle(c) \/ Remove(c)
      PROVE  RetryInv'
  <2>1. \A d \in Copy : Exists(d)' => Exists(d)
    BY <1>4 DEF Deliver, Handle, Remove, TypeOK, Exists
  <2>2. UNCHANGED <<published, delayed, dropped, retried>>
    BY <1>4 DEF Deliver, Handle, Remove
  <2>. QED BY <2>1, <2>2 DEF RetryInv, CountsAreEarned, GivenUpAfterAllRetries, Reached
<1>5. ASSUME NEW e \in Events, NEW n \in Level, Expire(e, n)
      PROVE  RetryInv'
  <2>1. Reached(e, n)
    BY <1>5 DEF Expire, RetryInv, CountsAreEarned
  <2>2. \A c \in Copy : waiting'[c] > 0
                           => waiting[c] > 0 \/ (EventOf(c) = e /\ RetryCount(c) = n)
    BY <1>5 DEF Expire, Route, TypeOK
  <2>3. \A f \in Events, m \in Level : delayed'[<<f, m>>] > 0 => delayed[<<f, m>>] > 0
    BY <1>5 DEF Expire, TypeOK
  <2>4. UNCHANGED <<published, unacked, retrying, answered, dropped, retried>>
    BY <1>5 DEF Expire
  <2>. QED BY <2>1, <2>2, <2>3, <2>4
           DEF RetryInv, CountsAreEarned, GivenUpAfterAllRetries, Reached, Exists
<1>6. ASSUME NEW s \in Services, ResetTimeout(s)
      PROVE  RetryInv'
  BY <1>6 DEF ResetTimeout, queueVars, RetryInv, CountsAreEarned, GivenUpAfterAllRetries,
              Reached, Exists
<1>7. ASSUME NEW s \in Services, Crash(s)
      PROVE  RetryInv'
  <2>1. \A d \in Copy : Exists(d)' => Exists(d)
    BY <1>7 DEF Crash, TypeOK, Unanswered, Without, Exists
  <2>2. UNCHANGED <<published, delayed, dropped, retried>>
    BY <1>7 DEF Crash
  <2>. QED BY <2>1, <2>2 DEF RetryInv, CountsAreEarned, GivenUpAfterAllRetries, Reached
<1>8. ASSUME NEW c \in Copy, retryMessage(c)
      PROVE  RetryInv'
  <2> DEFINE next == <<EventOf(c), RetryCount(c) + 1>>
  <2>1. /\ Reached(EventOf(c), RetryCount(c))
        /\ retried' = retried \cup {next} /\ UNCHANGED <<published, dropped>>
    BY <1>8 DEF retryMessage, RetryInv, CountsAreEarned, Exists
  <2>2. Reached(EventOf(c), RetryCount(c) + 1)'
    BY <2>1, CopyFields DEF Reached, Level
  <2>3. \A d \in Copy : Exists(d)' => Exists(d)
    BY <1>8 DEF retryMessage, TypeOK, Exists
  <2>4. ASSUME NEW e \in Events, NEW n \in Level, delayed'[<<e, n>>] > 0
        PROVE  Reached(e, n)'
    <3>1. CASE <<e, n>> = next
      BY <2>2, <3>1
    <3>2. CASE <<e, n>> # next
      <4>1. delayed'[<<e, n>>] = delayed[<<e, n>>]
        BY <1>8, <3>2 DEF retryMessage, TypeOK
      <4>. QED BY <2>1, <2>4, <4>1 DEF RetryInv, CountsAreEarned, Reached
    <3>. QED BY <3>1, <3>2
  <2>5. CountsAreEarned'
    BY <2>1, <2>3, <2>4 DEF RetryInv, CountsAreEarned, Reached
  <2>. QED BY <2>1, <2>5 DEF RetryInv, GivenUpAfterAllRetries
<1>. QED BY <1>1, <1>2, <1>3, <1>4, <1>5, <1>6, <1>7, <1>8 DEF Next

LEMMA RetryInvariant == Spec => []RetryInv
<1>1. Init => RetryInv
  BY DEF Init, RetryInv, CountsAreEarned, GivenUpAfterAllRetries, Exists
<1>. QED BY <1>1, TypeInvariant, RetryStep, PTL DEF Spec

(* No service gives an event up before the event has been through every      *)
(* retry queue.                                                              *)
THEOREM GivenUpAfterAllRetriesCorrect == Spec => []GivenUpAfterAllRetries
<1>1. RetryInv => GivenUpAfterAllRetries
  BY DEF RetryInv
<1>. QED BY <1>1, RetryInvariant, PTL

-----------------------------------------------------------------------------
(* Healthy services give nothing up.                                         *)

(* A breaker opens only after a failure of its own service.                  *)
OpenedByFailure == \A s \in Services : breaker[s] # "CLOSED" => s \in failed

(* And a copy is to be retried only after a failure, or a refusal by an      *)
(* open breaker.                                                             *)
RetriesFollowFailures == \A c \in Copy : retrying[c] > 0 => ServiceOf(c) \in failed

HealthInv == OpenedByFailure /\ OnlyFailingServicesGiveUp /\ RetriesFollowFailures

LEMMA HealthStep ==
  ASSUME TypeOK, HealthInv, [Next]_vars
  PROVE  HealthInv'
<1> USE DEF HealthInv, OpenedByFailure, OnlyFailingServicesGiveUp, RetriesFollowFailures
<1>1. CASE UNCHANGED vars
  BY <1>1 DEF vars, breakerVars, queueVars
<1>2. ASSUME NEW e \in Events, publishEvent(e)
      PROVE  HealthInv'
  BY <1>2 DEF publishEvent, breakerVars
<1>3. ASSUME NEW c \in Copy, Refuse(c)
      PROVE  HealthInv'
  <2>1. ServiceOf(c) \in failed
    BY <1>3, CopyFields DEF Refuse, Blocked
  <2>2. dropped' \subseteq dropped \cup {<<ServiceOf(c), EventOf(c)>>}
    BY <1>3 DEF Refuse, Reject
  <2>3. \A d \in Copy : retrying'[d] > 0 => retrying[d] > 0 \/ d = c
    BY <1>3 DEF Refuse, Reject, TypeOK
  <2>4. UNCHANGED <<breaker, failed>>
    BY <1>3 DEF Refuse, breakerVars
  <2>. QED BY <2>1, <2>2, <2>3, <2>4
<1>4. ASSUME NEW c \in Copy, Deliver(c)
      PROVE  HealthInv'
  BY <1>4, CopyFields DEF Deliver, Admit, TypeOK
<1>5. ASSUME NEW c \in Copy, Handle(c)
      PROVE  HealthInv'
  BY <1>5, CopyFields DEF Handle, onSuccess, TypeOK
<1>6. ASSUME NEW c \in Copy, Fail(c)
      PROVE  HealthInv'
  <2>1. failed' = failed \cup {ServiceOf(c)}
    BY <1>6 DEF Fail
  <2>2. dropped' \subseteq dropped \cup {<<ServiceOf(c), EventOf(c)>>}
    BY <1>6 DEF Fail, Reject
  <2>3. \A s \in Services : s # ServiceOf(c) => breaker'[s] = breaker[s]
    BY <1>6 DEF Fail, onFailure, breakerVars, TypeOK
  <2>4. \A d \in Copy : retrying'[d] > 0 => retrying[d] > 0 \/ d = c
    BY <1>6 DEF Fail, Reject, TypeOK
  <2>. QED BY <2>1, <2>2, <2>3, <2>4
<1>7. ASSUME NEW e \in Events, NEW n \in Level, Expire(e, n)
      PROVE  HealthInv'
  BY <1>7 DEF Expire, breakerVars
<1>8. ASSUME NEW s \in Services, ResetTimeout(s)
      PROVE  HealthInv'
  BY <1>8 DEF ResetTimeout, queueVars
<1>9. ASSUME NEW s \in Services, Crash(s)
      PROVE  HealthInv'
  BY <1>9 DEF Crash, Without, TypeOK
<1>10. ASSUME NEW c \in Copy, retryMessage(c) \/ Remove(c)
       PROVE  HealthInv'
  <2>1. \A d \in Copy : retrying'[d] > 0 => retrying[d] > 0
    BY <1>10 DEF retryMessage, Remove, TypeOK
  <2>2. UNCHANGED <<dropped, breaker, failed>>
    BY <1>10 DEF retryMessage, Remove, breakerVars
  <2>. QED BY <2>1, <2>2
<1>. QED BY <1>1, <1>2, <1>3, <1>4, <1>5, <1>6, <1>7, <1>8, <1>9, <1>10 DEF Next

LEMMA HealthInvariant == Spec => []HealthInv
<1>1. Init => HealthInv
  BY DEF Init, HealthInv, OpenedByFailure, OnlyFailingServicesGiveUp, RetriesFollowFailures
<1>. QED BY <1>1, TypeInvariant, HealthStep, PTL DEF Spec

(* A service no handler of which has ever failed gives no event up, whatever *)
(* the other services do.                                                    *)
THEOREM OnlyFailingServicesGiveUpCorrect == Spec => []OnlyFailingServicesGiveUp
<1>1. HealthInv => OnlyFailingServicesGiveUp
  BY DEF HealthInv
<1>. QED BY <1>1, HealthInvariant, PTL

-----------------------------------------------------------------------------
(* The bus implements DeliveryContract.                                       *)

(* An event is as unsettled at a service as before when it has the same      *)
(* copies, whichever queue they are in.                                      *)
Traces(s, e, n) == Copies(s, e, n) \/ answered[<<s, e, n>>] > 0

LEMMA UnsettledSame ==
  ASSUME NEW s \in Services, NEW e \in Events,
         \A n \in Level : Traces(s, e, n)' <=> Traces(s, e, n)
  PROVE  Unsettled(s, e)' <=> Unsettled(s, e)
<1>1. Unsettled(s, e) <=> \E n \in Level : Traces(s, e, n)
  BY DEF Unsettled, Pending, Traces, Copies
<1>2. Unsettled(s, e)' <=> \E n \in Level : Traces(s, e, n)'
  BY DEF Unsettled, Pending, Traces, Copies
<1>. QED BY <1>1, <1>2

LEMMA OwedPairs ==
  /\ Owed \subseteq Services \X Events
  /\ \A s \in Services, e \in Events : <<s, e>> \in Owed <=> Unsettled(s, e)
  BY DEF Owed

LEMMA OwedPairsNext ==
  /\ Owed' \subseteq Services \X Events
  /\ \A s \in Services, e \in Events : <<s, e>> \in Owed' <=> Unsettled(s, e)'
  BY DEF Owed

LEMMA OwedSame ==
  ASSUME \A s \in Services, e \in Events : Unsettled(s, e)' <=> Unsettled(s, e)
  PROVE  Owed' = Owed
<1>1. \A x \in Services \X Events : x \in Owed' <=> x \in Owed
  BY OwedPairs, OwedPairsNext
<1>. QED BY <1>1, OwedPairs, OwedPairsNext

LEMMA OwedToAll ==
  ASSUME NEW e \in Events,
         \A s \in Services : Unsettled(s, e)',
         \A s \in Services, f \in Events \ {e} : Unsettled(s, f)' <=> Unsettled(s, f)
  PROVE  Owed' = Owed \cup (Services \X {e})
<1>1. \A x \in Services \X Events : x \in Owed' <=> x \in Owed \cup (Services \X {e})
  <2>1. SUFFICES ASSUME NEW s \in Services, NEW f \in Events
                 PROVE  <<s, f>> \in Owed' <=> <<s, f>> \in Owed \cup (Services \X {e})
    OBVIOUS
  <2>2. CASE f = e
    BY <2>2, OwedPairsNext
  <2>3. CASE f # e
    BY <2>3, OwedPairs, OwedPairsNext
  <2>. QED BY <2>2, <2>3
<1>2. Services \X {e} \subseteq Services \X Events
  OBVIOUS
<1>. QED BY <1>1, <1>2, OwedPairs, OwedPairsNext

(* The copies of one event at one service may go; all else is as owed.       *)
LEMMA OwedLeft ==
  ASSUME NEW s \in Services, NEW e \in Events,
         \A r \in Services, f \in Events :
           ~(r = s /\ f = e) => (Unsettled(r, f)' <=> Unsettled(r, f))
  PROVE  \/ Unsettled(s, e)' = Unsettled(s, e) /\ Owed' = Owed
         \/ ~Unsettled(s, e)' /\ Owed' = Owed \ {<<s, e>>}
         \/ ~Unsettled(s, e)
<1>1. \A x \in Services \X Events : x # <<s, e>> => (x \in Owed' <=> x \in Owed)
  BY OwedPairs, OwedPairsNext
<1>2. CASE Unsettled(s, e) /\ Unsettled(s, e)'
  <2>1. Owed' = Owed
    BY <1>1, <1>2, OwedPairs, OwedPairsNext
  <2>. QED BY <1>2, <2>1
<1>3. CASE ~Unsettled(s, e)'
  <2>1. <<s, e>> \notin Owed'
    BY <1>3, OwedPairsNext
  <2>2. Owed' = Owed \ {<<s, e>>}
    BY <1>1, <2>1, OwedPairs, OwedPairsNext
  <2>. QED BY <1>3, <2>2
<1>. QED BY <1>2, <1>3

(* A rejected copy keeps the event owed: it is to be retried, or the service *)
(* gives it up.                                                              *)
LEMMA RejectStep ==
  ASSUME TypeOK, RetryInv, NEW c \in Copy, Reject(c),
         waiting[c] > 0 \/ unacked[c] > 0,
         \A d \in Copy : d # c => waiting'[d] = waiting[d] /\ unacked'[d] = unacked[d],
         failed' = failed \cup {ServiceOf(c)},
         UNCHANGED <<published, delayed, handled, retried>>
  PROVE  Contract!Next
<1> DEFINE s == ServiceOf(c)
           e == EventOf(c)
           n == RetryCount(c)
<1>t. s \in Services /\ e \in Events /\ n \in Level /\ c = <<s, e, n>>
  BY CopyFields
<1>0. Unsettled(s, e) /\ Reached(e, n)
  BY <1>t DEF Unsettled, Pending, RetryInv, CountsAreEarned, Exists
<1>1. \A d \in Copy : d # c => /\ waiting'[d] = waiting[d] /\ unacked'[d] = unacked[d]
                               /\ retrying'[d] = retrying[d] /\ answered'[d] = answered[d]
  BY DEF Reject, TypeOK
<1>2. retrying'[c] > 0 \/ answered'[c] > 0
  BY DEF Reject, TypeOK
<1> HIDE DEF s, e, n
<1>3. \A r \in Services, f \in Events, m \in Level : Traces(r, f, m)' <=> Traces(r, f, m)
  <2>1. TAKE r \in Services, f \in Events, m \in Level
  <2>2. CASE <<r, f, m>> = c
    BY <1>2, <2>2 DEF Traces, Copies
  <2>3. CASE <<r, f, m>> # c
    BY <1>1, <2>3, CopyOf DEF Traces, Copies
  <2>. QED BY <2>2, <2>3
<1>4. Owed' = Owed
  BY <1>3, UnsettledSame, OwedSame
<1>5. <<s, e>> \in Owed
  BY <1>0, <1>t, OwedPairs
<1>6. CASE UNCHANGED dropped
  <2>1. Contract!Fail(s, e)
    BY <1>4, <1>5, <1>6 DEF Contract!Fail, s
  <2>. QED BY <1>t, <2>1 DEF Contract!Next
<1>7. CASE n = MaxRetries /\ dropped' = dropped \cup {<<s, e>>}
  <2>1. Contract!GiveUp(s, e)
    BY <1>0, <1>4, <1>5, <1>7 DEF Contract!GiveUp, Reached, s
  <2>. QED BY <1>t, <2>1 DEF Contract!Next
<1>. QED BY <1>6, <1>7 DEF Reject, s, e, n

LEMMA ContractStep ==
  ASSUME TypeOK, RetriesAreLow, NotLost, RetryInv, HealthInv, [Next]_vars
  PROVE  [Contract!Next]_(Contract!vars)
<1>1. CASE UNCHANGED vars
  <2>1. Owed' = Owed
    BY <1>1, OwedSame DEF vars, queueVars, Pending, Unsettled
  <2>. QED BY <1>1, <2>1 DEF vars, Contract!vars
<1>2. ASSUME NEW e \in Events, publishEvent(e)
      PROVE  Contract!Next
  <2>1. 0 \in Level /\ Route(e, 0) /\ UNCHANGED <<unacked, retrying, answered, delayed>>
    BY <1>2, DeliveryAssumption DEF Level, publishEvent
  <2>2. \A s \in Services : Unsettled(s, e)'
    BY <2>1, RouteGrows DEF Pending, Unsettled
  <2>3. ASSUME NEW s \in Services, NEW f \in Events \ {e}
        PROVE  Unsettled(s, f)' <=> Unsettled(s, f)
    <3>1. \A m \in Level : waiting'[<<s, f, m>>] = waiting[<<s, f, m>>]
      BY <2>1, CopyOf DEF Route, EventOf
    <3>. QED BY <2>1, <3>1, UnsettledSame DEF Copies, Traces
  <2>4. Owed' = Owed \cup (Services \X {e})
    BY <2>2, <2>3, OwedToAll
  <2>5. Contract!Publish(e)
    BY <1>2, <2>4 DEF publishEvent, Contract!Publish
  <2>. QED BY <2>5 DEF Contract!Next
<1>3. ASSUME NEW c \in Copy, Refuse(c)
      PROVE  Contract!Next
  <2>1. failed' = failed \cup {ServiceOf(c)}
    BY <1>3, CopyFields DEF Refuse, Blocked, HealthInv, OpenedByFailure
  <2>2. \A d \in Copy : d # c => waiting'[d] = waiting[d] /\ unacked'[d] = unacked[d]
    BY <1>3 DEF Refuse, TypeOK
  <2>. QED BY <1>3, <2>1, <2>2, RejectStep DEF Refuse
<1>4. ASSUME NEW c \in Copy, Deliver(c)
      PROVE  UNCHANGED Contract!vars
  <2>1. \A d \in Copy : (waiting'[d] > 0 \/ unacked'[d] > 0) <=> (waiting[d] > 0 \/ unacked[d] > 0)
    BY <1>4 DEF Deliver, TypeOK
  <2>2. \A s \in Services, e \in Events : Unsettled(s, e)' <=> Unsettled(s, e)
    BY <1>4, <2>1, CopyOf, UnsettledSame DEF Deliver, Copies, Traces
  <2>. QED BY <1>4, <2>2, OwedSame DEF Deliver, Contract!vars
<1>5. ASSUME NEW c \in Copy, Handle(c)
      PROVE  Contract!Next
  <2>1. PICK s \in Services, e \in Events, n \in Level :
          c = <<s, e, n>> /\ s = ServiceOf(c) /\ e = EventOf(c)
    BY CopyFields
  <2>2. /\ \A d \in Copy : d # c => unacked'[d] = unacked[d] /\ answered'[d] = answered[d]
        /\ answered'[c] > 0
    BY <1>5 DEF Handle, TypeOK
  <2>3. /\ unacked[c] > 0
        /\ UNCHANGED <<published, waiting, retrying, delayed, dropped, failed, retried>>
        /\ handled' = handled \cup {<<s, e>>}
    BY <1>5, <2>1 DEF Handle
  <2>4. \A r \in Services, f \in Events, m \in Level : Traces(r, f, m)' <=> Traces(r, f, m)
    <3>1. TAKE r \in Services, f \in Events, m \in Level
    <3>2. CASE <<r, f, m>> = c
      BY <2>2, <2>3, <3>2 DEF Traces, Copies
    <3>3. CASE <<r, f, m>> # c
      BY <2>2, <2>3, <3>3, CopyOf DEF Traces, Copies
    <3>. QED BY <3>2, <3>3
  <2>5. Owed' = Owed
    BY <2>4, UnsettledSame, OwedSame
  <2>6. <<s, e>> \in Owed
    BY <2>1, <2>3, OwedPairs DEF Unsettled, Pending
  <2>7. Contract!Handle(s, e)
    BY <2>3, <2>5, <2>6 DEF Contract!Handle
  <2>. QED BY <2>7 DEF Contract!Next
<1>6. ASSUME NEW c \in Copy, Fail(c)
      PROVE  Contract!Next
  <2>1. \A d \in Copy : d # c => waiting'[d] = waiting[d] /\ unacked'[d] = unacked[d]
    BY <1>6 DEF Fail, TypeOK
  <2>. QED BY <1>6, <2>1, RejectStep DEF Fail
<1>7. ASSUME NEW e \in Events, NEW n \in Level, Expire(e, n)
      PROVE  UNCHANGED Contract!vars
  <2>1. /\ Route(e, n) /\ delayed[<<e, n>>] > 0
        /\ UNCHANGED <<published, unacked, retrying, answered, handled, dropped, failed, retried>>
    BY <1>7 DEF Expire
  <2>2. ASSUME NEW s \in Services, NEW f \in Events
        PROVE  Unsettled(s, f)' <=> Unsettled(s, f)
    <3>1. CASE f = e
      BY <2>1, <3>1, RouteGrows DEF Pending, Unsettled
    <3>2. CASE f # e
      <4>1. \A m \in Level : waiting'[<<s, f, m>>] = waiting[<<s, f, m>>]
        BY <2>1, <3>2, CopyOf DEF Route, EventOf
      <4>2. \A m \in Level : delayed'[<<f, m>>] = delayed[<<f, m>>]
        BY <1>7, <3>2 DEF Expire, TypeOK
      <4>. QED BY <2>1, <4>1, <4>2, UnsettledSame DEF Copies, Traces
    <3>. QED BY <3>1, <3>2
  <2>. QED BY <2>1, <2>2, OwedSame DEF Contract!vars
<1>8. ASSUME NEW s \in Services, ResetTimeout(s)
      PROVE  UNCHANGED Contract!vars
  <2>1. Owed' = Owed
    BY <1>8, OwedSame DEF ResetTimeout, queueVars, Pending, Unsettled
  <2>. QED BY <1>8, <2>1 DEF ResetTimeout, Contract!vars
<1>9. ASSUME NEW s \in Services, Crash(s)
      PROVE  UNCHANGED Contract!vars
  <2>1. \A d \in Copy : Exists(d)' <=> Exists(d)
    BY <1>9 DEF Crash, Unanswered, Without, Exists, TypeOK
  <2>2. \A r \in Services, e \in Events : Unsettled(r, e)' <=> Unsettled(r, e)
    <3>1. \A r \in Services, e \in Events, m \in Level : Traces(r, e, m)' <=> Traces(r, e, m)
      BY <1>9, <2>1, CopyOf DEF Crash, Copies, Traces, Exists
    <3>. QED BY <3>1, UnsettledSame
  <2>. QED BY <1>9, <2>2, OwedSame DEF Crash, Contract!vars
<1>10. ASSUME NEW c \in Copy, retryMessage(c)
       PROVE  Contract!Next
  <2>1. PICK s \in Services, e \in Events, n \in Level :
          c = <<s, e, n>> /\ s = ServiceOf(c) /\ e = EventOf(c) /\ n = RetryCount(c)
    BY CopyFields
  <2>2. n + 1 \in Level /\ n + 1 \in 1 .. MaxRetries
    BY <1>10, <2>1, DeliveryAssumption DEF retryMessage, RetriesAreLow, Level
  <2>3. /\ delayed' = [delayed EXCEPT ![<<e, n + 1>>] = @ + 1]
        /\ retried' = retried \cup {<<e, n + 1>>}
        /\ UNCHANGED <<published, waiting, unacked, handled, dropped, failed>>
    BY <1>10, <2>1 DEF retryMessage
  <2>4. \A d \in Copy : d # c => retrying'[d] = retrying[d] /\ answered'[d] = answered[d]
    BY <1>10 DEF retryMessage, TypeOK
  <2>5. delayed'[<<e, n + 1>>] > 0
    BY <2>2, <2>3 DEF TypeOK
  <2>6. \A r \in Services : Unsettled(r, e)'
    BY <2>2, <2>5 DEF Unsettled, Pending
  <2>7. ASSUME NEW r \in Services, NEW f \in Events \ {e}
        PROVE  Unsettled(r, f)' <=> Unsettled(r, f)
    <3>1. \A m \in Level : delayed'[<<f, m>>] = delayed[<<f, m>>]
      BY <2>3 DEF TypeOK
    <3>2. \A m \in Level : <<r, f, m>> \in Copy /\ <<r, f, m>> # c
      BY <2>1, CopyOf
    <3>. QED BY <2>3, <2>4, <3>1, <3>2, UnsettledSame DEF Copies, Traces
  <2>8. Owed' = Owed \cup (Services \X {e})
    BY <2>6, <2>7, OwedToAll
  <2>9. /\ <<s, e>> \in Owed
        /\ s \in failed
        /\ \A m \in 1 .. (n + 1) - 1 : <<e, m>> \in retried
    <3>1. retrying[c] > 0
      BY <1>10 DEF retryMessage
    <3>2. <<s, e>> \in Owed
      BY <2>1, <3>1, OwedPairs DEF Unsettled, Pending
    <3>3. s \in failed
      BY <2>1, <3>1 DEF HealthInv, RetriesFollowFailures
    <3>4. Reached(e, n)
      BY <2>1, <3>1 DEF RetryInv, CountsAreEarned, Exists
    <3>. QED BY <3>2, <3>3, <3>4 DEF Reached, Level
  <2>10. Contract!Retry(s, e, n + 1)
    BY <2>3, <2>8, <2>9 DEF Contract!Retry
  <2>. QED BY <2>2, <2>10 DEF Contract!Next
<1>11. ASSUME NEW c \in Copy, Remove(c)
       PROVE  [Contract!Next]_(Contract!vars)
  <2>1. PICK s \in Services, e \in Events, n \in Level :
          c = <<s, e, n>> /\ s = ServiceOf(c) /\ e = EventOf(c) /\ n = RetryCount(c)
    BY CopyFields
  <2>2. /\ answered[c] > 0
        /\ UNCHANGED <<published, waiting, unacked, retrying, delayed, handled, dropped,
                       failed, retried>>
    BY <1>11 DEF Remove
  <2>3. \A d \in Copy : d # c => answered'[d] = answered[d]
    BY <1>11 DEF Remove, TypeOK
  <2>4. ASSUME NEW r \in Services, NEW f \in Events, ~(r = s /\ f = e)
        PROVE  Unsettled(r, f)' <=> Unsettled(r, f)
    <3>1. \A m \in Level : <<r, f, m>> \in Copy /\ <<r, f, m>> # c
      BY <2>1, <2>4, CopyOf
    <3>. QED BY <2>2, <2>3, <3>1, UnsettledSame DEF Copies, Traces
  <2>5. Unsettled(s, e)
    BY <2>1, <2>2 DEF Unsettled
  <2>6. CASE Owed' = Owed
    BY <2>2, <2>6 DEF Contract!vars
  <2>7. CASE ~Unsettled(s, e)' /\ Owed' = Owed \ {<<s, e>>}
    <3>1. ~Pending(s, e)
      BY <2>2, <2>7 DEF Unsettled, Pending
    <3>2. e \in published
      BY <2>1, <2>2 DEF RetryInv, CountsAreEarned, Exists, Reached
    <3>3. <<s, e>> \in handled \cup dropped
      BY <3>1, <3>2 DEF NotLost
    <3>4. Contract!Settle(s, e)
      BY <2>2, <2>7, <3>3 DEF Contract!Settle
    <3>. QED BY <3>4 DEF Contract!Next
  <2>. QED BY <2>4, <2>5, <2>6, <2>7, OwedLeft
<1>. QED BY <1>1, <1>2, <1>3, <1>4, <1>5, <1>6, <1>7, <1>8, <1>9, <1>10, <1>11 DEF Next

(* However services fail, refuse, crash and restart, the bus implements      *)
(* DeliveryContract: it stops owing an event to a service only when that has *)
(* handled it or, having failed, gives it up after all retries, and what is  *)
(* owed to nobody is not delivered again (subscribe, retryMessage).          *)
THEOREM ImplementsContract == Spec => ContractSpec
<1>1. Init => Contract!Init
  <2>1. Init => \A s \in Services, e \in Events, n \in Level : ~Traces(s, e, n)
    <3> SUFFICES ASSUME Init, NEW s \in Services, NEW e \in Events, NEW n \in Level
                 PROVE  ~Traces(s, e, n)
      OBVIOUS
    <3>1. /\ waiting[<<s, e, n>>] = 0 /\ unacked[<<s, e, n>>] = 0
          /\ retrying[<<s, e, n>>] = 0 /\ answered[<<s, e, n>>] = 0
      BY CopyOf DEF Init
    <3>2. delayed[<<e, n>>] = 0
      BY DEF Init
    <3>. QED BY <3>1, <3>2 DEF Traces, Copies
  <2>2. Init => \A s \in Services, e \in Events : ~Unsettled(s, e)
    BY <2>1 DEF Traces, Copies, Unsettled, Pending
  <2>3. (\A s \in Services, e \in Events : ~Unsettled(s, e)) => Owed = {}
    BY DEF Owed
  <2>. QED BY <2>2, <2>3 DEF Init, Contract!Init
<1>2. TypeOK /\ RetriesAreLow /\ NotLost /\ RetryInv /\ HealthInv /\ [Next]_vars
        => [Contract!Next]_(Contract!vars)
  BY ContractStep
<1>3. Spec => Contract!Spec
  BY <1>1, <1>2, TypeInvariant, NotLostCorrect, RetryInvariant, HealthInvariant, PTL
     DEF Spec, Contract!Spec
<1>. QED BY <1>3 DEF ContractSpec

=============================================================================
