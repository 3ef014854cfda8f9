-------------------------- MODULE DeliveryContract --------------------------
(***************************************************************************)
(* What the message bus promises of published events, whatever its queues,   *)
(* copies, acknowledgements, breakers and crashes do.  An event is owed to   *)
(* every service.  A service is no longer owed it only after it handled it   *)
(* or gave it up, and it gives up only after it has failed itself and the    *)
(* event has been through every retry.  A service that has failed may make   *)
(* the event owed to all of them again; an event owed to nobody stays so.    *)
(***************************************************************************)
EXTENDS Integers

CONSTANTS Services, Events, MaxRetries

VARIABLES
  published,
  owed,              \* <<service, event>>: still to be handled
  handled, givenUp,  \* <<service, event>>
  retried,           \* <<event, n>>: its n-th retry was made
  failed             \* services that have failed to handle an event

vars == <<published, owed, handled, givenUp, retried, failed>>

Init == published = {} /\ owed = {} /\ handled = {} /\ givenUp = {} /\ retried = {} /\ failed = {}

Publish(e) ==
  /\ e \notin published
  /\ published' = published \cup {e}
  /\ owed' = owed \cup (Services \X {e})
  /\ UNCHANGED <<handled, givenUp, retried, failed>>

(* A service may handle an event, and give it up, more than once: as long as *)
(* the bus has no word of it, the event remains owed.                        *)
Handle(s, e) ==
  /\ <<s, e>> \in owed
  /\ handled' = handled \cup {<<s, e>>}
  /\ UNCHANGED <<published, owed, givenUp, retried, failed>>

Fail(s, e) ==
  /\ <<s, e>> \in owed
  /\ failed' = failed \cup {s}
  /\ UNCHANGED <<published, owed, handled, givenUp, retried>>

Retry(s, e, n) ==
  /\ <<s, e>> \in owed
  /\ s \in failed
  /\ \A m \in 1 .. n - 1 : <<e, m>> \in retried
  /\ retried' = retried \cup {<<e, n>>}
  /\ owed' = owed \cup (Services \X {e})
  /\ UNCHANGED <<published, handled, givenUp, failed>>

GiveUp(s, e) ==
  /\ <<s, e>> \in owed
  /\ failed' = failed \cup {s}
  /\ \A m \in 1 .. MaxRetries : <<e, m>> \in retried
  /\ givenUp' = givenUp \cup {<<s, e>>}
  /\ UNCHANGED <<published, owed, handled, retried>>

Settle(s, e) ==
  /\ <<s, e>> \in handled \cup givenUp
  /\ owed' = owed \ {<<s, e>>}
  /\ UNCHANGED <<published, handled, givenUp, retried, failed>>

Next ==
  \E e \in Events :
    \/ Publish(e)
    \/ \E s \in Services :
         \/ Handle(s, e) \/ Fail(s, e) \/ GiveUp(s, e) \/ Settle(s, e)
         \/ \E n \in 1 .. MaxRetries : Retry(s, e, n)

Spec == Init /\ [][Next]_vars

=============================================================================
