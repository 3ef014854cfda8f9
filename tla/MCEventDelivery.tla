--------------------------- MODULE MCEventDelivery ---------------------------
(* Instances of EventDelivery: which services and events there are.          *)
EXTENDS EventDelivery

CONSTANTS s1, s2, e1, e2

=============================================================================
