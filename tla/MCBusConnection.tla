--------------------------- MODULE MCBusConnection ---------------------------
(* Instances of BusConnection: names of event types, calls and null.         *)
EXTENDS BusConnection, TLC

CONSTANTS x, y, t1, t2, none

=============================================================================
