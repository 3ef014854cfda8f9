--------------------------- MODULE SenderContract ---------------------------
(***************************************************************************)
(* What the email sender promises of the emails handed to it, whatever its   *)
(* batches, timers, pauses and workers do.  An email is in memory first,     *)
(* where an error of Redis or a crash can take it, and then in the queue,    *)
(* where nothing can: there it is mailed once, and once more if its worker   *)
(* dies, until its job is done, which is after it was mailed, or has failed, *)
(* which is at the second death.                                             *)
(***************************************************************************)
EXTENDS Integers

CONSTANT Emails

VARIABLES
  memory, queue, done, failed, lost,   \* where the emails are
  restarted,                           \* those whose job has started over
  mailed                               \* how often each was mailed

vars == <<memory, queue, done, failed, lost, restarted, mailed>>

Init ==
  /\ memory = {} /\ queue = {} /\ done = {} /\ failed = {} /\ lost = {} /\ restarted = {}
  /\ mailed = [e \in Emails |-> 0]

HandOver(S) ==
  /\ S \cap (memory \cup queue \cup done \cup failed \cup lost) = {}
  /\ memory' = memory \cup S
  /\ UNCHANGED <<queue, done, failed, lost, restarted, mailed>>

Enqueue(S) ==
  /\ S \subseteq memory
  /\ memory' = memory \ S
  /\ queue' = queue \cup S
  /\ UNCHANGED <<done, failed, lost, restarted, mailed>>

Mail(e) ==
  /\ e \in queue
  /\ mailed[e] = 0 \/ (mailed[e] = 1 /\ e \in restarted)
  /\ mailed' = [mailed EXCEPT ![e] = @ + 1]
  /\ UNCHANGED <<memory, queue, done, failed, lost, restarted>>

Settle(S) ==
  /\ S \subseteq queue
  /\ \A e \in S : mailed[e] > 0
  /\ queue' = queue \ S
  /\ done' = done \cup S
  /\ UNCHANGED <<memory, failed, lost, restarted, mailed>>

(* An error or a crash takes S from memory, restarts R and fails F.          *)
Fault(S, R, F) ==
  /\ S \subseteq memory /\ R \subseteq queue \ restarted /\ F \subseteq queue \cap restarted
  /\ memory' = memory \ S
  /\ lost' = lost \cup S
  /\ restarted' = restarted \cup R
  /\ queue' = queue \ F
  /\ failed' = failed \cup F
  /\ UNCHANGED <<done, mailed>>

Next ==
  \/ \E S \in SUBSET Emails : HandOver(S) \/ Enqueue(S) \/ Settle(S)
  \/ \E e \in Emails : Mail(e)
  \/ \E S, R, F \in SUBSET Emails : Fault(S, R, F)

Spec == Init /\ [][Next]_vars

=============================================================================
