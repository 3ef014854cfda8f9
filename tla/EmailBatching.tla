---------------------------- MODULE EmailBatching ----------------------------
(***************************************************************************)
(* OptimizedEmailSender: emails collect in the batches of a process's memory *)
(* until a batch is full or old, batches wait in a Bull queue that all       *)
(* processes share, and workers mail them one email after the other.         *)
(*                                                                           *)
(* A thread is a call of queueBulkEmails or a walk of the batch timer: it    *)
(* runs until an await, and the batch it took out of the map is its own      *)
(* while it waits for Redis.  Clock time is abstracted: a time bucket ends,  *)
(* and a batch grows old, at any moment.  The rate limiter only delays.      *)
(***************************************************************************)
EXTENDS Integers, FiniteSets

CONSTANTS
  Emails,          \* emails handed to the sender, each once, numbered in the order they come
  Priorities,      \* what calculatePriority returns
  Priority(_),     \* ... of each email
  Procs,           \* processes with a sender of their own
  Callers,         \* calls of queueBulkEmails under way
  Walkers,         \* callbacks of the timers under way
  BatchSize,       \* config.batching.batchSize
  Concurrency,     \* workers of one process: 3
  MaxBucket,       \* bound: last time bucket
  MaxJobs,         \* bound: jobs ever added, at most one for each email
  MaxCommands,     \* bound: calls of pauseSending and resumeSending
  MaxFaults        \* bound: errors of Redis and crashes of processes

ASSUME EmailAssumption ==
  /\ BatchSize \in Nat \ {0} /\ Concurrency \in Nat \ {0}
  /\ Procs # {}
  /\ MaxBucket \in Nat /\ MaxJobs \in Nat /\ MaxCommands \in Nat /\ MaxFaults \in Nat
  /\ IsFiniteSet(Emails) /\ Emails \subseteq Nat
  /\ \A e \in Emails : Priority(e) \in Priorities
  /\ Callers \cap Walkers = {}

Threads == Callers \cup Walkers
Keys    == Priorities \X (0 .. MaxBucket)   \* batchKey: priority_bucket
JobIds  == 1 .. MaxJobs

VARIABLES
  bucket,     \* Math.floor(now / batchDelay)
  pending,    \* pendingBatches of each process; an absent key has no emails
  old,        \* the keys whose batch has waited for maxBatchWaitTime
  thread,     \* the process of each thread, and the batch it took out of the map
  todo,       \* emails a caller has yet to queue
  due,        \* keys a walk has yet to queue
  paused,     \* the batch queue is paused, for every process
  timers,     \* running intervals of each process
  handle,     \* this.batchTimer is one of them
  command,    \* what each process's pauseSending or resumeSending awaits
  jobs,       \* the jobs of the batch queue
  added,      \* how many there were
  attempts,   \* how often the transporter was asked to send each email
  submitted, lost,   \* history: emails handed over; emails an error or a crash took
  halted,     \* history: processes whose last command was pauseSending
  commands, faults

mapVars     == <<pending, old>>
threadVars  == <<thread, todo, due>>
jobVars     == <<jobs, added>>
timerVars   == <<timers, handle>>
commandVars == <<paused, command, halted, commands>>
mailVars    == <<attempts, submitted, lost>>
vars == <<bucket, mapVars, threadVars, timerVars, commandVars, jobVars, mailVars, faults>>

-----------------------------------------------------------------------------
Idle == [proc |-> CHOOSE p \in Procs : TRUE, batch |-> {}]
NoJob == [state |-> "none", emails |-> {}, todo |-> {},
          proc |-> CHOOSE p \in Procs : TRUE, stalls |-> 0]

(* A thread with a batch awaits batchQueue.add.                              *)
Adding(t) == thread[t].batch # {}

(* sortEmailsByPriority and the sort of processBatch.                        *)
IsFirst(e, es) == e \in es /\ \A f \in es : e <= f

Active(p) == {j \in JobIds : jobs[j].state = "active" /\ jobs[j].proc = p}

Init ==
  /\ bucket = 0
  /\ pending = [p \in Procs |-> [k \in Keys |-> {}]]
  /\ old = [p \in Procs |-> {}]
  /\ thread = [t \in Threads |-> Idle]
  /\ todo = [c \in Callers |-> {}]
  /\ due = [w \in Walkers |-> {}]
  /\ timers = [p \in Procs |-> 1] /\ handle = [p \in Procs |-> TRUE]
  /\ paused = FALSE /\ halted = {} /\ commands = 0
  /\ command = [p \in Procs |-> "none"]
  /\ jobs = [j \in JobIds |-> NoJob] /\ added = 0
  /\ attempts = [e \in Emails |-> 0]
  /\ submitted = {} /\ lost = {}
  /\ faults = 0

-----------------------------------------------------------------------------
(* Time passes.                                                              *)

NextBucket ==
  /\ bucket < MaxBucket
  /\ bucket' = bucket + 1
  /\ UNCHANGED <<mapVars, threadVars, timerVars, commandVars, jobVars, mailVars, faults>>

GrowOld(p, k) ==
  /\ pending[p][k] # {} /\ k \notin old[p]
  /\ old' = [old EXCEPT ![p] = @ \cup {k}]
  /\ UNCHANGED <<bucket, pending, threadVars, timerVars, commandVars, jobVars, mailVars, faults>>

-----------------------------------------------------------------------------
(* The way of a batch out of the map.                                        *)

(* Mutant: the batch leaves the map after it was added to the queue, so that *)
(* others still find it there.                                               *)
TakeOutLate(p, k, t, batch) ==
  /\ pending' = [pending EXCEPT ![p][k] = batch]
  /\ old' = old
  /\ thread' = [thread EXCEPT ![t] = [proc |-> p, batch |-> batch]]

(* processPendingBatch until its await: the batch leaves the map.            *)
TakeOut(p, k, t, batch) ==
  /\ pending' = [pending EXCEPT ![p][k] = {}]
  /\ old' = [old EXCEPT ![p] = @ \ {k}]
  /\ thread' = [thread EXCEPT ![t] = [proc |-> p, batch |-> batch]]

(* A key that left the map is no longer due in any walk: the batch that may  *)
(* take its place is younger than the walk.                                  *)
DueNoMore(p, k) ==
  due' = [w \in Walkers |-> IF thread[w].proc = p THEN due[w] \ {k} ELSE due[w]]

(* batchQueue.add('send-batch', batch)                                       *)
AddJob(t) ==
  /\ added < MaxJobs
  /\ added' = added + 1
  /\ jobs' = [jobs EXCEPT ![added + 1] = [NoJob EXCEPT !.state = "wait", !.emails = thread[t].batch]]

(* The batch was added; its thread goes on.                                  *)
BatchAdded(t) ==
  /\ Adding(t)
  /\ AddJob(t)
  /\ thread' = [thread EXCEPT ![t].batch = {}]
  /\ UNCHANGED <<bucket, mapVars, todo, due, timerVars, commandVars, mailVars, faults>>

-----------------------------------------------------------------------------
(* queueEmail and queueBulkEmails.                                           *)

QueueBulkEmails(c, p, es) ==
  /\ ~Adding(c) /\ todo[c] = {}
  /\ es # {} /\ es \cap submitted = {}
  /\ \A e \in es, f \in Emails \ (submitted \cup es) : e < f
  /\ submitted' = submitted \cup es
  /\ thread' = [thread EXCEPT ![c].proc = p]
  /\ todo' = [todo EXCEPT ![c] = es]
  /\ UNCHANGED <<bucket, mapVars, due, timerVars, commandVars, jobVars, attempts, lost, faults>>

(* Mutant: a full batch waits for the timer like any other.                  *)
IsFullNever(batch) == Cardinality(batch) > Cardinality(Emails)

IsFull(batch) == Cardinality(batch) >= BatchSize

(* addToBatch: push, and a full batch leaves the map at once.                *)
AddToBatch(c, e) ==
  LET p == thread[c].proc
      k == <<Priority(e), bucket>>
      batch == pending[p][k] \cup {e}
  IN /\ ~Adding(c) /\ IsFirst(e, todo[c])
     /\ todo' = [todo EXCEPT ![c] = @ \ {e}]
     /\ IF IsFull(batch)
          THEN TakeOut(p, k, c, batch) /\ DueNoMore(p, k)
          ELSE /\ pending' = [pending EXCEPT ![p][k] = batch]
               /\ UNCHANGED <<old, thread, due>>
     /\ UNCHANGED <<bucket, timerVars, commandVars, jobVars, mailVars, faults>>

(* batchQueue.add throws: the batch is gone, the emails after it are never   *)
(* queued, and the caller is told.                                           *)
QueueingFails(c) ==
  /\ Adding(c)
  /\ faults < MaxFaults /\ faults' = faults + 1
  /\ lost' = lost \cup thread[c].batch \cup todo[c]
  /\ thread' = [thread EXCEPT ![c] = Idle]
  /\ todo' = [todo EXCEPT ![c] = {}]
  /\ UNCHANGED <<bucket, mapVars, due, timerVars, commandVars, jobVars, attempts, submitted>>

-----------------------------------------------------------------------------
(* The batch timer of startBatchProcessor.                                   *)

(* An interval fires.  A walk that would find nothing due is left out.       *)
TimerFires(w, p) ==
  /\ ~Adding(w) /\ due[w] = {}
  /\ timers[p] > 0 /\ old[p] # {}
  /\ thread' = [thread EXCEPT ![w].proc = p]
  /\ due' = [due EXCEPT ![w] = old[p]]
  /\ UNCHANGED <<bucket, mapVars, todo, timerVars, commandVars, jobVars, mailVars, faults>>

WalkTakes(w, k) ==
  LET p == thread[w].proc
  IN /\ ~Adding(w) /\ k \in due[w]
     /\ TakeOut(p, k, w, pending[p][k])
     /\ DueNoMore(p, k)
     /\ UNCHANGED <<bucket, todo, timerVars, commandVars, jobVars, mailVars, faults>>

(* batchQueue.add throws in the interval's callback: the batch is gone and   *)
(* the walk stops.  Where nobody handles the rejection, ProcessDies follows. *)
WalkFails(w) ==
  /\ Adding(w)
  /\ faults < MaxFaults /\ faults' = faults + 1
  /\ lost' = lost \cup thread[w].batch
  /\ thread' = [thread EXCEPT ![w] = Idle]
  /\ due' = [due EXCEPT ![w] = {}]
  /\ UNCHANGED <<bucket, mapVars, todo, timerVars, commandVars, jobVars, attempts, submitted>>

-----------------------------------------------------------------------------
(* pauseSending and resumeSending.  A process issues them in the order in    *)
(* which they are answered, so one at a time is under way in each.           *)

PauseQueues(p) ==
  /\ command[p] = "none" /\ commands < MaxCommands
  /\ paused' = TRUE
  /\ command' = [command EXCEPT ![p] = "clearTimer"]
  /\ halted' = halted \cup {p}
  /\ commands' = commands + 1
  /\ UNCHANGED <<bucket, mapVars, threadVars, timerVars, jobVars, mailVars, faults>>

(* Mutant: an interval that was cleared before counts as running.            *)
StopTimerAgain(p) ==
  /\ timers' = [timers EXCEPT ![p] = @ - 1]
  /\ handle' = [handle EXCEPT ![p] = FALSE]

(* clearTimeout(this.batchTimer): the last interval only.                    *)
StopTimer(p) ==
  /\ timers' = [timers EXCEPT ![p] = IF handle[p] THEN @ - 1 ELSE @]
  /\ handle' = [handle EXCEPT ![p] = FALSE]

ClearTimer(p) ==
  /\ command[p] = "clearTimer"
  /\ command' = [command EXCEPT ![p] = "none"]
  /\ StopTimer(p)
  /\ UNCHANGED <<bucket, mapVars, threadVars, paused, halted, commands, jobVars, mailVars, faults>>

(* One of the two queues cannot be paused: the timer keeps running.          *)
PauseFails(p) ==
  /\ command[p] = "clearTimer"
  /\ faults < MaxFaults /\ faults' = faults + 1
  /\ command' = [command EXCEPT ![p] = "none"]
  /\ UNCHANGED <<bucket, mapVars, threadVars, timerVars, paused, halted, commands, jobVars, mailVars>>

ResumeQueues(p) ==
  /\ command[p] = "none" /\ commands < MaxCommands
  /\ paused' = FALSE
  /\ command' = [command EXCEPT ![p] = "startTimer"]
  /\ commands' = commands + 1
  /\ UNCHANGED <<bucket, mapVars, threadVars, timerVars, halted, jobVars, mailVars, faults>>

(* Mutant: resumeSending leaves the timer as it is.                          *)
StartTimerForgotten(p) ==
  /\ timers' = timers
  /\ handle' = handle

(* startBatchProcessor: a new interval, the old one is not cleared.          *)
StartTimer(p) ==
  /\ timers' = [timers EXCEPT ![p] = @ + 1]
  /\ handle' = [handle EXCEPT ![p] = TRUE]

Resumed(p) ==
  /\ command[p] = "startTimer"
  /\ command' = [command EXCEPT ![p] = "none"]
  /\ StartTimer(p)
  /\ halted' = halted \ {p}
  /\ UNCHANGED <<bucket, mapVars, threadVars, paused, commands, jobVars, mailVars, faults>>

-----------------------------------------------------------------------------
(* The workers of the batch queue.                                           *)

TakeJob(j, p) ==
  /\ jobs[j].state = "wait" /\ ~paused
  /\ Cardinality(Active(p)) < Concurrency
  /\ jobs' = [jobs EXCEPT ![j].state = "active", ![j].proc = p, ![j].todo = jobs[j].emails]
  /\ UNCHANGED <<bucket, mapVars, threadVars, timerVars, commandVars, added, mailVars, faults>>

(* Mutant: an email that failed stays in the batch.                          *)
MailAgain(j, e) ==
  \/ jobs' = [jobs EXCEPT ![j].todo = @ \ {e}]
  \/ jobs' = jobs

(* Sent or failed, the loop of processBatch goes on to the next email.       *)
Mail(j, e) == jobs' = [jobs EXCEPT ![j].todo = @ \ {e}]

(* transporter.sendMail                                                      *)
SendEmailImmediate(j, e) ==
  /\ jobs[j].state = "active" /\ IsFirst(e, jobs[j].todo)
  /\ attempts' = [attempts EXCEPT ![e] = @ + 1]
  /\ Mail(j, e)
  /\ UNCHANGED <<bucket, mapVars, threadVars, timerVars, commandVars, added, submitted, lost, faults>>

BatchProcessed(j) ==
  /\ jobs[j].state = "active" /\ jobs[j].todo = {}
  /\ jobs' = [jobs EXCEPT ![j].state = "done"]
  /\ UNCHANGED <<bucket, mapVars, threadVars, timerVars, commandVars, added, mailVars, faults>>

-----------------------------------------------------------------------------
(* A process dies and is started again: what was in its memory is gone.      *)

(* maxStalledCount is 1: a stalled job starts over once, then it has failed. *)
Stalled(jb) ==
  [jb EXCEPT !.state = IF jb.stalls = 0 THEN "wait" ELSE "failed",
             !.todo = {}, !.stalls = 1]

InMemory(p) ==
  UNION ({pending[p][k] : k \in Keys}
         \cup {thread[t].batch : t \in {u \in Threads : thread[u].proc = p}}
         \cup {todo[c] : c \in {d \in Callers : thread[d].proc = p}})

ProcessDies(p) ==
  /\ faults < MaxFaults /\ faults' = faults + 1
  /\ lost' = lost \cup InMemory(p)
  /\ pending' = [pending EXCEPT ![p] = [k \in Keys |-> {}]]
  /\ old' = [old EXCEPT ![p] = {}]
  /\ thread' = [t \in Threads |-> IF thread[t].proc = p THEN Idle ELSE thread[t]]
  /\ todo' = [c \in Callers |-> IF thread[c].proc = p THEN {} ELSE todo[c]]
  /\ due' = [w \in Walkers |-> IF thread[w].proc = p THEN {} ELSE due[w]]
  /\ timers' = [timers EXCEPT ![p] = 1] /\ handle' = [handle EXCEPT ![p] = TRUE]
  /\ command' = [command EXCEPT ![p] = "none"]
  /\ halted' = halted \ {p}
  /\ jobs' = [j \in JobIds |-> IF j \in Active(p) THEN Stalled(jobs[j]) ELSE jobs[j]]
  /\ UNCHANGED <<bucket, paused, commands, added, attempts, submitted>>

-----------------------------------------------------------------------------
CallerStep(c) ==
  \/ \E e \in Emails : AddToBatch(c, e)
  \/ BatchAdded(c)

WalkerStep(w) ==
  \/ \E k \in Keys : WalkTakes(w, k)
  \/ BatchAdded(w)

CommandStep(p) == ClearTimer(p) \/ Resumed(p)

JobStep(j) ==
  \/ \E p \in Procs : TakeJob(j, p)
  \/ \E e \in Emails : SendEmailImmediate(j, e)
  \/ BatchProcessed(j)

Fault ==
  \/ \E c \in Callers : QueueingFails(c)
  \/ \E w \in Walkers : WalkFails(w)
  \/ \E p \in Procs : PauseFails(p) \/ ProcessDies(p)

Next ==
  \/ NextBucket
  \/ \E p \in Procs, k \in Keys : GrowOld(p, k)
  \/ \E c \in Callers, p \in Procs, es \in SUBSET Emails : QueueBulkEmails(c, p, es)
  \/ \E c \in Callers : CallerStep(c)
  \/ \E w \in Walkers, p \in Procs : TimerFires(w, p)
  \/ \E w \in Walkers : WalkerStep(w)
  \/ \E p \in Procs : PauseQueues(p) \/ ResumeQueues(p) \/ CommandStep(p)
  \/ \E j \in JobIds : JobStep(j)
  \/ Fault

Spec == Init /\ [][Next]_vars

(* Calls, timers, walks and workers make progress; nobody has to call the    *)
(* sender, pause or resume it, and nothing has to fail.                      *)
FairSpec ==
  /\ Spec
  /\ \A p \in Procs, k \in Keys : WF_vars(GrowOld(p, k))
  /\ \A c \in Callers : WF_vars(CallerStep(c))
  /\ \A w \in Walkers : WF_vars(WalkerStep(w))
  /\ \A p \in Procs : WF_vars(\E w \in Walkers : TimerFires(w, p))
  /\ \A p \in Procs : WF_vars(CommandStep(p))
  /\ \A j \in JobIds : WF_vars(JobStep(j))

-----------------------------------------------------------------------------
Thread == [proc : Procs, batch : SUBSET Emails]
Job == [state : {"none", "wait", "active", "done", "failed"},
        emails : SUBSET Emails, todo : SUBSET Emails, proc : Procs, stalls : {0, 1}]

(* The variables keep their types (the fields of OptimizedEmailSender).      *)
TypeOK ==
  /\ bucket \in 0 .. MaxBucket
  /\ pending \in [Procs -> [Keys -> SUBSET Emails]]
  /\ old \in [Procs -> SUBSET Keys]
  /\ thread \in [Threads -> Thread]
  /\ todo \in [Callers -> SUBSET Emails] /\ due \in [Walkers -> SUBSET Keys]
  /\ paused \in BOOLEAN /\ halted \in SUBSET Procs
  /\ timers \in [Procs -> Nat] /\ handle \in [Procs -> BOOLEAN]
  /\ command \in [Procs -> {"none", "clearTimer", "startTimer"}]
  /\ jobs \in [JobIds -> Job]
  /\ added \in 0 .. MaxJobs
  /\ attempts \in [Emails -> Nat]
  /\ submitted \in SUBSET Emails /\ lost \in SUBSET Emails
  /\ commands \in 0 .. MaxCommands /\ faults \in 0 .. MaxFaults

(* The places an email can be: with its caller, in a map, with the thread    *)
(* that took its batch out, in a job.                                        *)
Places(e) ==
  {<<"caller", c>> : c \in {d \in Callers : e \in todo[d]}}
    \cup {<<"map", q>> : q \in {r \in Procs \X Keys : e \in pending[r[1]][r[2]]}}
    \cup {<<"thread", t>> : t \in {u \in Threads : e \in thread[u].batch}}
    \cup {<<"job", j>> : j \in {i \in JobIds : e \in jobs[i].emails}}

(* However callers and overlapping walks of several timers interleave, an    *)
(* email that was handed over is in exactly one place, unless an error of    *)
(* Redis or a crash took it: none vanishes, none gets into two batches.      *)
InOnePlace ==
  \A e \in Emails :
    IF e \in submitted \ lost THEN \E x \in Places(e) : Places(e) = {x}
                             ELSE Places(e) = {}

(* A batch that is full does not wait for the timer, and no batch grows      *)
(* beyond batchSize while its thread waits for Redis.                        *)
NoFullBatchWaits ==
  /\ \A p \in Procs, k \in Keys : Cardinality(pending[p][k]) < BatchSize
  /\ \A j \in JobIds : Cardinality(jobs[j].emails) <= BatchSize

(* An email is mailed again only when the worker of its batch died: at most  *)
(* once, and never while it waits in memory.                                 *)
MailedAgainOnlyAfterStall ==
  /\ \A j \in JobIds : \A e \in jobs[j].emails :
       attempts[e] <= 1 + jobs[j].stalls - (IF e \in jobs[j].todo THEN 1 ELSE 0)
  /\ \A e \in Emails : attempts[e] > 0 => \E j \in JobIds : e \in jobs[j].emails

(* The sender implements its contract, SenderContract: only memory loses      *)
(* emails, and what is in the queue is mailed once before its job is done,   *)
(* and once more only after the worker of its batch died.                    *)
InMemories == UNION {InMemory(p) : p \in Procs}
InJobs(states) == UNION {jobs[j].emails : j \in {i \in JobIds : jobs[i].state \in states}}
Restarted == UNION {jobs[j].emails : j \in {i \in JobIds : jobs[i].stalls = 1}}
Contract == INSTANCE SenderContract
              WITH memory <- InMemories, queue <- InJobs({"wait", "active"}),
                   done <- InJobs({"done"}), failed <- InJobs({"failed"}),
                   restarted <- Restarted, mailed <- attempts
ContractSpec == Contract!Spec

(* An email that was handed over is mailed, unless an error or a crash took  *)
(* it, its job stalled twice, or sending is paused: the queue for everyone,  *)
(* or the timer of the process whose last command was pauseSending (another  *)
(* process's resume does not start it again).                                *)
EveryEmailIsMailed ==
  \A e \in Emails :
    e \in submitted ~> \/ attempts[e] > 0 \/ e \in lost
                       \/ \E j \in JobIds : e \in jobs[j].emails /\ jobs[j].state = "failed"
                       \/ paused \/ halted # {}
=============================================================================
