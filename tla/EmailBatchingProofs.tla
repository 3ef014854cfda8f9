------------------------- MODULE EmailBatchingProofs -------------------------
(***************************************************************************)
(* Proofs about EmailBatching, for every finite set of emails, any number of *)
(* processes, callers, walks, jobs and faults, and every batchSize.          *)
(***************************************************************************)
EXTENDS EmailBatching, FiniteSetTheorems, TLAPS

-----------------------------------------------------------------------------
(* Type correctness.  The handle is one of the running intervals.            *)
TypeInv == TypeOK /\ \A p \in Procs : handle[p] => timers[p] > 0

LEMMA IdleTyped == Idle \in Thread /\ NoJob \in Job
<1>1. (CHOOSE p \in Procs : TRUE) \in Procs
  BY EmailAssumption
<1>. QED BY <1>1 DEF Idle, NoJob, Thread, Job

LEMMA ThreadTyped ==
  ASSUME NEW x \in Thread
  PROVE  /\ \A p \in Procs : [x EXCEPT !.proc = p] \in Thread
         /\ \A b \in SUBSET Emails : [x EXCEPT !.batch = b] \in Thread
  BY DEF Thread

LEMMA JobTyped ==
  ASSUME NEW x \in Job
  PROVE  /\ \A es \in SUBSET Emails :
              [x EXCEPT !.state = "wait", !.emails = es] \in Job
         /\ \A p \in Procs, es \in SUBSET Emails :
              [x EXCEPT !.state = "active", !.proc = p, !.todo = es] \in Job
         /\ \A es \in SUBSET Emails : [x EXCEPT !.todo = es] \in Job
         /\ [x EXCEPT !.state = "done"] \in Job
         /\ Stalled(x) \in Job
<1>1. ASSUME NEW es \in SUBSET Emails
      PROVE  /\ [x EXCEPT !.state = "wait", !.emails = es] \in Job
             /\ [x EXCEPT !.todo = es] \in Job
  BY DEF Job
<1>2. ASSUME NEW p \in Procs, NEW es \in SUBSET Emails
      PROVE  [x EXCEPT !.state = "active", !.proc = p, !.todo = es] \in Job
  BY DEF Job
<1>3. Stalled(x) \in Job /\ [x EXCEPT !.state = "done"] \in Job
  BY DEF Job, Stalled
<1>. QED BY <1>1, <1>2, <1>3

LEMMA TakeOutTyped ==
  ASSUME TypeOK, NEW p \in Procs, NEW k \in Keys, NEW t \in Threads,
         NEW batch \in SUBSET Emails, TakeOut(p, k, t, batch), DueNoMore(p, k)
  PROVE  /\ pending' \in [Procs -> [Keys -> SUBSET Emails]]
         /\ old' \in [Procs -> SUBSET Keys]
         /\ thread' \in [Threads -> Thread]
         /\ due' \in [Walkers -> SUBSET Keys]
  BY DEF TypeOK, TakeOut, DueNoMore, Thread

LEMMA TypeStep == TypeInv /\ [Next]_vars => TypeInv'
<1> SUFFICES ASSUME TypeInv, [Next]_vars PROVE TypeInv'
  OBVIOUS
<1>t. /\ bucket \in 0 .. MaxBucket
      /\ pending \in [Procs -> [Keys -> SUBSET Emails]]
      /\ old \in [Procs -> SUBSET Keys]
      /\ thread \in [Threads -> Thread]
      /\ todo \in [Callers -> SUBSET Emails] /\ due \in [Walkers -> SUBSET Keys]
      /\ timers \in [Procs -> Nat] /\ handle \in [Procs -> BOOLEAN]
      /\ jobs \in [JobIds -> Job] /\ added \in 0 .. MaxJobs
      /\ attempts \in [Emails -> Nat]
      /\ MaxBucket \in Nat /\ MaxJobs \in Nat /\ MaxCommands \in Nat /\ MaxFaults \in Nat
      /\ \A p \in Procs : handle[p] => timers[p] > 0
  BY EmailAssumption DEF TypeInv, TypeOK
<1>c. Callers \subseteq Threads /\ Walkers \subseteq Threads
  BY DEF Threads
<1> USE DEF TypeInv, TypeOK, mapVars, threadVars, jobVars, timerVars, commandVars, mailVars
<1>1. CASE NextBucket
  BY <1>1, <1>t DEF NextBucket
<1>2. ASSUME NEW p \in Procs, NEW k \in Keys, GrowOld(p, k)
      PROVE  TypeInv'
  BY <1>2, <1>t DEF GrowOld
<1>3. ASSUME NEW c \in Callers, NEW p \in Procs, NEW es \in SUBSET Emails,
             QueueBulkEmails(c, p, es)
      PROVE  TypeInv'
  <2>1. thread' \in [Threads -> Thread]
    BY <1>3, <1>t, <1>c, ThreadTyped DEF QueueBulkEmails
  <2>. QED BY <1>3, <1>t, <2>1 DEF QueueBulkEmails
<1>4. ASSUME NEW c \in Callers, NEW e \in Emails, AddToBatch(c, e)
      PROVE  TypeInv'
  <2> DEFINE p == thread[c].proc
             k == <<Priority(e), bucket>>
             batch == pending[p][k] \cup {e}
  <2>1. p \in Procs /\ k \in Keys /\ batch \in SUBSET Emails
    BY <1>t, <1>c, EmailAssumption DEF Thread, Keys
  <2>2. /\ todo' = [todo EXCEPT ![c] = @ \ {e}]
        /\ UNCHANGED <<bucket, timerVars, commandVars, jobVars, mailVars, faults>>
        /\ \/ TakeOut(p, k, c, batch) /\ DueNoMore(p, k)
           \/ /\ pending' = [pending EXCEPT ![p][k] = batch]
              /\ UNCHANGED <<old, thread, due>>
    BY <1>4 DEF AddToBatch
  <2> HIDE DEF p, k, batch
  <2>3. /\ pending' \in [Procs -> [Keys -> SUBSET Emails]]
        /\ old' \in [Procs -> SUBSET Keys]
        /\ thread' \in [Threads -> Thread]
        /\ due' \in [Walkers -> SUBSET Keys]
    <3>1. CASE TakeOut(p, k, c, batch) /\ DueNoMore(p, k)
      BY <1>c, <2>1, <3>1, TakeOutTyped
    <3>2. CASE pending' = [pending EXCEPT ![p][k] = batch] /\ UNCHANGED <<old, thread, due>>
      BY <1>t, <2>1, <3>2
    <3>. QED BY <2>2, <3>1, <3>2
  <2>. QED BY <1>t, <2>2, <2>3
<1>5. ASSUME NEW t \in Threads, BatchAdded(t)
      PROVE  TypeInv'
  <2> DEFINE job == [NoJob EXCEPT !.state = "wait", !.emails = thread[t].batch]
  <2>1. job \in Job
    BY <1>t, IdleTyped, JobTyped DEF Thread
  <2>2. /\ added < MaxJobs /\ added' = added + 1
        /\ jobs' = [jobs EXCEPT ![added + 1] = job]
        /\ thread' = [thread EXCEPT ![t].batch = {}]
    BY <1>5 DEF BatchAdded, AddJob
  <2> HIDE DEF job
  <2>3. jobs' \in [JobIds -> Job]
    BY <1>t, <2>1, <2>2
  <2>4. added' \in 0 .. MaxJobs
    BY <1>t, <2>2
  <2>5. thread' \in [Threads -> Thread]
    BY <1>t, <2>2, ThreadTyped
  <2>. QED BY <1>5, <1>t, <2>3, <2>4, <2>5 DEF BatchAdded
<1>6. ASSUME NEW c \in Callers, QueueingFails(c)
      PROVE  TypeInv'
  <2>1. thread' \in [Threads -> Thread] /\ thread[c].batch \subseteq Emails
    BY <1>6, <1>t, <1>c, IdleTyped DEF QueueingFails, Thread
  <2>. QED BY <1>6, <1>t, <2>1 DEF QueueingFails
<1>7. ASSUME NEW w \in Walkers, NEW p \in Procs, TimerFires(w, p)
      PROVE  TypeInv'
  <2>1. thread' \in [Threads -> Thread]
    BY <1>7, <1>t, <1>c, ThreadTyped DEF TimerFires
  <2>. QED BY <1>7, <1>t, <2>1 DEF TimerFires
<1>8. ASSUME NEW w \in Walkers, NEW k \in Keys, WalkTakes(w, k)
      PROVE  TypeInv'
  <2> DEFINE p == thread[w].proc
  <2>1. p \in Procs
    BY <1>t, <1>c DEF Thread
  <2>2. /\ TakeOut(p, k, w, pending[p][k]) /\ DueNoMore(p, k)
        /\ UNCHANGED <<bucket, todo, timerVars, commandVars, jobVars, mailVars, faults>>
    BY <1>8 DEF WalkTakes
  <2> HIDE DEF p
  <2>3. /\ pending' \in [Procs -> [Keys -> SUBSET Emails]]
        /\ old' \in [Procs -> SUBSET Keys]
        /\ thread' \in [Threads -> Thread]
        /\ due' \in [Walkers -> SUBSET Keys]
    BY <1>t, <1>c, <2>1, <2>2, TakeOutTyped
  <2>. QED BY <1>t, <2>2, <2>3
<1>9. ASSUME NEW w \in Walkers, WalkFails(w)
      PROVE  TypeInv'
  <2>1. thread' \in [Threads -> Thread] /\ thread[w].batch \subseteq Emails
    BY <1>9, <1>t, <1>c, IdleTyped DEF WalkFails, Thread
  <2>. QED BY <1>9, <1>t, <2>1 DEF WalkFails
<1>10. ASSUME NEW p \in Procs,
              PauseQueues(p) \/ ClearTimer(p) \/ PauseFails(p) \/ ResumeQueues(p) \/ Resumed(p)
       PROVE  TypeInv'
  <2>1. CASE PauseQueues(p)
    BY <1>t, <2>1 DEF PauseQueues
  <2>4. CASE PauseFails(p)
    BY <1>t, <2>4 DEF PauseFails
  <2>5. CASE ResumeQueues(p)
    <3>1. /\ paused' = FALSE /\ command' = [command EXCEPT ![p] = "startTimer"]
          /\ commands < MaxCommands /\ commands' = commands + 1
          /\ UNCHANGED <<bucket, mapVars, threadVars, timerVars, halted, jobVars, mailVars, faults>>
      BY <2>5 DEF ResumeQueues
    <3>2. paused' \in BOOLEAN
      BY <3>1
    <3>3. commands' \in 0 .. MaxCommands
      BY <1>t, <3>1
    <3>. QED BY <1>t, <3>1, <3>2, <3>3
  <2>2. CASE ClearTimer(p)
    BY <1>t, <2>2 DEF ClearTimer, StopTimer
  <2>3. CASE Resumed(p)
    BY <1>t, <2>3 DEF Resumed, StartTimer
  <2>. QED BY <1>10, <2>1, <2>2, <2>3, <2>4, <2>5
<1>11. ASSUME NEW j \in JobIds, JobStep(j)
       PROVE  TypeInv'
  <2> DEFINE Kept ==
        /\ jobs' \in [JobIds -> Job] /\ attempts' \in [Emails -> Nat]
        /\ UNCHANGED <<bucket, mapVars, threadVars, timerVars, commandVars, added, submitted,
                       lost, faults>>
  <2>1. Kept
    <3>1. ASSUME NEW p \in Procs, TakeJob(j, p)
          PROVE  Kept
      <4>1. jobs[j].emails \in SUBSET Emails
        BY <1>t DEF Job
      <4>. QED BY <1>t, <3>1, <4>1, JobTyped DEF TakeJob
    <3>2. ASSUME NEW e \in Emails, SendEmailImmediate(j, e)
          PROVE  Kept
      <4>1. jobs[j].todo \ {e} \in SUBSET Emails
        BY <1>t DEF Job
      <4>2. jobs' \in [JobIds -> Job]
        BY <1>t, <3>2, <4>1, JobTyped DEF SendEmailImmediate, Mail
      <4>3. attempts' \in [Emails -> Nat]
        BY <1>t, <3>2 DEF SendEmailImmediate
      <4>. QED BY <3>2, <4>2, <4>3 DEF SendEmailImmediate
    <3>3. ASSUME BatchProcessed(j)
          PROVE  Kept
      BY <1>t, <3>3, JobTyped DEF BatchProcessed
    <3>. QED BY <1>11, <3>1, <3>2, <3>3 DEF JobStep
  <2>. QED BY <1>t, <2>1
<1>12. ASSUME NEW p \in Procs, ProcessDies(p)
       PROVE  TypeInv'
  <2>1. jobs' \in [JobIds -> Job]
    BY <1>12, <1>t, JobTyped DEF ProcessDies
  <2>2. thread' \in [Threads -> Thread]
    BY <1>12, <1>t, IdleTyped DEF ProcessDies
  <2>3. InMemory(p) \subseteq Emails
    BY <1>t, <1>c DEF InMemory, Thread
  <2>4. /\ pending' \in [Procs -> [Keys -> SUBSET Emails]]
        /\ old' \in [Procs -> SUBSET Keys]
        /\ todo' \in [Callers -> SUBSET Emails] /\ due' \in [Walkers -> SUBSET Keys]
    BY <1>12, <1>t DEF ProcessDies
  <2>5. /\ timers' \in [Procs -> Nat] /\ handle' \in [Procs -> BOOLEAN]
        /\ \A q \in Procs : handle'[q] => timers'[q] > 0
    BY <1>12, <1>t DEF ProcessDies
  <2>6. /\ UNCHANGED <<bucket, paused, commands, added, attempts, submitted>>
        /\ lost' = lost \cup InMemory(p)
        /\ command' = [command EXCEPT ![p] = "none"] /\ halted' = halted \ {p}
        /\ faults < MaxFaults /\ faults' = faults + 1
    BY <1>12 DEF ProcessDies
  <2>. QED BY <1>t, <2>1, <2>2, <2>3, <2>4, <2>5, <2>6
<1>13. CASE UNCHANGED vars
  BY <1>13 DEF vars
<1>. QED
  BY <1>1, <1>2, <1>3, <1>4, <1>5, <1>6, <1>7, <1>8, <1>9, <1>10, <1>11, <1>12, <1>13, <1>c
     DEF Next, CallerStep, WalkerStep, CommandStep, Fault

LEMMA TypeInit == Init => TypeInv
<1> SUFFICES ASSUME Init PROVE TypeInv
  OBVIOUS
<1>1. jobs \in [JobIds -> Job] /\ thread \in [Threads -> Thread]
  BY IdleTyped DEF Init
<1>2. /\ bucket \in 0 .. MaxBucket /\ added \in 0 .. MaxJobs
      /\ commands \in 0 .. MaxCommands /\ faults \in 0 .. MaxFaults
      /\ timers \in [Procs -> Nat] /\ attempts \in [Emails -> Nat]
  BY EmailAssumption DEF Init
<1>3. /\ pending \in [Procs -> [Keys -> SUBSET Emails]] /\ old \in [Procs -> SUBSET Keys]
      /\ todo \in [Callers -> SUBSET Emails] /\ due \in [Walkers -> SUBSET Keys]
      /\ submitted \in SUBSET Emails /\ lost \in SUBSET Emails
  BY DEF Init
<1>4. /\ paused \in BOOLEAN /\ halted \in SUBSET Procs
      /\ command \in [Procs -> {"none", "clearTimer", "startTimer"}]
  BY DEF Init
<1>5. handle \in [Procs -> BOOLEAN]
  BY DEF Init
<1>6. \A p \in Procs : timers[p] > 0
  BY DEF Init
<1>. QED BY <1>1, <1>2, <1>3, <1>4, <1>5, <1>6 DEF TypeInv, TypeOK

LEMMA TypeInvariant == Spec => []TypeInv
  BY TypeInit, TypeStep, PTL DEF Spec

(* The variables keep their types: in particular no process counts fewer     *)
(* than no intervals, whatever order pause and resume come in (pauseSending, *)
(* resumeSending).                                                           *)
THEOREM TypeCorrect == Spec => []TypeOK
<1>1. TypeInv => TypeOK
  BY DEF TypeInv
<1>. QED BY <1>1, TypeInvariant, PTL

-----------------------------------------------------------------------------
(* Places hold emails, and a step moves emails from one place to another.    *)
WithCaller(c) == <<"caller", c>>
InMap(p, k)   == <<"map", <<p, k>>>>
InThread(t)   == <<"thread", t>>
InJob(j)      == <<"job", j>>

Place == {WithCaller(c) : c \in Callers} \cup {InMap(p, k) : p \in Procs, k \in Keys}
           \cup {InThread(t) : t \in Threads} \cup {InJob(j) : j \in JobIds}

Held(x) ==
  IF x[1] = "caller" THEN todo[x[2]]
  ELSE IF x[1] = "map" THEN pending[x[2][1]][x[2][2]]
  ELSE IF x[1] = "thread" THEN thread[x[2]].batch
  ELSE jobs[x[2]].emails

(* No email is in two places; the places hold what was submitted and is not  *)
(* lost; job ids that were not used yet hold nothing.                        *)
Apart == \A x, y \in Place : x # y => Held(x) \cap Held(y) = {}
Located == /\ \A e \in Emails : e \in submitted \ lost <=> \E x \in Place : e \in Held(x)
           /\ lost \subseteq submitted
FreshIds == \A j \in JobIds : j > added => jobs[j].emails = {}

PlaceInv == Apart /\ Located /\ FreshIds

LEMMA Forms ==
  /\ \A c \in Callers : /\ WithCaller(c) \in Place
                        /\ Held(WithCaller(c)) = todo[c]
                        /\ Held(WithCaller(c))' = todo'[c]
  /\ \A p \in Procs, k \in Keys : /\ InMap(p, k) \in Place
                                  /\ Held(InMap(p, k)) = pending[p][k]
                                  /\ Held(InMap(p, k))' = pending'[p][k]
  /\ \A t \in Threads : /\ InThread(t) \in Place
                        /\ Held(InThread(t)) = thread[t].batch
                        /\ Held(InThread(t))' = thread'[t].batch
  /\ \A j \in JobIds : /\ InJob(j) \in Place
                       /\ Held(InJob(j)) = jobs[j].emails
                       /\ Held(InJob(j))' = jobs'[j].emails
  /\ \A x \in Place : \/ \E c \in Callers : x = WithCaller(c)
                      \/ \E p \in Procs, k \in Keys : x = InMap(p, k)
                      \/ \E t \in Threads : x = InThread(t)
                      \/ \E j \in JobIds : x = InJob(j)
  BY DEF Place, Held, WithCaller, InMap, InThread, InJob

LEMMA FormsDiffer ==
  /\ \A c, d : WithCaller(c) = WithCaller(d) => c = d
  /\ \A p, k, q, l : InMap(p, k) = InMap(q, l) => p = q /\ k = l
  /\ \A t, u : InThread(t) = InThread(u) => t = u
  /\ \A i, j : InJob(i) = InJob(j) => i = j
  /\ \A c, p, k : WithCaller(c) # InMap(p, k)
  /\ \A c, t : WithCaller(c) # InThread(t)
  /\ \A c, j : WithCaller(c) # InJob(j)
  /\ \A p, k, t : InMap(p, k) # InThread(t)
  /\ \A p, k, j : InMap(p, k) # InJob(j)
  /\ \A t, j : InThread(t) # InJob(j)
  BY DEF WithCaller, InMap, InThread, InJob

(* What a step leaves alone in the variables it leaves alone in the places.  *)
LEMMA HeldElsewhere ==
  ASSUME NEW D,
         \A c \in Callers : WithCaller(c) \notin D => todo'[c] = todo[c],
         \A p \in Procs, k \in Keys : InMap(p, k) \notin D => pending'[p][k] = pending[p][k],
         \A t \in Threads : InThread(t) \notin D => thread'[t].batch = thread[t].batch,
         \A j \in JobIds : InJob(j) \notin D => jobs'[j].emails = jobs[j].emails
  PROVE  \A x \in Place \ D : Held(x)' = Held(x)
<1> SUFFICES ASSUME NEW x \in Place \ D PROVE Held(x)' = Held(x)
  OBVIOUS
<1>1. CASE \E c \in Callers : x = WithCaller(c)
  BY <1>1, Forms
<1>2. CASE \E p \in Procs, k \in Keys : x = InMap(p, k)
  BY <1>2, Forms
<1>3. CASE \E t \in Threads : x = InThread(t)
  BY <1>3, Forms
<1>4. CASE \E j \in JobIds : x = InJob(j)
  BY <1>4, Forms
<1>. QED BY <1>1, <1>2, <1>3, <1>4, Forms

(* Emails M move from a and b to y.                                          *)
LEMMA Moves ==
  ASSUME Apart, Located, NEW a \in Place, NEW b \in Place, NEW y \in Place, NEW M,
         y # a, y # b, M \subseteq Held(a) \cup Held(b),
         \A x \in Place \ {a, b, y} : Held(x)' = Held(x),
         Held(a)' = Held(a) \ M, Held(b)' = Held(b) \ M, Held(y)' = Held(y) \cup M,
         UNCHANGED <<submitted, lost>>
  PROVE  Apart' /\ Located'
<1>1. \A x \in Place \ {y} : Held(x)' = Held(x) \ M
  BY DEF Apart
<1>2. Apart'
  BY <1>1 DEF Apart
<1>3. Located'
  BY <1>1 DEF Located
<1>. QED BY <1>2, <1>3

(* The places D are emptied, and what they held is lost.                     *)
LEMMA Loses ==
  ASSUME Apart, Located, NEW D \in SUBSET Place,
         \A x \in Place \ D : Held(x)' = Held(x),
         \A x \in D : Held(x)' = {},
         \A e : e \in lost' <=> e \in lost \/ \E x \in D : e \in Held(x),
         \A x \in D : Held(x) \subseteq Emails,
         submitted' = submitted
  PROVE  Apart' /\ Located'
<1>1. Apart'
  BY DEF Apart
<1>2. lost' \subseteq submitted'
  BY DEF Located
<1>3. ASSUME NEW e \in Emails
      PROVE  e \in submitted' \ lost' <=> \E x \in Place : e \in Held(x)'
  BY DEF Located, Apart
<1>. QED BY <1>1, <1>2, <1>3 DEF Located

LEMMA PlaceStep == TypeInv /\ PlaceInv /\ [Next]_vars => PlaceInv'
<1> SUFFICES ASSUME TypeInv, PlaceInv, [Next]_vars PROVE PlaceInv'
  OBVIOUS
<1>t. /\ pending \in [Procs -> [Keys -> SUBSET Emails]]
      /\ old \in [Procs -> SUBSET Keys]
      /\ thread \in [Threads -> Thread]
      /\ todo \in [Callers -> SUBSET Emails] /\ due \in [Walkers -> SUBSET Keys]
      /\ jobs \in [JobIds -> Job] /\ added \in 0 .. MaxJobs
      /\ submitted \in SUBSET Emails /\ lost \in SUBSET Emails
      /\ MaxBucket \in Nat /\ MaxJobs \in Nat /\ bucket \in 0 .. MaxBucket
  BY EmailAssumption DEF TypeInv, TypeOK
<1>c. Callers \subseteq Threads /\ Walkers \subseteq Threads
  BY DEF Threads
<1>i. Apart /\ Located /\ FreshIds
  BY DEF PlaceInv
<1> USE DEF mapVars, threadVars, jobVars, timerVars, commandVars, mailVars
<1>1. ASSUME UNCHANGED <<todo, pending, jobs, added, submitted, lost>>,
             \A t \in Threads : thread'[t].batch = thread[t].batch
      PROVE  PlaceInv'
  <2>1. \A x \in Place : Held(x)' = Held(x)
    BY <1>1, Forms
  <2>. QED BY <1>1, <1>i, <2>1 DEF PlaceInv, Apart, Located, FreshIds
<1>2. ASSUME NEW c \in Callers, NEW p \in Procs, NEW es \in SUBSET Emails,
             QueueBulkEmails(c, p, es)
      PROVE  PlaceInv'
  <2>1. /\ todo[c] = {} /\ es \cap submitted = {} /\ submitted' = submitted \cup es
        /\ todo' = [todo EXCEPT ![c] = es] /\ thread' = [thread EXCEPT ![c].proc = p]
        /\ UNCHANGED <<pending, jobs, added, lost>>
    BY <1>2 DEF QueueBulkEmails
  <2>2. \A t \in Threads : thread'[t].batch = thread[t].batch
    BY <1>t, <2>1 DEF Thread
  <2>3. /\ \A x \in Place \ {WithCaller(c)} : Held(x)' = Held(x)
        /\ Held(WithCaller(c)) = {} /\ Held(WithCaller(c))' = es
        /\ WithCaller(c) \in Place
    <3>1. todo'[c] = es /\ \A d \in Callers \ {c} : todo'[d] = todo[d]
      BY <1>t, <2>1
    <3>2. \A x \in Place \ {WithCaller(c)} : Held(x)' = Held(x)
      BY <2>1, <2>2, <3>1, HeldElsewhere
    <3>. QED BY <2>1, <3>1, <3>2, Forms
  <2>4. \A x \in Place : Held(x) \cap es = {}
    BY <1>i, <2>1 DEF Located
  <2>5. Apart' /\ Located'
    BY <1>i, <2>1, <2>3, <2>4 DEF Apart, Located
  <2>. QED BY <1>i, <2>1, <2>5 DEF PlaceInv, FreshIds
<1>3. ASSUME NEW c \in Callers, NEW e \in Emails, AddToBatch(c, e)
      PROVE  PlaceInv'
  <2>1. PICK p \in Procs, k \in Keys : p = thread[c].proc /\ k = <<Priority(e), bucket>>
    BY <1>t, <1>c, EmailAssumption DEF Thread, Keys
  <2>2. PICK batch : batch = pending[p][k] \cup {e}
    OBVIOUS
  <2>3. /\ todo' = [todo EXCEPT ![c] = @ \ {e}] /\ e \in todo[c] /\ thread[c].batch = {}
        /\ UNCHANGED <<jobs, added, submitted, lost>>
        /\ \/ TakeOut(p, k, c, batch)
           \/ pending' = [pending EXCEPT ![p][k] = batch] /\ UNCHANGED thread
    BY <1>3, <2>1, <2>2 DEF AddToBatch, IsFirst, Adding
  <2> DEFINE a == InMap(p, k)
             b == WithCaller(c)
             y == InThread(c)
  <2>4. /\ a \in Place /\ b \in Place /\ y \in Place
        /\ Held(a) = pending[p][k] /\ Held(b) = todo[c] /\ Held(y) = {}
        /\ a # b /\ y # a /\ y # b
    BY <1>c, <2>3, Forms, FormsDiffer
  <2>5. todo'[c] = todo[c] \ {e} /\ \A d \in Callers \ {c} : todo'[d] = todo[d]
    BY <1>t, <2>3
  <2>6. FreshIds'
    BY <1>i, <2>3 DEF FreshIds
  <2>7. CASE TakeOut(p, k, c, batch)
    <3>1. /\ pending'[p][k] = {}
          /\ \A q \in Procs, l \in Keys : q # p \/ l # k => pending'[q][l] = pending[q][l]
          /\ thread'[c].batch = batch
          /\ \A t \in Threads \ {c} : thread'[t] = thread[t]
      BY <1>t, <1>c, <2>7 DEF TakeOut
    <3>2. \A x \in Place \ {a, b, y} : Held(x)' = Held(x)
      <4>1. \A d \in Callers : WithCaller(d) \notin {a, b, y} => todo'[d] = todo[d]
        BY <2>5
      <4>2. \A q \in Procs, l \in Keys :
              InMap(q, l) \notin {a, b, y} => pending'[q][l] = pending[q][l]
        BY <3>1
      <4>3. \A t \in Threads : InThread(t) \notin {a, b, y} => thread'[t].batch = thread[t].batch
        BY <3>1
      <4>4. \A j \in JobIds : jobs'[j].emails = jobs[j].emails
        BY <2>3
      <4>. QED BY <4>1, <4>2, <4>3, <4>4, HeldElsewhere
    <3>3. Held(a)' = {} /\ Held(b)' = todo[c] \ {e} /\ Held(y)' = batch
      BY <1>c, <2>5, <3>1, Forms
    <3> HIDE DEF a, b, y
    <3>4. Held(a)' = Held(a) \ batch /\ Held(b)' = Held(b) \ batch /\ Held(y)' = Held(y) \cup batch
      BY <1>i, <2>2, <2>4, <3>3 DEF Apart
    <3>5. batch \subseteq Held(a) \cup Held(b)
      BY <2>2, <2>3, <2>4
    <3>6. Apart' /\ Located'
      BY <1>i, <2>3, <2>4, <3>2, <3>4, <3>5, Moves
    <3>. QED BY <2>6, <3>6 DEF PlaceInv
  <2>8. CASE pending' = [pending EXCEPT ![p][k] = batch] /\ UNCHANGED thread
    <3>1. /\ pending'[p][k] = batch
          /\ \A q \in Procs, l \in Keys : q # p \/ l # k => pending'[q][l] = pending[q][l]
      BY <1>t, <2>8
    <3>2. \A x \in Place \ {a, b} : Held(x)' = Held(x)
      <4>1. \A d \in Callers : WithCaller(d) \notin {a, b} => todo'[d] = todo[d]
        BY <2>5
      <4>2. \A q \in Procs, l \in Keys :
              InMap(q, l) \notin {a, b} => pending'[q][l] = pending[q][l]
        BY <3>1
      <4>3. \A t \in Threads : thread'[t].batch = thread[t].batch
        BY <2>8
      <4>4. \A j \in JobIds : jobs'[j].emails = jobs[j].emails
        BY <2>3
      <4>. QED BY <4>1, <4>2, <4>3, <4>4, HeldElsewhere
    <3>3. Held(a)' = batch /\ Held(b)' = todo[c] \ {e}
      BY <2>5, <3>1, Forms
    <3> HIDE DEF a, b, y
    <3>4. Held(a)' = Held(a) \cup {e} /\ Held(b)' = Held(b) \ {e} /\ {e} \subseteq Held(b)
      BY <2>2, <2>3, <2>4, <3>3
    <3>5. Apart' /\ Located'
      <4>1. /\ \A x \in Place \ {b, b, a} : Held(x)' = Held(x)
            /\ {e} \subseteq Held(b) \cup Held(b)
        BY <3>2, <3>4
      <4>2. UNCHANGED <<submitted, lost>>
        BY <2>3
      <4>. QED BY <1>i, <2>4, <3>4, <4>1, <4>2, Moves
    <3>. QED BY <2>6, <3>5 DEF PlaceInv
  <2>. QED BY <2>3, <2>7, <2>8
<1>4. ASSUME NEW t \in Threads, BatchAdded(t)
      PROVE  PlaceInv'
  <2>1. PICK i \in JobIds : i = added + 1
    BY <1>4, <1>t DEF BatchAdded, AddJob, JobIds
  <2>2. PICK M : M = thread[t].batch
    OBVIOUS
  <2> DEFINE job == [NoJob EXCEPT !.state = "wait", !.emails = M]
             a == InThread(t)
             y == InJob(i)
  <2>3. /\ added' = i /\ jobs' = [jobs EXCEPT ![i] = job] /\ job.emails = M
        /\ thread' = [thread EXCEPT ![t].batch = {}]
        /\ UNCHANGED <<todo, pending, submitted, lost>>
    BY <1>4, <2>1, <2>2 DEF BatchAdded, AddJob, NoJob
  <2> HIDE DEF job
  <2>4. jobs[i].emails = {}
    BY <1>t, <1>i, <2>1 DEF FreshIds
  <2>5. /\ a \in Place /\ y \in Place /\ y # a /\ Held(a) = M /\ Held(y) = {}
    BY <2>2, <2>4, Forms, FormsDiffer
  <2>6. /\ jobs'[i].emails = M /\ \A j \in JobIds \ {i} : jobs'[j] = jobs[j]
        /\ thread'[t].batch = {} /\ \A u \in Threads \ {t} : thread'[u] = thread[u]
    BY <1>t, <2>3 DEF Thread
  <2>7. \A x \in Place \ {a, y} : Held(x)' = Held(x)
    BY <2>3, <2>6, HeldElsewhere
  <2>8. Held(a)' = Held(a) \ M /\ Held(y)' = Held(y) \cup M /\ M \subseteq Held(a)
    BY <2>5, <2>6, Forms
  <2>9. FreshIds'
    BY <1>t, <1>i, <2>1, <2>3, <2>6 DEF FreshIds, JobIds
  <2> HIDE DEF a, y
  <2>10. Apart' /\ Located'
    BY <1>i, <2>3, <2>5, <2>7, <2>8, Moves
  <2>. QED BY <2>9, <2>10 DEF PlaceInv
<1>5. ASSUME NEW c \in Callers, QueueingFails(c)
      PROVE  PlaceInv'
  <2> DEFINE D == {WithCaller(c), InThread(c)}
  <2>1. /\ lost' = lost \cup thread[c].batch \cup todo[c]
        /\ thread' = [thread EXCEPT ![c] = Idle] /\ todo' = [todo EXCEPT ![c] = {}]
        /\ UNCHANGED <<pending, jobs, added, submitted>>
    BY <1>5 DEF QueueingFails
  <2>2. /\ D \subseteq Place
        /\ Held(WithCaller(c)) = todo[c] /\ Held(InThread(c)) = thread[c].batch
    BY <1>c, Forms
  <2>3. /\ \A t \in Threads \ {c} : thread'[t] = thread[t]
        /\ \A d \in Callers \ {c} : todo'[d] = todo[d]
        /\ thread'[c].batch = {} /\ todo'[c] = {}
    BY <1>t, <1>c, <2>1 DEF Idle
  <2>4. \A x \in D : Held(x)' = {}
    BY <1>c, <2>3, Forms
  <2>8. \A x \in Place \ D : Held(x)' = Held(x)
    BY <2>1, <2>3, HeldElsewhere
  <2>5. \A x \in D : Held(x) \subseteq Emails
    BY <1>t, <1>c, <2>2 DEF Thread
  <2>6. \A e : e \in lost' <=> e \in lost \/ \E x \in D : e \in Held(x)
    BY <2>1, <2>2
  <2> HIDE DEF D
  <2>7. Apart' /\ Located'
    BY <1>i, <2>1, <2>2, <2>4, <2>5, <2>6, <2>8, Loses
  <2>. QED BY <1>i, <2>1, <2>7 DEF PlaceInv, FreshIds
<1>6. ASSUME NEW w \in Walkers, NEW p \in Procs, TimerFires(w, p)
      PROVE  PlaceInv'
  <2>1. \A t \in Threads : thread'[t].batch = thread[t].batch
    BY <1>6, <1>t DEF TimerFires, Thread
  <2>. QED BY <1>1, <1>6, <2>1 DEF TimerFires
<1>7. ASSUME NEW w \in Walkers, NEW k \in Keys, WalkTakes(w, k)
      PROVE  PlaceInv'
  <2>1. PICK p \in Procs : p = thread[w].proc
    BY <1>t, <1>c DEF Thread
  <2>2. PICK M : M = pending[p][k]
    OBVIOUS
  <2> DEFINE a == InMap(p, k)
             y == InThread(w)
  <2>3. /\ thread[w].batch = {} /\ TakeOut(p, k, w, M)
        /\ UNCHANGED <<todo, jobs, added, submitted, lost>>
    BY <1>7, <2>1, <2>2 DEF WalkTakes, Adding
  <2>4. /\ a \in Place /\ y \in Place /\ y # a /\ Held(a) = M /\ Held(y) = {}
    BY <1>c, <2>2, <2>3, Forms, FormsDiffer
  <2>5. /\ pending'[p][k] = {}
        /\ \A q \in Procs, l \in Keys : q # p \/ l # k => pending'[q][l] = pending[q][l]
        /\ thread'[w].batch = M
        /\ \A t \in Threads \ {w} : thread'[t] = thread[t]
    BY <1>t, <1>c, <2>3 DEF TakeOut
  <2>6. \A x \in Place \ {a, y} : Held(x)' = Held(x)
    BY <2>3, <2>5, HeldElsewhere
  <2>7. Held(a)' = Held(a) \ M /\ Held(y)' = Held(y) \cup M /\ M \subseteq Held(a)
    BY <1>c, <2>4, <2>5, Forms
  <2> HIDE DEF a, y
  <2>8. Apart' /\ Located'
    BY <1>i, <2>3, <2>4, <2>6, <2>7, Moves
  <2>. QED BY <1>i, <2>3, <2>8 DEF PlaceInv, FreshIds
<1>8. ASSUME NEW w \in Walkers, WalkFails(w)
      PROVE  PlaceInv'
  <2> DEFINE D == {InThread(w)}
  <2>1. /\ lost' = lost \cup thread[w].batch /\ thread' = [thread EXCEPT ![w] = Idle]
        /\ UNCHANGED <<todo, pending, jobs, added, submitted>>
    BY <1>8 DEF WalkFails
  <2>2. D \subseteq Place /\ Held(InThread(w)) = thread[w].batch
    BY <1>c, Forms
  <2>7. thread'[w].batch = {} /\ \A t \in Threads \ {w} : thread'[t] = thread[t]
    BY <1>t, <1>c, <2>1 DEF Idle
  <2>3. \A x \in Place \ D : Held(x)' = Held(x)
    BY <2>1, <2>7, HeldElsewhere
  <2>4. \A x \in D : Held(x)' = {} /\ Held(x) \subseteq Emails
    BY <1>t, <1>c, <2>2, <2>7, Forms DEF Thread
  <2>5. \A e : e \in lost' <=> e \in lost \/ \E x \in D : e \in Held(x)
    BY <2>1, <2>2
  <2> HIDE DEF D
  <2>6. Apart' /\ Located'
    BY <1>i, <2>1, <2>2, <2>3, <2>4, <2>5, Loses
  <2>. QED BY <1>i, <2>1, <2>6 DEF PlaceInv, FreshIds
<1>9. ASSUME NEW j \in JobIds, JobStep(j)
      PROVE  PlaceInv'
  <2>1. /\ UNCHANGED <<todo, pending, thread, added, submitted, lost>>
        /\ \A i \in JobIds : jobs'[i].emails = jobs[i].emails
    <3>1. CASE \E p \in Procs : TakeJob(j, p)
      BY <1>t, <3>1 DEF TakeJob, Job
    <3>2. CASE \E e \in Emails : SendEmailImmediate(j, e)
      BY <1>t, <3>2 DEF SendEmailImmediate, Mail, Job
    <3>3. CASE BatchProcessed(j)
      BY <1>t, <3>3 DEF BatchProcessed, Job
    <3>. QED BY <1>9, <3>1, <3>2, <3>3 DEF JobStep
  <2>2. \A x \in Place : Held(x)' = Held(x)
    BY <2>1, Forms
  <2>. QED BY <1>i, <2>1, <2>2 DEF PlaceInv, Apart, Located, FreshIds
<1>10. ASSUME NEW p \in Procs, ProcessDies(p)
       PROVE  PlaceInv'
  <2>1. PICK D : D = {InMap(p, k) : k \in Keys}
                       \cup {InThread(t) : t \in {u \in Threads : thread[u].proc = p}}
                       \cup {WithCaller(c) : c \in {d \in Callers : thread[d].proc = p}}
    OBVIOUS
  <2>2. /\ lost' = lost \cup InMemory(p)
        /\ pending' = [pending EXCEPT ![p] = [k \in Keys |-> {}]]
        /\ thread' = [t \in Threads |-> IF thread[t].proc = p THEN Idle ELSE thread[t]]
        /\ todo' = [c \in Callers |-> IF thread[c].proc = p THEN {} ELSE todo[c]]
        /\ jobs' = [j \in JobIds |-> IF j \in Active(p) THEN Stalled(jobs[j]) ELSE jobs[j]]
        /\ UNCHANGED <<added, submitted>>
    BY <1>10 DEF ProcessDies
  <2>3. \A j \in JobIds : jobs'[j].emails = jobs[j].emails
    BY <1>t, <2>2 DEF Stalled, Job
  <2>4. /\ \A q \in Procs, k \in Keys : q # p => pending'[q][k] = pending[q][k]
        /\ \A k \in Keys : pending'[p][k] = {}
        /\ \A t \in Threads : IF thread[t].proc = p THEN thread'[t].batch = {}
                                                    ELSE thread'[t] = thread[t]
        /\ \A c \in Callers : IF thread[c].proc = p THEN todo'[c] = {}
                                                    ELSE todo'[c] = todo[c]
    BY <1>t, <2>2 DEF Idle
  <2>5. D \subseteq Place
    BY <2>1, Forms
  <2>6. /\ \A k \in Keys : InMap(p, k) \in D
        /\ \A t \in Threads : thread[t].proc = p => InThread(t) \in D
        /\ \A c \in Callers : thread[c].proc = p => WithCaller(c) \in D
    BY <2>1
  <2>7. \A x \in D : \/ \E k \in Keys : x = InMap(p, k)
                     \/ \E t \in Threads : x = InThread(t) /\ thread[t].proc = p
                     \/ \E c \in Callers : x = WithCaller(c) /\ thread[c].proc = p
    BY <2>1
  <2>8. \A x \in Place \ D : Held(x)' = Held(x)
    BY <2>3, <2>4, <2>6, HeldElsewhere
  <2>9. \A x \in D : Held(x)' = {}
    BY <2>4, <2>7, Forms
  <2>10. \A x \in D : Held(x) \subseteq Emails
    BY <1>t, <2>7, Forms DEF Thread
  <2>11. \A e : e \in InMemory(p) <=> \E x \in D : e \in Held(x)
    <3>1. \A e : e \in InMemory(p) <=>
            \/ \E k \in Keys : e \in pending[p][k]
            \/ \E t \in Threads : thread[t].proc = p /\ e \in thread[t].batch
            \/ \E c \in Callers : thread[c].proc = p /\ e \in todo[c]
      BY DEF InMemory
    <3>. QED BY <2>6, <2>7, <3>1, Forms
  <2>12. Apart' /\ Located'
    BY <1>i, <2>2, <2>5, <2>8, <2>9, <2>10, <2>11, Loses
  <2>. QED BY <1>i, <2>2, <2>3, <2>12 DEF PlaceInv, FreshIds
<1>11. ASSUME \/ NextBucket
              \/ \E p \in Procs, k \in Keys : GrowOld(p, k)
              \/ \E p \in Procs : \/ PauseQueues(p) \/ ClearTimer(p) \/ PauseFails(p)
                                  \/ ResumeQueues(p) \/ Resumed(p)
       PROVE  PlaceInv'
  BY <1>1, <1>11 DEF NextBucket, GrowOld, PauseQueues, ClearTimer, PauseFails, ResumeQueues,
                     Resumed
<1>12. CASE UNCHANGED vars
  BY <1>1, <1>12 DEF vars
<1>. QED
  BY <1>2, <1>3, <1>4, <1>5, <1>6, <1>7, <1>8, <1>9, <1>10, <1>11, <1>12, <1>c
     DEF Next, CallerStep, WalkerStep, CommandStep, Fault

LEMMA PlaceInvariant == Spec => []PlaceInv
<1>1. Init => PlaceInv
  <2> SUFFICES ASSUME Init PROVE PlaceInv
    OBVIOUS
  <2>1. \A x \in Place : Held(x) = {}
    BY Forms DEF Init, Idle, NoJob
  <2>. QED BY <2>1 DEF Init, PlaceInv, Apart, Located, FreshIds, NoJob
<1>. QED BY <1>1, TypeInvariant, PlaceStep, PTL DEF Spec

(* However callers and overlapping walks interleave, an email that was       *)
(* handed over and not lost is in exactly one place (addToBatch,             *)
(* processPendingBatch).                                                     *)
THEOREM InOnePlaceCorrect == Spec => []InOnePlace
<1>1. TypeOK /\ PlaceInv => InOnePlace
  <2> SUFFICES ASSUME TypeOK, PlaceInv, NEW e \in Emails
               PROVE  IF e \in submitted \ lost THEN \E x \in Places(e) : Places(e) = {x}
                                                ELSE Places(e) = {}
    BY DEF InOnePlace
  <2>1. Places(e) = {x \in Place : e \in Held(x)}
    BY Forms DEF Places, WithCaller, InMap, InThread, InJob
  <2>. QED BY <2>1 DEF PlaceInv, Apart, Located
<1>. QED BY <1>1, TypeCorrect, PlaceInvariant, PTL

-----------------------------------------------------------------------------
(* No batch is full and waits: a batch grows by one email at a time, and     *)
(* leaves the map when it has batchSize.                                     *)
SizeInv ==
  /\ \A p \in Procs, k \in Keys : Cardinality(pending[p][k]) < BatchSize
  /\ \A t \in Threads : Cardinality(thread[t].batch) <= BatchSize
  /\ \A j \in JobIds : Cardinality(jobs[j].emails) <= BatchSize

LEMMA NothingIsSmall == Cardinality({}) < BatchSize /\ Cardinality({}) <= BatchSize
  BY EmailAssumption, FS_EmptySet

LEMMA OneMore ==
  ASSUME NEW S \in SUBSET Emails, NEW e \in Emails, Cardinality(S) < BatchSize
  PROVE  /\ Cardinality(S \cup {e}) <= BatchSize
         /\ ~IsFull(S \cup {e}) => Cardinality(S \cup {e}) < BatchSize
<1>1. IsFiniteSet(S)
  BY EmailAssumption, FS_Subset
<1>2. Cardinality(S) \in Nat /\ Cardinality(S \cup {e}) \in Nat
  BY <1>1, FS_AddElement, FS_CardinalityType
<1>3. Cardinality(S \cup {e}) <= Cardinality(S) + 1
  BY <1>1, <1>2, FS_AddElement
<1>. QED BY <1>2, <1>3, EmailAssumption DEF IsFull

LEMMA SizeStep == TypeInv /\ SizeInv /\ [Next]_vars => SizeInv'
<1> SUFFICES ASSUME TypeInv, SizeInv, [Next]_vars PROVE SizeInv'
  OBVIOUS
<1>t. /\ pending \in [Procs -> [Keys -> SUBSET Emails]]
      /\ thread \in [Threads -> Thread]
      /\ jobs \in [JobIds -> Job] /\ added \in 0 .. MaxJobs /\ MaxJobs \in Nat
      /\ MaxBucket \in Nat /\ bucket \in 0 .. MaxBucket
  BY EmailAssumption DEF TypeInv, TypeOK
<1>c. Callers \subseteq Threads /\ Walkers \subseteq Threads
  BY DEF Threads
<1>s. BatchSize \in Nat /\ \A S \in SUBSET Emails : Cardinality(S) \in Nat
  BY EmailAssumption, FS_Subset, FS_CardinalityType
<1> USE DEF mapVars, threadVars, jobVars, timerVars, commandVars, mailVars
<1>1. ASSUME UNCHANGED pending, \A t \in Threads : thread'[t].batch \in {thread[t].batch, {}},
             \A j \in JobIds : jobs'[j].emails = jobs[j].emails
      PROVE  SizeInv'
  BY <1>1, NothingIsSmall DEF SizeInv
<1>2. ASSUME NEW c \in Callers, NEW e \in Emails, AddToBatch(c, e)
      PROVE  SizeInv'
  <2>1. PICK p \in Procs, k \in Keys : p = thread[c].proc /\ k = <<Priority(e), bucket>>
    BY <1>t, <1>c, EmailAssumption DEF Thread, Keys
  <2>2. PICK batch : batch = pending[p][k] \cup {e}
    OBVIOUS
  <2>3. /\ UNCHANGED jobs
        /\ \/ TakeOut(p, k, c, batch)
           \/ /\ pending' = [pending EXCEPT ![p][k] = batch] /\ UNCHANGED thread
              /\ ~IsFull(batch)
    BY <1>2, <2>1, <2>2 DEF AddToBatch
  <2>4. Cardinality(batch) <= BatchSize /\ (~IsFull(batch) => Cardinality(batch) < BatchSize)
    BY <1>t, <2>2, OneMore DEF SizeInv
  <2>5. CASE TakeOut(p, k, c, batch)
    <3>1. /\ \A q \in Procs, l \in Keys : pending'[q][l] \in {pending[q][l], {}}
          /\ \A t \in Threads : thread'[t].batch \in {thread[t].batch, batch}
      BY <1>t, <2>5 DEF TakeOut
    <3>. QED BY <2>3, <2>4, <3>1, NothingIsSmall DEF SizeInv
  <2>6. CASE /\ pending' = [pending EXCEPT ![p][k] = batch] /\ UNCHANGED thread
             /\ ~IsFull(batch)
    <3>1. \A q \in Procs, l \in Keys : pending'[q][l] \in {pending[q][l], batch}
      BY <1>t, <2>6
    <3>. QED BY <2>3, <2>4, <2>6, <3>1 DEF SizeInv
  <2>. QED BY <2>3, <2>5, <2>6
<1>3. ASSUME NEW t \in Threads, BatchAdded(t)
      PROVE  SizeInv'
  <2>1. PICK i \in JobIds : i = added + 1
    BY <1>3, <1>t DEF BatchAdded, AddJob, JobIds
  <2> DEFINE job == [NoJob EXCEPT !.state = "wait", !.emails = thread[t].batch]
  <2>2. /\ jobs' = [jobs EXCEPT ![i] = job] /\ job.emails = thread[t].batch
        /\ thread' = [thread EXCEPT ![t].batch = {}] /\ UNCHANGED pending
    BY <1>3, <2>1 DEF BatchAdded, AddJob, NoJob
  <2> HIDE DEF job
  <2>3. /\ \A j \in JobIds : jobs'[j].emails \in {jobs[j].emails, thread[t].batch}
        /\ \A u \in Threads : thread'[u].batch \in {thread[u].batch, {}}
    BY <1>t, <2>2 DEF Thread
  <2>. QED BY <2>2, <2>3, NothingIsSmall DEF SizeInv
<1>4. ASSUME NEW w \in Walkers, NEW k \in Keys, WalkTakes(w, k)
      PROVE  SizeInv'
  <2>1. PICK p \in Procs : p = thread[w].proc
    BY <1>t, <1>c DEF Thread
  <2>2. TakeOut(p, k, w, pending[p][k]) /\ UNCHANGED jobs
    BY <1>4, <2>1 DEF WalkTakes
  <2>3. /\ \A q \in Procs, l \in Keys : pending'[q][l] \in {pending[q][l], {}}
        /\ \A t \in Threads : thread'[t].batch \in {thread[t].batch, pending[p][k]}
    BY <1>t, <2>2 DEF TakeOut
  <2>4. Cardinality(pending[p][k]) <= BatchSize
    BY <1>t, <1>s DEF SizeInv
  <2>. QED BY <2>2, <2>3, <2>4, NothingIsSmall DEF SizeInv
<1>5. ASSUME NEW p \in Procs, ProcessDies(p)
      PROVE  SizeInv'
  <2>1. /\ \A q \in Procs, k \in Keys : pending'[q][k] \in {pending[q][k], {}}
        /\ \A t \in Threads : thread'[t].batch \in {thread[t].batch, {}}
    BY <1>5, <1>t DEF ProcessDies, Idle
  <2>2. \A j \in JobIds : jobs'[j].emails = jobs[j].emails
    BY <1>5, <1>t DEF ProcessDies, Stalled, Job
  <2>. QED BY <2>1, <2>2, NothingIsSmall DEF SizeInv
<1>6. ASSUME NEW j \in JobIds, JobStep(j)
      PROVE  SizeInv'
  <2>1. CASE \E p \in Procs : TakeJob(j, p)
    BY <1>1, <1>t, <2>1 DEF TakeJob, Job
  <2>2. CASE \E e \in Emails : SendEmailImmediate(j, e)
    BY <1>1, <1>t, <2>2 DEF SendEmailImmediate, Mail, Job
  <2>3. CASE BatchProcessed(j)
    BY <1>1, <1>t, <2>3 DEF BatchProcessed, Job
  <2>. QED BY <1>6, <2>1, <2>2, <2>3 DEF JobStep
<1>7. ASSUME \/ \E c \in Callers, p \in Procs, es \in SUBSET Emails : QueueBulkEmails(c, p, es)
             \/ \E c \in Callers : QueueingFails(c)
             \/ \E w \in Walkers, p \in Procs : TimerFires(w, p)
             \/ \E w \in Walkers : WalkFails(w)
      PROVE  SizeInv'
  <2>1. UNCHANGED <<pending, jobs>>
    BY <1>7 DEF QueueBulkEmails, QueueingFails, TimerFires, WalkFails
  <2>2. \A t \in Threads : thread'[t].batch \in {thread[t].batch, {}}
    <3>1. CASE \E c \in Callers, p \in Procs, es \in SUBSET Emails : QueueBulkEmails(c, p, es)
      BY <1>t, <3>1 DEF QueueBulkEmails, Thread
    <3>2. CASE \E w \in Walkers, p \in Procs : TimerFires(w, p)
      BY <1>t, <3>2 DEF TimerFires, Thread
    <3>3. CASE \E c \in Callers : QueueingFails(c)
      BY <1>t, <3>3 DEF QueueingFails, Idle
    <3>4. CASE \E w \in Walkers : WalkFails(w)
      BY <1>t, <3>4 DEF WalkFails, Idle
    <3>. QED BY <1>7, <3>1, <3>2, <3>3, <3>4
  <2>. QED BY <1>1, <2>1, <2>2
<1>8. ASSUME \/ NextBucket
             \/ \E p \in Procs, k \in Keys : GrowOld(p, k)
             \/ \E p \in Procs : \/ PauseQueues(p) \/ ClearTimer(p) \/ PauseFails(p)
                                 \/ ResumeQueues(p) \/ Resumed(p)
      PROVE  SizeInv'
  BY <1>1, <1>8 DEF NextBucket, GrowOld, PauseQueues, ClearTimer, PauseFails, ResumeQueues,
                    Resumed
<1>9. CASE UNCHANGED vars
  BY <1>1, <1>9 DEF vars
<1>. QED
  BY <1>2, <1>3, <1>4, <1>5, <1>6, <1>7, <1>8, <1>9, <1>c
     DEF Next, CallerStep, WalkerStep, CommandStep, Fault

(* A full batch does not wait for the timer, and no job has more than        *)
(* batchSize emails (addToBatch).                                            *)
THEOREM NoFullBatchWaitsCorrect == Spec => []NoFullBatchWaits
<1>1. Init => SizeInv
  <2> SUFFICES ASSUME Init PROVE SizeInv
    OBVIOUS
  <2>1. \A p \in Procs, k \in Keys : pending[p][k] = {}
    BY DEF Init
  <2>2. \A t \in Threads : thread[t].batch = {}
    BY DEF Init, Idle
  <2>3. \A j \in JobIds : jobs[j].emails = {}
    BY DEF Init, NoJob
  <2>. QED BY <2>1, <2>2, <2>3, NothingIsSmall DEF SizeInv
<1>2. SizeInv => NoFullBatchWaits
  BY DEF SizeInv, NoFullBatchWaits
<1>. QED BY <1>1, <1>2, TypeInvariant, SizeStep, PTL DEF Spec

-----------------------------------------------------------------------------
(* Mail is repeated only after a stall.  A job that waits was run at most as *)
(* often as it stalled, and only an active job has emails left to mail.      *)
MailInv ==
  /\ \A j \in JobIds :
       /\ jobs[j].todo \subseteq jobs[j].emails
       /\ jobs[j].state # "active" => jobs[j].todo = {}
       /\ jobs[j].state = "wait" => \A e \in jobs[j].emails : attempts[e] <= jobs[j].stalls
  /\ MailedAgainOnlyAfterStall

LEMMA MailStep == TypeInv /\ PlaceInv /\ MailInv /\ [Next]_vars => MailInv'
<1> SUFFICES ASSUME TypeInv, PlaceInv, MailInv, [Next]_vars PROVE MailInv'
  OBVIOUS
<1>t. /\ thread \in [Threads -> Thread]
      /\ jobs \in [JobIds -> Job] /\ added \in 0 .. MaxJobs /\ MaxJobs \in Nat
      /\ attempts \in [Emails -> Nat]
  BY EmailAssumption DEF TypeInv, TypeOK
<1>j. \A j \in JobIds : /\ jobs[j].emails \subseteq Emails /\ jobs[j].todo \subseteq Emails
                        /\ jobs[j].stalls \in {0, 1}
  BY <1>t DEF Job
<1>a. \A e \in Emails : attempts[e] \in Nat
  BY <1>t
<1>1. CASE UNCHANGED <<jobs, attempts>>
  BY <1>1 DEF MailInv, MailedAgainOnlyAfterStall
<1>2. ASSUME NEW t \in Threads, BatchAdded(t)
      PROVE  MailInv'
  <2>1. PICK i \in JobIds : i = added + 1
    BY <1>2, <1>t DEF BatchAdded, AddJob, JobIds
  <2>2. PICK M : M = thread[t].batch
    OBVIOUS
  <2> DEFINE job == [NoJob EXCEPT !.state = "wait", !.emails = M]
  <2>3. /\ jobs' = [jobs EXCEPT ![i] = job] /\ UNCHANGED attempts
        /\ job.state = "wait" /\ job.emails = M /\ job.todo = {} /\ job.stalls = 0
    BY <1>2, <2>1, <2>2 DEF BatchAdded, AddJob, NoJob, mailVars
  <2> HIDE DEF job
  <2>4. jobs[i].emails = {}
    BY <1>t, <2>1 DEF PlaceInv, FreshIds
  <2>5. M \subseteq Emails
    BY <1>t, <2>2 DEF Thread
  <2>6. \A e \in M, j \in JobIds : e \notin jobs[j].emails
    BY <2>2, Forms, FormsDiffer DEF PlaceInv, Apart
  <2>7. \A e \in M : attempts[e] = 0
    BY <1>a, <2>5, <2>6 DEF MailInv, MailedAgainOnlyAfterStall
  <2>8. jobs'[i] = job /\ \A j \in JobIds \ {i} : jobs'[j] = jobs[j]
    BY <1>t, <2>3
  <2>. QED BY <1>j, <1>a, <2>3, <2>4, <2>5, <2>7, <2>8 DEF MailInv, MailedAgainOnlyAfterStall
<1>3. ASSUME NEW j \in JobIds, NEW p \in Procs, TakeJob(j, p)
      PROVE  MailInv'
  <2>1. /\ \A i \in JobIds \ {j} : jobs'[i] = jobs[i]
        /\ jobs[j].state = "wait" /\ jobs'[j].state = "active"
        /\ jobs'[j].emails = jobs[j].emails /\ jobs'[j].todo = jobs[j].emails
        /\ jobs'[j].stalls = jobs[j].stalls /\ UNCHANGED attempts
    BY <1>3, <1>t DEF TakeJob, Job, mailVars
  <2>. QED BY <1>j, <1>a, <2>1 DEF MailInv, MailedAgainOnlyAfterStall
<1>4. ASSUME NEW j \in JobIds, NEW e \in Emails, SendEmailImmediate(j, e)
      PROVE  MailInv'
  <2>1. /\ \A i \in JobIds \ {j} : jobs'[i] = jobs[i]
        /\ jobs[j].state = "active" /\ jobs'[j].state = "active" /\ e \in jobs[j].todo
        /\ jobs'[j].emails = jobs[j].emails /\ jobs'[j].todo = jobs[j].todo \ {e}
        /\ jobs'[j].stalls = jobs[j].stalls
    BY <1>4, <1>t DEF SendEmailImmediate, Mail, IsFirst, Job
  <2>2. attempts'[e] = attempts[e] + 1 /\ \A f \in Emails \ {e} : attempts'[f] = attempts[f]
    BY <1>4, <1>t DEF SendEmailImmediate
  <2>3. e \in jobs[j].emails /\ \A i \in JobIds \ {j} : e \notin jobs[i].emails
    <3>1. e \in jobs[j].emails
      BY <2>1 DEF MailInv
    <3>. QED BY <3>1, Forms, FormsDiffer DEF PlaceInv, Apart
  <2>. QED BY <1>j, <1>a, <2>1, <2>2, <2>3 DEF MailInv, MailedAgainOnlyAfterStall
<1>5. ASSUME NEW j \in JobIds, BatchProcessed(j)
      PROVE  MailInv'
  <2>1. /\ \A i \in JobIds \ {j} : jobs'[i] = jobs[i]
        /\ jobs'[j].state = "done" /\ jobs[j].todo = {}
        /\ jobs'[j].emails = jobs[j].emails /\ jobs'[j].todo = jobs[j].todo
        /\ jobs'[j].stalls = jobs[j].stalls /\ UNCHANGED attempts
    BY <1>5, <1>t DEF BatchProcessed, Job, mailVars
  <2>. QED BY <1>j, <1>a, <2>1 DEF MailInv, MailedAgainOnlyAfterStall
<1>6. ASSUME NEW p \in Procs, ProcessDies(p)
      PROVE  MailInv'
  <2>1. /\ UNCHANGED attempts
        /\ \A j \in JobIds :
             \/ jobs'[j] = jobs[j]
             \/ /\ jobs[j].state = "active" /\ jobs'[j].emails = jobs[j].emails
                /\ jobs'[j].todo = {} /\ jobs'[j].stalls = 1
                /\ jobs'[j].state = IF jobs[j].stalls = 0 THEN "wait" ELSE "failed"
    BY <1>6, <1>t DEF ProcessDies, Active, Stalled, Job
  <2>. QED BY <1>j, <1>a, <2>1 DEF MailInv, MailedAgainOnlyAfterStall
<1>7. ASSUME \/ NextBucket
             \/ \E p \in Procs, k \in Keys : GrowOld(p, k)
             \/ \E c \in Callers, p \in Procs, es \in SUBSET Emails : QueueBulkEmails(c, p, es)
             \/ \E c \in Callers : QueueingFails(c) \/ \E e \in Emails : AddToBatch(c, e)
             \/ \E w \in Walkers, p \in Procs : TimerFires(w, p)
             \/ \E w \in Walkers : WalkFails(w) \/ \E k \in Keys : WalkTakes(w, k)
             \/ \E p \in Procs : \/ PauseQueues(p) \/ ClearTimer(p) \/ PauseFails(p)
                                 \/ ResumeQueues(p) \/ Resumed(p)
             \/ UNCHANGED vars
      PROVE  MailInv'
  BY <1>1, <1>7 DEF NextBucket, GrowOld, QueueBulkEmails, QueueingFails, AddToBatch, TimerFires,
     WalkFails, WalkTakes, PauseQueues, ClearTimer, PauseFails, ResumeQueues, Resumed, vars,
     jobVars, mailVars
<1>. QED
  BY <1>2, <1>3, <1>4, <1>5, <1>6, <1>7
     DEF Next, CallerStep, WalkerStep, CommandStep, JobStep, Fault, Threads

(* An email is mailed at most twice, and a second time only because the      *)
(* worker of its batch died; never while it waits in memory (processBatch).  *)
THEOREM MailedAgainOnlyAfterStallCorrect == Spec => []MailedAgainOnlyAfterStall
<1>1. Init => MailInv
  BY DEF Init, MailInv, MailedAgainOnlyAfterStall, NoJob
<1>2. MailInv => MailedAgainOnlyAfterStall
  BY DEF MailInv
<1>. QED BY <1>1, <1>2, TypeInvariant, PlaceInvariant, MailStep, PTL DEF Spec

-----------------------------------------------------------------------------
(* The sender implements SenderContract.  What is in memory is what was      *)
(* submitted and neither lost nor added to the queue; an active job has      *)
(* mailed what it need not mail any more.                                    *)
AllInJobs == UNION {jobs[j].emails : j \in JobIds}

WorkInv ==
  \A j \in JobIds : jobs[j].state = "active" =>
    \A e \in jobs[j].emails \ jobs[j].todo : attempts[e] > 0

WhereInv ==
  /\ InMemories = (submitted \ lost) \ AllInJobs
  /\ AllInJobs \subseteq submitted \ lost
  /\ lost \subseteq submitted /\ submitted \subseteq Emails
  /\ \A i, j \in JobIds : \A e \in jobs[i].emails : e \in jobs[j].emails => i = j

SenderInv == TypeInv /\ PlaceInv /\ MailInv /\ WorkInv /\ WhereInv

LEMMA WhereMail == TypeInv /\ PlaceInv => WhereInv
<1> SUFFICES ASSUME TypeInv, PlaceInv PROVE WhereInv
  OBVIOUS
<1>t. /\ thread \in [Threads -> Thread] /\ submitted \subseteq Emails
      /\ Callers \subseteq Threads
      /\ \A x \in Place : Held(x) \subseteq Emails
  <2>1. /\ pending \in [Procs -> [Keys -> SUBSET Emails]] /\ thread \in [Threads -> Thread]
        /\ todo \in [Callers -> SUBSET Emails] /\ jobs \in [JobIds -> Job]
        /\ submitted \in SUBSET Emails
    BY DEF TypeInv, TypeOK
  <2>2. \A x \in Place : Held(x) \subseteq Emails
    BY <2>1, Forms DEF Thread, Job
  <2>. QED BY <2>1, <2>2 DEF Threads
<1>i. Apart /\ Located /\ lost \subseteq submitted
  BY DEF PlaceInv, Located
<1>1. \A e : e \in AllInJobs <=> \E j \in JobIds : e \in jobs[j].emails
  BY DEF AllInJobs
<1>2. \A e : e \in InMemories <=>
        \/ \E p \in Procs, k \in Keys : e \in pending[p][k]
        \/ \E t \in Threads : e \in thread[t].batch
        \/ \E c \in Callers : e \in todo[c]
  <2>1. \A t \in Threads : thread[t].proc \in Procs
    BY <1>t DEF Thread
  <2>2. \A p \in Procs : \A e : e \in InMemory(p) <=>
            \/ \E k \in Keys : e \in pending[p][k]
            \/ \E t \in Threads : thread[t].proc = p /\ e \in thread[t].batch
            \/ \E c \in Callers : thread[c].proc = p /\ e \in todo[c]
    BY DEF InMemory
  <2>3. \A e : e \in InMemories <=> \E p \in Procs : e \in InMemory(p)
    BY DEF InMemories
  <2>. QED BY <1>t, <2>1, <2>2, <2>3
<1>3. ASSUME NEW i \in JobIds, NEW j \in JobIds, NEW e \in jobs[i].emails, e \in jobs[j].emails
      PROVE  i = j
  BY <1>3, <1>i, Forms, FormsDiffer DEF Apart
<1>4. \A e : e \in AllInJobs <=> \E j \in JobIds : e \in Held(InJob(j))
  BY <1>1, Forms
<1>5. \A e : e \in InMemories <=>
        \/ \E p \in Procs, k \in Keys : e \in Held(InMap(p, k))
        \/ \E t \in Threads : e \in Held(InThread(t))
        \/ \E c \in Callers : e \in Held(WithCaller(c))
  BY <1>2, Forms
<1>6. \A e : e \in submitted \ lost <=> \E x \in Place : e \in Held(x)
  BY <1>i, <1>t DEF Located
<1>7. \A e : e \in submitted \ lost <=> e \in AllInJobs \/ e \in InMemories
  BY <1>4, <1>5, <1>6, Forms
<1>8. \A e : ~(e \in AllInJobs /\ e \in InMemories)
  BY <1>4, <1>5, <1>i, Forms, FormsDiffer DEF Apart
<1>. QED BY <1>i, <1>t, <1>3, <1>7, <1>8 DEF WhereInv

LEMMA WorkStep ==
  ASSUME TypeInv, WorkInv, [Next]_vars
  PROVE  WorkInv'
<1>t. /\ jobs \in [JobIds -> Job] /\ added \in 0 .. MaxJobs /\ MaxJobs \in Nat
      /\ attempts \in [Emails -> Nat]
      /\ \A j \in JobIds : jobs[j].emails \subseteq Emails
  BY EmailAssumption DEF TypeInv, TypeOK, Job
<1>1. CASE UNCHANGED <<jobs, attempts>>
  BY <1>1 DEF WorkInv
<1>2. ASSUME NEW t \in Threads, BatchAdded(t) PROVE WorkInv'
  <2>1. /\ UNCHANGED attempts
        /\ \A j \in JobIds : jobs'[j] = jobs[j] \/ jobs'[j].state = "wait"
    BY <1>2, <1>t DEF BatchAdded, AddJob, NoJob, mailVars, JobIds
  <2>. QED BY <2>1 DEF WorkInv
<1>3. ASSUME NEW j \in JobIds, NEW p \in Procs, TakeJob(j, p) PROVE WorkInv'
  <2>1. /\ \A i \in JobIds \ {j} : jobs'[i] = jobs[i]
        /\ jobs'[j].emails = jobs[j].emails /\ jobs'[j].todo = jobs[j].emails
        /\ UNCHANGED attempts
    BY <1>3, <1>t DEF TakeJob, Job, mailVars
  <2>. QED BY <2>1 DEF WorkInv
<1>4. ASSUME NEW j \in JobIds, NEW e \in Emails, SendEmailImmediate(j, e) PROVE WorkInv'
  <2>1. /\ \A i \in JobIds \ {j} : jobs'[i] = jobs[i]
        /\ jobs'[j].emails = jobs[j].emails /\ jobs'[j].todo = jobs[j].todo \ {e}
        /\ jobs'[j].state = jobs[j].state
    BY <1>4, <1>t DEF SendEmailImmediate, Mail, IsFirst, Job
  <2>2. /\ attempts'[e] = attempts[e] + 1 /\ attempts[e] \in Nat
        /\ \A f \in Emails \ {e} : attempts'[f] = attempts[f]
    BY <1>4, <1>t DEF SendEmailImmediate
  <2>3. \A f \in Emails : attempts[f] > 0 \/ f = e => attempts'[f] > 0
    BY <2>2
  <2>. QED BY <1>t, <2>1, <2>3 DEF WorkInv
<1>5. ASSUME NEW j \in JobIds, BatchProcessed(j) PROVE WorkInv'
  <2>1. /\ \A i \in JobIds \ {j} : jobs'[i] = jobs[i]
        /\ jobs'[j].state = "done" /\ UNCHANGED attempts
    BY <1>5, <1>t DEF BatchProcessed, Job, mailVars
  <2>. QED BY <2>1 DEF WorkInv
<1>6. ASSUME NEW p \in Procs, ProcessDies(p) PROVE WorkInv'
  <2>1. /\ UNCHANGED attempts
        /\ \A j \in JobIds : jobs'[j] = jobs[j] \/ jobs'[j].state # "active"
    BY <1>6, <1>t DEF ProcessDies, Active, Stalled, Job
  <2>. QED BY <2>1 DEF WorkInv
<1>7. ASSUME \/ NextBucket
             \/ \E p \in Procs, k \in Keys : GrowOld(p, k)
             \/ \E c \in Callers, p \in Procs, es \in SUBSET Emails : QueueBulkEmails(c, p, es)
             \/ \E c \in Callers : QueueingFails(c) \/ \E e \in Emails : AddToBatch(c, e)
             \/ \E w \in Walkers, p \in Procs : TimerFires(w, p)
             \/ \E w \in Walkers : WalkFails(w) \/ \E k \in Keys : WalkTakes(w, k)
             \/ \E p \in Procs : \/ PauseQueues(p) \/ ClearTimer(p) \/ PauseFails(p)
                                 \/ ResumeQueues(p) \/ Resumed(p)
             \/ UNCHANGED vars
      PROVE  WorkInv'
  BY <1>1, <1>7 DEF NextBucket, GrowOld, QueueBulkEmails, QueueingFails, AddToBatch, TimerFires,
     WalkFails, WalkTakes, PauseQueues, ClearTimer, PauseFails, ResumeQueues, Resumed, vars,
     jobVars, mailVars
<1>. QED
  BY <1>2, <1>3, <1>4, <1>5, <1>6, <1>7
     DEF Next, CallerStep, WalkerStep, CommandStep, JobStep, Fault, Threads

LEMMA SenderInvariant == Spec => []SenderInv
<1>1. Init => MailInv /\ WorkInv
  BY DEF Init, MailInv, WorkInv, MailedAgainOnlyAfterStall, NoJob
<1>2. TypeInv /\ PlaceInv /\ MailInv /\ WorkInv /\ [Next]_vars => MailInv' /\ WorkInv'
  BY MailStep, WorkStep
<1>. QED BY <1>1, <1>2, TypeInvariant, PlaceInvariant, WhereMail, PTL DEF Spec, SenderInv

(* A step is a step of the contract, or changes nothing the contract sees.   *)
LEMMA ContractStep ==
  ASSUME SenderInv, SenderInv', [Next]_vars
  PROVE  [Contract!Next]_(Contract!vars)
<1>t. /\ thread \in [Threads -> Thread] /\ todo \in [Callers -> SUBSET Emails]
      /\ pending \in [Procs -> [Keys -> SUBSET Emails]]
      /\ jobs \in [JobIds -> Job] /\ added \in 0 .. MaxJobs /\ MaxJobs \in Nat
      /\ attempts \in [Emails -> Nat] /\ Callers \subseteq Threads
      /\ \A j \in JobIds : jobs[j].emails \subseteq Emails /\ jobs[j].stalls \in {0, 1}
  BY EmailAssumption DEF SenderInv, TypeInv, TypeOK, Job, Threads
<1>w. /\ InMemories = (submitted \ lost) \ AllInJobs
      /\ InMemories' = (submitted' \ lost') \ AllInJobs'
      /\ AllInJobs \subseteq submitted \ lost
      /\ lost \subseteq submitted /\ submitted \subseteq Emails
      /\ \A i, j \in JobIds : \A e \in jobs[i].emails : e \in jobs[j].emails => i = j
  BY DEF SenderInv, WhereInv
<1>q. \A e : /\ e \in InJobs({"wait", "active"}) <=>
                  \E j \in JobIds : jobs[j].state \in {"wait", "active"} /\ e \in jobs[j].emails
             /\ e \in InJobs({"done"}) <=>
                  \E j \in JobIds : jobs[j].state = "done" /\ e \in jobs[j].emails
             /\ e \in InJobs({"failed"}) <=>
                  \E j \in JobIds : jobs[j].state = "failed" /\ e \in jobs[j].emails
             /\ e \in Restarted <=> \E j \in JobIds : jobs[j].stalls = 1 /\ e \in jobs[j].emails
             /\ e \in AllInJobs <=> \E j \in JobIds : e \in jobs[j].emails
  BY DEF InJobs, Restarted, AllInJobs
<1>r. \A e : /\ e \in InJobs({"wait", "active"})' <=>
                  \E j \in JobIds : jobs'[j].state \in {"wait", "active"} /\ e \in jobs'[j].emails
             /\ e \in InJobs({"done"})' <=>
                  \E j \in JobIds : jobs'[j].state = "done" /\ e \in jobs'[j].emails
             /\ e \in InJobs({"failed"})' <=>
                  \E j \in JobIds : jobs'[j].state = "failed" /\ e \in jobs'[j].emails
             /\ e \in Restarted' <=> \E j \in JobIds : jobs'[j].stalls = 1 /\ e \in jobs'[j].emails
             /\ e \in AllInJobs' <=> \E j \in JobIds : e \in jobs'[j].emails
  BY DEF InJobs, Restarted, AllInJobs
<1>p. \A p \in Procs : InMemory(p) \subseteq InMemories
  BY DEF InMemories
<1> DEFINE Q == InJobs({"wait", "active"})
           D == InJobs({"done"})
           X == InJobs({"failed"})
<1>0. ASSUME UNCHANGED jobs PROVE UNCHANGED <<Q, D, X, Restarted, AllInJobs>>
  BY <1>0 DEF InJobs, Restarted, AllInJobs
<1>a. ASSUME \A j \in JobIds : jobs'[j].emails = jobs[j].emails
      PROVE  AllInJobs' = AllInJobs
  <2>1. \A e : e \in AllInJobs' <=> e \in AllInJobs
    BY <1>q, <1>r, <1>a
  <2>. QED BY <2>1
<1>b. ASSUME \A j \in JobIds : /\ jobs'[j].emails = jobs[j].emails
                               /\ jobs'[j].stalls = jobs[j].stalls
      PROVE  Restarted' = Restarted
  <2>1. \A e : e \in Restarted' <=> e \in Restarted
    BY <1>q, <1>r, <1>b
  <2>. QED BY <2>1
<1>c. ASSUME NEW S, \A j \in JobIds : /\ jobs'[j].emails = jobs[j].emails
                                      /\ jobs'[j].state \in S <=> jobs[j].state \in S
      PROVE  InJobs(S)' = InJobs(S)
  <2>1. \A e : /\ e \in InJobs(S) <=> \E j \in JobIds : jobs[j].state \in S /\ e \in jobs[j].emails
               /\ e \in InJobs(S)' <=> \E j \in JobIds : jobs'[j].state \in S /\ e \in jobs'[j].emails
    BY DEF InJobs
  <2>2. \A e : e \in InJobs(S)' <=> e \in InJobs(S)
    BY <1>c, <2>1
  <2>. QED BY <2>2
<1>1. CASE UNCHANGED <<jobs, attempts, submitted, lost>>
  BY <1>0, <1>1, <1>w DEF Contract!vars
<1>2. ASSUME NEW es \in SUBSET Emails, es \cap submitted = {}, submitted' = submitted \cup es,
             UNCHANGED <<jobs, attempts, lost>>
      PROVE  Contract!Next
  <2>1. InMemories' = InMemories \cup es
    BY <1>0, <1>2, <1>w
  <2>2. es \cap (InMemories \cup Q \cup D \cup X \cup lost) = {}
    BY <1>2, <1>w, <1>q
  <2>3. Contract!HandOver(es)
    BY <1>0, <1>2, <2>1, <2>2 DEF Contract!HandOver
  <2>. QED BY <2>3 DEF Contract!Next
<1>3. ASSUME NEW S, S \subseteq InMemories, lost' = lost \cup S,
             UNCHANGED <<jobs, attempts, submitted>>
      PROVE  Contract!Next
  <2>1. InMemories' = InMemories \ S
    BY <1>0, <1>3, <1>w
  <2>2. Contract!Fault(S, {}, {})
    BY <1>0, <1>3, <2>1 DEF Contract!Fault
  <2>3. S \in SUBSET Emails /\ {} \in SUBSET Emails
    BY <1>3, <1>w
  <2>. QED BY <2>2, <2>3 DEF Contract!Next
<1>4. ASSUME NEW t \in Threads, BatchAdded(t)
      PROVE  Contract!Next
  <2>1. PICK i \in JobIds : i = added + 1
    BY <1>4, <1>t DEF BatchAdded, AddJob, JobIds
  <2>2. PICK M : M = thread[t].batch
    OBVIOUS
  <2> DEFINE job == [NoJob EXCEPT !.state = "wait", !.emails = M]
  <2>3. /\ jobs' = [jobs EXCEPT ![i] = job] /\ UNCHANGED <<attempts, submitted, lost>>
        /\ job.state = "wait" /\ job.emails = M /\ job.stalls = 0
    BY <1>4, <2>1, <2>2 DEF BatchAdded, AddJob, NoJob, mailVars
  <2> HIDE DEF job
  <2>4. jobs[i].emails = {}
    BY <1>t, <2>1 DEF SenderInv, PlaceInv, FreshIds
  <2>5. M \subseteq InMemories /\ M \subseteq Emails
    <3>1. thread[t].proc \in Procs /\ M \subseteq Emails
      BY <1>t, <2>2 DEF Thread
    <3>2. M \subseteq InMemory(thread[t].proc)
      BY <2>2 DEF InMemory
    <3>. QED BY <3>1, <3>2, <1>p
  <2>6. jobs'[i] = job /\ \A j \in JobIds \ {i} : jobs'[j] = jobs[j]
    BY <1>t, <2>3
  <2>7. AllInJobs' = AllInJobs \cup M
    BY <1>q, <1>r, <2>3, <2>4, <2>6
  <2>8. InMemories' = InMemories \ M
    BY <1>w, <2>3, <2>7
  <2>9. Q' = Q \cup M
    BY <1>q, <1>r, <2>3, <2>4, <2>6
  <2>10. UNCHANGED <<D, X, Restarted>>
    <3>1. \A e : e \in D' <=> e \in D
      BY <1>q, <1>r, <2>3, <2>4, <2>6
    <3>2. \A e : e \in X' <=> e \in X
      BY <1>q, <1>r, <2>3, <2>4, <2>6
    <3>3. \A e : e \in Restarted' <=> e \in Restarted
      BY <1>q, <1>r, <2>3, <2>4, <2>6
    <3>4. D' = D /\ X' = X /\ Restarted' = Restarted
      BY <3>1, <3>2, <3>3
    <3>. QED BY <3>4
  <2>11. Contract!Enqueue(M)
    BY <2>3, <2>5, <2>8, <2>9, <2>10 DEF Contract!Enqueue
  <2>. QED BY <2>5, <2>11 DEF Contract!Next
<1>5. ASSUME NEW j \in JobIds, NEW p \in Procs, TakeJob(j, p)
      PROVE  UNCHANGED Contract!vars
  <2>1. /\ \A i \in JobIds \ {j} : jobs'[i] = jobs[i]
        /\ jobs[j].state = "wait" /\ jobs'[j].state = "active"
        /\ jobs'[j].emails = jobs[j].emails
        /\ jobs'[j].stalls = jobs[j].stalls /\ UNCHANGED <<attempts, submitted, lost>>
    BY <1>5, <1>t DEF TakeJob, Job, mailVars
  <2>2. UNCHANGED <<Q, D, X, Restarted, AllInJobs>>
    <3>1. \A i \in JobIds : /\ jobs'[i].emails = jobs[i].emails
                            /\ jobs'[i].stalls = jobs[i].stalls
      BY <2>1
    <3>2. \A i \in JobIds : /\ jobs'[i].state \in {"wait", "active"} <=> jobs[i].state \in {"wait", "active"}
                            /\ jobs'[i].state \in {"done"} <=> jobs[i].state \in {"done"}
                            /\ jobs'[i].state \in {"failed"} <=> jobs[i].state \in {"failed"}
      BY <2>1
    <3>3. Q' = Q /\ D' = D /\ X' = X
      BY <1>c, <3>1, <3>2
    <3>. QED BY <1>a, <1>b, <3>1, <3>3
  <2>. QED BY <1>w, <2>1, <2>2 DEF Contract!vars
<1>6. ASSUME NEW j \in JobIds, NEW e \in Emails, SendEmailImmediate(j, e)
      PROVE  Contract!Next
  <2>1. /\ \A i \in JobIds \ {j} : jobs'[i] = jobs[i]
        /\ jobs[j].state = "active" /\ jobs'[j].state = "active" /\ e \in jobs[j].todo
        /\ jobs'[j].emails = jobs[j].emails
        /\ jobs'[j].stalls = jobs[j].stalls
        /\ attempts' = [attempts EXCEPT ![e] = @ + 1] /\ UNCHANGED <<submitted, lost>>
    BY <1>6, <1>t DEF SendEmailImmediate, Mail, IsFirst, Job
  <2>2. UNCHANGED <<Q, D, X, Restarted, AllInJobs>>
    <3>1. \A i \in JobIds : /\ jobs'[i].emails = jobs[i].emails
                            /\ jobs'[i].stalls = jobs[i].stalls
      BY <2>1
    <3>2. \A i \in JobIds : /\ jobs'[i].state \in {"wait", "active"} <=> jobs[i].state \in {"wait", "active"}
                            /\ jobs'[i].state \in {"done"} <=> jobs[i].state \in {"done"}
                            /\ jobs'[i].state \in {"failed"} <=> jobs[i].state \in {"failed"}
      BY <2>1
    <3>3. Q' = Q /\ D' = D /\ X' = X
      BY <1>c, <3>1, <3>2
    <3>. QED BY <1>a, <1>b, <3>1, <3>3
  <2>3. e \in jobs[j].emails /\ attempts[e] <= 1 + jobs[j].stalls - 1
    BY <2>1 DEF SenderInv, MailInv, MailedAgainOnlyAfterStall
  <2>4. e \in Q /\ (jobs[j].stalls = 1 => e \in Restarted)
    BY <1>q, <2>1, <2>3
  <2>5. attempts[e] = 0 \/ (attempts[e] = 1 /\ e \in Restarted)
    BY <1>t, <2>3, <2>4
  <2>6. Contract!Mail(e)
    BY <1>w, <2>1, <2>2, <2>4, <2>5 DEF Contract!Mail
  <2>. QED BY <2>6 DEF Contract!Next
<1>7. ASSUME NEW j \in JobIds, BatchProcessed(j)
      PROVE  Contract!Next
  <2>1. /\ \A i \in JobIds \ {j} : jobs'[i] = jobs[i]
        /\ jobs[j].state = "active" /\ jobs'[j].state = "done" /\ jobs[j].todo = {}
        /\ jobs'[j].emails = jobs[j].emails
        /\ jobs'[j].stalls = jobs[j].stalls /\ UNCHANGED <<attempts, submitted, lost>>
    BY <1>7, <1>t DEF BatchProcessed, Job, mailVars
  <2>2. PICK S : S = jobs[j].emails
    OBVIOUS
  <2>3. UNCHANGED <<X, Restarted, AllInJobs>>
    <3>1. \A i \in JobIds : /\ jobs'[i].emails = jobs[i].emails
                            /\ jobs'[i].stalls = jobs[i].stalls
      BY <2>1
    <3>2. \A i \in JobIds : jobs'[i].state \in {"failed"} <=> jobs[i].state \in {"failed"}
      BY <2>1
    <3>3. X' = X
      BY <1>c, <3>1, <3>2
    <3>. QED BY <1>a, <1>b, <3>1, <3>3
  <2>4. S \subseteq Q /\ Q' = Q \ S
    BY <1>q, <1>r, <1>w, <2>1, <2>2
  <2>5. D' = D \cup S
    BY <1>q, <1>r, <2>1, <2>2
  <2>6. \A e \in S : attempts[e] > 0
    BY <2>1, <2>2 DEF SenderInv, WorkInv
  <2>7. Contract!Settle(S)
    BY <1>w, <2>1, <2>3, <2>4, <2>5, <2>6 DEF Contract!Settle
  <2>. QED BY <1>t, <2>2, <2>7 DEF Contract!Next
<1>8. ASSUME NEW p \in Procs, ProcessDies(p)
      PROVE  Contract!Next
  <2>1. /\ UNCHANGED <<attempts, submitted>> /\ lost' = lost \cup InMemory(p)
        /\ \A j \in JobIds : jobs'[j].emails = jobs[j].emails
        /\ \A j \in JobIds \ Active(p) : jobs'[j] = jobs[j]
        /\ \A j \in Active(p) : /\ j \in JobIds /\ jobs[j].state = "active"
                                /\ jobs'[j].stalls = 1
                                /\ jobs'[j].state = IF jobs[j].stalls = 0 THEN "wait" ELSE "failed"
    BY <1>8, <1>t DEF ProcessDies, Active, Stalled, Job
  <2>2. PICK S : S = InMemory(p)
    OBVIOUS
  <2>3. PICK R : R = UNION {jobs[j].emails : j \in {i \in Active(p) : jobs[i].stalls = 0}}
    OBVIOUS
  <2>4. PICK F : F = UNION {jobs[j].emails : j \in {i \in Active(p) : jobs[i].stalls = 1}}
    OBVIOUS
  <2>5. /\ \A e : e \in R <=> \E j \in Active(p) : jobs[j].stalls = 0 /\ e \in jobs[j].emails
        /\ \A e : e \in F <=> \E j \in Active(p) : jobs[j].stalls = 1 /\ e \in jobs[j].emails
    BY <2>3, <2>4
  <2>6. AllInJobs' = AllInJobs
    BY <1>a, <2>1
  <2>7. S \subseteq InMemories /\ InMemories' = InMemories \ S
    BY <1>w, <1>p, <2>1, <2>2, <2>6
  <2>8. R \subseteq Q \ Restarted /\ F \subseteq Q \cap Restarted
    BY <1>q, <1>w, <2>1, <2>5
  <2>9. Restarted' = Restarted \cup R
    BY <1>q, <1>r, <1>t, <2>1, <2>5
  <2>10. Q' = Q \ F
    BY <1>q, <1>r, <1>t, <1>w, <2>1, <2>5
  <2>11. X' = X \cup F
    BY <1>q, <1>r, <1>t, <2>1, <2>5
  <2>12. D' = D
    <3>1. \A j \in JobIds : jobs'[j].state \in {"done"} <=> jobs[j].state \in {"done"}
      BY <2>1
    <3>. QED BY <1>c, <2>1, <3>1
  <2>13. Contract!Fault(S, R, F)
    BY <2>1, <2>2, <2>7, <2>8, <2>9, <2>10, <2>11, <2>12 DEF Contract!Fault
  <2>14. S \in SUBSET Emails /\ R \in SUBSET Emails /\ F \in SUBSET Emails
    BY <1>q, <1>w, <2>7, <2>8
  <2>. QED BY <2>13, <2>14 DEF Contract!Next
<1>9. ASSUME \/ NextBucket
             \/ \E p \in Procs, k \in Keys : GrowOld(p, k)
             \/ \E c \in Callers, e \in Emails : AddToBatch(c, e)
             \/ \E w \in Walkers, p \in Procs : TimerFires(w, p)
             \/ \E w \in Walkers, k \in Keys : WalkTakes(w, k)
             \/ \E p \in Procs : \/ PauseQueues(p) \/ ClearTimer(p) \/ PauseFails(p)
                                 \/ ResumeQueues(p) \/ Resumed(p)
             \/ UNCHANGED vars
      PROVE  UNCHANGED <<jobs, attempts, submitted, lost>>
  BY <1>9 DEF NextBucket, GrowOld, AddToBatch, TimerFires, WalkTakes, PauseQueues, ClearTimer,
     PauseFails, ResumeQueues, Resumed, vars, jobVars, mailVars
<1>10. ASSUME NEW c \in Callers, NEW p \in Procs, NEW es \in SUBSET Emails,
              QueueBulkEmails(c, p, es)
       PROVE  Contract!Next
  BY <1>2, <1>10 DEF QueueBulkEmails, jobVars
<1>11. ASSUME NEW c \in Callers, QueueingFails(c) PROVE Contract!Next
  <2>1. thread[c].batch \cup todo[c] \subseteq InMemory(thread[c].proc)
    BY <1>t DEF InMemory
  <2>2. thread[c].proc \in Procs
    BY <1>t DEF Thread
  <2>. QED BY <1>3, <1>11, <1>p, <2>1, <2>2 DEF QueueingFails, jobVars
<1>12. ASSUME NEW w \in Walkers, WalkFails(w) PROVE Contract!Next
  <2>1. w \in Threads
    BY DEF Threads
  <2>2. thread[w].batch \subseteq InMemory(thread[w].proc)
    BY <2>1 DEF InMemory
  <2>3. thread[w].proc \in Procs
    BY <1>t, <2>1 DEF Thread
  <2>. QED BY <1>3, <1>12, <1>p, <2>2, <2>3 DEF WalkFails, jobVars
<1>. QED
  BY <1>1, <1>4, <1>5, <1>6, <1>7, <1>8, <1>9, <1>10, <1>11, <1>12
     DEF Next, CallerStep, WalkerStep, CommandStep, JobStep, Fault, Threads

(* However bulk calls, walks, pauses, workers and deaths of processes        *)
(* interleave, the sender implements SenderContract: only memory loses       *)
(* emails, a job is done after each of its emails was mailed, and an email   *)
(* is mailed again only if its job has started over (processPendingBatch,    *)
(* processBatch).                                                            *)
THEOREM ImplementsContract == Spec => ContractSpec
<1>1. Init => Contract!Init
  <2> SUFFICES ASSUME Init PROVE Contract!Init
    OBVIOUS
  <2>1. \A p \in Procs : \A e : e \notin InMemory(p)
    BY DEF Init, InMemory, Idle, Threads
  <2>2. InMemories = {}
    BY <2>1 DEF InMemories
  <2>3. \A j \in JobIds : jobs[j].emails = {}
    BY DEF Init, NoJob
  <2>4. \A e : /\ e \notin InJobs({"wait", "active"}) /\ e \notin InJobs({"done"})
               /\ e \notin InJobs({"failed"}) /\ e \notin Restarted
    BY <2>3 DEF InJobs, Restarted
  <2>. QED BY <2>2, <2>4 DEF Init, Contract!Init
<1>2. SenderInv /\ SenderInv' /\ [Next]_vars => [Contract!Next]_(Contract!vars)
  BY ContractStep
<1>3. Spec => Contract!Spec
  BY <1>1, <1>2, SenderInvariant, PTL DEF Spec, Contract!Spec
<1>. QED BY <1>3 DEF ContractSpec
=============================================================================
