------------------------ MODULE WorkflowEngineProofs ------------------------
(***************************************************************************)
(* Proofs about WorkflowEngine, for every set of executions, every set of    *)
(* well-formed workflow definitions, any number of callers and every bound.  *)
(***************************************************************************)
EXTENDS WorkflowEngine, FiniteSetTheorems, TLAPS

(* The parts of a job id, and the ids the engine builds.                     *)
LEMMA JobIds ==
  /\ \A j \in JobId : ExecOf(j) \in Execs /\ StepOf(j) \in StepOrNone
  /\ \A e \in Execs, s \in StepOrNone : jobIdOf(e, s) \in JobId
  /\ \A e \in Execs, s \in StepOrNone, n \in 0 .. MaxTimers : <<e, s, n>> \in JobId
  BY EngineAssumption DEF JobId, ExecOf, StepOf, jobIdOf

LEMMA Defaults ==
  /\ AnyDef \in Defs
  /\ AnyExec \in Execs
  BY EngineAssumption DEF AnyDef, AnyExec

(* What a definition holds: its steps and its edges are steps.               *)
LEMMA Definitions ==
  ASSUME NEW d \in Defs
  PROVE  /\ d.steps \in Seq(Steps)
         /\ \A s \in Steps : d.next[s] \in Seq(Steps)
         /\ StepIds(d) \subseteq Steps
  BY EngineAssumption DEF Definition, StepIds

LEMMA NextStepsOf ==
  ASSUME NEW d \in Defs, NEW s \in Steps, NEW met \in BOOLEAN
  PROVE  nextStepIds(d, s, met) \in Seq(Steps)
  BY Definitions DEF nextStepIds

LEMMA LogTyped ==
  ASSUME NEW e \in Execs, NEW s \in StepOrNone, NEW k \in EntryKind,
         log \in [Execs -> [StepOrNone -> [EntryKind -> Nat]]],
         addExecutionLogEntry(e, s, k)
  PROVE  log' \in [Execs -> [StepOrNone -> [EntryKind -> Nat]]]
<1> DEFINE entries == [log[e][s] EXCEPT ![k] = @ + 1]
           row == [log[e] EXCEPT ![s] = entries]
<1>1. entries \in [EntryKind -> Nat]
  OBVIOUS
<1>2. row \in [StepOrNone -> [EntryKind -> Nat]]
  BY <1>1
<1>3. [log EXCEPT ![e] = row] \in [Execs -> [StepOrNone -> [EntryKind -> Nat]]]
  BY <1>2
<1>4. log' = [log EXCEPT ![e] = row] \/ log' = log
  BY DEF addExecutionLogEntry
<1>. QED BY <1>3, <1>4

LEMMA EffectsTyped ==
  ASSUME NEW e \in Execs, NEW s \in Steps, effects \in [Execs -> [Steps -> Nat]]
  PROVE  [effects EXCEPT ![e][s] = @ + 1] \in [Execs -> [Steps -> Nat]]
<1> DEFINE row == [effects[e] EXCEPT ![s] = @ + 1]
<1>1. row \in [Steps -> Nat]
  OBVIOUS
<1>. QED BY <1>1

LEMMA AddJobTyped ==
  ASSUME NEW k, NEW st \in JobState, jobs \in [JobId -> JobState], AddJob(k, st)
  PROVE  jobs' \in [JobId -> JobState]
  BY DEF AddJob

LEMMA EndCallTyped ==
  ASSUME TypeOK, NEW c \in Callers, EndCall(c)
  PROVE  /\ callPc' \in [Callers -> CallPc]
         /\ callExec' \in [Callers -> Execs]
         /\ callTodo' \in [Callers -> SUBSET Execs]
         /\ callJobs' \in [Callers -> SUBSET JobId]
         /\ callStep' \in [Callers -> StepOrNone]
         /\ callDef' \in [Callers -> Defs]
  BY Defaults DEF TypeOK, EndCall, CallPc, StepOrNone

LEMMA NextExecutionTyped ==
  ASSUME TypeOK, NEW c \in Callers, NEW rest \in SUBSET Execs, NextExecution(c, rest)
  PROVE  /\ callPc' \in [Callers -> CallPc]
         /\ callExec' \in [Callers -> Execs]
         /\ callTodo' \in [Callers -> SUBSET Execs]
         /\ callJobs' \in [Callers -> SUBSET JobId]
         /\ callStep' \in [Callers -> StepOrNone]
         /\ callDef' \in [Callers -> Defs]
<1>1. CASE EndCall(c)
  BY <1>1, EndCallTyped
<1>2. CASE ~EndCall(c)
  <2>1. PICK e \in rest : /\ callExec' = [callExec EXCEPT ![c] = e]
                          /\ callTodo' = [callTodo EXCEPT ![c] = rest \ {e}]
    BY <1>2 DEF NextExecution
  <2>2. callPc' = [callPc EXCEPT ![c] = "listJobs"] /\ UNCHANGED <<callJobs, callStep, callDef>>
    BY <1>2 DEF NextExecution
  <2>. QED BY <2>1, <2>2 DEF TypeOK, CallPc
<1>. QED BY <1>1, <1>2

-----------------------------------------------------------------------------
(* Where a handler is, by the step of its job: it walks through a step only  *)
(* when the job names one, only an active job has a handler, and the loop    *)
(* over next steps is entered only when there are some.                      *)

Stepping == {"logStart", "setCurrent", "execute", "logCompletion", "setCompleted",
             "nextSteps"}

HandlerOK ==
  \A j \in JobId :
    /\ pc[j] # "idle" => jobs[j] = "active"
    /\ pc[j] \in Stepping => StepOf(j) \in Steps
    /\ pc[j] = "nextSteps" => todo[j] # <<>>

(* What the engine's local copies say stays true of the log.  A deleted      *)
(* execution is excepted: handlers that had read it walk on, and what they   *)
(* queue finds no row and is never started.                                  *)
Alive(e) == status[e] # "deleted"

JobsReached ==
  \A j \in JobId : jobs[j] # "none" =>
    /\ status[ExecOf(j)] # "none"
    /\ Alive(ExecOf(j)) /\ StepOf(j) \in Steps => Reached(ExecOf(j), StepOf(j))

HandlersStarted ==
  \A j \in JobId :
    /\ pc[j] \in Stepping \ {"logStart"} /\ Alive(ExecOf(j))
         => Started(ExecOf(j), StepOf(j))
    /\ \A i \in DOMAIN todo[j] : StepOf(j) \in Steps /\ Edge(StepOf(j), todo[j][i])

PointersReached ==
  /\ \A e \in Execs : currentStep[e] \in Steps => Reached(e, currentStep[e])
  /\ \A c \in Callers :
       /\ callPc[c] \in {"start", "requeue"} => status[callExec[c]] # "none"
       /\ callPc[c] = "requeue" /\ callStep[c] \in Steps
            => Reached(callExec[c], callStep[c])

ReachInv == JobsReached /\ HandlersStarted /\ PointersReached /\ OnlyReachedSteps

LEMMA TypeStep == TypeOK /\ HandlerOK /\ [Next]_vars => TypeOK'
<1> SUFFICES ASSUME TypeOK, HandlerOK, [Next]_vars PROVE TypeOK'
  OBVIOUS
<1> USE DEF TypeOK, rowVars, queueVars, workVars, callVars, boundVars
<1>1. ASSUME NEW j \in JobId, DelayElapsed(j) PROVE TypeOK'
  BY <1>1 DEF DelayElapsed, JobState
<1>2. ASSUME NEW j \in JobId, TakeJob(j) PROVE TypeOK'
  BY <1>2 DEF TakeJob, Goto, JobState, HandlerPc
<1>3. ASSUME NEW j \in JobId, FindExecution(j) PROVE TypeOK'
  BY <1>3 DEF FindExecution, Goto, HandlerPc
<1>4. ASSUME NEW j \in JobId, FindWorkflow(j) PROVE TypeOK'
  <2>1. CASE wfStatus # "deleted" /\ StepOf(j) \in StepIds(def)
    <3>1. def.next[StepOf(j)] \in Seq(Steps)
      BY <2>1, Definitions
    <3>2. /\ todo' = [todo EXCEPT ![j] = def.next[StepOf(j)]]
          /\ jobDef' = [jobDef EXCEPT ![j] = def]
          /\ pc' = [pc EXCEPT ![j] = "logStart"]
      BY <1>4, <2>1 DEF FindWorkflow, Goto
    <3>3. todo' \in [JobId -> Seq(Steps)]
      BY <3>1, <3>2
    <3>4. jobDef' \in [JobId -> Defs] /\ pc' \in [JobId -> HandlerPc]
      BY <3>2 DEF HandlerPc
    <3>. QED BY <1>4, <3>3, <3>4 DEF FindWorkflow
  <2>2. CASE ~(wfStatus # "deleted" /\ StepOf(j) \in StepIds(def))
    BY <1>4, <2>2 DEF FindWorkflow, Goto, HandlerPc
  <2>. QED BY <2>1, <2>2
<1>5. ASSUME NEW j \in JobId, LogStart(j) PROVE TypeOK'
  BY <1>5, JobIds, LogTyped DEF LogStart, Goto, HandlerPc, EntryKind
<1>6. ASSUME NEW j \in JobId, SetCurrentStep(j) PROVE TypeOK'
  BY <1>6, JobIds DEF SetCurrentStep, Goto, HandlerPc
<1>7. ASSUME NEW j \in JobId, executeHttpStep(j) PROVE TypeOK'
  <2>1. StepOf(j) \in Steps
    BY <1>7 DEF executeHttpStep, At, HandlerOK, Stepping
  <2>2. effects' \in [Execs -> [Steps -> Nat]]
    <3>1. CASE CountEffect(j)
      BY <2>1, <3>1, JobIds, EffectsTyped DEF CountEffect
    <3>2. CASE UNCHANGED effects
      BY <3>2
    <3>. QED BY <1>7, <3>1, <3>2 DEF executeHttpStep
  <2>. QED BY <1>7, <2>2 DEF executeHttpStep, Goto, HandlerPc
<1>8. ASSUME NEW j \in JobId, executeWebhookStep(j) PROVE TypeOK'
  <2>1. StepOf(j) \in Steps
    BY <1>8 DEF executeWebhookStep, At, HandlerOK, Stepping
  <2>2. effects' \in [Execs -> [Steps -> Nat]]
    BY <1>8, <2>1, JobIds, EffectsTyped DEF executeWebhookStep, CountEffect
  <2>. QED BY <1>8, <2>2 DEF executeWebhookStep, Goto, HandlerPc
<1>9. ASSUME NEW j \in JobId, executeConditionStep(j) PROVE TypeOK'
  BY <1>9 DEF executeConditionStep, Goto, HandlerPc
<1>10. ASSUME NEW j \in JobId, executeWaitStep(j) PROVE TypeOK'
  <2>1. CASE todo[j] = <<>>
    BY <1>10, <2>1 DEF executeWaitStep, Goto, HandlerPc
  <2>2. CASE todo[j] # <<>>
    <3>1. Tail(todo[j]) \in Seq(Steps)
      BY <2>2
    <3>2. todo' = [todo EXCEPT ![j] = Tail(todo[j])] /\ timers' \in 0 .. MaxTimers
      BY <1>10, <2>2, EngineAssumption DEF executeWaitStep
    <3>3. jobs' \in [JobId -> JobState]
      BY <1>10, <2>2, AddJobTyped DEF executeWaitStep, JobState
    <3>. QED BY <1>10, <2>2, <3>1, <3>2, <3>3 DEF executeWaitStep
  <2>. QED BY <2>1, <2>2
<1>11. ASSUME NEW j \in JobId, LogCompletion(j) PROVE TypeOK'
  <2>1. StepOf(j) \in Steps
    BY <1>11 DEF LogCompletion, At, HandlerOK, Stepping
  <2>2. nextStepIds(jobDef[j], StepOf(j), branch[j]) \in Seq(Steps)
    BY <2>1, NextStepsOf
  <2>3. log' \in [Execs -> [StepOrNone -> [EntryKind -> Nat]]]
    BY <1>11, JobIds, LogTyped DEF LogCompletion, EntryKind
  <2>. QED BY <1>11, <2>2, <2>3 DEF LogCompletion, Goto, HandlerPc
<1>12. ASSUME NEW j \in JobId, SetCompleted(j) PROVE TypeOK'
  BY <1>12 DEF SetCompleted, Goto, HandlerPc, updateStatus, ExecStatus
<1>13. ASSUME NEW j \in JobId, QueueNextStep(j) PROVE TypeOK'
  <2>1. Tail(todo[j]) \in Seq(Steps)
    BY <1>13 DEF QueueNextStep, At, HandlerOK
  <2>2. jobs' \in [JobId -> JobState]
    BY <1>13 DEF QueueNextStep, AddJob, JobState
  <2>. QED BY <1>13, <2>1, <2>2 DEF QueueNextStep, Goto, HandlerPc
<1>14. ASSUME NEW j \in JobId, JobCompleted(j) PROVE TypeOK'
  BY <1>14, Defaults DEF JobCompleted, Release, HandlerPc, JobState
<1>15. ASSUME NEW j \in JobId, LogFailure(j) PROVE TypeOK'
  BY <1>15, JobIds, LogTyped DEF LogFailure, Goto, HandlerPc, EntryKind
<1>16. ASSUME NEW j \in JobId, SetFailed(j) PROVE TypeOK'
  BY <1>16 DEF SetFailed, Goto, HandlerPc, updateStatus, ExecStatus
<1>17. ASSUME NEW j \in JobId, JobFailed(j) PROVE TypeOK'
  BY <1>17, Defaults DEF JobFailed, Release, HandlerPc, JobState
<1>18. ASSUME NEW j \in JobId, HandlerError(j) PROVE TypeOK'
  <2>1. pc' \in [JobId -> HandlerPc]
    BY <1>18 DEF HandlerError, Goto, HandlerPc
  <2>2. UNCHANGED <<wfStatus, def, rowVars, queueVars, todo, jobDef, branch, callVars,
                    timers, calls, crashes, pausedOnce, resumes>> /\ faults' = faults + 1
    BY <1>18 DEF HandlerError
  <2>. QED BY <2>1, <2>2
<1>19. ASSUME NEW j \in JobId, Evict(j) PROVE TypeOK'
  BY <1>19 DEF Evict, JobState
<1>20. ASSUME NEW c \in Callers, TriggerWorkflow(c) PROVE TypeOK'
  BY <1>20 DEF TriggerWorkflow, CallPc
<1>21. ASSUME NEW c \in Callers, CreateExecution(c) PROVE TypeOK'
  <2>1. CASE wfStatus = "deleted"
    BY <1>21, <2>1, EndCallTyped DEF CreateExecution
  <2>2. CASE wfStatus # "deleted"
    <3>1. PICK e \in Execs : /\ status' = [status EXCEPT ![e] = "running"]
                             /\ created' = Append(created, e)
                             /\ callExec' = [callExec EXCEPT ![c] = e]
      BY <1>21, <2>2 DEF CreateExecution
    <3>2. created' \in Seq(Execs)
      BY <3>1
    <3>3. status' \in [Execs -> ExecStatus] /\ callExec' \in [Callers -> Execs]
      BY <3>1 DEF ExecStatus
    <3>. QED BY <1>21, <2>2, <3>2, <3>3 DEF CreateExecution, CallPc
  <2>. QED BY <2>1, <2>2
<1>22. ASSUME NEW c \in Callers, StartWorkflowExecution(c) PROVE TypeOK'
  <2>1. jobs' \in [JobId -> JobState]
    BY <1>22 DEF StartWorkflowExecution, AddJob, JobState
  <2>. QED BY <1>22, <2>1, EndCallTyped DEF StartWorkflowExecution
<1>23. ASSUME NEW c \in Callers, PauseWorkflow(c) PROVE TypeOK'
  BY <1>23 DEF PauseWorkflow, Begin, CallPc
<1>24. ASSUME NEW c \in Callers, ListExecutions(c) PROVE TypeOK'
  <2>1. {e \in MostRecent(PageSize) : status[e] = "running"} \in SUBSET Execs
    BY DEF MostRecent
  <2>. QED BY <1>24, <2>1, NextExecutionTyped DEF ListExecutions
<1>25. ASSUME NEW c \in Callers, NEW e \in Execs, PauseExecution(c, e) PROVE TypeOK'
  BY <1>25 DEF PauseExecution, Begin, CallPc
<1>26. ASSUME NEW c \in Callers, ListJobs(c) PROVE TypeOK'
  BY <1>26 DEF ListJobs, PendingJobs, CallPc
<1>27. ASSUME NEW c \in Callers, RemoveJob(c) PROVE TypeOK'
  <2>1. CASE EndCall(c) /\ UNCHANGED queueVars
    BY <1>27, <2>1, EndCallTyped DEF RemoveJob
  <2>2. CASE ~(EndCall(c) /\ UNCHANGED queueVars)
    <3>1. PICK j \in callJobs[c] :
             /\ jobs' = [jobs EXCEPT ![j] = "none"]
             /\ attempts' = [attempts EXCEPT ![j] = 0]
             /\ stalls' = [stalls EXCEPT ![j] = 0]
             /\ callJobs' = [callJobs EXCEPT ![c] = @ \ {j}]
             /\ UNCHANGED <<callPc, callExec, callTodo, callStep, callDef>>
      BY <1>27, <2>2 DEF RemoveJob
    <3>. QED BY <1>27, <3>1 DEF RemoveJob, JobState
  <2>. QED BY <2>1, <2>2
<1>28. ASSUME NEW c \in Callers, SetPaused(c) PROVE TypeOK'
  <2>1. status' \in [Execs -> ExecStatus]
    BY <1>28 DEF SetPaused, updateStatus, ExecStatus
  <2>. QED BY <1>28, <2>1, NextExecutionTyped DEF SetPaused
<1>29. ASSUME NEW c \in Callers, NEW e \in Execs, ResumeExecution(c, e) PROVE TypeOK'
  BY <1>29 DEF ResumeExecution, CountResume, Begin, CallPc
<1>30. ASSUME NEW c \in Callers, RequeueCurrentStep(c) PROVE TypeOK'
  BY <1>30, JobIds DEF RequeueCurrentStep, AddJob, CallPc, JobState
<1>31. ASSUME NEW c \in Callers, SetRunning(c) PROVE TypeOK'
  <2>1. status' \in [Execs -> ExecStatus]
    BY <1>31 DEF SetRunning, updateStatus, ExecStatus
  <2>. QED BY <1>31, <2>1, EndCallTyped DEF SetRunning
<1>32. ASSUME NEW c \in Callers, DeleteWorkflow(c) PROVE TypeOK'
  BY <1>32 DEF DeleteWorkflow, Begin, CallPc
<1>33. ASSUME NEW c \in Callers, DeleteRows(c) PROVE TypeOK'
  <2>1. status' \in [Execs -> ExecStatus] /\ created' \in Seq(Execs)
    BY <1>33 DEF DeleteRows, ExecStatus
  <2>. QED BY <1>33, <2>1, EndCallTyped DEF DeleteRows
<1>34. ASSUME NEW c \in Callers, ActivateWorkflow(c) PROVE TypeOK'
  BY <1>34 DEF ActivateWorkflow, Begin
<1>35. ASSUME NEW c \in Callers, UpdateWorkflow(c) PROVE TypeOK'
  BY <1>35 DEF UpdateWorkflow, Begin
<1>36. ASSUME NEW c \in Callers, CallError(c) PROVE TypeOK'
  BY <1>36, EndCallTyped DEF CallError
<1>37. CASE Crash
  <2>1. jobs' \in [JobId -> JobState] /\ stalls' \in [JobId -> 0 .. 1]
    BY <1>37 DEF Crash, JobState
  <2>2. /\ pc' \in [JobId -> HandlerPc] /\ todo' \in [JobId -> Seq(Steps)]
        /\ jobDef' \in [JobId -> Defs] /\ branch' \in [JobId -> BOOLEAN]
    BY <1>37, Defaults DEF Crash, HandlerPc
  <2>3. /\ callPc' \in [Callers -> CallPc] /\ callExec' \in [Callers -> Execs]
        /\ callTodo' \in [Callers -> SUBSET Execs]
        /\ callJobs' \in [Callers -> SUBSET JobId]
        /\ callStep' \in [Callers -> StepOrNone] /\ callDef' \in [Callers -> Defs]
    BY <1>37, Defaults DEF Crash, CallPc, StepOrNone
  <2>4. /\ UNCHANGED <<wfStatus, def, rowVars, attempts, timers, calls, faults, pausedOnce,
                       resumes>>
        /\ crashes' = crashes + 1
    BY <1>37 DEF Crash
  <2>. QED BY <2>1, <2>2, <2>3, <2>4
<1>38. CASE UNCHANGED vars
  BY <1>38 DEF vars
<1>. QED
  BY <1>1, <1>2, <1>3, <1>4, <1>5, <1>6, <1>7, <1>8, <1>9, <1>10, <1>11, <1>12,
     <1>13, <1>14, <1>15, <1>16, <1>17, <1>18, <1>19, <1>20, <1>21, <1>22, <1>23, <1>24,
     <1>25, <1>26, <1>27, <1>28, <1>29, <1>30, <1>31, <1>32, <1>33, <1>34, <1>35, <1>36,
     <1>37, <1>38
  DEF Next, Handler, CallStart, CallStep

LEMMA HandlerStep == TypeOK /\ HandlerOK /\ [Next]_vars => HandlerOK'
<1> DEFINE Safe(k) == /\ pc'[k] # "idle" => jobs'[k] = "active"
                      /\ pc'[k] \in Stepping => StepOf(k) \in Steps
                      /\ pc'[k] = "nextSteps" => todo'[k] # <<>>
<1> SUFFICES ASSUME TypeOK, HandlerOK, [Next]_vars, NEW k \in JobId PROVE Safe(k)
  BY DEF HandlerOK, StepOf, Stepping
<1> USE DEF rowVars, queueVars, workVars, callVars, boundVars
<1>0. ASSUME UNCHANGED <<pc, todo>>, jobs'[k] = jobs[k] \/ jobs[k] # "active" PROVE Safe(k)
  BY <1>0 DEF HandlerOK
<1>1. ASSUME NEW j \in JobId, DelayElapsed(j) \/ Evict(j) PROVE Safe(k)
  <2>. UNCHANGED <<pc, todo>> /\ (jobs'[k] = jobs[k] \/ jobs[k] # "active")
    BY <1>1 DEF DelayElapsed, Evict, TypeOK
  <2>. QED BY <1>0
<1>2. ASSUME NEW j \in JobId, \/ TakeJob(j) \/ FindExecution(j) \/ LogStart(j)
                              \/ SetCurrentStep(j) \/ executeHttpStep(j)
                              \/ executeWebhookStep(j) \/ executeConditionStep(j)
                              \/ SetCompleted(j) \/ LogFailure(j) \/ SetFailed(j)
                              \/ HandlerError(j)
      PROVE  Safe(k)
  BY <1>2 DEF TakeJob, FindExecution, LogStart, SetCurrentStep, executeHttpStep,
     executeWebhookStep, executeConditionStep, SetCompleted, LogFailure, SetFailed,
     HandlerError, Goto, At, Stepping, TypeOK, HandlerOK
<1>3. ASSUME NEW j \in JobId, FindWorkflow(j) PROVE Safe(k)
  <2>1. StepOf(j) \in StepIds(def) => StepOf(j) \in Steps
    BY Definitions DEF TypeOK
  <2>. QED BY <1>3, <2>1 DEF FindWorkflow, Goto, At, Stepping, TypeOK, HandlerOK
<1>4. ASSUME NEW j \in JobId, executeWaitStep(j) PROVE Safe(k)
  <2>1. jobs[k] = "active" => jobs'[k] = "active"
    BY <1>4 DEF executeWaitStep, AddJob, TypeOK
  <2>. QED BY <1>4, <2>1 DEF executeWaitStep, Goto, At, Stepping, TypeOK, HandlerOK
<1>5. ASSUME NEW j \in JobId, LogCompletion(j) PROVE Safe(k)
  <2>1. pc' = [pc EXCEPT ![j] = IF todo'[j] = <<>> THEN "setCompleted" ELSE "nextSteps"]
    BY <1>5 DEF LogCompletion, Goto
  <2>2. \A i \in JobId \ {j} : todo'[i] = todo[i]
    BY <1>5 DEF LogCompletion, TypeOK
  <2>. QED BY <1>5, <2>1, <2>2 DEF LogCompletion, At, Stepping, TypeOK, HandlerOK
<1>6. ASSUME NEW j \in JobId, QueueNextStep(j) PROVE Safe(k)
  <2>1. jobs[k] = "active" => jobs'[k] = "active"
    BY <1>6 DEF QueueNextStep, AddJob, TypeOK
  <2>. QED BY <1>6, <2>1 DEF QueueNextStep, Goto, At, Stepping, TypeOK, HandlerOK
<1>7. ASSUME NEW j \in JobId, JobCompleted(j) \/ JobFailed(j) PROVE Safe(k)
  BY <1>7 DEF JobCompleted, JobFailed, Release, Stepping, TypeOK, HandlerOK
<1>8. ASSUME NEW c \in Callers, CallStart(c) \/ CallError(c) PROVE Safe(k)
  <2>. UNCHANGED <<pc, todo, jobs>>
    BY <1>8 DEF CallStart, CallError, TriggerWorkflow, PauseWorkflow, DeleteWorkflow,
       ActivateWorkflow, UpdateWorkflow, PauseExecution, ResumeExecution
  <2>. QED BY <1>0
<1>9. ASSUME NEW c \in Callers, CallStep(c) PROVE Safe(k)
  <2>1. UNCHANGED <<pc, todo>>
    BY <1>9 DEF CallStep, CreateExecution, StartWorkflowExecution, ListExecutions, ListJobs,
       RemoveJob, SetPaused, RequeueCurrentStep, SetRunning, DeleteRows
  <2>2. CASE StartWorkflowExecution(c) \/ RequeueCurrentStep(c)
    <3>. jobs'[k] = jobs[k] \/ jobs[k] # "active"
      BY <2>2 DEF StartWorkflowExecution, RequeueCurrentStep, AddJob, TypeOK
    <3>. QED BY <2>1, <1>0
  <2>3. CASE RemoveJob(c)
    <3>. jobs'[k] = jobs[k] \/ jobs[k] # "active"
      BY <2>3 DEF RemoveJob, TypeOK
    <3>. QED BY <2>1, <1>0
  <2>4. CASE \/ CreateExecution(c) \/ ListExecutions(c) \/ ListJobs(c) \/ SetPaused(c)
             \/ SetRunning(c) \/ DeleteRows(c)
    <3>. UNCHANGED jobs
      BY <2>4 DEF CreateExecution, ListExecutions, ListJobs, SetPaused, SetRunning, DeleteRows
    <3>. QED BY <2>1, <1>0
  <2>. QED BY <1>9, <2>2, <2>3, <2>4 DEF CallStep
<1>10. CASE Crash
  BY <1>10 DEF Crash, Stepping
<1>11. CASE UNCHANGED vars
  BY <1>11, <1>0 DEF vars
<1>. QED
  BY <1>1, <1>2, <1>3, <1>4, <1>5, <1>6, <1>7, <1>8, <1>9, <1>10, <1>11
  DEF Next, Handler

LEMMA InitTyped == Init => TypeOK /\ HandlerOK
  BY Defaults, EngineAssumption
     DEF Init, TypeOK, HandlerOK, Stepping, ExecStatus, StepOrNone, EntryKind, JobState,
         HandlerPc, CallPc

(* Every variable keeps its type: no request, retry, crash or edit of the    *)
(* workflow takes the engine outside the states its code distinguishes, and  *)
(* a handler works on a step only when its job names a step of a workflow.   *)
THEOREM TypeCorrect == Spec => []TypeOK
<1>1. Spec => [](TypeOK /\ HandlerOK)
  BY InitTyped, TypeStep, HandlerStep, PTL DEF Spec
<1>. QED BY <1>1, PTL

-----------------------------------------------------------------------------
(* The log: what each step writes to it, and that it only grows.             *)

LEMMA AddedEntry ==
  ASSUME NEW e \in Execs, NEW s \in StepOrNone, NEW k \in EntryKind,
         log \in [Execs -> [StepOrNone -> [EntryKind -> Nat]]],
         addExecutionLogEntry(e, s, k)
  PROVE  /\ \A e2 \in Execs, s2 \in StepOrNone, k2 \in EntryKind :
              /\ log'[e2][s2][k2] >= log[e2][s2][k2]
              /\ log'[e2][s2][k2] # log[e2][s2][k2]
                   => e2 = e /\ s2 = s /\ k2 = k /\ RowExists(e)
         /\ RowExists(e) => log'[e][s][k] > 0
<1>1. CASE RowExists(e)
  <2>1. log' = [log EXCEPT ![e][s][k] = @ + 1]
    BY <1>1 DEF addExecutionLogEntry
  <2>2. log'[e][s][k] = log[e][s][k] + 1 /\ log[e][s][k] \in Nat
    BY <2>1
  <2>3. \A e2 \in Execs, s2 \in StepOrNone, k2 \in EntryKind :
          (e2 # e \/ s2 # s \/ k2 # k) => log'[e2][s2][k2] = log[e2][s2][k2]
    BY <2>1
  <2>4. \A e2 \in Execs, s2 \in StepOrNone, k2 \in EntryKind : log[e2][s2][k2] \in Nat
    OBVIOUS
  <2>. QED BY <1>1, <2>2, <2>3, <2>4
<1>2. CASE ~RowExists(e)
  <2>1. \A e2 \in Execs, s2 \in StepOrNone, k2 \in EntryKind : log[e2][s2][k2] \in Nat
    OBVIOUS
  <2>. QED BY <1>2, <2>1 DEF addExecutionLogEntry
<1>. QED BY <1>1, <1>2

(* The program counter from which a handler writes an entry of each kind.    *)
Writer == [k \in EntryKind |-> CASE k = "started" -> "logStart"
                                 [] k = "completed" -> "logCompletion"
                                 [] k = "failed" -> "logFailure"]

LEMMA LogStep ==
  ASSUME TypeOK, HandlerOK, [Next]_vars,
         NEW e \in Execs, NEW s \in StepOrNone, NEW k \in EntryKind
  PROVE  /\ log'[e][s][k] >= log[e][s][k]
         /\ log'[e][s][k] # log[e][s][k] =>
              \E j \in JobId : ExecOf(j) = e /\ StepOf(j) = s /\ RowExists(e)
                              /\ At(j, Writer[k])
<1> DEFINE Goal == /\ log'[e][s][k] >= log[e][s][k]
                   /\ log'[e][s][k] # log[e][s][k] =>
                        \E j \in JobId : /\ ExecOf(j) = e /\ StepOf(j) = s
                                         /\ RowExists(e) /\ At(j, Writer[k])
<1> USE DEF rowVars, queueVars, workVars, callVars, boundVars
<1>0. ASSUME UNCHANGED log PROVE Goal
  BY <1>0 DEF TypeOK
<1>w. ASSUME NEW j \in JobId, NEW k2 \in EntryKind, At(j, Writer[k2]),
             addExecutionLogEntry(ExecOf(j), StepOf(j), k2)
      PROVE  Goal
  <2>1. /\ ExecOf(j) \in Execs /\ StepOf(j) \in StepOrNone
        /\ log \in [Execs -> [StepOrNone -> [EntryKind -> Nat]]]
    BY JobIds DEF TypeOK
  <2>2. \A e2 \in Execs, s2 \in StepOrNone, k3 \in EntryKind :
          /\ log'[e2][s2][k3] >= log[e2][s2][k3]
          /\ log'[e2][s2][k3] # log[e2][s2][k3]
               => e2 = ExecOf(j) /\ s2 = StepOf(j) /\ k3 = k2 /\ RowExists(ExecOf(j))
    BY ONLY <1>w, <2>1, AddedEntry
  <2>. QED BY <1>w, <2>2
<1>k. Writer["started"] = "logStart" /\ Writer["completed"] = "logCompletion"
      /\ Writer["failed"] = "logFailure"
  BY DEF Writer, EntryKind
<1>1. ASSUME NEW j \in JobId, LogStart(j) PROVE Goal
  BY <1>1, <1>w, <1>k DEF LogStart, EntryKind
<1>2. ASSUME NEW j \in JobId, LogCompletion(j) PROVE Goal
  BY <1>2, <1>w, <1>k DEF LogCompletion, EntryKind
<1>3. ASSUME NEW j \in JobId, LogFailure(j) PROVE Goal
  BY <1>3, <1>w, <1>k DEF LogFailure, EntryKind
<1>4. ASSUME NEW j \in JobId,
             \/ DelayElapsed(j) \/ TakeJob(j) \/ FindExecution(j) \/ FindWorkflow(j)
             \/ SetCurrentStep(j) \/ executeHttpStep(j) \/ executeWebhookStep(j)
             \/ executeConditionStep(j) \/ executeWaitStep(j) \/ SetCompleted(j)
             \/ QueueNextStep(j) \/ JobCompleted(j) \/ SetFailed(j) \/ JobFailed(j)
             \/ HandlerError(j) \/ Evict(j)
      PROVE  Goal
  <2>. UNCHANGED log
    BY <1>4 DEF DelayElapsed, TakeJob, FindExecution, FindWorkflow, SetCurrentStep,
       executeHttpStep, executeWebhookStep, executeConditionStep, executeWaitStep,
       SetCompleted, QueueNextStep, JobCompleted, SetFailed, JobFailed, HandlerError, Evict
  <2>. QED BY <1>0
<1>5. ASSUME NEW c \in Callers, CallStart(c) \/ CallStep(c) \/ CallError(c) PROVE Goal
  <2>. UNCHANGED log
    BY <1>5 DEF CallStart, CallStep, CallError, TriggerWorkflow, PauseWorkflow,
       DeleteWorkflow, ActivateWorkflow, UpdateWorkflow, PauseExecution, ResumeExecution,
       CreateExecution, StartWorkflowExecution, ListExecutions, ListJobs, RemoveJob,
       SetPaused, RequeueCurrentStep, SetRunning, DeleteRows
  <2>. QED BY <1>0
<1>6. CASE Crash \/ UNCHANGED vars
  BY <1>6, <1>0 DEF Crash, vars
<1>. QED BY <1>1, <1>2, <1>3, <1>4, <1>5, <1>6 DEF Next, Handler

(* What has been started or reached stays so.                                *)
LEMMA ReachedGrows ==
  ASSUME TypeOK, HandlerOK, [Next]_vars, NEW e \in Execs, NEW s \in Steps
  PROVE  /\ Started(e, s) => Started(e, s)'
         /\ Reached(e, s) => Reached(e, s)'
<1>1. ASSUME NEW p \in Steps, Started(e, p) PROVE Started(e, p)'
  <2>1. p \in StepOrNone /\ "started" \in EntryKind
    BY DEF StepOrNone, EntryKind
  <2>2. log'[e][p]["started"] >= log[e][p]["started"] /\ log[e][p]["started"] \in Nat
    BY <2>1, LogStep DEF TypeOK
  <2>3. log' \in [Execs -> [StepOrNone -> [EntryKind -> Nat]]]
    BY TypeStep DEF TypeOK
  <2>4. log'[e][p]["started"] \in Nat
    BY <2>1, <2>3
  <2>. QED BY <1>1, <2>2, <2>4 DEF Started
<1>. QED BY <1>1 DEF Reached, Entry, Edge

(* The status of an execution: deletion is final, and only a handler that is *)
(* in the right place ends an execution.                                     *)
LEMMA StatusStep ==
  ASSUME TypeOK, [Next]_vars, NEW e \in Execs
  PROVE  /\ status[e] = "deleted" => status'[e] = "deleted"
         /\ status[e] # "none" => status'[e] # "none"
         /\ status'[e] = "failed" /\ status[e] # "failed" =>
              \E j \in JobId : ExecOf(j) = e /\ At(j, "setFailed") /\ RowExists(e)
         /\ status'[e] = "completed" /\ status[e] # "completed" =>
              \E j \in JobId : ExecOf(j) = e /\ At(j, "setCompleted") /\ RowExists(e)
<1> DEFINE Goal ==
      /\ status[e] = "deleted" => status'[e] = "deleted"
      /\ status[e] # "none" => status'[e] # "none"
      /\ status'[e] = "failed" /\ status[e] # "failed" =>
           \E j \in JobId : ExecOf(j) = e /\ At(j, "setFailed") /\ RowExists(e)
      /\ status'[e] = "completed" /\ status[e] # "completed" =>
           \E j \in JobId : ExecOf(j) = e /\ At(j, "setCompleted") /\ RowExists(e)
<1> USE DEF rowVars, queueVars, workVars, callVars, boundVars
<1>0. ASSUME UNCHANGED status PROVE Goal
  BY <1>0
<1>1. ASSUME NEW j \in JobId, SetCompleted(j) \/ SetFailed(j) PROVE Goal
  BY <1>1, JobIds DEF SetCompleted, SetFailed, updateStatus, RowExists, TypeOK
<1>2. ASSUME NEW c \in Callers, CreateExecution(c) \/ SetPaused(c) \/ SetRunning(c)
                                \/ DeleteRows(c)
      PROVE  Goal
  BY <1>2 DEF CreateExecution, SetPaused, SetRunning, DeleteRows, updateStatus, RowExists,
     TypeOK
<1>3. ASSUME NEW j \in JobId,
             \/ DelayElapsed(j) \/ TakeJob(j) \/ FindExecution(j) \/ FindWorkflow(j)
             \/ LogStart(j) \/ SetCurrentStep(j) \/ executeHttpStep(j)
             \/ executeWebhookStep(j) \/ executeConditionStep(j) \/ executeWaitStep(j)
             \/ LogCompletion(j) \/ QueueNextStep(j) \/ JobCompleted(j) \/ LogFailure(j)
             \/ JobFailed(j) \/ HandlerError(j) \/ Evict(j)
      PROVE  Goal
  <2>. UNCHANGED status
    BY <1>3 DEF DelayElapsed, TakeJob, FindExecution, FindWorkflow, LogStart,
       SetCurrentStep, executeHttpStep, executeWebhookStep, executeConditionStep,
       executeWaitStep, LogCompletion, QueueNextStep, JobCompleted, LogFailure, JobFailed,
       HandlerError, Evict
  <2>. QED BY <1>0
<1>4. ASSUME NEW c \in Callers,
             \/ CallStart(c) \/ StartWorkflowExecution(c) \/ ListExecutions(c)
             \/ ListJobs(c) \/ RemoveJob(c) \/ RequeueCurrentStep(c) \/ CallError(c)
      PROVE  Goal
  <2>. UNCHANGED status
    BY <1>4 DEF CallStart, CallError, TriggerWorkflow, PauseWorkflow, DeleteWorkflow,
       ActivateWorkflow, UpdateWorkflow, PauseExecution, ResumeExecution,
       StartWorkflowExecution, ListExecutions, ListJobs, RemoveJob, RequeueCurrentStep
  <2>. QED BY <1>0
<1>5. CASE Crash \/ UNCHANGED vars
  BY <1>5, <1>0 DEF Crash, vars
<1>. QED BY <1>1, <1>2, <1>3, <1>4, <1>5 DEF Next, Handler, CallStep

(* A job appears for one of three reasons: a step hands over to its next     *)
(* ones, a trigger queues the first step, a resume the current one.          *)
LEMMA NewJob ==
  ASSUME TypeOK, HandlerOK, [Next]_vars, NEW k \in JobId, jobs[k] = "none", jobs'[k] # "none"
  PROVE  \/ \E j \in JobId : /\ At(j, "execute") \/ At(j, "nextSteps")
                             /\ todo[j] # <<>>
                             /\ ExecOf(k) = ExecOf(j) /\ StepOf(k) = Head(todo[j])
         \/ \E c \in Callers : /\ CallAt(c, "start") /\ ExecOf(k) = callExec[c]
                               /\ IsFirstStep(callDef[c], StepOf(k))
         \/ \E c \in Callers : /\ CallAt(c, "requeue") /\ ExecOf(k) = callExec[c]
                               /\ StepOf(k) = callStep[c]
<1> USE DEF rowVars, queueVars, workVars, callVars, boundVars
<1>0. ASSUME NEW x, NEW st, AddJob(x, st) PROVE k = x
  BY <1>0 DEF AddJob, TypeOK
<1>1. ASSUME NEW j \in JobId, executeWaitStep(j)
      PROVE  /\ At(j, "execute") /\ todo[j] # <<>>
             /\ ExecOf(k) = ExecOf(j) /\ StepOf(k) = Head(todo[j])
  <2>1. todo[j] # <<>> /\ At(j, "execute")
    BY <1>1 DEF executeWaitStep
  <2>2. k = <<ExecOf(j), Head(todo[j]), timers + 1>>
    BY <1>1, <2>1, <1>0 DEF executeWaitStep
  <2>. QED BY <2>1, <2>2 DEF ExecOf, StepOf
<1>2. ASSUME NEW j \in JobId, QueueNextStep(j)
      PROVE  /\ At(j, "nextSteps") /\ todo[j] # <<>>
             /\ ExecOf(k) = ExecOf(j) /\ StepOf(k) = Head(todo[j])
  <2>1. k = jobIdOf(ExecOf(j), Head(todo[j]))
    BY <1>2, <1>0 DEF QueueNextStep
  <2>. QED BY <1>2, <2>1 DEF QueueNextStep, jobIdOf, ExecOf, StepOf, At, HandlerOK
<1>3. ASSUME NEW c \in Callers, StartWorkflowExecution(c)
      PROVE  /\ CallAt(c, "start") /\ ExecOf(k) = callExec[c]
             /\ IsFirstStep(callDef[c], StepOf(k))
  <2>1. PICK s \in Steps : /\ IsFirstStep(callDef[c], s)
                           /\ AddJob(jobIdOf(callExec[c], s), "waiting")
    BY <1>3 DEF StartWorkflowExecution
  <2>2. k = jobIdOf(callExec[c], s)
    BY <2>1, <1>0
  <2>. QED BY <1>3, <2>1, <2>2 DEF StartWorkflowExecution, jobIdOf, ExecOf, StepOf
<1>4. ASSUME NEW c \in Callers, RequeueCurrentStep(c)
      PROVE  /\ CallAt(c, "requeue") /\ ExecOf(k) = callExec[c]
             /\ StepOf(k) = callStep[c]
  <2>1. k = jobIdOf(callExec[c], callStep[c])
    BY <1>4, <1>0 DEF RequeueCurrentStep
  <2>. QED BY <1>4, <2>1 DEF RequeueCurrentStep, jobIdOf, ExecOf, StepOf
<1>5. ASSUME NEW j \in JobId,
             \/ DelayElapsed(j) \/ TakeJob(j) \/ JobCompleted(j) \/ JobFailed(j) \/ Evict(j)
      PROVE  FALSE
  BY <1>5 DEF DelayElapsed, TakeJob, JobCompleted, JobFailed, Evict, At, TypeOK
<1>6. ASSUME NEW j \in JobId,
             \/ FindExecution(j) \/ FindWorkflow(j) \/ LogStart(j) \/ SetCurrentStep(j)
             \/ executeHttpStep(j) \/ executeWebhookStep(j) \/ executeConditionStep(j)
             \/ LogCompletion(j) \/ SetCompleted(j) \/ LogFailure(j) \/ SetFailed(j)
             \/ HandlerError(j)
      PROVE  FALSE
  BY <1>6 DEF FindExecution, FindWorkflow, LogStart, SetCurrentStep, executeHttpStep,
     executeWebhookStep, executeConditionStep, LogCompletion, SetCompleted, LogFailure,
     SetFailed, HandlerError
<1>7. ASSUME NEW c \in Callers, CallStart(c) \/ CallError(c) PROVE FALSE
  BY <1>7 DEF CallStart, CallError, TriggerWorkflow, PauseWorkflow, DeleteWorkflow,
     ActivateWorkflow, UpdateWorkflow, PauseExecution, ResumeExecution
<1>8. ASSUME NEW c \in Callers,
             \/ CreateExecution(c) \/ ListExecutions(c) \/ ListJobs(c) \/ SetPaused(c)
             \/ SetRunning(c) \/ DeleteRows(c)
      PROVE  FALSE
  BY <1>8 DEF CreateExecution, ListExecutions, ListJobs, SetPaused, SetRunning, DeleteRows
<1>9. ASSUME NEW c \in Callers, RemoveJob(c) PROVE FALSE
  BY <1>9 DEF RemoveJob, TypeOK
<1>10. CASE Crash \/ UNCHANGED vars
  BY <1>10 DEF Crash, vars, TypeOK
<1>. QED
  BY <1>1, <1>2, <1>3, <1>4, <1>5, <1>6, <1>7, <1>8, <1>9, <1>10
  DEF Next, Handler, CallStep

-----------------------------------------------------------------------------
(* OnlyReachedSteps: the four parts of its inductive invariant, each from    *)
(* the whole.                                                                *)

LEMMA FirstStepIsEntry ==
  ASSUME NEW d \in Defs, NEW s, IsFirstStep(d, s)
  PROVE  Entry(s)
  BY DEF Entry

IsNext(d, s, t) == \E n \in DOMAIN d.next[s] : d.next[s][n] = t

(* A step hands over to next steps of its own.                               *)
LEMMA NextStepsAmong ==
  ASSUME NEW d \in Defs, NEW s \in Steps, NEW met \in BOOLEAN,
         NEW i \in DOMAIN nextStepIds(d, s, met)
  PROVE  IsNext(d, s, nextStepIds(d, s, met)[i])
<1> DEFINE next == d.next[s]
<1>1. next \in Seq(Steps)
  BY Definitions
<1>2. ASSUME NEW n \in DOMAIN next PROVE IsNext(d, s, next[n])
  BY DEF IsNext
<1>3. CASE d.type[s] # "condition"
  BY <1>2, <1>3 DEF nextStepIds
<1>4. CASE d.type[s] = "condition" /\ met /\ Len(next) > 0
  <2>1. nextStepIds(d, s, met) = <<next[1]>> /\ 1 \in DOMAIN next
    BY <1>1, <1>4 DEF nextStepIds
  <2>. QED BY <1>2, <2>1
<1>5. CASE d.type[s] = "condition" /\ ~met /\ Len(next) > 1
  <2>1. nextStepIds(d, s, met) = <<next[2]>> /\ 2 \in DOMAIN next
    BY <1>1, <1>5 DEF nextStepIds
  <2>. QED BY <1>2, <2>1
<1>6. CASE d.type[s] = "condition" /\ ~(met /\ Len(next) > 0) /\ ~(~met /\ Len(next) > 1)
  BY <1>6 DEF nextStepIds
<1>. QED BY <1>3, <1>4, <1>5, <1>6

LEMMA NextStepIsEdge ==
  ASSUME NEW d \in Defs, NEW s \in Steps, NEW met \in BOOLEAN,
         NEW i \in DOMAIN nextStepIds(d, s, met)
  PROVE  Edge(s, nextStepIds(d, s, met)[i])
  BY NextStepsAmong DEF IsNext, Edge

LEMMA JobsStep ==
  ASSUME TypeOK, HandlerOK, ReachInv, [Next]_vars
  PROVE  JobsReached'
<1> DEFINE Good(k) ==
      /\ status'[ExecOf(k)] # "none"
      /\ status'[ExecOf(k)] # "deleted" /\ StepOf(k) \in Steps
           => Reached(ExecOf(k), StepOf(k))'
<1> SUFFICES ASSUME NEW k \in JobId, jobs'[k] # "none" PROVE Good(k)
  BY DEF JobsReached, Alive, ExecOf, StepOf
<1>1. ExecOf(k) \in Execs
  BY JobIds
<1>2. /\ status[ExecOf(k)] = "deleted" => status'[ExecOf(k)] = "deleted"
      /\ status[ExecOf(k)] # "none" => status'[ExecOf(k)] # "none"
  BY <1>1, StatusStep
<1>3. ASSUME status[ExecOf(k)] # "none",
             status[ExecOf(k)] # "deleted" /\ StepOf(k) \in Steps
               => Reached(ExecOf(k), StepOf(k))
      PROVE  Good(k)
  BY <1>1, <1>2, <1>3, ReachedGrows
<1>4. CASE jobs[k] # "none"
  BY <1>3, <1>4 DEF ReachInv, JobsReached, Alive
<1>5. CASE jobs[k] = "none"
  <2>1. ASSUME NEW j \in JobId, At(j, "execute") \/ At(j, "nextSteps"), todo[j] # <<>>,
               ExecOf(k) = ExecOf(j), StepOf(k) = Head(todo[j])
        PROVE  Good(k)
    <3>1. jobs[j] # "none" /\ pc[j] \in Stepping \ {"logStart"}
      BY <2>1 DEF At, Stepping
    <3>2. StepOf(j) \in Steps /\ Edge(StepOf(j), StepOf(k))
      <4>. 1 \in DOMAIN todo[j] /\ todo[j][1] = StepOf(k)
        BY <2>1 DEF TypeOK
      <4>. QED BY DEF ReachInv, HandlersStarted
    <3>3. status[ExecOf(k)] # "deleted" => Started(ExecOf(k), StepOf(j))
      BY <2>1, <3>1 DEF ReachInv, HandlersStarted, Alive
    <3>4. status[ExecOf(k)] # "none"
      BY <2>1, <3>1 DEF ReachInv, JobsReached
    <3>. QED BY <1>3, <3>2, <3>3, <3>4 DEF Reached
  <2>2. ASSUME NEW c \in Callers, CallAt(c, "start"), ExecOf(k) = callExec[c],
               IsFirstStep(callDef[c], StepOf(k))
        PROVE  Good(k)
    <3>1. Entry(StepOf(k))
      BY <2>2, FirstStepIsEntry DEF TypeOK
    <3>2. status[ExecOf(k)] # "none"
      BY <2>2 DEF ReachInv, PointersReached, CallAt
    <3>. QED BY <1>3, <3>1, <3>2 DEF Reached
  <2>3. ASSUME NEW c \in Callers, CallAt(c, "requeue"), ExecOf(k) = callExec[c],
               StepOf(k) = callStep[c]
        PROVE  Good(k)
    BY <1>3, <2>3 DEF ReachInv, PointersReached, CallAt
  <2>. QED BY <1>5, <2>1, <2>2, <2>3, NewJob
<1>. QED BY <1>4, <1>5

LEMMA OnlyStep ==
  ASSUME TypeOK, HandlerOK, ReachInv, [Next]_vars
  PROVE  OnlyReachedSteps'
<1> SUFFICES ASSUME NEW e \in Execs, NEW s \in Steps, Started(e, s)' PROVE Reached(e, s)'
  BY DEF OnlyReachedSteps
<1>1. CASE Started(e, s)
  BY <1>1, ReachedGrows DEF ReachInv, OnlyReachedSteps
<1>2. CASE ~Started(e, s)
  <2>1. s \in StepOrNone /\ "started" \in EntryKind /\ Writer["started"] = "logStart"
    BY DEF StepOrNone, EntryKind, Writer
  <2>2. log'[e][s]["started"] # log[e][s]["started"]
    BY <1>2 DEF Started
  <2>3. PICK j \in JobId : /\ ExecOf(j) = e /\ StepOf(j) = s
                           /\ RowExists(e) /\ At(j, "logStart")
    BY <2>1, <2>2, LogStep
  <2>4. Reached(e, s)
    BY <2>3 DEF ReachInv, JobsReached, Alive, RowExists, At
  <2>. QED BY <2>4, ReachedGrows
<1>. QED BY <1>1, <1>2

LEMMA HandlersStep ==
  ASSUME TypeOK, HandlerOK, ReachInv, [Next]_vars
  PROVE  HandlersStarted'
<1> DEFINE Past == Stepping \ {"logStart"}
           Good(k) ==
             /\ pc'[k] \in Past /\ status'[ExecOf(k)] # "deleted"
                  => Started(ExecOf(k), StepOf(k))'
             /\ \A i \in DOMAIN todo'[k] :
                  StepOf(k) \in Steps /\ Edge(StepOf(k), todo'[k][i])
<1> SUFFICES ASSUME NEW k \in JobId PROVE Good(k)
  BY DEF HandlersStarted, Alive, ExecOf, StepOf, Stepping, Edge
<1> USE DEF rowVars, queueVars, workVars, callVars, boundVars
<1>e. /\ ExecOf(k) \in Execs
      /\ status[ExecOf(k)] = "deleted" => status'[ExecOf(k)] = "deleted"
      /\ pc[k] \in Past /\ status[ExecOf(k)] # "deleted" => Started(ExecOf(k), StepOf(k))
      /\ \A i \in DOMAIN todo[k] : StepOf(k) \in Steps /\ Edge(StepOf(k), todo[k][i])
  BY JobIds, StatusStep DEF ReachInv, HandlersStarted, Alive
<1>s. pc[k] \in Stepping => StepOf(k) \in Steps
  BY DEF HandlerOK
<1>g. StepOf(k) \in Steps /\ Started(ExecOf(k), StepOf(k)) => Started(ExecOf(k), StepOf(k))'
  BY <1>e, ReachedGrows
<1>p. ASSUME pc'[k] \in Past => pc[k] \in Past
      PROVE  pc'[k] \in Past /\ status'[ExecOf(k)] # "deleted"
               => Started(ExecOf(k), StepOf(k))'
  BY <1>p, <1>e, <1>s, <1>g
<1>0. ASSUME pc'[k] \in Past => pc[k] \in Past, todo'[k] = todo[k] \/ todo'[k] = <<>>
      PROVE  Good(k)
  BY <1>0, <1>p, <1>e
<1>t. ASSUME todo[k] # <<>>, todo'[k] = Tail(todo[k]), pc'[k] \in Past => pc[k] \in Past
      PROVE  Good(k)
  <2>1. todo[k] \in Seq(Steps)
    BY DEF TypeOK
  <2>2. \A i \in DOMAIN todo'[k] : i + 1 \in DOMAIN todo[k] /\ todo'[k][i] = todo[k][i + 1]
    BY <1>t, <2>1
  <2>. QED BY <1>t, <1>p, <1>e, <2>2
<1>1. ASSUME NEW j \in JobId,
             \/ DelayElapsed(j) \/ TakeJob(j) \/ FindExecution(j) \/ SetCurrentStep(j)
             \/ executeHttpStep(j) \/ executeWebhookStep(j) \/ executeConditionStep(j)
             \/ SetCompleted(j) \/ JobCompleted(j) \/ LogFailure(j) \/ SetFailed(j)
             \/ JobFailed(j) \/ HandlerError(j) \/ Evict(j)
      PROVE  Good(k)
  <2>1. pc'[k] \in Past => pc[k] \in Past
    BY <1>1 DEF DelayElapsed, TakeJob, FindExecution, SetCurrentStep, executeHttpStep,
       executeWebhookStep, executeConditionStep, SetCompleted, JobCompleted, LogFailure,
       SetFailed, JobFailed, HandlerError, Evict, Goto, Release, At, Stepping, TypeOK
  <2>2. todo'[k] = todo[k] \/ todo'[k] = <<>>
    BY <1>1 DEF DelayElapsed, TakeJob, FindExecution, SetCurrentStep, executeHttpStep,
       executeWebhookStep, executeConditionStep, SetCompleted, JobCompleted, LogFailure,
       SetFailed, JobFailed, HandlerError, Evict, Release, TypeOK
  <2>. QED BY <2>1, <2>2, <1>0
<1>2. ASSUME NEW j \in JobId, FindWorkflow(j) PROVE Good(k)
  <2>1. pc'[k] \in Past => pc[k] \in Past
    BY <1>2 DEF FindWorkflow, Goto, Stepping, TypeOK
  <2>2. CASE k = j /\ todo'[j] = def.next[StepOf(j)] /\ StepOf(j) \in StepIds(def)
    <3>1. StepOf(k) \in Steps /\ def \in Defs
      BY <2>2, Definitions DEF TypeOK
    <3>2. \A i \in DOMAIN todo'[k] : Edge(StepOf(k), todo'[k][i])
      BY <2>2, <3>1 DEF Edge
    <3>. QED BY <2>1, <3>1, <3>2, <1>p
  <2>3. CASE ~(k = j /\ todo'[j] = def.next[StepOf(j)] /\ StepOf(j) \in StepIds(def))
    <3>. todo'[k] = todo[k]
      BY <1>2, <2>3 DEF FindWorkflow, TypeOK
    <3>. QED BY <2>1, <1>0
  <2>. QED BY <2>2, <2>3
<1>3. ASSUME NEW j \in JobId, LogStart(j) PROVE Good(k)
  <2>1. UNCHANGED todo /\ (k # j => pc'[k] = pc[k])
    BY <1>3 DEF LogStart, Goto, TypeOK
  <2>2. CASE k # j
    BY <2>1, <2>2, <1>0
  <2>3. CASE k = j
    <3>1. StepOf(k) \in Steps /\ StepOf(k) \in StepOrNone /\ "started" \in EntryKind
      BY <1>3, <2>3 DEF LogStart, At, HandlerOK, Stepping, StepOrNone, EntryKind
    <3>2. status[ExecOf(k)] # "none" /\ UNCHANGED status
      BY <1>3, <2>3 DEF LogStart, At, ReachInv, JobsReached
    <3>3. RowExists(ExecOf(k)) => log'[ExecOf(k)][StepOf(k)]["started"] > 0
      BY <1>3, <2>3, <1>e, <3>1, AddedEntry DEF LogStart, TypeOK
    <3>4. status'[ExecOf(k)] # "deleted" => Started(ExecOf(k), StepOf(k))'
      BY <3>2, <3>3 DEF RowExists, Started
    <3>. QED BY <2>1, <3>4, <1>e
  <2>. QED BY <2>2, <2>3
<1>4. ASSUME NEW j \in JobId, executeWaitStep(j) PROVE Good(k)
  <2>1. pc'[k] \in Past => pc[k] \in Past
    BY <1>4 DEF executeWaitStep, Goto, At, Stepping, TypeOK
  <2>2. todo'[k] = todo[k] \/ (todo[k] # <<>> /\ todo'[k] = Tail(todo[k]))
    BY <1>4 DEF executeWaitStep, TypeOK
  <2>. QED BY <2>1, <2>2, <1>0, <1>t
<1>5. ASSUME NEW j \in JobId, LogCompletion(j) PROVE Good(k)
  <2>1. pc'[k] \in Past => pc[k] \in Past
    BY <1>5 DEF LogCompletion, Goto, At, Stepping, TypeOK
  <2>2. CASE k # j
    <3>. todo'[k] = todo[k]
      BY <1>5, <2>2 DEF LogCompletion, TypeOK
    <3>. QED BY <2>1, <1>0
  <2>3. CASE k = j
    <3>1. StepOf(k) \in Steps /\ jobDef[k] \in Defs /\ branch[k] \in BOOLEAN
      BY <1>5, <2>3 DEF LogCompletion, At, HandlerOK, Stepping, TypeOK
    <3>2. todo'[k] = nextStepIds(jobDef[k], StepOf(k), branch[k])
      BY <1>5, <2>3 DEF LogCompletion, TypeOK
    <3>3. \A i \in DOMAIN todo'[k] : Edge(StepOf(k), todo'[k][i])
      BY <3>1, <3>2, NextStepIsEdge
    <3>. QED BY <2>1, <3>1, <3>3, <1>p
  <2>. QED BY <2>2, <2>3
<1>6. ASSUME NEW j \in JobId, QueueNextStep(j) PROVE Good(k)
  <2>1. pc'[k] \in Past => pc[k] \in Past
    BY <1>6 DEF QueueNextStep, Goto, At, Stepping, TypeOK
  <2>2. todo'[k] = todo[k] \/ (todo[k] # <<>> /\ todo'[k] = Tail(todo[k]))
    BY <1>6 DEF QueueNextStep, At, HandlerOK, TypeOK
  <2>. QED BY <2>1, <2>2, <1>0, <1>t
<1>7. ASSUME NEW c \in Callers, CallStart(c) \/ CallStep(c) \/ CallError(c) PROVE Good(k)
  <2>. UNCHANGED <<pc, todo>>
    BY <1>7 DEF CallStart, CallStep, CallError, TriggerWorkflow, PauseWorkflow,
       DeleteWorkflow, ActivateWorkflow, UpdateWorkflow, PauseExecution, ResumeExecution,
       CreateExecution, StartWorkflowExecution, ListExecutions, ListJobs, RemoveJob,
       SetPaused, RequeueCurrentStep, SetRunning, DeleteRows
  <2>. QED BY <1>0
<1>8. CASE Crash
  <2>. pc'[k] \notin Past /\ todo'[k] = <<>>
    BY <1>8 DEF Crash, Stepping
  <2>. QED BY <1>0
<1>9. CASE UNCHANGED vars
  BY <1>9, <1>0 DEF vars
<1>. QED
  BY <1>1, <1>2, <1>3, <1>4, <1>5, <1>6, <1>7, <1>8, <1>9 DEF Next, Handler

LEMMA PointersStep ==
  ASSUME TypeOK, HandlerOK, ReachInv, [Next]_vars
  PROVE  PointersReached'
<1> USE DEF rowVars, queueVars, workVars, callVars, boundVars
<1>1. ASSUME NEW e \in Execs, currentStep'[e] \in Steps PROVE Reached(e, currentStep[e])'
  <2>0. ASSUME UNCHANGED currentStep PROVE Reached(e, currentStep[e])'
    <3>. currentStep[e] \in Steps /\ Reached(e, currentStep[e])
      BY <1>1, <2>0 DEF ReachInv, PointersReached
    <3>. QED BY <2>0, ReachedGrows DEF Reached
  <2>1. ASSUME NEW j \in JobId, SetCurrentStep(j) PROVE Reached(e, currentStep[e])'
    <3>1. CASE currentStep'[e] = currentStep[e]
      <4>. currentStep[e] \in Steps /\ Reached(e, currentStep[e])
        BY <1>1, <3>1 DEF ReachInv, PointersReached
      <4>. QED BY <3>1, ReachedGrows DEF Reached
    <3>2. CASE currentStep'[e] # currentStep[e]
      <4>1. ExecOf(j) = e /\ RowExists(e) /\ currentStep'[e] = StepOf(j)
        BY <2>1, <3>2, JobIds DEF SetCurrentStep, TypeOK
      <4>2. StepOf(j) \in Steps /\ Reached(e, StepOf(j))
        BY <1>1, <2>1, <4>1 DEF SetCurrentStep, At, RowExists, ReachInv, JobsReached, Alive
      <4>. QED BY <4>1, <4>2, ReachedGrows DEF Reached
    <3>. QED BY <3>1, <3>2
  <2>2. ASSUME NEW j \in JobId,
               \/ DelayElapsed(j) \/ TakeJob(j) \/ FindExecution(j) \/ FindWorkflow(j)
               \/ LogStart(j) \/ executeHttpStep(j) \/ executeWebhookStep(j)
               \/ executeConditionStep(j) \/ executeWaitStep(j) \/ LogCompletion(j)
               \/ SetCompleted(j) \/ QueueNextStep(j) \/ JobCompleted(j) \/ LogFailure(j)
               \/ SetFailed(j) \/ JobFailed(j) \/ HandlerError(j) \/ Evict(j)
        PROVE  UNCHANGED currentStep
    BY <2>2 DEF DelayElapsed, TakeJob, FindExecution, FindWorkflow, LogStart,
       executeHttpStep, executeWebhookStep, executeConditionStep, executeWaitStep,
       LogCompletion, SetCompleted, QueueNextStep, JobCompleted, LogFailure, SetFailed,
       JobFailed, HandlerError, Evict
  <2>3. ASSUME NEW c \in Callers, CallStart(c) \/ CallStep(c) \/ CallError(c)
        PROVE  UNCHANGED currentStep
    BY <2>3 DEF CallStart, CallStep, CallError, TriggerWorkflow, PauseWorkflow,
       DeleteWorkflow, ActivateWorkflow, UpdateWorkflow, PauseExecution, ResumeExecution,
       CreateExecution, StartWorkflowExecution, ListExecutions, ListJobs, RemoveJob,
       SetPaused, RequeueCurrentStep, SetRunning, DeleteRows
  <2>4. CASE Crash \/ UNCHANGED vars
    BY <2>4, <2>0 DEF Crash, vars
  <2>. QED BY <2>0, <2>1, <2>2, <2>3, <2>4 DEF Next, Handler
<1>2. ASSUME NEW c \in Callers
      PROVE  /\ callPc'[c] \in {"start", "requeue"} => status'[callExec'[c]] # "none"
             /\ callPc'[c] = "requeue" /\ callStep'[c] \in Steps
                  => Reached(callExec[c], callStep[c])'
  <2> DEFINE Good == /\ callPc'[c] \in {"start", "requeue"} => status'[callExec'[c]] # "none"
                     /\ callPc'[c] = "requeue" /\ callStep'[c] \in Steps
                          => Reached(callExec[c], callStep[c])'
  <2>0. ASSUME callPc'[c] = callPc[c], callExec'[c] = callExec[c], callStep'[c] = callStep[c]
        PROVE  Good
    <3>1. callExec[c] \in Execs
      BY DEF TypeOK
    <3>2. callPc[c] \in {"start", "requeue"} => status'[callExec[c]] # "none"
      BY <3>1, StatusStep DEF ReachInv, PointersReached
    <3>3. ASSUME callPc[c] = "requeue", callStep[c] \in Steps
          PROVE  Reached(callExec[c], callStep[c])'
      <4>1. Reached(callExec[c], callStep[c])
        BY <3>3 DEF ReachInv, PointersReached
      <4>. QED BY <2>0, <3>1, <3>3, <4>1, ReachedGrows DEF Reached
    <3>. QED BY <2>0, <3>2, <3>3
  <2>i. ASSUME callPc'[c] \notin {"start", "requeue"} PROVE Good
    BY <2>i
  <2>1. ASSUME NEW j \in JobId, Handler(j) \/ HandlerError(j) \/ Evict(j) PROVE Good
    <3>. UNCHANGED callVars
      BY <2>1 DEF Handler, HandlerError, Evict, DelayElapsed, TakeJob, FindExecution,
         FindWorkflow, LogStart, SetCurrentStep, executeHttpStep, executeWebhookStep,
         executeConditionStep, executeWaitStep, LogCompletion, SetCompleted, QueueNextStep,
         JobCompleted, LogFailure, SetFailed, JobFailed
    <3>. QED BY <2>0
  <2>2. ASSUME NEW o \in Callers \ {c}, CallStart(o) \/ CallStep(o) \/ CallError(o) PROVE Good
    <3>. callPc'[c] = callPc[c] /\ callExec'[c] = callExec[c] /\ callStep'[c] = callStep[c]
      BY <2>2 DEF CallStart, CallStep, CallError, TriggerWorkflow, PauseWorkflow,
         DeleteWorkflow, ActivateWorkflow, UpdateWorkflow, PauseExecution, ResumeExecution,
         CreateExecution, StartWorkflowExecution, ListExecutions, ListJobs, RemoveJob,
         SetPaused, RequeueCurrentStep, SetRunning, DeleteRows, EndCall, NextExecution, TypeOK
    <3>. QED BY <2>0
  <2>3. CASE CreateExecution(c)
    <3>1. CASE EndCall(c)
      BY <3>1, <2>i DEF EndCall, TypeOK
    <3>2. CASE ~EndCall(c)
      <4>1. PICK e \in Execs : /\ status' = [status EXCEPT ![e] = "running"]
                               /\ callExec' = [callExec EXCEPT ![c] = e]
        BY <2>3, <3>2 DEF CreateExecution
      <4>2. callPc' = [callPc EXCEPT ![c] = "start"]
        BY <2>3, <3>2 DEF CreateExecution
      <4>. QED BY <4>1, <4>2 DEF TypeOK
    <3>. QED BY <3>1, <3>2
  <2>4. ASSUME NEW e \in Execs, ResumeExecution(c, e) PROVE Good
    <3>1. callExec'[c] = e /\ callStep'[c] = currentStep[e] /\ status'[e] = "paused"
      BY <2>4 DEF ResumeExecution, TypeOK
    <3>2. ASSUME callStep'[c] \in Steps PROVE Reached(callExec[c], callStep[c])'
      <4>1. Reached(e, currentStep[e])
        BY <3>1, <3>2 DEF ReachInv, PointersReached
      <4>. QED BY <3>1, <3>2, <4>1, ReachedGrows DEF Reached
    <3>. QED BY <3>1, <3>2
  <2>5. CASE \/ TriggerWorkflow(c) \/ PauseWorkflow(c) \/ DeleteWorkflow(c)
             \/ \E e \in Execs : PauseExecution(c, e)
    BY <2>5, <2>i DEF TriggerWorkflow, PauseWorkflow, DeleteWorkflow, PauseExecution, TypeOK
  <2>6. CASE ActivateWorkflow(c) \/ UpdateWorkflow(c)
    BY <2>6, <2>0 DEF ActivateWorkflow, UpdateWorkflow
  <2>7. CASE \/ StartWorkflowExecution(c) \/ SetRunning(c) \/ DeleteRows(c) \/ CallError(c)
    BY <2>7, <2>i DEF StartWorkflowExecution, SetRunning, DeleteRows, CallError, EndCall, TypeOK
  <2>8. CASE ListExecutions(c) \/ ListJobs(c) \/ SetPaused(c) \/ RequeueCurrentStep(c)
    BY <2>8, <2>i DEF ListExecutions, ListJobs, SetPaused, RequeueCurrentStep, NextExecution,
       EndCall, TypeOK
  <2>9. CASE RemoveJob(c)
    <3>. callPc'[c] = "removeJobs" \/ callPc'[c] = "idle"
      BY <2>9 DEF RemoveJob, CallAt, EndCall, TypeOK
    <3>. QED BY <2>i
  <2>10. CASE Crash
    BY <2>10, <2>i DEF Crash
  <2>11. CASE UNCHANGED vars
    BY <2>11, <2>0 DEF vars
  <2>. QED
    BY <2>1, <2>2, <2>3, <2>4, <2>5, <2>6, <2>7, <2>8, <2>9, <2>10, <2>11
    DEF Next, CallStart, CallStep
<1>. QED BY <1>1, <1>2 DEF PointersReached

LEMMA InitReached == Init => ReachInv
  BY EngineAssumption DEF Init, ReachInv, JobsReached, HandlersStarted, Stepping,
     PointersReached, OnlyReachedSteps, Started, StepOrNone, EntryKind

(* A step is never started unless it is the first one or a step with an edge *)
(* to it has been started in the same execution.                             *)
THEOREM OnlyReachedStepsCorrect == Spec => []OnlyReachedSteps
<1>1. Init => TypeOK /\ HandlerOK /\ ReachInv
  BY InitTyped, InitReached
<1>2. TypeOK /\ HandlerOK /\ ReachInv /\ [Next]_vars => TypeOK' /\ HandlerOK' /\ ReachInv'
  BY TypeStep, HandlerStep, JobsStep, HandlersStep, PointersStep, OnlyStep DEF ReachInv
<1>3. Spec => [](TypeOK /\ HandlerOK /\ ReachInv)
  BY <1>1, <1>2, PTL DEF Spec
<1>4. ReachInv => OnlyReachedSteps
  BY DEF ReachInv
<1>. QED BY <1>3, <1>4, PTL

-----------------------------------------------------------------------------
(* OutcomeIsLogged: a handler about to write an outcome has logged why.       *)

Last(j) == \E met \in BOOLEAN : nextStepIds(jobDef[j], StepOf(j), met) = <<>>

HandlersLogged ==
  \A j \in JobId : Alive(ExecOf(j)) =>
    /\ pc[j] = "setFailed" => log[ExecOf(j)][StepOf(j)]["failed"] > 0
    /\ pc[j] = "setCompleted" => log[ExecOf(j)][StepOf(j)]["completed"] > 0 /\ Last(j)

LEMMA LogGrows ==
  ASSUME TypeOK, HandlerOK, [Next]_vars,
         NEW e \in Execs, NEW s \in StepOrNone, NEW k \in EntryKind, log[e][s][k] > 0
  PROVE  log'[e][s][k] > 0
<1>1. log' \in [Execs -> [StepOrNone -> [EntryKind -> Nat]]]
  BY TypeStep DEF TypeOK
<1>2. log'[e][s][k] \in Nat /\ log[e][s][k] \in Nat
  BY <1>1 DEF TypeOK
<1>3. log'[e][s][k] >= log[e][s][k]
  BY LogStep
<1>. QED BY <1>2, <1>3

LEMMA LoggedStep ==
  ASSUME TypeOK, HandlerOK, JobsReached, HandlersLogged, [Next]_vars
  PROVE  HandlersLogged'
<1> DEFINE Good(k) ==
      status'[ExecOf(k)] # "deleted" =>
        /\ pc'[k] = "setFailed" => log'[ExecOf(k)][StepOf(k)]["failed"] > 0
        /\ pc'[k] = "setCompleted" =>
             log'[ExecOf(k)][StepOf(k)]["completed"] > 0 /\ Last(k)'
<1> SUFFICES ASSUME NEW k \in JobId PROVE Good(k)
  BY DEF HandlersLogged, Alive, ExecOf, StepOf
<1> USE DEF rowVars, queueVars, workVars, callVars, boundVars
<1>e. /\ ExecOf(k) \in Execs /\ StepOf(k) \in StepOrNone
      /\ "failed" \in EntryKind /\ "completed" \in EntryKind
      /\ status[ExecOf(k)] = "deleted" => status'[ExecOf(k)] = "deleted"
  BY JobIds, StatusStep DEF EntryKind
<1>0. ASSUME pc'[k] \in {"setFailed", "setCompleted"} => pc'[k] = pc[k] /\ jobDef'[k] = jobDef[k]
      PROVE  Good(k)
  BY <1>0, <1>e, LogGrows DEF HandlersLogged, Alive, Last
<1>1. ASSUME NEW j \in JobId,
             \/ DelayElapsed(j) \/ TakeJob(j) \/ FindExecution(j) \/ FindWorkflow(j)
             \/ LogStart(j) \/ SetCurrentStep(j) \/ executeHttpStep(j)
             \/ executeWebhookStep(j) \/ executeConditionStep(j) \/ executeWaitStep(j)
             \/ SetCompleted(j) \/ QueueNextStep(j) \/ JobCompleted(j) \/ SetFailed(j)
             \/ JobFailed(j) \/ HandlerError(j) \/ Evict(j)
      PROVE  Good(k)
  <2>. pc'[k] \in {"setFailed", "setCompleted"} => pc'[k] = pc[k] /\ jobDef'[k] = jobDef[k]
    BY <1>1 DEF DelayElapsed, TakeJob, FindExecution, FindWorkflow, LogStart,
       SetCurrentStep, executeHttpStep, executeWebhookStep, executeConditionStep,
       executeWaitStep, SetCompleted, QueueNextStep, JobCompleted, SetFailed, JobFailed,
       HandlerError, Evict, Goto, Release, TypeOK
  <2>. QED BY <1>0
<1>2. ASSUME NEW j \in JobId, LogFailure(j) PROVE Good(k)
  <2>1. CASE k # j
    BY <1>2, <2>1, <1>0 DEF LogFailure, Goto, TypeOK
  <2>2. CASE k = j
    <3>1. status[ExecOf(k)] # "none" /\ UNCHANGED status /\ pc'[k] = "setFailed"
      BY <1>2, <2>2 DEF LogFailure, At, Goto, JobsReached, TypeOK
    <3>2. RowExists(ExecOf(k)) => log'[ExecOf(k)][StepOf(k)]["failed"] > 0
      BY <1>2, <2>2, <1>e, AddedEntry DEF LogFailure, TypeOK
    <3>. QED BY <3>1, <3>2 DEF RowExists
  <2>. QED BY <2>1, <2>2
<1>3. ASSUME NEW j \in JobId, LogCompletion(j) PROVE Good(k)
  <2>1. CASE k # j
    BY <1>3, <2>1, <1>0 DEF LogCompletion, Goto, TypeOK
  <2>2. CASE k = j
    <3>1. /\ status[ExecOf(k)] # "none" /\ UNCHANGED <<status, jobDef>>
          /\ pc'[k] # "setFailed"
          /\ pc'[k] = "setCompleted" => nextStepIds(jobDef[k], StepOf(k), branch[k]) = <<>>
      BY <1>3, <2>2 DEF LogCompletion, At, Goto, JobsReached, TypeOK
    <3>2. RowExists(ExecOf(k)) => log'[ExecOf(k)][StepOf(k)]["completed"] > 0
      BY <1>3, <2>2, <1>e, AddedEntry DEF LogCompletion, TypeOK
    <3>3. pc'[k] = "setCompleted" => Last(k)'
      BY <3>1 DEF Last, TypeOK
    <3>. QED BY <3>1, <3>2, <3>3 DEF RowExists
  <2>. QED BY <2>1, <2>2
<1>4. ASSUME NEW c \in Callers, CallStart(c) \/ CallStep(c) \/ CallError(c) PROVE Good(k)
  <2>. UNCHANGED <<pc, jobDef>>
    BY <1>4 DEF CallStart, CallStep, CallError, TriggerWorkflow, PauseWorkflow,
       DeleteWorkflow, ActivateWorkflow, UpdateWorkflow, PauseExecution, ResumeExecution,
       CreateExecution, StartWorkflowExecution, ListExecutions, ListJobs, RemoveJob,
       SetPaused, RequeueCurrentStep, SetRunning, DeleteRows
  <2>. QED BY <1>0
<1>5. CASE Crash
  <2>. pc'[k] = "idle"
    BY <1>5 DEF Crash
  <2>. QED BY <1>0
<1>6. CASE UNCHANGED vars
  BY <1>6, <1>0 DEF vars
<1>. QED BY <1>1, <1>2, <1>3, <1>4, <1>5, <1>6 DEF Next, Handler

LEMMA OutcomeStep ==
  ASSUME TypeOK, HandlerOK, HandlersLogged, OutcomeIsLogged, [Next]_vars
  PROVE  OutcomeIsLogged'
<1> SUFFICES ASSUME NEW e \in Execs
    PROVE  /\ status'[e] = "failed" => \E s \in StepOrNone : log'[e][s]["failed"] > 0
           /\ status'[e] = "completed" =>
                \E s \in Steps, d \in Defs, met \in BOOLEAN :
                  log'[e][s]["completed"] > 0 /\ nextStepIds(d, s, met) = <<>>
  BY DEF OutcomeIsLogged, StepOrNone, nextStepIds
<1>k. /\ "failed" \in EntryKind /\ "completed" \in EntryKind
      /\ Steps \subseteq StepOrNone
  BY DEF EntryKind, StepOrNone
<1>1. ASSUME status'[e] = "failed" PROVE \E s \in StepOrNone : log'[e][s]["failed"] > 0
  <2>1. CASE status[e] = "failed"
    <3>1. PICK s \in StepOrNone : log[e][s]["failed"] > 0
      BY <2>1 DEF OutcomeIsLogged
    <3>. QED BY <3>1, <1>k, LogGrows
  <2>2. CASE status[e] # "failed"
    <3>1. PICK j \in JobId : ExecOf(j) = e /\ At(j, "setFailed") /\ RowExists(e)
      BY <1>1, <2>2, StatusStep
    <3>2. StepOf(j) \in StepOrNone /\ log[e][StepOf(j)]["failed"] > 0
      BY <3>1, JobIds DEF HandlersLogged, Alive, RowExists, At
    <3>. QED BY <3>2, <1>k, LogGrows
  <2>. QED BY <2>1, <2>2
<1>2. ASSUME status'[e] = "completed"
      PROVE  \E s \in Steps, d \in Defs, met \in BOOLEAN :
               log'[e][s]["completed"] > 0 /\ nextStepIds(d, s, met) = <<>>
  <2>1. CASE status[e] = "completed"
    <3>1. PICK s \in Steps, d \in Defs, met \in BOOLEAN :
            log[e][s]["completed"] > 0 /\ nextStepIds(d, s, met) = <<>>
      BY <2>1 DEF OutcomeIsLogged
    <3>. QED BY <3>1, <1>k, LogGrows
  <2>2. CASE status[e] # "completed"
    <3>1. PICK j \in JobId : ExecOf(j) = e /\ At(j, "setCompleted") /\ RowExists(e)
      BY <1>2, <2>2, StatusStep
    <3>2. StepOf(j) \in Steps /\ jobDef[j] \in Defs
      BY <3>1 DEF HandlerOK, Stepping, At, TypeOK
    <3>3. log[e][StepOf(j)]["completed"] > 0 /\ Last(j)
      BY <3>1 DEF HandlersLogged, Alive, RowExists, At
    <3>4. log'[e][StepOf(j)]["completed"] > 0
      BY <3>2, <3>3, <1>k, LogGrows
    <3>. QED BY <3>2, <3>3, <3>4 DEF Last
  <2>. QED BY <2>1, <2>2
<1>. QED BY <1>1, <1>2

(* A failed execution has a failure entry, a completed one the completion of *)
(* a step that can be the last.                                              *)
THEOREM OutcomeIsLoggedCorrect == Spec => []OutcomeIsLogged
<1> DEFINE IInv == TypeOK /\ HandlerOK /\ ReachInv /\ HandlersLogged /\ OutcomeIsLogged
<1>1. Init => IInv
  <2> SUFFICES ASSUME Init PROVE IInv
    OBVIOUS
  <2>1. TypeOK /\ HandlerOK
    BY InitTyped
  <2>2. ReachInv
    BY InitReached
  <2>3. HandlersLogged /\ OutcomeIsLogged
    BY DEF Init, HandlersLogged, OutcomeIsLogged
  <2>. QED BY <2>1, <2>2, <2>3
<1>2. IInv /\ [Next]_vars => IInv'
  <2> SUFFICES ASSUME IInv, [Next]_vars PROVE IInv'
    OBVIOUS
  <2>1. TypeOK' /\ HandlerOK'
    BY TypeStep, HandlerStep
  <2>2. ReachInv'
    BY JobsStep, HandlersStep, PointersStep, OnlyStep DEF ReachInv
  <2>3. HandlersLogged' /\ OutcomeIsLogged'
    BY LoggedStep, OutcomeStep DEF ReachInv
  <2>. QED BY <2>1, <2>2, <2>3
<1>3. Spec => []IInv
  BY <1>1, <1>2, PTL DEF Spec
<1>4. IInv => OutcomeIsLogged
  OBVIOUS
<1>. QED BY <1>3, <1>4, PTL

-----------------------------------------------------------------------------
(* The counters only grow, so that what holds as long as nothing was counted *)
(* held before.                                                              *)

LEMMA Counters ==
  ASSUME TypeOK, [Next]_vars
  PROVE  /\ faults' >= faults /\ crashes' >= crashes
         /\ calls' >= calls /\ timers' >= timers
<1> DEFINE Goal == /\ faults' >= faults /\ crashes' >= crashes
                   /\ calls' >= calls /\ timers' >= timers
<1> USE DEF rowVars, queueVars, workVars, callVars, boundVars
<1>0. timers \in Nat /\ calls \in Nat /\ faults \in Nat /\ crashes \in Nat
  BY EngineAssumption DEF TypeOK
<1>1. ASSUME NEW j \in JobId, executeWaitStep(j) \/ HandlerError(j) PROVE Goal
  BY <1>0, <1>1 DEF executeWaitStep, HandlerError
<1>2. ASSUME NEW j \in JobId,
             \/ DelayElapsed(j) \/ TakeJob(j) \/ FindExecution(j) \/ FindWorkflow(j)
             \/ LogStart(j) \/ SetCurrentStep(j) \/ executeHttpStep(j)
             \/ executeWebhookStep(j) \/ executeConditionStep(j) \/ LogCompletion(j)
             \/ SetCompleted(j) \/ QueueNextStep(j) \/ JobCompleted(j) \/ LogFailure(j)
             \/ SetFailed(j) \/ JobFailed(j) \/ Evict(j)
      PROVE  Goal
  <2>. UNCHANGED boundVars
    BY <1>2 DEF DelayElapsed, TakeJob, FindExecution, FindWorkflow, LogStart,
       SetCurrentStep, executeHttpStep, executeWebhookStep, executeConditionStep,
       LogCompletion, SetCompleted, QueueNextStep, JobCompleted, LogFailure, SetFailed,
       JobFailed, Evict
  <2>. QED BY <1>0
<1>3. ASSUME NEW c \in Callers, CallStart(c) \/ CallError(c) PROVE Goal
  BY <1>0, <1>3 DEF CallStart, CallError, TriggerWorkflow, PauseWorkflow, DeleteWorkflow,
     ActivateWorkflow, UpdateWorkflow, PauseExecution, ResumeExecution, Begin
<1>4. ASSUME NEW c \in Callers, CallStep(c) PROVE Goal
  <2>. UNCHANGED <<timers, calls, faults, crashes>>
    BY <1>4 DEF CallStep, CreateExecution, StartWorkflowExecution, ListExecutions, ListJobs,
       RemoveJob, SetPaused, RequeueCurrentStep, SetRunning, DeleteRows
  <2>. QED BY <1>0
<1>5. CASE Crash \/ UNCHANGED vars
  BY <1>0, <1>5 DEF Crash, vars
<1>. QED BY <1>1, <1>2, <1>3, <1>4, <1>5 DEF Next, Handler

JobsKept == Retention /\ timers = 0 /\ NoPauses

LEMMA Premises ==
  ASSUME TypeOK, [Next]_vars
  PROVE  /\ Undisturbed' => Undisturbed
         /\ OnlyTriggers' => OnlyTriggers
         /\ JobsKept' => JobsKept
<1>1. /\ faults \in Nat /\ crashes \in Nat /\ calls \in Nat /\ timers \in Nat
      /\ faults' >= faults /\ crashes' >= crashes /\ calls' >= calls /\ timers' >= timers
  BY Counters, EngineAssumption DEF TypeOK
<1>2. /\ faults' = 0 => faults = 0
      /\ crashes' = 0 => crashes = 0
      /\ calls' = 0 => calls = 0
      /\ timers' = 0 => timers = 0
  BY <1>1
<1>. QED BY <1>2 DEF Undisturbed, OnlyTriggers, NoPauses, JobsKept

-----------------------------------------------------------------------------
(* EffectsBoundedByRuns and EffectAtMostOnce.  While nothing removes jobs, a  *)
(* job id is never free again, and the effect still to come for an id fits   *)
(* under the bound: an effect follows a run, a further run a retry or stall.  *)

Removing == {"listExecutions", "listJobs", "removeJobs"}

BeforeEffect == {"findExecution", "findWorkflow", "logStart", "setCurrent", "execute"}

Due(j) == \/ jobs[j] \in {"waiting", "delayed"}
          \/ jobs[j] = "active" /\ pc[j] \in BeforeEffect

Bounded(e, s, j) ==
  /\ jobs[j] = "none" => effects[e][s] = 0
  /\ effects[e][s] <= 1 + attempts[j] + stalls[j]
  /\ Due(j) => effects[e][s] <= attempts[j] + stalls[j]

RunsInv ==
  JobsKept =>
    /\ \A c \in Callers : callPc[c] \notin Removing
    /\ \A j \in JobId : jobs[j] # "none" => j = jobIdOf(ExecOf(j), StepOf(j))
    /\ \A e \in Execs, s \in Steps : Bounded(e, s, jobIdOf(e, s))

(* Without faults the effect of a step lies behind the one run that got past *)
(* it: the job is finished, or its handler has only to hand over.            *)
AfterEffect == {"logCompletion", "setCompleted", "nextSteps", "done"}

Once(e, s, j) ==
  effects[e][s] # 0 =>
    /\ effects[e][s] = 1
    /\ jobs[j] = "completed" \/ (jobs[j] = "active" /\ pc[j] \in AfterEffect)

OnceInv ==
  (JobsKept /\ Undisturbed) =>
    \A e \in Execs, s \in Steps : Once(e, s, jobIdOf(e, s))

(* Requests that remove jobs do not begin.                                   *)
LEMMA NobodyRemoves ==
  ASSUME TypeOK, [Next]_vars, NoPauses', \A c \in Callers : callPc[c] \notin Removing
  PROVE  \A c \in Callers : callPc'[c] \notin Removing
<1> SUFFICES ASSUME NEW c \in Callers PROVE callPc'[c] \notin Removing
  OBVIOUS
<1> USE DEF rowVars, queueVars, workVars, callVars, boundVars
<1>1. ASSUME NEW j \in JobId, Handler(j) \/ HandlerError(j) \/ Evict(j)
      PROVE  callPc'[c] \notin Removing
  <2>. UNCHANGED callPc
    BY <1>1 DEF Handler, HandlerError, Evict, DelayElapsed, TakeJob, FindExecution,
       FindWorkflow, LogStart, SetCurrentStep, executeHttpStep, executeWebhookStep,
       executeConditionStep, executeWaitStep, LogCompletion, SetCompleted, QueueNextStep,
       JobCompleted, LogFailure, SetFailed, JobFailed
  <2>. QED OBVIOUS
<1>2. ASSUME NEW o \in Callers, CallStart(o) PROVE callPc'[c] \notin Removing
  <2>1. ~PauseWorkflow(o) /\ \A e \in Execs : ~PauseExecution(o, e)
    BY DEF PauseWorkflow, PauseExecution, Begin, NoPauses, TypeOK
  <2>2. callPc'[c] \in {callPc[c], "create", "requeue", "delete"}
    BY <1>2, <2>1 DEF CallStart, TriggerWorkflow, DeleteWorkflow, ActivateWorkflow,
       UpdateWorkflow, ResumeExecution, TypeOK
  <2>. QED BY <2>2 DEF Removing
<1>3. ASSUME NEW o \in Callers, CallStep(o) \/ CallError(o) PROVE callPc'[c] \notin Removing
  <2>1. ~ListExecutions(o) /\ ~ListJobs(o) /\ ~RemoveJob(o) /\ ~SetPaused(o)
    BY DEF ListExecutions, ListJobs, RemoveJob, SetPaused, CallAt, Removing
  <2>2. callPc'[c] \in {callPc[c], "start", "setRunning", "idle"}
    BY <1>3, <2>1 DEF CallStep, CallError, CreateExecution, StartWorkflowExecution,
       RequeueCurrentStep, SetRunning, DeleteRows, EndCall, TypeOK
  <2>. QED BY <2>2 DEF Removing
<1>4. CASE Crash \/ UNCHANGED vars
  BY <1>4 DEF Crash, vars, Removing
<1>. QED BY <1>1, <1>2, <1>3, <1>4 DEF Next

LEMMA InitRuns == Init => RunsInv /\ OnceInv
  BY EngineAssumption DEF Init, RunsInv, OnceInv, Removing, Bounded, Once, Due, jobIdOf, JobId, StepOrNone

LEMMA NobodyRemovesJobs ==
  ASSUME \A c \in Callers : callPc[c] \notin Removing
  PROVE  \A c \in Callers : ~ListExecutions(c) /\ ~ListJobs(c) /\ ~RemoveJob(c) /\ ~SetPaused(c)
  BY DEF ListExecutions, ListJobs, RemoveJob, SetPaused, CallAt, Removing

(* Every job has the id that deduplicates, as long as no wait made another.  *)
LEMMA PlainIds ==
  ASSUME TypeOK, HandlerOK, [Next]_vars, JobsKept', RunsInv,
         NEW k \in JobId, jobs'[k] # "none"
  PROVE  k = jobIdOf(ExecOf(k), StepOf(k))
<1>1. JobsKept
  BY Premises
<1>2. timers' = 0 /\ timers = 0
  BY <1>1 DEF JobsKept
<1> USE DEF rowVars, queueVars, workVars, callVars, boundVars
<1>3. CASE jobs[k] # "none"
  BY <1>1, <1>3 DEF RunsInv
<1>4. ASSUME jobs[k] = "none", NEW e, NEW s, AddJob(jobIdOf(e, s), "waiting")
      PROVE  k = jobIdOf(ExecOf(k), StepOf(k))
  <2>. k = jobIdOf(e, s)
    BY <1>4 DEF AddJob, TypeOK
  <2>. QED BY DEF jobIdOf, ExecOf, StepOf
<1>5. ASSUME NEW j \in JobId, QueueNextStep(j) PROVE k = jobIdOf(ExecOf(k), StepOf(k))
  BY <1>3, <1>4, <1>5 DEF QueueNextStep
<1>6. ASSUME NEW c \in Callers, StartWorkflowExecution(c) \/ RequeueCurrentStep(c)
      PROVE  k = jobIdOf(ExecOf(k), StepOf(k))
  BY <1>3, <1>4, <1>6 DEF StartWorkflowExecution, RequeueCurrentStep
<1>7. ASSUME jobs'[k] = "none" \/ jobs[k] # "none" PROVE k = jobIdOf(ExecOf(k), StepOf(k))
  BY <1>3, <1>7
<1>8. ASSUME NEW j \in JobId, executeWaitStep(j) PROVE jobs'[k] = "none" \/ jobs[k] # "none"
  BY <1>2, <1>8 DEF executeWaitStep
<1>9. ASSUME NEW j \in JobId,
             \/ DelayElapsed(j) \/ TakeJob(j) \/ FindExecution(j) \/ FindWorkflow(j)
             \/ LogStart(j) \/ SetCurrentStep(j) \/ executeHttpStep(j)
             \/ executeWebhookStep(j) \/ executeConditionStep(j) \/ LogCompletion(j)
             \/ SetCompleted(j) \/ JobCompleted(j) \/ LogFailure(j) \/ SetFailed(j)
             \/ JobFailed(j) \/ HandlerError(j) \/ Evict(j)
      PROVE  jobs'[k] = "none" \/ jobs[k] # "none"
  BY <1>9 DEF DelayElapsed, TakeJob, FindExecution, FindWorkflow, LogStart, SetCurrentStep,
     executeHttpStep, executeWebhookStep, executeConditionStep, LogCompletion, SetCompleted,
     JobCompleted, LogFailure, SetFailed, JobFailed, HandlerError, Evict, At, TypeOK
<1>10. ASSUME NEW c \in Callers,
              \/ CallStart(c) \/ CreateExecution(c) \/ ListExecutions(c) \/ ListJobs(c)
              \/ RemoveJob(c) \/ SetPaused(c) \/ SetRunning(c) \/ DeleteRows(c) \/ CallError(c)
       PROVE  jobs'[k] = "none" \/ jobs[k] # "none"
  BY <1>10 DEF CallStart, TriggerWorkflow, PauseWorkflow, DeleteWorkflow, ActivateWorkflow,
     UpdateWorkflow, PauseExecution, ResumeExecution, CreateExecution, ListExecutions,
     ListJobs, RemoveJob, SetPaused, SetRunning, DeleteRows, CallError, TypeOK
<1>11. CASE Crash \/ UNCHANGED vars
  BY <1>11, <1>7 DEF Crash, vars
<1>. QED
  BY <1>5, <1>6, <1>7, <1>8, <1>9, <1>10, <1>11 DEF Next, Handler, CallStep

(* What a step may do to one job id k and the effect counted for it.         *)
Queued(e, s, k) ==
  /\ jobs[k] = "none" /\ jobs'[k] = "waiting"
  /\ UNCHANGED <<effects[e][s], pc[k], attempts[k], stalls[k]>>

Taken(e, s, k) ==
  /\ jobs[k] \in {"waiting", "delayed"}
  /\ jobs'[k] = "waiting" \/ (jobs'[k] = "active" /\ pc'[k] = "findExecution")
  /\ UNCHANGED <<effects[e][s], attempts[k], stalls[k]>>

TakesEffect(e, s, k) ==
  /\ jobs[k] = "active" /\ jobs'[k] = "active"
  /\ pc[k] = "execute" /\ pc'[k] = "logCompletion"
  /\ effects'[e][s] = effects[e][s] + 1
  /\ UNCHANGED <<attempts[k], stalls[k]>>

Proceeds(e, s, k) ==
  /\ jobs[k] = "active" /\ jobs'[k] = "active"
  /\ pc'[k] \in BeforeEffect => pc[k] \in BeforeEffect
  /\ pc[k] \in AfterEffect => pc'[k] \in AfterEffect \/ faults' # 0
  /\ UNCHANGED <<effects[e][s], attempts[k], stalls[k]>>

Ends(e, s, k) ==
  /\ jobs[k] = "active" /\ pc[k] = "done" /\ jobs'[k] = "completed"
  /\ UNCHANGED <<effects[e][s], attempts[k], stalls[k]>>

Retried(e, s, k) ==
  /\ jobs[k] = "active" /\ pc[k] = "throw" /\ jobs'[k] \in {"delayed", "failed"}
  /\ attempts'[k] = attempts[k] + 1
  /\ UNCHANGED <<effects[e][s], stalls[k]>>

Stalled(e, s, k) ==
  /\ jobs[k] = "active" /\ crashes' # 0
  /\ \/ jobs'[k] = "waiting" /\ stalls[k] = 0
     \/ jobs'[k] = "failed" /\ stalls[k] = 1
  /\ stalls'[k] = 1
  /\ UNCHANGED <<effects[e][s], attempts[k]>>

Untouched(e, s, k) == UNCHANGED <<effects[e][s], jobs[k], pc[k], attempts[k], stalls[k]>>

Touched(e, s, k) ==
  \/ Untouched(e, s, k) \/ Queued(e, s, k) \/ Taken(e, s, k) \/ TakesEffect(e, s, k)
  \/ Proceeds(e, s, k) \/ Ends(e, s, k) \/ Retried(e, s, k) \/ Stalled(e, s, k)

LEMMA EffectStep ==
  ASSUME TypeOK, HandlerOK, [Next]_vars, JobsKept', RunsInv,
         NEW e \in Execs, NEW s \in Steps
  PROVE  Touched(e, s, jobIdOf(e, s))
<1> DEFINE k == jobIdOf(e, s)
<1>k. k \in JobId /\ ExecOf(k) = e /\ StepOf(k) = s
  BY JobIds DEF jobIdOf, ExecOf, StepOf, StepOrNone
<1>p. /\ JobsKept /\ timers = 0 /\ timers' = 0 /\ Retention
      /\ \A j \in JobId : jobs[j] # "none" => j = jobIdOf(ExecOf(j), StepOf(j))
      /\ \A c \in Callers : callPc[c] \notin Removing
  BY Premises DEF JobsKept, RunsInv
<1> HIDE DEF k
<1>q. Touched(e, s, k)
  <2> USE DEF rowVars, queueVars, workVars, callVars, boundVars
  <2>0. ASSUME Untouched(e, s, k) PROVE Touched(e, s, k)
    BY <2>0 DEF Touched
  <2>1. ASSUME NEW j \in JobId, DelayElapsed(j) PROVE Touched(e, s, k)
    <3>1. CASE j # k
      BY <2>1, <3>1, <2>0, <1>k DEF DelayElapsed, Untouched, TypeOK
    <3>2. CASE j = k
      BY <2>1, <3>2 DEF DelayElapsed, Taken, Touched, TypeOK
    <3>. QED BY <3>1, <3>2
  <2>2. ASSUME NEW j \in JobId, TakeJob(j) PROVE Touched(e, s, k)
    <3>1. CASE j # k
      BY <2>2, <3>1, <2>0, <1>k DEF TakeJob, Goto, Untouched, TypeOK
    <3>2. CASE j = k
      BY <2>2, <3>2 DEF TakeJob, Goto, Taken, Touched, TypeOK
    <3>. QED BY <3>1, <3>2
  <2>3. ASSUME NEW j \in JobId,
               \/ FindExecution(j) \/ FindWorkflow(j) \/ LogStart(j) \/ SetCurrentStep(j)
               \/ executeConditionStep(j) \/ executeWaitStep(j) \/ LogCompletion(j)
               \/ SetCompleted(j) \/ LogFailure(j) \/ SetFailed(j) \/ HandlerError(j)
        PROVE  Touched(e, s, k)
    <3>1. UNCHANGED <<effects, jobs, attempts, stalls>> /\ jobs[j] = "active"
      BY <2>3, <1>p DEF FindExecution, FindWorkflow, LogStart, SetCurrentStep,
         executeConditionStep, executeWaitStep, LogCompletion, SetCompleted, LogFailure,
         SetFailed, HandlerError, At
    <3>2. CASE j # k
      <4>. pc'[k] = pc[k]
        BY <2>3, <3>2, <1>k DEF FindExecution, FindWorkflow, LogStart, SetCurrentStep,
           executeConditionStep, executeWaitStep, LogCompletion, SetCompleted, LogFailure,
           SetFailed, HandlerError, Goto, TypeOK
      <4>. QED BY <3>1, <2>0 DEF Untouched
    <3>3. CASE j = k
      <4>1. CASE HandlerError(j)
        <5>1. faults' # 0 /\ pc'[k] \in {"throw", "logFailure"}
          BY <4>1, <3>3 DEF HandlerError, Goto, TypeOK
        <5>. QED BY <5>1, <3>1, <3>3 DEF Touched, Proceeds, BeforeEffect
      <4>2. CASE ~HandlerError(j)
        <5>1. /\ pc'[k] \in BeforeEffect => pc[k] \in BeforeEffect
              /\ pc[k] \in AfterEffect => pc'[k] \in AfterEffect
          BY <2>3, <4>2, <3>3 DEF FindExecution, FindWorkflow, LogStart, SetCurrentStep,
             executeConditionStep, executeWaitStep, LogCompletion, SetCompleted, LogFailure,
             SetFailed, At, Goto, BeforeEffect, AfterEffect, TypeOK
        <5>. QED BY <5>1, <3>1, <3>3 DEF Touched, Proceeds
      <4>. QED BY <4>1, <4>2
    <3>. QED BY <3>2, <3>3
  <2>4. ASSUME NEW j \in JobId, executeHttpStep(j) \/ executeWebhookStep(j)
        PROVE  Touched(e, s, k)
    <3>1. /\ UNCHANGED <<jobs, attempts, stalls>> /\ jobs[j] = "active" /\ pc[j] = "execute"
          /\ \/ CountEffect(j) /\ pc' = [pc EXCEPT ![j] = "logCompletion"]
             \/ UNCHANGED effects /\ pc' = [pc EXCEPT ![j] = "logFailure"]
      BY <2>4 DEF executeHttpStep, executeWebhookStep, At, Goto
    <3>2. /\ ExecOf(j) \in Execs /\ StepOf(j) \in Steps
          /\ effects \in [Execs -> [Steps -> Nat]]
      BY <3>1, JobIds DEF HandlerOK, Stepping, TypeOK
    <3>3. j = jobIdOf(ExecOf(j), StepOf(j))
      BY <3>1, <1>p
    <3>4. CASE j # k
      <4>1. ExecOf(j) # e \/ StepOf(j) # s
        BY <3>3, <3>4 DEF k
      <4>2. effects'[e][s] = effects[e][s]
        BY <3>1, <3>2, <4>1 DEF CountEffect
      <4>. QED BY <3>1, <3>4, <4>2, <1>k, <2>0 DEF Untouched, TypeOK
    <3>5. CASE j = k
      <4>1. CASE CountEffect(j) /\ pc' = [pc EXCEPT ![j] = "logCompletion"]
        <5>1. effects'[e][s] = effects[e][s] + 1
          BY <3>2, <3>5, <4>1, <1>k DEF CountEffect
        <5>2. pc'[k] = "logCompletion"
          BY <4>1, <3>5 DEF TypeOK
        <5>. QED BY <3>1, <3>5, <5>1, <5>2 DEF Touched, TakesEffect
      <4>2. CASE UNCHANGED effects /\ pc' = [pc EXCEPT ![j] = "logFailure"]
        <5>1. pc'[k] = "logFailure"
          BY <4>2, <3>5 DEF TypeOK
        <5>. QED BY <3>1, <3>5, <4>2, <5>1 DEF Touched, Proceeds, BeforeEffect, AfterEffect
      <4>. QED BY <3>1, <4>1, <4>2
    <3>. QED BY <3>4, <3>5
  <2>5. ASSUME NEW i, NEW st \in {"waiting"}, AddJob(i, st),
               UNCHANGED <<effects, attempts, stalls>>, pc'[k] = pc[k]
        PROVE  Touched(e, s, k)
    <3>1. jobs'[k] = jobs[k] \/ (jobs[k] = "none" /\ jobs'[k] = "waiting")
      BY <2>5, <1>k DEF AddJob, TypeOK
    <3>. QED BY <2>5, <3>1, <2>0 DEF Untouched, Touched, Queued
  <2>6. ASSUME NEW j \in JobId, QueueNextStep(j) PROVE Touched(e, s, k)
    <3>1. /\ AddJob(jobIdOf(ExecOf(j), Head(todo[j])), "waiting")
          /\ UNCHANGED <<effects, attempts, stalls>>
          /\ jobs[j] = "active" /\ pc[j] = "nextSteps"
      BY <2>6 DEF QueueNextStep, At
    <3>2. CASE j # k
      <4>. pc'[k] = pc[k]
        BY <2>6, <3>2, <1>k DEF QueueNextStep, Goto, TypeOK
      <4>. QED BY <3>1, <2>5
    <3>3. CASE j = k
      <4>1. jobs'[k] = "active"
        BY <3>1, <3>3 DEF AddJob, TypeOK
      <4>2. pc'[k] \in {"done", "nextSteps"}
        BY <2>6, <3>3 DEF QueueNextStep, Goto, TypeOK
      <4>. QED BY <3>1, <3>3, <4>1, <4>2 DEF Touched, Proceeds, BeforeEffect, AfterEffect
    <3>. QED BY <3>2, <3>3
  <2>7. ASSUME NEW j \in JobId, JobCompleted(j) PROVE Touched(e, s, k)
    <3>1. CASE j # k
      BY <2>7, <3>1, <2>0, <1>k DEF JobCompleted, Release, Untouched, TypeOK
    <3>2. CASE j = k
      BY <2>7, <3>2 DEF JobCompleted, At, Ends, Touched, TypeOK
    <3>. QED BY <3>1, <3>2
  <2>8. ASSUME NEW j \in JobId, JobFailed(j) PROVE Touched(e, s, k)
    <3>1. CASE j # k
      BY <2>8, <3>1, <2>0, <1>k DEF JobFailed, Release, Untouched, TypeOK
    <3>2. CASE j = k
      BY <2>8, <3>2 DEF JobFailed, At, Retried, Touched, TypeOK
    <3>. QED BY <3>1, <3>2
  <2>9. ASSUME NEW j \in JobId, Evict(j) PROVE Touched(e, s, k)
    BY <2>9, <1>p DEF Evict
  <2>10. ASSUME NEW c \in Callers, StartWorkflowExecution(c) \/ RequeueCurrentStep(c)
         PROVE  Touched(e, s, k)
    BY <2>10, <2>5, <2>0 DEF StartWorkflowExecution, RequeueCurrentStep, Untouched
  <2>11. ASSUME NEW c \in Callers,
                \/ CallStart(c) \/ CreateExecution(c) \/ SetRunning(c) \/ DeleteRows(c)
                \/ CallError(c)
         PROVE  Touched(e, s, k)
    <3>. UNCHANGED <<effects, jobs, pc, attempts, stalls>>
      BY <2>11 DEF CallStart, TriggerWorkflow, PauseWorkflow, DeleteWorkflow,
         ActivateWorkflow, UpdateWorkflow, PauseExecution, ResumeExecution, CreateExecution,
         SetRunning, DeleteRows, CallError
    <3>. QED BY <2>0 DEF Untouched
  <2>12. CASE Crash
    <3>1. CASE jobs[k] = "active"
      <4>1. crashes' # 0 /\ UNCHANGED <<effects, attempts>>
        BY <2>12 DEF Crash, TypeOK
      <4>2. /\ stalls'[k] = 1
            /\ \/ jobs'[k] = "waiting" /\ stalls[k] = 0
               \/ jobs'[k] = "failed" /\ stalls[k] = 1
        BY <2>12, <3>1, <1>k DEF Crash, TypeOK
      <4>. QED BY <3>1, <4>1, <4>2 DEF Touched, Stalled
    <3>2. CASE jobs[k] # "active"
      <4>1. pc[k] = "idle"
        BY <3>2, <1>k DEF HandlerOK
      <4>2. /\ jobs'[k] = jobs[k] /\ pc'[k] = "idle" /\ stalls'[k] = stalls[k]
            /\ UNCHANGED <<effects, attempts>>
        BY <2>12, <3>2, <1>k DEF Crash, TypeOK
      <4>. QED BY <4>1, <4>2, <2>0 DEF Untouched
    <3>. QED BY <3>1, <3>2
  <2>13. CASE UNCHANGED vars
    BY <2>13, <2>0 DEF vars, Untouched
  <2>14. \A c \in Callers : ~ListExecutions(c) /\ ~ListJobs(c) /\ ~RemoveJob(c) /\ ~SetPaused(c)
    BY <1>p, NobodyRemovesJobs
  <2>. QED
    BY <2>1, <2>2, <2>3, <2>4, <2>6, <2>7, <2>8, <2>9, <2>10, <2>11, <2>12, <2>13, <2>14
    DEF Next, Handler, CallStep
<1>. QED BY <1>q DEF k

LEMMA RunsStep ==
  ASSUME TypeOK, HandlerOK, [Next]_vars, RunsInv
  PROVE  RunsInv'
<1> SUFFICES ASSUME JobsKept'
             PROVE  /\ \A c \in Callers : callPc'[c] \notin Removing
                    /\ \A j \in JobId : jobs'[j] # "none" => j = jobIdOf(ExecOf(j), StepOf(j))
                    /\ \A e \in Execs, s \in Steps : Bounded(e, s, jobIdOf(e, s))'
  BY DEF RunsInv, jobIdOf, ExecOf, StepOf, Bounded, Due
<1>1. JobsKept
  BY Premises
<1>2. \A c \in Callers : callPc'[c] \notin Removing
  BY <1>1, NobodyRemoves DEF RunsInv, JobsKept
<1>3. \A j \in JobId : jobs'[j] # "none" => j = jobIdOf(ExecOf(j), StepOf(j))
  BY PlainIds
<1>4. ASSUME NEW e \in Execs, NEW s \in Steps PROVE Bounded(e, s, jobIdOf(e, s))'
  <2> DEFINE k == jobIdOf(e, s)
  <2>1. k \in JobId
    BY JobIds DEF StepOrNone
  <2>2. Bounded(e, s, k)
    BY <1>1 DEF RunsInv
  <2>3. Touched(e, s, k)
    BY EffectStep
  <2>4. effects[e][s] \in Nat /\ attempts[k] \in Nat /\ stalls[k] \in 0 .. 1
    BY <2>1 DEF TypeOK
  <2>5. (pc[k] # "idle" => jobs[k] = "active")
    BY <2>1 DEF HandlerOK
  <2> HIDE DEF k
  <2>6. Bounded(e, s, k)'
    BY <2>2, <2>3, <2>4, <2>5 DEF Bounded, Touched, Untouched, Queued, Taken, TakesEffect, Proceeds,
       Ends, Retried, Stalled, Due, BeforeEffect
  <2>. QED BY <2>6 DEF k, jobIdOf
<1>. QED BY <1>2, <1>3, <1>4

LEMMA OnceStep ==
  ASSUME TypeOK, HandlerOK, [Next]_vars, RunsInv, OnceInv
  PROVE  OnceInv'
<1> SUFFICES ASSUME JobsKept', Undisturbed', NEW e \in Execs, NEW s \in Steps
             PROVE  Once(e, s, jobIdOf(e, s))'
  BY DEF OnceInv, jobIdOf, Once
<1> DEFINE k == jobIdOf(e, s)
<1>1. k \in JobId
  BY JobIds DEF StepOrNone
<1>2. Once(e, s, k)
  BY Premises DEF OnceInv
<1>3. Touched(e, s, k)
  BY EffectStep
<1>4. effects[e][s] \in Nat /\ faults' = 0 /\ crashes' = 0
  BY <1>1 DEF TypeOK, Undisturbed
<1>5. Bounded(e, s, k)
  BY Premises DEF RunsInv
<1> HIDE DEF k
<1>6. Once(e, s, k)'
  BY <1>2, <1>3, <1>4, <1>5 DEF Once, Bounded, Touched, Untouched, Queued, Taken, TakesEffect,
     Proceeds, Ends, Retried, Stalled, AfterEffect
<1>. QED BY <1>6 DEF k, jobIdOf

LEMMA InvariantRuns == Spec => [](TypeOK /\ RunsInv /\ OnceInv)
<1>1. Init => TypeOK /\ HandlerOK /\ RunsInv /\ OnceInv
  BY InitTyped, InitRuns
<1>2. /\ TypeOK /\ HandlerOK /\ RunsInv /\ OnceInv /\ [Next]_vars
      => TypeOK' /\ HandlerOK' /\ RunsInv' /\ OnceInv'
  BY TypeStep, HandlerStep, RunsStep, OnceStep
<1>. QED BY <1>1, <1>2, PTL DEF Spec

(* The effect of a step happens at most once more for each retry after an    *)
(* error in the catch block and once for a stall.                            *)
THEOREM EffectsBoundedByRunsCorrect == Spec => []EffectsBoundedByRuns
<1>1. TypeOK /\ RunsInv /\ OnceInv => EffectsBoundedByRuns
  BY DEF RunsInv, EffectsBoundedByRuns, JobsKept, Bounded
<1>. QED BY <1>1, InvariantRuns, PTL

(* Without pauses, waits, evictions, faults and crashes a step has its effect *)
(* at most once per execution.                                               *)
THEOREM EffectAtMostOnceCorrect == Spec => []EffectAtMostOnce
<1>1. ASSUME TypeOK, RunsInv, OnceInv PROVE EffectAtMostOnce
  <2> SUFFICES ASSUME JobsKept, Undisturbed, NEW e \in Execs, NEW s \in Steps
               PROVE  effects[e][s] <= 1
    BY DEF EffectAtMostOnce, JobsKept
  <2>1. Once(e, s, jobIdOf(e, s))
    BY <1>1 DEF OnceInv
  <2>2. effects[e][s] \in Nat
    BY <1>1 DEF TypeOK
  <2>. QED BY <2>1, <2>2 DEF Once
<1>. QED BY <1>1, InvariantRuns, PTL

-----------------------------------------------------------------------------
(* NotStranded and OutcomeIsFinal share a base.  With nothing but triggers    *)
(* the workflow row never changes, so every copy of the definition is the    *)
(* definition, and a new execution has no job before its trigger queues one. *)

CallsCalm ==
  \A c \in Callers :
    /\ callPc[c] \in {"idle", "create", "start"}
    /\ callPc[c] # "idle" => callDef[c] = def
    /\ callPc[c] = "start" =>
         /\ status[callExec[c]] = "running"
         /\ \A j \in JobId : jobs[j] # "none" => ExecOf(j) # callExec[c]
         /\ \A o \in Callers : callPc[o] = "start" /\ callExec[o] = callExec[c] => o = c

HandlersCalm ==
  \A j \in JobId : pc[j] \in Stepping =>
    /\ jobDef[j] = def
    /\ StepOf(j) \in StepIds(def)
    /\ \A i \in DOMAIN todo[j] : IsNext(def, StepOf(j), todo[j][i])

RowsCalm ==
  /\ wfStatus = "active"
  /\ \A j \in JobId : jobs[j] # "none" => status[ExecOf(j)] # "none"
  /\ \A e \in Execs :
       /\ status[e] \in {"none", "running", "completed", "failed"}
       /\ status[e] = "none" => \A s \in StepOrNone, k \in EntryKind : log[e][s][k] = 0

Calm == RowsCalm /\ CallsCalm /\ HandlersCalm
CalmInv == OnlyTriggers => Calm

CalmAction ==
  \/ \E j \in JobId : Handler(j) \/ Evict(j)
  \/ \E c \in Callers : TriggerWorkflow(c) \/ CreateExecution(c) \/ StartWorkflowExecution(c)
  \/ UNCHANGED vars

LEMMA CalmNext ==
  ASSUME TypeOK, [Next]_vars, OnlyTriggers', Calm
  PROVE  CalmAction /\ UNCHANGED <<wfStatus, def>>
<1>1. /\ calls \in Nat /\ faults \in Nat /\ crashes \in Nat
      /\ calls' = 0 /\ faults' = 0 /\ crashes' = 0
  BY DEF TypeOK, OnlyTriggers, Undisturbed
<1>2. /\ \A j \in JobId : ~HandlerError(j)
      /\ \A c \in Callers : ~CallError(c)
      /\ ~Crash
  BY <1>1 DEF HandlerError, CallError, Crash
<1>3. ASSUME NEW c \in Callers, CallStart(c) PROVE TriggerWorkflow(c)
  BY <1>1, <1>3 DEF CallStart, PauseWorkflow, DeleteWorkflow, ActivateWorkflow,
     UpdateWorkflow, PauseExecution, ResumeExecution, Begin
<1>4. ASSUME NEW c \in Callers, CallStep(c) PROVE CreateExecution(c) \/ StartWorkflowExecution(c)
  <2>. callPc[c] \in {"idle", "create", "start"}
    BY DEF Calm, CallsCalm
  <2>. QED BY <1>4 DEF CallStep, ListExecutions, ListJobs, RemoveJob, SetPaused,
       RequeueCurrentStep, SetRunning, DeleteRows, CallAt
<1>5. CalmAction
  BY <1>2, <1>3, <1>4 DEF Next, CalmAction
<1>6. ASSUME NEW j \in JobId, Handler(j) \/ Evict(j) PROVE UNCHANGED <<wfStatus, def>>
  BY <1>6 DEF Handler, Evict, DelayElapsed, TakeJob, FindExecution, FindWorkflow, LogStart,
     SetCurrentStep, executeHttpStep, executeWebhookStep, executeConditionStep,
     executeWaitStep, LogCompletion, SetCompleted, QueueNextStep, JobCompleted, LogFailure,
     SetFailed, JobFailed
<1>7. ASSUME NEW c \in Callers,
             TriggerWorkflow(c) \/ CreateExecution(c) \/ StartWorkflowExecution(c)
      PROVE  UNCHANGED <<wfStatus, def>>
  BY <1>7 DEF TriggerWorkflow, CreateExecution, StartWorkflowExecution
<1>. QED BY <1>5, <1>6, <1>7 DEF CalmAction, vars

(* What a calm step does to the status of an execution.                      *)
LEMMA CalmStatus ==
  ASSUME TypeOK, CalmAction, Calm, NEW e \in Execs
  PROVE  \/ status'[e] = status[e]
         \/ /\ status[e] = "none" /\ status'[e] = "running"
            /\ UNCHANGED <<jobs, pc, log>>
            /\ \E c \in Callers : callPc'[c] = "start" /\ callExec'[c] = e
         \/ \E j \in JobId : /\ ExecOf(j) = e /\ At(j, "setCompleted") /\ SetCompleted(j)
                             /\ status'[e] = "completed"
         \/ \E j \in JobId : /\ ExecOf(j) = e /\ At(j, "setFailed") /\ SetFailed(j)
                             /\ status'[e] = "failed"
<1> USE DEF rowVars, queueVars, workVars, callVars, boundVars
<1>1. ASSUME NEW j \in JobId, SetCompleted(j), status'[e] # status[e]
      PROVE  ExecOf(j) = e /\ At(j, "setCompleted") /\ status'[e] = "completed"
  BY <1>1 DEF SetCompleted, updateStatus, TypeOK
<1>2. ASSUME NEW j \in JobId, SetFailed(j), status'[e] # status[e]
      PROVE  ExecOf(j) = e /\ At(j, "setFailed") /\ status'[e] = "failed"
  BY <1>2 DEF SetFailed, updateStatus, TypeOK
<1>3. ASSUME NEW c \in Callers, CreateExecution(c), status'[e] # status[e]
      PROVE  /\ status[e] = "none" /\ status'[e] = "running"
             /\ UNCHANGED <<jobs, pc, log>>
             /\ callPc'[c] = "start" /\ callExec'[c] = e
  <2>1. wfStatus = "active"
    BY DEF Calm, RowsCalm
  <2>2. PICK x \in Execs : /\ status[x] = "none"
                           /\ status' = [status EXCEPT ![x] = "running"]
                           /\ callExec' = [callExec EXCEPT ![c] = x]
    BY <1>3, <2>1 DEF CreateExecution
  <2>3. x = e
    BY <1>3, <2>2 DEF TypeOK
  <2>4. callPc' = [callPc EXCEPT ![c] = "start"] /\ UNCHANGED <<jobs, pc, log>>
    BY <1>3, <2>1 DEF CreateExecution
  <2>. QED BY <2>2, <2>3, <2>4 DEF TypeOK
<1>4. ASSUME NEW j \in JobId, Handler(j) \/ Evict(j), ~SetCompleted(j), ~SetFailed(j)
      PROVE  status'[e] = status[e]
  BY <1>4 DEF Handler, Evict, DelayElapsed, TakeJob, FindExecution, FindWorkflow, LogStart,
     SetCurrentStep, executeHttpStep, executeWebhookStep, executeConditionStep,
     executeWaitStep, LogCompletion, QueueNextStep, JobCompleted, LogFailure, JobFailed
<1>5. ASSUME NEW c \in Callers, TriggerWorkflow(c) \/ StartWorkflowExecution(c)
      PROVE  status'[e] = status[e]
  BY <1>5 DEF TriggerWorkflow, StartWorkflowExecution
<1>6. UNCHANGED vars => status'[e] = status[e]
  BY DEF vars
<1>. QED BY <1>1, <1>2, <1>3, <1>4, <1>5, <1>6 DEF CalmAction

(* The jobs a handler adds belong to its own execution.                      *)
LEMMA HandlerNewJob ==
  ASSUME TypeOK, NEW j \in JobId, Handler(j) \/ Evict(j),
         NEW k \in JobId, jobs[k] = "none", jobs'[k] # "none"
  PROVE  jobs[j] = "active" /\ ExecOf(k) = ExecOf(j)
<1> USE DEF rowVars, queueVars, workVars, callVars, boundVars
<1>0. ASSUME NEW x, AddJob(x, "waiting") \/ AddJob(x, "delayed") PROVE k = x
  BY <1>0 DEF AddJob, TypeOK
<1>1. CASE executeWaitStep(j)
  <2>1. At(j, "execute") /\ todo[j] # <<>>
    BY <1>1 DEF executeWaitStep
  <2>2. k = <<ExecOf(j), Head(todo[j]), timers + 1>>
    BY <1>0, <1>1, <2>1 DEF executeWaitStep
  <2>. QED BY <2>1, <2>2 DEF At, ExecOf
<1>3. CASE QueueNextStep(j)
  <2>1. k = jobIdOf(ExecOf(j), Head(todo[j])) /\ At(j, "nextSteps")
    BY <1>0, <1>3 DEF QueueNextStep
  <2>. QED BY <2>1 DEF At, jobIdOf, ExecOf
<1>2. CASE \/ DelayElapsed(j) \/ TakeJob(j) \/ FindExecution(j) \/ FindWorkflow(j)
           \/ LogStart(j) \/ SetCurrentStep(j) \/ executeHttpStep(j)
           \/ executeWebhookStep(j) \/ executeConditionStep(j) \/ LogCompletion(j)
           \/ SetCompleted(j) \/ JobCompleted(j) \/ LogFailure(j) \/ SetFailed(j)
           \/ JobFailed(j) \/ Evict(j)
  <2>. jobs'[k] = jobs[k] \/ jobs[k] # "none" \/ jobs'[k] = "none"
    BY <1>2 DEF DelayElapsed, TakeJob, FindExecution, FindWorkflow, LogStart, SetCurrentStep,
       executeHttpStep, executeWebhookStep, executeConditionStep, LogCompletion,
       SetCompleted, JobCompleted, LogFailure, SetFailed, JobFailed, Evict, At, TypeOK
  <2>. QED OBVIOUS
<1>. QED BY <1>1, <1>2, <1>3 DEF Handler

LEMMA CallsStep ==
  ASSUME TypeOK, HandlerOK, Calm, CalmAction, [Next]_vars, UNCHANGED <<wfStatus, def>>
  PROVE  CallsCalm'
<1> DEFINE Good(c) ==
      /\ callPc'[c] \in {"idle", "create", "start"}
      /\ callPc'[c] # "idle" => callDef'[c] = def
      /\ callPc'[c] = "start" =>
           /\ status'[callExec'[c]] = "running"
           /\ \A j \in JobId : jobs'[j] # "none" => ExecOf(j) # callExec'[c]
           /\ \A o \in Callers : callPc'[o] = "start" /\ callExec'[o] = callExec'[c] => o = c
<1> SUFFICES ASSUME NEW c \in Callers PROVE Good(c)
  BY DEF CallsCalm, ExecOf
<1> USE DEF rowVars, queueVars, workVars, callVars, boundVars
<1>1. ASSUME NEW j \in JobId, Handler(j) \/ Evict(j) PROVE Good(c)
  <2>1. UNCHANGED callVars
    BY <1>1 DEF Handler, Evict, DelayElapsed, TakeJob, FindExecution, FindWorkflow, LogStart,
       SetCurrentStep, executeHttpStep, executeWebhookStep, executeConditionStep,
       executeWaitStep, LogCompletion, SetCompleted, QueueNextStep, JobCompleted, LogFailure,
       SetFailed, JobFailed
  <2>2. ASSUME callPc[c] = "start"
        PROVE  /\ status'[callExec[c]] = "running"
               /\ \A k \in JobId : jobs'[k] # "none" => ExecOf(k) # callExec[c]
    <3>1. /\ callExec[c] \in Execs /\ status[callExec[c]] = "running"
          /\ \A k \in JobId : jobs[k] # "none" => ExecOf(k) # callExec[c]
      BY <2>2 DEF Calm, CallsCalm, TypeOK
    <3>2. status'[callExec[c]] = "running"
      BY <3>1, CalmStatus DEF At
    <3>3. ASSUME NEW k \in JobId, jobs[k] = "none", jobs'[k] # "none"
          PROVE  ExecOf(k) # callExec[c]
      BY <1>1, <3>1, <3>3, HandlerNewJob
    <3>. QED BY <3>1, <3>2, <3>3
  <2>. QED BY <2>1, <2>2 DEF Calm, CallsCalm
<1>2. ASSUME NEW o \in Callers, TriggerWorkflow(o) PROVE Good(c)
  <2>. UNCHANGED <<status, jobs, callExec>>
    BY <1>2 DEF TriggerWorkflow
  <2>1. /\ callPc' = [callPc EXCEPT ![o] = "create"]
        /\ callDef' = [callDef EXCEPT ![o] = def]
    BY <1>2 DEF TriggerWorkflow
  <2>. QED BY <2>1 DEF Calm, CallsCalm, TypeOK
<1>3. ASSUME NEW o \in Callers, CreateExecution(o) PROVE Good(c)
  <2>1. wfStatus # "deleted" /\ UNCHANGED <<jobs, callDef>> /\ CallAt(o, "create")
    BY <1>3 DEF CreateExecution, Calm, RowsCalm
  <2>2. PICK e \in Execs : /\ status[e] = "none"
                           /\ status' = [status EXCEPT ![e] = "running"]
                           /\ callExec' = [callExec EXCEPT ![o] = e]
    BY <1>3, <2>1 DEF CreateExecution
  <2>3. callPc' = [callPc EXCEPT ![o] = "start"]
    BY <1>3, <2>1 DEF CreateExecution
  <2>4. \A j \in JobId : jobs[j] # "none" => ExecOf(j) # e
    BY <2>2 DEF Calm, RowsCalm
  <2>5. \A x \in Callers : callPc[x] = "start" => callExec[x] # e
    BY <2>2 DEF Calm, CallsCalm
  <2>. QED BY <2>1, <2>2, <2>3, <2>4, <2>5 DEF Calm, CallsCalm, CallAt, TypeOK
<1>4. ASSUME NEW o \in Callers, StartWorkflowExecution(o) PROVE Good(c)
  <2>1. /\ CallAt(o, "start") /\ UNCHANGED status
        /\ callPc' = [callPc EXCEPT ![o] = "idle"]
        /\ callExec' = [callExec EXCEPT ![o] = AnyExec]
        /\ callDef' = [callDef EXCEPT ![o] = AnyDef]
    BY <1>4 DEF StartWorkflowExecution, EndCall
  <2>2. CASE c = o
    BY <2>1, <2>2 DEF TypeOK
  <2>3. CASE c # o
    <3>1. /\ callPc'[c] = callPc[c] /\ callExec'[c] = callExec[c] /\ callDef'[c] = callDef[c]
          /\ \A x \in Callers : callPc'[x] = "start" => /\ callPc[x] = "start"
                                                        /\ callExec'[x] = callExec[x]
      BY <2>1, <2>3 DEF TypeOK
    <3>2. \A k \in JobId : jobs'[k] # "none" => jobs[k] # "none" \/ ExecOf(k) = callExec[o]
      <4>1. ASSUME NEW s, AddJob(jobIdOf(callExec[o], s), "waiting"),
                   NEW k \in JobId, jobs'[k] # "none", jobs[k] = "none"
            PROVE  ExecOf(k) = callExec[o]
        <5>. k = jobIdOf(callExec[o], s)
          BY <4>1 DEF AddJob, TypeOK
        <5>. QED BY DEF jobIdOf, ExecOf
      <4>. QED BY <1>4, <4>1 DEF StartWorkflowExecution
    <3>3. callPc[c] = "start" => callExec[o] # callExec[c]
      BY <2>1, <2>3 DEF Calm, CallsCalm, CallAt
    <3>. QED BY <2>1, <3>1, <3>2, <3>3 DEF Calm, CallsCalm
  <2>. QED BY <2>2, <2>3
<1>5. CASE UNCHANGED vars
  BY <1>5 DEF vars, Calm, CallsCalm
<1>. QED BY <1>1, <1>2, <1>3, <1>4, <1>5 DEF CalmAction

LEMMA HandlersCalmStep ==
  ASSUME TypeOK, HandlerOK, Calm, CalmAction, UNCHANGED <<wfStatus, def>>
  PROVE  HandlersCalm'
<1> DEFINE Good(k) ==
      pc'[k] \in Stepping =>
        /\ jobDef'[k] = def
        /\ StepOf(k) \in StepIds(def)
        /\ \A i \in DOMAIN todo'[k] : IsNext(def, StepOf(k), todo'[k][i])
<1> SUFFICES ASSUME NEW k \in JobId PROVE Good(k)
  BY DEF HandlersCalm, StepOf, IsNext
<1> USE DEF rowVars, queueVars, workVars, callVars, boundVars
<1>0. ASSUME pc'[k] \in Stepping => pc[k] \in Stepping, jobDef'[k] = jobDef[k],
             \/ todo'[k] = todo[k]
             \/ todo[k] # <<>> /\ todo'[k] = Tail(todo[k])
      PROVE  Good(k)
  <2>1. todo[k] \in Seq(Steps)
    BY DEF TypeOK
  <2>2. ASSUME pc[k] \in Stepping, NEW i \in DOMAIN todo'[k]
        PROVE  IsNext(def, StepOf(k), todo'[k][i])
    <3>1. PICK n \in DOMAIN todo[k] : todo'[k][i] = todo[k][n]
      <4>1. CASE todo'[k] = todo[k]
        BY <2>2, <4>1
      <4>2. CASE todo[k] # <<>> /\ todo'[k] = Tail(todo[k])
        <5>. i + 1 \in DOMAIN todo[k] /\ todo'[k][i] = todo[k][i + 1]
          BY <2>1, <2>2, <4>2
        <5>. QED OBVIOUS
      <4>. QED BY <1>0, <4>1, <4>2
    <3>. QED BY <2>2, <3>1 DEF Calm, HandlersCalm
  <2>. QED BY <1>0, <2>2 DEF Calm, HandlersCalm
<1>1. ASSUME NEW j \in JobId,
             \/ DelayElapsed(j) \/ TakeJob(j) \/ FindExecution(j) \/ LogStart(j)
             \/ SetCurrentStep(j) \/ executeHttpStep(j) \/ executeWebhookStep(j)
             \/ executeConditionStep(j) \/ SetCompleted(j) \/ LogFailure(j)
             \/ SetFailed(j) \/ Evict(j)
      PROVE  Good(k)
  <2>. UNCHANGED <<jobDef, todo>> /\ (pc'[k] \in Stepping => pc[k] \in Stepping)
    BY <1>1 DEF DelayElapsed, TakeJob, FindExecution, LogStart, SetCurrentStep,
       executeHttpStep, executeWebhookStep, executeConditionStep, SetCompleted, LogFailure,
       SetFailed, Evict, At, Goto, Stepping, TypeOK
  <2>. QED BY <1>0
<1>2. ASSUME NEW j \in JobId, FindWorkflow(j) PROVE Good(k)
  <2>1. CASE k # j
    <3>. pc'[k] = pc[k] /\ jobDef'[k] = jobDef[k] /\ todo'[k] = todo[k]
      BY <1>2, <2>1 DEF FindWorkflow, Goto, TypeOK
    <3>. QED BY <1>0
  <2>2. CASE k = j /\ pc'[k] \in Stepping
    <3>1. /\ StepOf(k) \in StepIds(def) /\ jobDef'[k] = def
          /\ todo'[k] = def.next[StepOf(k)]
      BY <1>2, <2>2 DEF FindWorkflow, Goto, Stepping, TypeOK
    <3>. QED BY <3>1 DEF IsNext
  <2>. QED BY <2>1, <2>2
<1>3. ASSUME NEW j \in JobId, executeWaitStep(j) PROVE Good(k)
  <2>. /\ pc'[k] \in Stepping => pc[k] \in Stepping
       /\ UNCHANGED jobDef
       /\ todo'[k] = todo[k] \/ (todo[k] # <<>> /\ todo'[k] = Tail(todo[k]))
    BY <1>3 DEF executeWaitStep, At, Goto, Stepping, TypeOK
  <2>. QED BY <1>0
<1>4. ASSUME NEW j \in JobId, LogCompletion(j) PROVE Good(k)
  <2>1. UNCHANGED jobDef /\ At(j, "logCompletion")
    BY <1>4 DEF LogCompletion
  <2>2. CASE k # j
    <3>. pc'[k] = pc[k] /\ todo'[k] = todo[k]
      BY <1>4, <2>2 DEF LogCompletion, Goto, TypeOK
    <3>. QED BY <1>0, <2>1
  <2>3. CASE k = j
    <3>1. StepOf(k) \in Steps /\ def \in Defs /\ jobDef[k] = def /\ branch[k] \in BOOLEAN
          /\ StepOf(k) \in StepIds(def)
      BY <2>1, <2>3 DEF At, HandlerOK, Stepping, Calm, HandlersCalm, TypeOK
    <3>2. todo'[k] = nextStepIds(def, StepOf(k), branch[k])
      BY <1>4, <2>3, <3>1 DEF LogCompletion, TypeOK
    <3>3. \A i \in DOMAIN todo'[k] : IsNext(def, StepOf(k), todo'[k][i])
      BY <3>1, <3>2, NextStepsAmong
    <3>. QED BY <2>1, <3>1, <3>3
  <2>. QED BY <2>2, <2>3
<1>5. ASSUME NEW j \in JobId, QueueNextStep(j) PROVE Good(k)
  <2>. /\ pc'[k] \in Stepping => pc[k] \in Stepping
       /\ UNCHANGED jobDef
       /\ todo'[k] = todo[k] \/ (todo[k] # <<>> /\ todo'[k] = Tail(todo[k]))
    BY <1>5 DEF QueueNextStep, At, Goto, Stepping, HandlerOK, TypeOK
  <2>. QED BY <1>0
<1>6. ASSUME NEW j \in JobId, JobCompleted(j) \/ JobFailed(j) PROVE Good(k)
  <2>1. CASE k # j
    <3>. pc'[k] = pc[k] /\ jobDef'[k] = jobDef[k] /\ todo'[k] = todo[k]
      BY <1>6, <2>1 DEF JobCompleted, JobFailed, Release, TypeOK
    <3>. QED BY <1>0
  <2>2. CASE k = j
    <3>. pc'[k] = "idle"
      BY <1>6, <2>2 DEF JobCompleted, JobFailed, Release, TypeOK
    <3>. QED BY DEF Stepping
  <2>. QED BY <2>1, <2>2
<1>7. ASSUME NEW c \in Callers,
             TriggerWorkflow(c) \/ CreateExecution(c) \/ StartWorkflowExecution(c)
      PROVE  Good(k)
  <2>. UNCHANGED <<pc, jobDef, todo>>
    BY <1>7 DEF TriggerWorkflow, CreateExecution, StartWorkflowExecution
  <2>. QED BY <1>0
<1>8. CASE UNCHANGED vars
  BY <1>8, <1>0 DEF vars
<1>. QED BY <1>1, <1>2, <1>3, <1>4, <1>5, <1>6, <1>7, <1>8 DEF CalmAction, Handler

LEMMA RowsStep ==
  ASSUME TypeOK, HandlerOK, Calm, CalmAction, [Next]_vars, UNCHANGED <<wfStatus, def>>
  PROVE  RowsCalm'
<1>1. ASSUME NEW e \in Execs
      PROVE  /\ status'[e] \in {"none", "running", "completed", "failed"}
             /\ status[e] # "none" => status'[e] # "none"
             /\ status'[e] = "none" => \A s \in StepOrNone, k \in EntryKind : log'[e][s][k] = 0
  <2>1. status[e] \in {"none", "running", "completed", "failed"}
    BY DEF Calm, RowsCalm
  <2>2. /\ status'[e] \in {status[e], "running", "completed", "failed"}
        /\ status[e] # "none" => status'[e] # "none"
    BY CalmStatus, StatusStep
  <2>3. ASSUME status'[e] = "none", NEW s \in StepOrNone, NEW k \in EntryKind
        PROVE  log'[e][s][k] = 0
    <3>1. status[e] = "none"
      BY <2>2, <2>3
    <3>2. log'[e][s][k] = log[e][s][k]
      BY <3>1, LogStep DEF RowExists
    <3>. QED BY <3>1, <3>2 DEF Calm, RowsCalm
  <2>. QED BY <2>1, <2>2, <2>3
<1>2. ASSUME NEW k \in JobId, jobs'[k] # "none" PROVE status'[ExecOf(k)] # "none"
  <2>1. ExecOf(k) \in Execs
    BY JobIds
  <2>2. CASE jobs[k] # "none"
    BY <1>1, <2>1, <2>2 DEF Calm, RowsCalm
  <2>3. CASE jobs[k] = "none"
    <3>1. status[ExecOf(k)] # "none"
      BY <1>2, <2>3, NewJob DEF At, Calm, RowsCalm, CallsCalm, CallAt
    <3>. QED BY <1>1, <2>1, <3>1
  <2>. QED BY <2>2, <2>3
<1>. QED BY <1>1, <1>2 DEF RowsCalm, Calm, ExecOf

LEMMA CalmStep ==
  ASSUME TypeOK, HandlerOK, CalmInv, [Next]_vars
  PROVE  CalmInv'
<1> SUFFICES ASSUME OnlyTriggers' PROVE Calm'
  BY DEF CalmInv
<1>1. Calm
  BY Premises DEF CalmInv
<1>2. CalmAction /\ UNCHANGED <<wfStatus, def>>
  BY <1>1, CalmNext
<1>. QED BY <1>1, <1>2, CallsStep, HandlersCalmStep, RowsStep DEF Calm

LEMMA InitCalm == Init => CalmInv
  BY EngineAssumption DEF Init, CalmInv, Calm, RowsCalm, CallsCalm, HandlersCalm, Stepping

-----------------------------------------------------------------------------
(* NotStranded.  Of a running execution no job has failed, the finished ones *)
(* have their completion entry, and a completed step has handed over to one  *)
(* that has a job or is completed too.  Without a job left, the completed    *)
(* steps would hand over only among themselves: a cycle.                     *)

Live(j) == jobs[j] \in {"waiting", "delayed", "active"}
Finished(e, s) == log[e][s]["completed"] > 0
HandingOver == {"setCompleted", "nextSteps"}

Healthy(e) ==
  \A j \in JobId : ExecOf(j) = e =>
    /\ jobs[j] # "failed" /\ pc[j] # "throw"
    /\ jobs[j] = "completed" \/ pc[j] \in HandingOver \cup {"done"}
         => StepOf(j) \in StepIds(def) /\ Finished(e, StepOf(j))

HandedOver(e, s) ==
  \/ \E j \in JobId : ExecOf(j) = e /\ StepOf(j) = s /\ pc[j] \in HandingOver
  \/ \E t \in Steps :
       /\ IsNext(def, s, t)
       /\ \/ Finished(e, t)
          \/ \E j \in JobId : ExecOf(j) = e /\ StepOf(j) = t /\ Live(j)

Begun(e) ==
  \/ \E c \in Callers : callPc[c] = "start" /\ callExec[c] = e
  \/ \E j \in JobId : ExecOf(j) = e /\ Live(j)
  \/ \E s \in StepIds(def) : Finished(e, s)

CarriedOn(e) ==
  status[e] = "running" =>
    /\ Healthy(e)
    /\ \A s \in StepIds(def) : Finished(e, s) => HandedOver(e, s)
    /\ HasFirstStep(def) => Begun(e)

CarriedOnInv == OnlyTriggers => \A e \in Execs : CarriedOn(e)

LEMMA FinishedStays ==
  ASSUME TypeOK, HandlerOK, [Next]_vars, NEW e \in Execs, NEW s \in Steps, Finished(e, s)
  PROVE  Finished(e, s)'
<1>1. s \in StepOrNone /\ "completed" \in EntryKind
  BY DEF StepOrNone, EntryKind
<1>2. log'[e][s]["completed"] >= log[e][s]["completed"]
  BY <1>1, LogStep
<1>3. log[e][s]["completed"] \in Nat /\ log'[e][s]["completed"] \in Nat
  BY <1>1, TypeStep DEF TypeOK
<1>. QED BY <1>2, <1>3 DEF Finished

(* A job that ends without an error leaves a completed step behind.          *)
LEMMA HealthyStep ==
  ASSUME TypeOK, HandlerOK, Calm, CalmAction, [Next]_vars, UNCHANGED <<wfStatus, def>>,
         NEW e \in Execs, status[e] = "running", status'[e] = "running", Healthy(e)
  PROVE  Healthy(e)'
<1> DEFINE Good(k) ==
      /\ jobs'[k] # "failed" /\ pc'[k] # "throw"
      /\ jobs'[k] = "completed" \/ pc'[k] \in HandingOver \cup {"done"}
           => StepOf(k) \in StepIds(def) /\ Finished(e, StepOf(k))'
<1> SUFFICES ASSUME NEW k \in JobId, ExecOf(k) = e PROVE Good(k)
  BY DEF Healthy, StepOf, ExecOf, StepIds, Finished
<1> USE DEF rowVars, queueVars, workVars, callVars, boundVars
<1>s. ASSUME StepOf(k) \in StepIds(def), Finished(e, StepOf(k)) PROVE Finished(e, StepOf(k))'
  <2>. StepOf(k) \in Steps
    BY <1>s, Definitions DEF TypeOK
  <2>. QED BY <1>s, FinishedStays DEF Finished
<1>h. /\ jobs[k] # "failed" /\ pc[k] # "throw"
      /\ jobs[k] = "completed" \/ pc[k] \in HandingOver \cup {"done"}
           => StepOf(k) \in StepIds(def) /\ Finished(e, StepOf(k))'
  BY <1>s DEF Healthy
<1>0. ASSUME jobs'[k] \in {"failed", "completed"} => jobs'[k] = jobs[k],
             pc'[k] \in HandingOver \cup {"done", "throw"} =>
               pc'[k] = pc[k] \/ (pc[k] = "nextSteps" /\ pc'[k] = "done")
      PROVE  Good(k)
  BY <1>0, <1>h DEF HandingOver
<1>1. ASSUME NEW j \in JobId, j # k, Handler(j) \/ Evict(j) PROVE Good(k)
  <2>1. jobs'[k] = jobs[k] \/ jobs'[k] \in {"waiting", "delayed"}
    BY <1>1 DEF Handler, Evict, DelayElapsed, TakeJob, FindExecution, FindWorkflow, LogStart,
       SetCurrentStep, executeHttpStep, executeWebhookStep, executeConditionStep,
       executeWaitStep, LogCompletion, SetCompleted, QueueNextStep, JobCompleted, LogFailure,
       SetFailed, JobFailed, AddJob, TypeOK
  <2>2. pc'[k] = pc[k]
    BY <1>1 DEF Handler, Evict, DelayElapsed, TakeJob, FindExecution, FindWorkflow, LogStart,
       SetCurrentStep, executeHttpStep, executeWebhookStep, executeConditionStep,
       executeWaitStep, LogCompletion, SetCompleted, QueueNextStep, JobCompleted, LogFailure,
       SetFailed, JobFailed, Goto, Release, TypeOK
  <2>. QED BY <1>0, <2>1, <2>2
<1>2. CASE \/ DelayElapsed(k) \/ TakeJob(k) \/ FindWorkflow(k) \/ LogStart(k)
           \/ SetCurrentStep(k) \/ executeHttpStep(k) \/ executeWebhookStep(k)
           \/ executeConditionStep(k) \/ executeWaitStep(k) \/ LogFailure(k) \/ Evict(k)
  <2>1. jobs'[k] \in {"failed", "completed"} => jobs'[k] = jobs[k]
    BY <1>2 DEF DelayElapsed, TakeJob, FindWorkflow, LogStart, SetCurrentStep,
       executeHttpStep, executeWebhookStep, executeConditionStep, executeWaitStep,
       LogFailure, Evict, AddJob, TypeOK
  <2>2. pc'[k] \in HandingOver \cup {"done", "throw"} => pc'[k] = pc[k]
    BY <1>2 DEF DelayElapsed, TakeJob, FindWorkflow, LogStart, SetCurrentStep,
       executeHttpStep, executeWebhookStep, executeConditionStep, executeWaitStep,
       LogFailure, Evict, Goto, HandingOver, TypeOK
  <2>. QED BY <1>0, <2>1, <2>2
<1>3. CASE FindExecution(k)
  <2>. pc'[k] = "findWorkflow" /\ UNCHANGED jobs
    BY <1>3 DEF FindExecution, Goto, RowExists, TypeOK
  <2>. QED BY <1>0 DEF HandingOver
<1>4. CASE LogCompletion(k)
  <2>1. /\ At(k, "logCompletion") /\ UNCHANGED jobs /\ pc'[k] \in HandingOver
        /\ addExecutionLogEntry(e, StepOf(k), "completed")
    BY <1>4 DEF LogCompletion, Goto, HandingOver, TypeOK
  <2>2. StepOf(k) \in StepIds(def) /\ StepOf(k) \in StepOrNone /\ "completed" \in EntryKind
    BY <2>1, JobIds DEF At, Calm, HandlersCalm, Stepping, EntryKind
  <2>3. RowExists(e)
    BY DEF RowExists
  <2>4. log'[e][StepOf(k)]["completed"] > 0
    BY <2>1, <2>2, <2>3, AddedEntry DEF TypeOK
  <2>. QED BY <2>1, <2>2, <2>4 DEF At, Finished, HandingOver
<1>5. CASE SetCompleted(k) \/ SetFailed(k)
  <2>. status'[e] \in {"completed", "failed"}
    BY <1>5 DEF SetCompleted, SetFailed, updateStatus, RowExists, TypeOK
  <2>. QED OBVIOUS
<1>6. CASE QueueNextStep(k)
  <2>. jobs'[k] = "active" /\ pc[k] = "nextSteps" /\ pc'[k] \in {"nextSteps", "done"}
    BY <1>6 DEF QueueNextStep, At, AddJob, Goto, TypeOK
  <2>. QED BY <1>0
<1>7. CASE JobCompleted(k)
  <2>. pc[k] = "done" /\ jobs'[k] = "completed" /\ pc'[k] = "idle"
    BY <1>7 DEF JobCompleted, At, Release, TypeOK
  <2>. QED BY <1>h DEF HandingOver
<1>8. ~JobFailed(k)
  BY <1>h DEF JobFailed, At
<1>9. ASSUME NEW c \in Callers,
             TriggerWorkflow(c) \/ CreateExecution(c) \/ StartWorkflowExecution(c)
      PROVE  Good(k)
  <2>. UNCHANGED pc /\ (jobs'[k] = jobs[k] \/ jobs'[k] = "waiting")
    BY <1>9 DEF TriggerWorkflow, CreateExecution, StartWorkflowExecution, AddJob, TypeOK
  <2>. QED BY <1>0
<1>10. CASE UNCHANGED vars
  BY <1>10, <1>0 DEF vars
<1>. QED
  BY <1>1, <1>2, <1>3, <1>4, <1>5, <1>6, <1>7, <1>8, <1>9, <1>10 DEF CalmAction, Handler

(* A live job stays live or leaves a completed step.                         *)
LEMMA LiveStep ==
  ASSUME TypeOK, CalmAction, NEW e \in Execs, Healthy(e),
         NEW k \in JobId, ExecOf(k) = e, Live(k)
  PROVE  Live(k)' \/ (StepOf(k) \in StepIds(def) /\ Finished(e, StepOf(k)))
<1> USE DEF rowVars, queueVars, workVars, callVars, boundVars
<1>1. ASSUME NEW j \in JobId, JobCompleted(j)
      PROVE  Live(k)' \/ (StepOf(k) \in StepIds(def) /\ Finished(e, StepOf(k)))
  <2>1. CASE j = k
    BY <1>1, <2>1 DEF JobCompleted, At, Healthy
  <2>2. CASE j # k
    BY <1>1, <2>2 DEF JobCompleted, Live, TypeOK
  <2>. QED BY <2>1, <2>2
<1>2. ASSUME NEW j \in JobId, JobFailed(j) PROVE Live(k)'
  BY <1>2 DEF JobFailed, At, Healthy, Live, TypeOK
<1>3. ASSUME NEW j \in JobId,
             \/ DelayElapsed(j) \/ TakeJob(j) \/ FindExecution(j) \/ FindWorkflow(j)
             \/ LogStart(j) \/ SetCurrentStep(j) \/ executeHttpStep(j)
             \/ executeWebhookStep(j) \/ executeConditionStep(j) \/ executeWaitStep(j)
             \/ LogCompletion(j) \/ SetCompleted(j) \/ QueueNextStep(j) \/ LogFailure(j)
             \/ SetFailed(j) \/ Evict(j)
      PROVE  Live(k)'
  BY <1>3 DEF DelayElapsed, TakeJob, FindExecution, FindWorkflow, LogStart, SetCurrentStep,
     executeHttpStep, executeWebhookStep, executeConditionStep, executeWaitStep,
     LogCompletion, SetCompleted, QueueNextStep, LogFailure, SetFailed, Evict, AddJob, Live,
     TypeOK
<1>4. ASSUME NEW c \in Callers,
             TriggerWorkflow(c) \/ CreateExecution(c) \/ StartWorkflowExecution(c)
      PROVE  Live(k)'
  BY <1>4 DEF TriggerWorkflow, CreateExecution, StartWorkflowExecution, AddJob, Live, TypeOK
<1>5. UNCHANGED vars => Live(k)'
  BY DEF vars, Live
<1>. QED BY <1>1, <1>2, <1>3, <1>4, <1>5 DEF CalmAction, Handler

LEMMA HandedOverStep ==
  ASSUME TypeOK, HandlerOK, Calm, CalmAction, [Next]_vars, UNCHANGED <<wfStatus, def>>,
         NEW e \in Execs, status[e] = "running", status'[e] = "running", Healthy(e),
         NEW s \in Steps, HandedOver(e, s)
  PROVE  HandedOver(e, s)'
<1> USE DEF rowVars, queueVars, workVars, callVars, boundVars
<1>1. ASSUME NEW t \in Steps, IsNext(def, s, t), Finished(e, t) PROVE HandedOver(e, s)'
  <2>. Finished(e, t)'
    BY <1>1, FinishedStays
  <2>. QED BY <1>1 DEF HandedOver, IsNext
<1>2. ASSUME NEW t \in Steps, IsNext(def, s, t), NEW j \in JobId,
             ExecOf(j) = e, StepOf(j) = t, Live(j)
      PROVE  HandedOver(e, s)'
  <2>1. CASE Live(j)'
    BY <1>2, <2>1 DEF HandedOver, IsNext, ExecOf, StepOf
  <2>2. CASE Finished(e, t)
    BY <1>1, <1>2, <2>2
  <2>. QED BY <1>2, <2>1, <2>2, LiveStep
<1>3. ASSUME NEW j \in JobId, ExecOf(j) = e, StepOf(j) = s, pc[j] \in HandingOver
      PROVE  HandedOver(e, s)'
  <2>1. CASE pc'[j] \in HandingOver
    BY <1>3, <2>1 DEF HandedOver, ExecOf, StepOf
  <2>2. CASE SetCompleted(j)
    <3>. status'[e] = "completed"
      BY <1>3, <2>2 DEF SetCompleted, updateStatus, RowExists, TypeOK
    <3>. QED OBVIOUS
  <2>3. CASE QueueNextStep(j)
    <3> DEFINE t == Head(todo[j])
               k == jobIdOf(e, t)
    <3>1. /\ todo[j] # <<>> /\ todo[j] \in Seq(Steps) /\ AddJob(k, "waiting")
          /\ pc[j] = "nextSteps"
      BY <1>3, <2>3 DEF QueueNextStep, At, HandlerOK, TypeOK
    <3>2. t \in Steps /\ 1 \in DOMAIN todo[j] /\ t = todo[j][1]
      BY <3>1
    <3>3. IsNext(def, s, t)
      BY <1>3, <3>1, <3>2 DEF Calm, HandlersCalm, Stepping
    <3>4. k \in JobId /\ ExecOf(k) = e /\ StepOf(k) = t
      BY <3>2, JobIds DEF StepOrNone, jobIdOf, ExecOf, StepOf
    <3> HIDE DEF t, k
    <3>5. CASE jobs[k] = "none"
      <4>1. jobs'[k] = "waiting"
        BY <3>1, <3>4, <3>5 DEF AddJob, TypeOK
      <4>. QED BY <4>1, <3>2, <3>3, <3>4 DEF HandedOver, Live, IsNext, ExecOf, StepOf
    <3>6. CASE Live(k)
      BY <3>2, <3>3, <3>4, <3>6, <1>2
    <3>7. CASE jobs[k] = "completed"
      BY <3>2, <3>3, <3>4, <3>7, <1>1 DEF Healthy
    <3>8. jobs[k] \in {"none", "waiting", "delayed", "active", "completed"}
      BY <3>4 DEF Healthy, TypeOK, JobState
    <3>. QED BY <3>5, <3>6, <3>7, <3>8 DEF Live
  <2>4. ASSUME NEW i \in JobId, Handler(i) \/ Evict(i), ~SetCompleted(j), ~QueueNextStep(j)
        PROVE  pc'[j] \in HandingOver
    <3>1. CASE i = j
      BY <1>3, <2>4, <3>1 DEF Handler, Evict, DelayElapsed, TakeJob, FindExecution,
         FindWorkflow, LogStart, SetCurrentStep, executeHttpStep, executeWebhookStep,
         executeConditionStep, executeWaitStep, LogCompletion, JobCompleted, LogFailure,
         SetFailed, JobFailed, At, HandingOver, HandlerOK
    <3>2. CASE i # j
      <4>. pc'[j] = pc[j]
        BY <2>4, <3>2 DEF Handler, Evict, DelayElapsed, TakeJob, FindExecution,
           FindWorkflow, LogStart, SetCurrentStep, executeHttpStep, executeWebhookStep,
           executeConditionStep, executeWaitStep, LogCompletion, SetCompleted, QueueNextStep,
           JobCompleted, LogFailure, SetFailed, JobFailed, Goto, Release, TypeOK
      <4>. QED BY <1>3
    <3>. QED BY <3>1, <3>2
  <2>5. ASSUME NEW c \in Callers,
               TriggerWorkflow(c) \/ CreateExecution(c) \/ StartWorkflowExecution(c)
        PROVE  pc'[j] \in HandingOver
    BY <1>3, <2>5 DEF TriggerWorkflow, CreateExecution, StartWorkflowExecution
  <2>6. UNCHANGED vars => pc'[j] \in HandingOver
    BY <1>3 DEF vars
  <2>. QED BY <2>1, <2>2, <2>3, <2>4, <2>5, <2>6 DEF CalmAction
<1>. QED BY <1>1, <1>2, <1>3 DEF HandedOver

LEMMA NewCompletion ==
  ASSUME TypeOK, HandlerOK, CalmAction, NEW e \in Execs, NEW s \in Steps,
         Finished(e, s)', ~Finished(e, s)
  PROVE  \E j \in JobId : ExecOf(j) = e /\ StepOf(j) = s /\ LogCompletion(j)
<1> USE DEF rowVars, queueVars, workVars, callVars, boundVars
<1>1. s \in StepOrNone /\ \A k \in {"started", "completed", "failed"} : k \in EntryKind
  BY DEF StepOrNone, EntryKind
<1>w. ASSUME NEW j \in JobId, NEW k \in EntryKind,
             addExecutionLogEntry(ExecOf(j), StepOf(j), k)
      PROVE  k = "completed" /\ ExecOf(j) = e /\ StepOf(j) = s
  <2>1. ExecOf(j) \in Execs /\ StepOf(j) \in StepOrNone
        /\ log \in [Execs -> [StepOrNone -> [EntryKind -> Nat]]]
    BY JobIds DEF TypeOK
  <2>2. log'[e][s]["completed"] # log[e][s]["completed"]
    BY DEF Finished
  <2>. QED BY ONLY <1>1, <1>w, <2>1, <2>2, AddedEntry
<1>2. ASSUME NEW j \in JobId, LogStart(j) \/ LogFailure(j) PROVE FALSE
  BY <1>1, <1>2, <1>w DEF LogStart, LogFailure
<1>3. ASSUME NEW j \in JobId, LogCompletion(j) PROVE ExecOf(j) = e /\ StepOf(j) = s
  BY <1>1, <1>3, <1>w DEF LogCompletion
<1>4. ASSUME NEW j \in JobId,
             \/ DelayElapsed(j) \/ TakeJob(j) \/ FindExecution(j) \/ FindWorkflow(j)
             \/ SetCurrentStep(j) \/ executeHttpStep(j) \/ executeWebhookStep(j)
             \/ executeConditionStep(j) \/ executeWaitStep(j) \/ SetCompleted(j)
             \/ QueueNextStep(j) \/ JobCompleted(j) \/ SetFailed(j) \/ JobFailed(j)
             \/ Evict(j)
      PROVE  UNCHANGED log
  BY <1>4 DEF DelayElapsed, TakeJob, FindExecution, FindWorkflow, SetCurrentStep,
     executeHttpStep, executeWebhookStep, executeConditionStep, executeWaitStep,
     SetCompleted, QueueNextStep, JobCompleted, SetFailed, JobFailed, Evict
<1>5. ASSUME NEW c \in Callers,
             TriggerWorkflow(c) \/ CreateExecution(c) \/ StartWorkflowExecution(c)
      PROVE  UNCHANGED log
  BY <1>5 DEF TriggerWorkflow, CreateExecution, StartWorkflowExecution
<1>6. ~UNCHANGED log
  BY DEF Finished
<1>. QED BY <1>2, <1>3, <1>4, <1>5, <1>6 DEF CalmAction, Handler, vars

LEMMA CarriedOnStep ==
  ASSUME TypeOK, HandlerOK, CalmInv, CarriedOnInv, [Next]_vars
  PROVE  CarriedOnInv'
<1> SUFFICES ASSUME OnlyTriggers', NEW e \in Execs, status'[e] = "running"
             PROVE  /\ Healthy(e)'
                    /\ \A s \in StepIds(def)' : Finished(e, s)' => HandedOver(e, s)'
                    /\ HasFirstStep(def)' => Begun(e)'
  BY DEF CarriedOnInv, CarriedOn
<1> USE DEF rowVars, queueVars, workVars, callVars, boundVars
<1>1. OnlyTriggers /\ Calm /\ CarriedOn(e)
  BY Premises DEF CalmInv, CarriedOnInv
<1>2. CalmAction /\ UNCHANGED <<wfStatus, def>>
  BY <1>1, CalmNext
<1>3. StepIds(def)' = StepIds(def) /\ HasFirstStep(def)' = HasFirstStep(def)
      /\ StepIds(def) \subseteq Steps
  BY <1>2, Definitions DEF StepIds, HasFirstStep, IsFirstStep, TypeOK
<1>4. CASE status[e] = "running"
  <2>1. /\ Healthy(e)
        /\ \A s \in StepIds(def) : Finished(e, s) => HandedOver(e, s)
        /\ HasFirstStep(def) => Begun(e)
    BY <1>1, <1>4 DEF CarriedOn
  <2>2. Healthy(e)'
    BY <1>1, <1>2, <1>4, <2>1, HealthyStep
  <2>3. ASSUME NEW s \in StepIds(def), Finished(e, s)' PROVE HandedOver(e, s)'
    <3>1. CASE Finished(e, s)
      BY <1>1, <1>2, <1>3, <1>4, <2>1, <3>1, HandedOverStep
    <3>2. CASE ~Finished(e, s)
      <4>1. PICK j \in JobId : ExecOf(j) = e /\ StepOf(j) = s /\ LogCompletion(j)
        BY <1>1, <1>2, <1>3, <2>3, <3>2, NewCompletion
      <4>2. pc'[j] \in HandingOver
        BY <4>1 DEF LogCompletion, Goto, HandingOver, TypeOK
      <4>. QED BY <4>1, <4>2 DEF HandedOver, ExecOf, StepOf
    <3>. QED BY <3>1, <3>2
  <2>4. ASSUME HasFirstStep(def) PROVE Begun(e)'
    <3>1. ASSUME NEW s \in StepIds(def), Finished(e, s) PROVE Begun(e)'
      <4>. Finished(e, s)'
        BY <1>3, <3>1, FinishedStays
      <4>. QED BY <1>3, <3>1 DEF Begun
    <3>2. ASSUME NEW j \in JobId, ExecOf(j) = e, Live(j) PROVE Begun(e)'
      <4>1. CASE Live(j)'
        BY <3>2, <4>1 DEF Begun, ExecOf
      <4>. QED BY <1>2, <2>1, <3>1, <3>2, <4>1, LiveStep
    <3>3. ASSUME NEW c \in Callers, callPc[c] = "start", callExec[c] = e PROVE Begun(e)'
      <4>1. CASE StartWorkflowExecution(c)
        <5>1. PICK s \in Steps : AddJob(jobIdOf(e, s), "waiting")
          <6>. callDef[c] = def
            BY <1>1, <3>3 DEF Calm, CallsCalm
          <6>. QED BY <2>4, <3>3, <4>1 DEF StartWorkflowExecution
        <5>2. jobIdOf(e, s) \in JobId /\ ExecOf(jobIdOf(e, s)) = e
          BY JobIds DEF StepOrNone, jobIdOf, ExecOf
        <5>3. jobs[jobIdOf(e, s)] = "none"
          BY <1>1, <3>3, <5>2 DEF Calm, CallsCalm
        <5>4. jobs'[jobIdOf(e, s)] = "waiting"
          BY <5>1, <5>2, <5>3 DEF AddJob, TypeOK
        <5>. QED BY <5>2, <5>4 DEF Begun, Live, ExecOf
      <4>2. CASE ~StartWorkflowExecution(c)
        <5>1. callPc'[c] = callPc[c] /\ callExec'[c] = callExec[c]
          <6>1. ASSUME NEW j \in JobId, Handler(j) \/ Evict(j) PROVE UNCHANGED callVars
            BY <6>1 DEF Handler, Evict, DelayElapsed, TakeJob, FindExecution, FindWorkflow,
               LogStart, SetCurrentStep, executeHttpStep, executeWebhookStep,
               executeConditionStep, executeWaitStep, LogCompletion, SetCompleted,
               QueueNextStep, JobCompleted, LogFailure, SetFailed, JobFailed
          <6>2. ASSUME NEW o \in Callers,
                       TriggerWorkflow(o) \/ CreateExecution(o) \/ StartWorkflowExecution(o)
                PROVE  callPc'[c] = callPc[c] /\ callExec'[c] = callExec[c]
            BY <3>3, <4>2, <6>2 DEF TriggerWorkflow, CreateExecution, StartWorkflowExecution,
               CallAt, EndCall, TypeOK
          <6>. QED BY <1>2, <6>1, <6>2 DEF CalmAction, vars
        <5>. QED BY <3>3, <5>1 DEF Begun
      <4>. QED BY <4>1, <4>2
    <3>. QED BY <2>1, <2>4, <3>1, <3>2, <3>3 DEF Begun
  <2>. QED BY <1>3, <2>2, <2>3, <2>4
<1>5. CASE status[e] # "running"
  <2>1. /\ status[e] = "none" /\ UNCHANGED <<jobs, pc, log>>
        /\ \E c \in Callers : callPc'[c] = "start" /\ callExec'[c] = e
    BY <1>1, <1>2, <1>5, CalmStatus
  <2>2. \A j \in JobId : ExecOf(j) = e => jobs[j] = "none" /\ pc[j] = "idle"
    BY <1>1, <2>1 DEF Calm, RowsCalm, HandlerOK
  <2>3. \A s \in StepIds(def) : ~Finished(e, s)'
    <3>. \A s \in StepOrNone, k \in EntryKind : log[e][s][k] = 0
      BY <1>1, <2>1 DEF Calm, RowsCalm
    <3>. QED BY <1>3, <2>1 DEF Finished, StepOrNone, EntryKind
  <2>4. Healthy(e)'
    BY <2>1, <2>2 DEF Healthy, HandingOver, ExecOf
  <2>. QED BY <1>3, <2>1, <2>3, <2>4 DEF Begun
<1>. QED BY <1>4, <1>5

LEMMA InitCarriedOn == Init => CarriedOnInv
  BY DEF Init, CarriedOnInv, CarriedOn

(* Without pauses, faults and crashes a running execution of an acyclic      *)
(* workflow always has a job pending or being handled, or its trigger is     *)
(* under way.                                                                *)
THEOREM NotStrandedCorrect == Spec => []NotStranded
<1>1. Spec => [](TypeOK /\ HandlerOK /\ CalmInv /\ CarriedOnInv)
  <2>1. Init => TypeOK /\ HandlerOK /\ CalmInv /\ CarriedOnInv
    BY InitTyped, InitCalm, InitCarriedOn
  <2>2. TypeOK /\ HandlerOK /\ CalmInv /\ CarriedOnInv /\ [Next]_vars
        => TypeOK' /\ HandlerOK' /\ CalmInv' /\ CarriedOnInv'
    BY TypeStep, HandlerStep, CalmStep, CarriedOnStep
  <2>. QED BY <2>1, <2>2, PTL DEF Spec
<1>2. ASSUME TypeOK, HandlerOK, CarriedOnInv PROVE NotStranded
  <2> SUFFICES ASSUME OnlyTriggers, HasFirstStep(def), Acyclic(def),
                      NEW e \in Execs, status[e] = "running",
                      ~ \E c \in Callers : callExec[c] = e /\ CallAt(c, "start")
               PROVE  \E j \in JobId : ExecOf(j) = e /\ Live(j)
    BY DEF NotStranded, Live
  <2>1. SUFFICES ASSUME \A j \in JobId : ExecOf(j) = e => ~Live(j) PROVE FALSE
    OBVIOUS
  <2>2. CarriedOn(e)
    BY <1>2 DEF CarriedOnInv
  <2> DEFINE S == {s \in StepIds(def) : Finished(e, s)}
  <2>3. S # {}
    BY <2>1, <2>2 DEF CarriedOn, Begun, CallAt
  <2>4. ASSUME NEW s \in S PROVE \E t \in S : IsNext(def, s, t)
    <3>1. HandedOver(e, s)
      BY <2>2 DEF CarriedOn
    <3>2. \A j \in JobId : ExecOf(j) = e => pc[j] \notin HandingOver
      BY <1>2, <2>1 DEF HandlerOK, Live, HandingOver
    <3>3. PICK t \in Steps : IsNext(def, s, t) /\ Finished(e, t)
      BY <2>1, <3>1, <3>2 DEF HandedOver
    <3>4. t \in StepIds(def)
      BY <1>2, <3>3, EngineAssumption DEF IsNext, validateWorkflowStructure, TypeOK
    <3>. QED BY <3>3, <3>4
  <2>5. S \in (SUBSET StepIds(def)) \ {{}}
    BY <2>3
  <2> HIDE DEF S
  <2>6. PICK s \in S : \A i \in DOMAIN def.next[s] : def.next[s][i] \notin S
    BY <2>5 DEF Acyclic
  <2>. QED BY <2>4, <2>6 DEF IsNext
<1>. QED BY <1>1, <1>2, PTL

-----------------------------------------------------------------------------
(* OutcomeIsFinal.  On a straight line an execution has one job at a time,   *)
(* and once it has ended no handler of it is on its way to a status.         *)

Busy(j) == \/ jobs[j] \in {"waiting", "delayed"}
           \/ jobs[j] = "active" /\ pc[j] # "done"

SingleJob ==
  \A i, j \in JobId : ExecOf(i) = ExecOf(j) /\ Busy(i) /\ Busy(j) => i = j

ShortTodo == \A j \in JobId : pc[j] \in Stepping => Len(todo[j]) <= 1

Settled ==
  \A j \in JobId : status[ExecOf(j)] \in {"completed", "failed"} =>
    pc[j] \in {"idle", "findExecution", "done", "throw"}

OneAtATimeInv == (OnlyTriggers /\ Linear(def)) => SingleJob /\ ShortTodo /\ Settled

LEMMA NoWaits ==
  ASSUME HandlerOK, Calm, Linear(def), NEW j \in JobId
  PROVE  ~executeWaitStep(j)
<1> SUFFICES ASSUME executeWaitStep(j) PROVE FALSE
  OBVIOUS
<1>1. At(j, "execute") /\ jobDef[j].type[StepOf(j)] = "wait"
  BY DEF executeWaitStep, TypeOfStep
<1>2. jobDef[j] = def /\ StepOf(j) \in StepIds(def)
  BY <1>1 DEF At, Calm, HandlersCalm, Stepping
<1>. QED BY <1>1, <1>2 DEF Linear

LEMMA ShortTodoStep ==
  ASSUME TypeOK, HandlerOK, Calm, CalmAction, Linear(def), ShortTodo
  PROVE  ShortTodo'
<1> SUFFICES ASSUME NEW k \in JobId, pc'[k] \in Stepping PROVE Len(todo'[k]) <= 1
  BY DEF ShortTodo, Stepping
<1> USE DEF rowVars, queueVars, workVars, callVars, boundVars
<1>0. ASSUME todo'[k] = todo[k], pc[k] \in Stepping PROVE Len(todo'[k]) <= 1
  BY <1>0 DEF ShortTodo
<1>1. ASSUME NEW j \in JobId, FindWorkflow(j) PROVE Len(todo'[k]) <= 1
  <2>1. CASE k # j
    BY <1>1, <2>1, <1>0 DEF FindWorkflow, Goto, TypeOK
  <2>2. CASE k = j
    <3>. StepOf(k) \in StepIds(def) /\ todo'[k] = def.next[StepOf(k)]
      BY <1>1, <2>2 DEF FindWorkflow, Goto, Stepping, TypeOK
    <3>. QED BY DEF Linear
  <2>. QED BY <2>1, <2>2
<1>2. ASSUME NEW j \in JobId, LogCompletion(j) PROVE Len(todo'[k]) <= 1
  <2>1. CASE k # j
    BY <1>2, <2>1, <1>0 DEF LogCompletion, Goto, TypeOK
  <2>2. CASE k = j
    <3>1. /\ StepOf(k) \in StepIds(def) /\ jobDef[k] = def /\ StepOf(k) \in Steps
          /\ branch[k] \in BOOLEAN /\ def \in Defs
      BY <1>2, <2>2 DEF LogCompletion, At, HandlerOK, Stepping, Calm, HandlersCalm, TypeOK
    <3>2. todo'[k] = nextStepIds(def, StepOf(k), branch[k])
      BY <1>2, <2>2, <3>1 DEF LogCompletion, TypeOK
    <3>3. Len(def.next[StepOf(k)]) <= 1
      BY <3>1 DEF Linear
    <3>. QED BY <3>2, <3>3 DEF nextStepIds
  <2>. QED BY <2>1, <2>2
<1>3. ASSUME NEW j \in JobId, QueueNextStep(j) PROVE Len(todo'[k]) <= 1
  <2>1. CASE k # j
    BY <1>3, <2>1, <1>0 DEF QueueNextStep, Goto, TypeOK
  <2>2. CASE k = j
    <3>1. todo[k] \in Seq(Steps) /\ todo[k] # <<>> /\ Len(todo[k]) <= 1
      BY <1>3, <2>2 DEF QueueNextStep, At, HandlerOK, ShortTodo, Stepping, TypeOK
    <3>2. todo'[k] = Tail(todo[k])
      BY <1>3, <2>2 DEF QueueNextStep, TypeOK
    <3>3. Len(Tail(todo[k])) = Len(todo[k]) - 1
      BY <3>1
    <3>. QED BY <3>1, <3>2, <3>3
  <2>. QED BY <2>1, <2>2
<1>4. ASSUME NEW j \in JobId,
             \/ DelayElapsed(j) \/ TakeJob(j) \/ FindExecution(j) \/ LogStart(j)
             \/ SetCurrentStep(j) \/ executeHttpStep(j) \/ executeWebhookStep(j)
             \/ executeConditionStep(j) \/ SetCompleted(j) \/ LogFailure(j)
             \/ SetFailed(j) \/ Evict(j)
      PROVE  Len(todo'[k]) <= 1
  <2>. UNCHANGED todo /\ pc[k] \in Stepping
    BY <1>4 DEF DelayElapsed, TakeJob, FindExecution, LogStart, SetCurrentStep,
       executeHttpStep, executeWebhookStep, executeConditionStep, SetCompleted, LogFailure,
       SetFailed, Evict, At, Goto, Stepping, TypeOK
  <2>. QED BY <1>0
<1>5. ASSUME NEW j \in JobId, JobCompleted(j) \/ JobFailed(j) PROVE Len(todo'[k]) <= 1
  <2>. k # j /\ pc'[k] = pc[k] /\ todo'[k] = todo[k]
    BY <1>5 DEF JobCompleted, JobFailed, Release, Stepping, TypeOK
  <2>. QED BY <1>0
<1>6. ASSUME NEW c \in Callers,
             TriggerWorkflow(c) \/ CreateExecution(c) \/ StartWorkflowExecution(c)
      PROVE  Len(todo'[k]) <= 1
  BY <1>6, <1>0 DEF TriggerWorkflow, CreateExecution, StartWorkflowExecution
<1>7. UNCHANGED vars => Len(todo'[k]) <= 1
  BY <1>0 DEF vars
<1>. QED BY <1>1, <1>2, <1>3, <1>4, <1>5, <1>6, <1>7, NoWaits DEF CalmAction, Handler

LEMMA SingleJobStep ==
  ASSUME TypeOK, HandlerOK, Calm, CalmAction, Linear(def), SingleJob, ShortTodo
  PROVE  SingleJob'
<1> USE DEF rowVars, queueVars, workVars, callVars, boundVars
<1>0. ASSUME \A k \in JobId : Busy(k)' => Busy(k) PROVE SingleJob'
  BY <1>0 DEF SingleJob, ExecOf
(* The only job of an execution may give way to one new job.                 *)
<1>n. ASSUME NEW x \in JobId, \A k \in JobId \ {x} : Busy(k)' => Busy(k),
             \A k \in JobId \ {x} : ExecOf(k) = ExecOf(x) => ~Busy(k)'
      PROVE  SingleJob'
  BY <1>n DEF SingleJob, ExecOf
<1>1. ASSUME NEW j \in JobId,
             \/ DelayElapsed(j) \/ TakeJob(j) \/ FindExecution(j) \/ FindWorkflow(j)
             \/ LogStart(j) \/ SetCurrentStep(j) \/ executeHttpStep(j)
             \/ executeWebhookStep(j) \/ executeConditionStep(j) \/ LogCompletion(j)
             \/ SetCompleted(j) \/ JobCompleted(j) \/ LogFailure(j) \/ SetFailed(j)
             \/ JobFailed(j) \/ Evict(j)
      PROVE  SingleJob'
  <2>. ASSUME NEW k \in JobId, Busy(k)' PROVE Busy(k)
    BY <1>1 DEF DelayElapsed, TakeJob, FindExecution, FindWorkflow, LogStart, SetCurrentStep,
       executeHttpStep, executeWebhookStep, executeConditionStep, LogCompletion,
       SetCompleted, JobCompleted, LogFailure, SetFailed, JobFailed, Evict, Release, At,
       Goto, Busy, TypeOK
  <2>. QED BY <1>0
<1>2. ASSUME NEW j \in JobId, QueueNextStep(j) PROVE SingleJob'
  <2> DEFINE x == jobIdOf(ExecOf(j), Head(todo[j]))
  <2>1. /\ jobs[j] = "active" /\ pc[j] = "nextSteps" /\ AddJob(x, "waiting")
        /\ todo[j] # <<>> /\ todo[j] \in Seq(Steps) /\ Len(todo[j]) <= 1
    BY <1>2 DEF QueueNextStep, At, HandlerOK, ShortTodo, Stepping, TypeOK
  <2>2. Tail(todo[j]) = <<>> /\ Head(todo[j]) \in Steps
    BY <2>1
  <2>3. pc' = [pc EXCEPT ![j] = "done"]
    BY <1>2, <2>2 DEF QueueNextStep, Goto
  <2>4. x \in JobId /\ ExecOf(x) = ExecOf(j)
    BY <2>2, JobIds DEF StepOrNone, jobIdOf, ExecOf
  <2> HIDE DEF x
  <2>5. \A k \in JobId : k # j /\ jobs'[k] # jobs[k] => k = x
    BY <2>1, <2>4 DEF AddJob, TypeOK
  <2>6. jobs'[j] = "active"
    BY <2>1, <2>4 DEF AddJob, TypeOK
  <2>7. ~Busy(j)' /\ Busy(j)
    BY <2>1, <2>3, <2>6 DEF Busy, TypeOK
  <2>8. ASSUME NEW k \in JobId \ {x}, Busy(k)' PROVE Busy(k)
    <3>. k # j /\ jobs'[k] = jobs[k] /\ pc'[k] = pc[k]
      BY <2>3, <2>5, <2>7, <2>8 DEF TypeOK
    <3>. QED BY <2>8 DEF Busy
  <2>9. \A k \in JobId \ {x} : ExecOf(k) = ExecOf(x) => ~Busy(k)'
    BY <2>4, <2>7, <2>8 DEF SingleJob
  <2>. QED BY <1>n, <2>4, <2>8, <2>9
<1>3. ASSUME NEW c \in Callers, StartWorkflowExecution(c) PROVE SingleJob'
  <2>1. CASE UNCHANGED jobs
    <3>. \A k \in JobId : Busy(k)' => Busy(k)
      BY <1>3, <2>1 DEF StartWorkflowExecution, Busy
    <3>. QED BY <1>0
  <2>2. CASE ~UNCHANGED jobs
    <3>1. PICK s \in Steps : AddJob(jobIdOf(callExec[c], s), "waiting")
      BY <1>3, <2>2 DEF StartWorkflowExecution
    <3> DEFINE x == jobIdOf(callExec[c], s)
    <3>2. x \in JobId /\ ExecOf(x) = callExec[c]
      BY JobIds DEF StepOrNone, jobIdOf, ExecOf, TypeOK
    <3>3. \A k \in JobId : ExecOf(k) = callExec[c] => jobs[k] = "none"
      BY <1>3 DEF StartWorkflowExecution, CallAt, Calm, CallsCalm
    <3> HIDE DEF x
    <3>4. \A k \in JobId \ {x} : jobs'[k] = jobs[k] /\ pc'[k] = pc[k]
      BY <1>3, <3>1, <3>2 DEF StartWorkflowExecution, AddJob, TypeOK, x
    <3>5. \A k \in JobId \ {x} : Busy(k)' => Busy(k)
      BY <3>4 DEF Busy
    <3>6. \A k \in JobId \ {x} : ExecOf(k) = ExecOf(x) => ~Busy(k)'
      BY <3>2, <3>3, <3>4 DEF Busy
    <3>. QED BY <1>n, <3>2, <3>5, <3>6
  <2>. QED BY <2>1, <2>2
<1>4. ASSUME NEW c \in Callers, TriggerWorkflow(c) \/ CreateExecution(c) PROVE SingleJob'
  <2>. UNCHANGED <<jobs, pc>>
    BY <1>4 DEF TriggerWorkflow, CreateExecution
  <2>. QED BY <1>0 DEF Busy
<1>5. UNCHANGED vars => SingleJob'
  BY <1>0 DEF vars, Busy
<1>. QED BY <1>1, <1>2, <1>3, <1>4, <1>5, NoWaits DEF CalmAction, Handler

LEMMA SettledStep ==
  ASSUME TypeOK, HandlerOK, Calm, CalmAction, Linear(def), SingleJob, Settled
  PROVE  Settled'
<1> DEFINE Rest == {"idle", "findExecution", "done", "throw"}
<1> SUFFICES ASSUME NEW k \in JobId, status'[ExecOf(k)] \in {"completed", "failed"}
             PROVE  pc'[k] \in Rest
  BY DEF Settled, ExecOf
<1> USE DEF rowVars, queueVars, workVars, callVars, boundVars
<1>1. ExecOf(k) \in Execs
  BY JobIds
<1>2. CASE status'[ExecOf(k)] = status[ExecOf(k)]
  <2>1. pc[k] \in Rest /\ status[ExecOf(k)] \in {"completed", "failed"}
    BY <1>2 DEF Settled
  <2>2. ASSUME NEW j \in JobId, Handler(j) \/ Evict(j) PROVE pc'[k] \in Rest
    <3>1. CASE k # j
      <4>. pc'[k] = pc[k]
        BY <2>2, <3>1 DEF Handler, Evict, DelayElapsed, TakeJob, FindExecution,
           FindWorkflow, LogStart, SetCurrentStep, executeHttpStep, executeWebhookStep,
           executeConditionStep, executeWaitStep, LogCompletion, SetCompleted, QueueNextStep,
           JobCompleted, LogFailure, SetFailed, JobFailed, Goto, Release, TypeOK
      <4>. QED BY <2>1
    <3>2. CASE k = j
      BY <2>1, <2>2, <3>2 DEF Handler, Evict, DelayElapsed, TakeJob, FindExecution,
         FindWorkflow, LogStart, SetCurrentStep, executeHttpStep, executeWebhookStep,
         executeConditionStep, executeWaitStep, LogCompletion, SetCompleted, QueueNextStep,
         JobCompleted, LogFailure, SetFailed, JobFailed, Goto, Release, At, RowExists, TypeOK
    <3>. QED BY <3>1, <3>2
  <2>3. ASSUME NEW c \in Callers,
               TriggerWorkflow(c) \/ CreateExecution(c) \/ StartWorkflowExecution(c)
        PROVE  pc'[k] \in Rest
    BY <2>1, <2>3 DEF TriggerWorkflow, CreateExecution, StartWorkflowExecution
  <2>4. UNCHANGED vars => pc'[k] \in Rest
    BY <2>1 DEF vars
  <2>. QED BY <2>2, <2>3, <2>4 DEF CalmAction
<1>3. CASE status'[ExecOf(k)] # status[ExecOf(k)]
  <2>1. PICK j \in JobId : /\ ExecOf(j) = ExecOf(k)
                           /\ \/ At(j, "setCompleted") /\ SetCompleted(j)
                              \/ At(j, "setFailed") /\ SetFailed(j)
    BY <1>1, <1>3, CalmStatus
  <2>2. pc'[j] \in {"done", "throw"} /\ \A i \in JobId \ {j} : pc'[i] = pc[i]
    BY <2>1 DEF SetCompleted, SetFailed, Goto, TypeOK
  <2>3. Busy(j)
    BY <2>1 DEF At, Busy
  <2>4. CASE k # j
    <3>. ~Busy(k)
      BY <2>1, <2>3, <2>4 DEF SingleJob
    <3>. QED BY <2>2, <2>4 DEF Busy, HandlerOK
  <2>. QED BY <2>2, <2>4
<1>. QED BY <1>2, <1>3

LEMMA OneAtATimeStep ==
  ASSUME TypeOK, HandlerOK, CalmInv, OneAtATimeInv, [Next]_vars
  PROVE  OneAtATimeInv'
<1> SUFFICES ASSUME OnlyTriggers', Linear(def)' PROVE SingleJob' /\ ShortTodo' /\ Settled'
  BY DEF OneAtATimeInv
<1>1. OnlyTriggers /\ Calm
  BY Premises DEF CalmInv
<1>2. CalmAction /\ UNCHANGED <<wfStatus, def>>
  BY <1>1, CalmNext
<1>3. Linear(def)
  BY <1>2 DEF Linear, StepIds
<1>4. SingleJob /\ ShortTodo /\ Settled
  BY <1>1, <1>3 DEF OneAtATimeInv
<1>. QED BY <1>1, <1>2, <1>3, <1>4, SingleJobStep, ShortTodoStep, SettledStep

LEMMA InitOneAtATime == Init => OneAtATimeInv
  BY DEF Init, OneAtATimeInv, SingleJob, ShortTodo, Settled, Busy, Stepping

(* In a workflow without forks and waits, and with no request but triggers,  *)
(* an execution that failed or completed keeps that status.                  *)
THEOREM OutcomeIsFinalCorrect == Spec => OutcomeIsFinal
<1> DEFINE Final == (OnlyTriggers /\ Linear(def)) =>
             \A e \in Execs : status[e] \in {"completed", "failed"} => status'[e] = status[e]
<1>1. Spec => [](TypeOK /\ HandlerOK /\ CalmInv /\ OneAtATimeInv)
  <2>1. Init => TypeOK /\ HandlerOK /\ CalmInv /\ OneAtATimeInv
    BY InitTyped, InitCalm, InitOneAtATime
  <2>2. TypeOK /\ HandlerOK /\ CalmInv /\ OneAtATimeInv /\ [Next]_vars
        => TypeOK' /\ HandlerOK' /\ CalmInv' /\ OneAtATimeInv'
    BY TypeStep, HandlerStep, CalmStep, OneAtATimeStep
  <2>. QED BY <2>1, <2>2, PTL DEF Spec
<1>2. TypeOK /\ HandlerOK /\ CalmInv /\ OneAtATimeInv /\ [Next]_vars => [Final]_status
  <2> SUFFICES ASSUME TypeOK, CalmInv, OneAtATimeInv, [Next]_vars, OnlyTriggers, Linear(def),
                      NEW e \in Execs, status[e] \in {"completed", "failed"}
               PROVE  status'[e] = status[e]
    OBVIOUS
  <2> USE DEF rowVars, queueVars, workVars, callVars, boundVars
  <2>1. Calm /\ Settled
    BY DEF CalmInv, OneAtATimeInv
  <2>2. ASSUME NEW j \in JobId, SetCompleted(j) \/ SetFailed(j) PROVE status'[e] = status[e]
    BY <2>1, <2>2 DEF SetCompleted, SetFailed, At, updateStatus, Settled, TypeOK
  <2>3. ASSUME NEW c \in Callers, CreateExecution(c) PROVE status'[e] = status[e]
    BY <2>3 DEF CreateExecution, TypeOK
  <2>4. \A c \in Callers : ~SetPaused(c) /\ ~SetRunning(c) /\ ~DeleteRows(c)
    BY <2>1 DEF Calm, CallsCalm, SetPaused, SetRunning, DeleteRows, CallAt
  <2>5. ASSUME NEW j \in JobId, Handler(j) \/ HandlerError(j) \/ Evict(j),
               ~SetCompleted(j), ~SetFailed(j)
        PROVE  UNCHANGED status
    BY <2>5 DEF Handler, HandlerError, Evict, DelayElapsed, TakeJob, FindExecution,
       FindWorkflow, LogStart, SetCurrentStep, executeHttpStep, executeWebhookStep,
       executeConditionStep, executeWaitStep, LogCompletion, QueueNextStep, JobCompleted,
       LogFailure, JobFailed
  <2>6. ASSUME NEW c \in Callers,
               \/ CallStart(c) \/ StartWorkflowExecution(c) \/ ListExecutions(c)
               \/ ListJobs(c) \/ RemoveJob(c) \/ RequeueCurrentStep(c) \/ CallError(c)
        PROVE  UNCHANGED status
    BY <2>6 DEF CallStart, CallError, TriggerWorkflow, PauseWorkflow, DeleteWorkflow,
       ActivateWorkflow, UpdateWorkflow, PauseExecution, ResumeExecution,
       StartWorkflowExecution, ListExecutions, ListJobs, RemoveJob, RequeueCurrentStep
  <2>7. Crash \/ UNCHANGED vars => UNCHANGED status
    BY DEF Crash, vars
  <2>. QED BY <2>2, <2>3, <2>4, <2>5, <2>6, <2>7 DEF Next, CallStep
<1>. QED BY <1>1, <1>2, PTL DEF Spec, OutcomeIsFinal

-----------------------------------------------------------------------------
(* RepetitionNeedsPauseAndResume.  A trail to s carries tokens: the jobs on   *)
(* it that may still lead to the effect of s and the requests about to queue *)
(* one.  A step moves a token or spends it on an effect; only a trigger makes *)
(* the first one of an execution, and only a resume another.                 *)

JobToken(j, e, s, A) ==
  /\ ExecOf(j) = e
  /\ StepOf(j) \in A
  /\ \/ jobs[j] \in {"waiting", "delayed"}
     \/ /\ jobs[j] = "active"
        /\ \/ pc[j] \notin AfterEffect
           \/ pc[j] = "logCompletion" /\ StepOf(j) # s
           \/ pc[j] = "nextSteps" /\ \E i \in DOMAIN todo[j] : todo[j][i] \in A

CallToken(c, e, A) ==
  /\ callExec[c] = e
  /\ CallAt(c, "start") \/ (CallAt(c, "requeue") /\ callStep[c] \in A)

Tokens(e, s, A) ==
  {<<"job", j>> : j \in {k \in JobId : JobToken(k, e, s, A)}}
    \cup {<<"call", c>> : c \in {d \in Callers : CallToken(d, e, A)}}

TokensBounded(e, s, A) ==
  /\ IsFiniteSet(Tokens(e, s, A))
  /\ effects[e][s] + Cardinality(Tokens(e, s, A)) <= 1 + resumes[e]

TokenInv ==
  (Undisturbed /\ timers = 0 /\ Unjoined) =>
    \A e \in Execs, s \in Steps, A \in SUBSET Steps : IsTrail(A, s) => TokensBounded(e, s, A)

(* A paused execution is among those that were paused once.                  *)
PausesKnown == \A e \in Execs : status[e] = "paused" => e \in pausedOnce

(* Before an execution exists none of its steps has taken effect.            *)
Unborn == \A e \in Execs : status[e] = "none" => \A s \in Steps : effects[e][s] = 0

(* A handler never has a next step twice on its list.                        *)
OneTo(seq) == \A i, k \in DOMAIN seq : seq[i] = seq[k] => i = k
TodoDistinct == Unjoined => \A j \in JobId : OneTo(todo[j])

LEMMA TokensWithin ==
  ASSUME NEW e, NEW s, NEW A, NEW X, NEW Y,
         \A j \in JobId : JobToken(j, e, s, A)' =>
            <<"job", j>> \in Y \/ (JobToken(j, e, s, A) /\ <<"job", j>> \notin X),
         \A c \in Callers : CallToken(c, e, A)' =>
            <<"call", c>> \in Y \/ (CallToken(c, e, A) /\ <<"call", c>> \notin X)
  PROVE  Tokens(e, s, A)' \subseteq (Tokens(e, s, A) \ X) \cup Y
  BY DEF Tokens

LEMMA TokenOf ==
  ASSUME NEW e, NEW s, NEW A
  PROVE  /\ \A j \in JobId : JobToken(j, e, s, A) => <<"job", j>> \in Tokens(e, s, A)
         /\ \A c \in Callers : CallToken(c, e, A) => <<"call", c>> \in Tokens(e, s, A)
  BY DEF Tokens

(* An effect counted is that of a handler that executes the step.            *)
LEMMA EffectBy ==
  ASSUME TypeOK, HandlerOK, [Next]_vars, NEW e \in Execs, NEW s \in Steps
  PROVE  \/ effects'[e][s] = effects[e][s]
         \/ /\ effects'[e][s] = effects[e][s] + 1
            /\ \E j \in JobId : /\ executeHttpStep(j) \/ executeWebhookStep(j)
                                /\ ExecOf(j) = e /\ StepOf(j) = s
                                /\ CountEffect(j) /\ Goto(j, "logCompletion")
<1> USE DEF rowVars, queueVars, workVars, callVars, boundVars
<1>1. ASSUME NEW j \in JobId, executeHttpStep(j) \/ executeWebhookStep(j), effects' # effects
      PROVE  /\ CountEffect(j) /\ Goto(j, "logCompletion")
             /\ \/ effects'[e][s] = effects[e][s]
                \/ /\ effects'[e][s] = effects[e][s] + 1
                   /\ ExecOf(j) = e /\ StepOf(j) = s
  <2>1. CountEffect(j) /\ Goto(j, "logCompletion") /\ At(j, "execute")
    BY <1>1 DEF executeHttpStep, executeWebhookStep
  <2>2. ExecOf(j) \in Execs /\ StepOf(j) \in Steps /\ effects \in [Execs -> [Steps -> Nat]]
    BY <2>1, JobIds DEF At, HandlerOK, Stepping, TypeOK
  <2>. QED BY <2>1, <2>2 DEF CountEffect
<1>2. ASSUME NEW j \in JobId,
             \/ DelayElapsed(j) \/ TakeJob(j) \/ FindExecution(j) \/ FindWorkflow(j)
             \/ LogStart(j) \/ SetCurrentStep(j) \/ executeConditionStep(j)
             \/ executeWaitStep(j) \/ LogCompletion(j) \/ SetCompleted(j)
             \/ QueueNextStep(j) \/ JobCompleted(j) \/ LogFailure(j) \/ SetFailed(j)
             \/ JobFailed(j) \/ HandlerError(j) \/ Evict(j)
      PROVE  effects' = effects
  BY <1>2 DEF DelayElapsed, TakeJob, FindExecution, FindWorkflow, LogStart, SetCurrentStep,
     executeConditionStep, executeWaitStep, LogCompletion, SetCompleted, QueueNextStep,
     JobCompleted, LogFailure, SetFailed, JobFailed, HandlerError, Evict
<1>3. ASSUME NEW c \in Callers, CallStart(c) \/ CallStep(c) \/ CallError(c)
      PROVE  effects' = effects
  BY <1>3 DEF CallStart, CallStep, CallError, TriggerWorkflow, PauseWorkflow, DeleteWorkflow,
     ActivateWorkflow, UpdateWorkflow, PauseExecution, ResumeExecution, CreateExecution,
     StartWorkflowExecution, ListExecutions, ListJobs, RemoveJob, SetPaused,
     RequeueCurrentStep, SetRunning, DeleteRows
<1>4. Crash \/ UNCHANGED vars => effects' = effects
  BY DEF Crash, vars
<1>. QED BY <1>1, <1>2, <1>3, <1>4 DEF Next, Handler

LEMMA UnbornStep ==
  ASSUME TypeOK, HandlerOK, ReachInv, Unborn, [Next]_vars
  PROVE  Unborn'
<1> SUFFICES ASSUME NEW e \in Execs, status'[e] = "none", NEW s \in Steps
             PROVE  effects'[e][s] = 0
  BY DEF Unborn
<1>1. status[e] = "none"
  BY StatusStep
<1>2. effects[e][s] = 0
  BY <1>1 DEF Unborn
<1>3. ASSUME NEW j \in JobId, executeHttpStep(j) \/ executeWebhookStep(j), ExecOf(j) = e
      PROVE  FALSE
  <2>. jobs[j] = "active"
    BY <1>3 DEF executeHttpStep, executeWebhookStep, At
  <2>. QED BY <1>1, <1>3 DEF ReachInv, JobsReached
<1>. QED BY <1>2, <1>3, EffectBy

LEMMA TodoDistinctStep ==
  ASSUME TypeOK, HandlerOK, TodoDistinct, [Next]_vars
  PROVE  TodoDistinct'
<1> SUFFICES ASSUME Unjoined, NEW k \in JobId PROVE OneTo(todo'[k])
  BY DEF TodoDistinct
<1> USE DEF rowVars, queueVars, workVars, callVars, boundVars
<1>0. OneTo(todo[k]) /\ OneTo(<<>>)
  BY DEF TodoDistinct, OneTo
<1>1. ASSUME NEW j \in JobId, todo' = [todo EXCEPT ![j] = Tail(@)], todo[j] # <<>>
      PROVE  OneTo(todo'[k])
  <2>1. /\ todo'[k] = IF k = j THEN Tail(todo[j]) ELSE todo[k]
        /\ todo[j] \in Seq(Steps)
    BY <1>1 DEF TypeOK
  <2>. QED BY <1>0, <1>1, <2>1 DEF OneTo
<1>2. ASSUME NEW j \in JobId, FindWorkflow(j) PROVE OneTo(todo'[k])
  <2>1. ASSUME StepOf(j) \in StepIds(def), todo' = [todo EXCEPT ![j] = def.next[StepOf(j)]]
        PROVE  OneTo(todo'[k])
    <3>. OneTo(def.next[StepOf(j)])
      BY <2>1, Definitions DEF Unjoined, OneTo, TypeOK
    <3>. QED BY <1>0, <2>1 DEF TypeOK
  <2>. QED BY <1>0, <1>2, <2>1 DEF FindWorkflow
<1>3. ASSUME NEW j \in JobId, LogCompletion(j) PROVE OneTo(todo'[k])
  <2>1. /\ jobDef[j] \in Defs /\ StepOf(j) \in Steps
        /\ todo' = [todo EXCEPT ![j] = nextStepIds(jobDef[j], StepOf(j), branch[j])]
    BY <1>3 DEF LogCompletion, At, HandlerOK, Stepping, TypeOK
  <2>2. OneTo(nextStepIds(jobDef[j], StepOf(j), branch[j]))
    BY <2>1 DEF nextStepIds, Unjoined, OneTo
  <2>. QED BY <1>0, <2>1, <2>2 DEF TypeOK
<1>4. ASSUME NEW j \in JobId, executeWaitStep(j) \/ QueueNextStep(j) PROVE OneTo(todo'[k])
  BY <1>0, <1>1, <1>4 DEF executeWaitStep, QueueNextStep, At, HandlerOK
<1>5. ASSUME NEW j \in JobId, JobCompleted(j) \/ JobFailed(j) PROVE OneTo(todo'[k])
  BY <1>0, <1>5 DEF JobCompleted, JobFailed, Release, TypeOK
<1>6. ASSUME NEW j \in JobId,
             \/ DelayElapsed(j) \/ TakeJob(j) \/ FindExecution(j) \/ LogStart(j)
             \/ SetCurrentStep(j) \/ executeHttpStep(j) \/ executeWebhookStep(j)
             \/ executeConditionStep(j) \/ SetCompleted(j) \/ LogFailure(j) \/ SetFailed(j)
             \/ HandlerError(j) \/ Evict(j)
      PROVE  UNCHANGED todo
  BY <1>6 DEF DelayElapsed, TakeJob, FindExecution, LogStart, SetCurrentStep,
     executeHttpStep, executeWebhookStep, executeConditionStep, SetCompleted, LogFailure,
     SetFailed, HandlerError, Evict
<1>7. ASSUME NEW c \in Callers, CallStart(c) \/ CallStep(c) \/ CallError(c)
      PROVE  UNCHANGED todo
  BY <1>7 DEF CallStart, CallStep, CallError, TriggerWorkflow, PauseWorkflow, DeleteWorkflow,
     ActivateWorkflow, UpdateWorkflow, PauseExecution, ResumeExecution, CreateExecution,
     StartWorkflowExecution, ListExecutions, ListJobs, RemoveJob, SetPaused,
     RequeueCurrentStep, SetRunning, DeleteRows
<1>8. Crash \/ UNCHANGED vars => todo'[k] \in {todo[k], <<>>}
  BY DEF Crash, vars
<1>. QED BY <1>0, <1>2, <1>3, <1>4, <1>5, <1>6, <1>7, <1>8 DEF Next, Handler

(* What a step does to the tokens of a trail.                                *)
Within(e, s, A, X, Y) == Tokens(e, s, A)' \subseteq (Tokens(e, s, A) \ X) \cup Y

Kept(e, s, A)  == Within(e, s, A, {}, {}) /\ UNCHANGED effects[e][s]

Spent(e, s, A) ==
  /\ effects'[e][s] = effects[e][s] + 1
  /\ \E x \in Tokens(e, s, A) : Within(e, s, A, {x}, {})

Moved(e, s, A) ==
  /\ UNCHANGED effects[e][s]
  /\ \E x \in Tokens(e, s, A) : \E y : Within(e, s, A, {x}, {y})

Resumed(e, s, A) ==
  /\ UNCHANGED effects[e][s]
  /\ resumes'[e] = resumes[e] + 1
  /\ \E y : Within(e, s, A, {}, {y})

Born(e, s, A) ==
  /\ UNCHANGED effects[e][s]
  /\ status[e] = "none"
  /\ \E y : Within(e, s, A, {}, {y})

LEMMA TokenMoves ==
  ASSUME TypeOK, HandlerOK, ReachInv, PausesKnown, TodoDistinct, [Next]_vars,
         Undisturbed', timers = 0, timers' = 0, Unjoined,
         NEW e \in Execs, NEW s \in Steps, NEW A \in SUBSET Steps, IsTrail(A, s)
  PROVE  \/ Kept(e, s, A) \/ Spent(e, s, A) \/ Moved(e, s, A)
         \/ Resumed(e, s, A) \/ Born(e, s, A)
<1> DEFINE Goal == \/ Kept(e, s, A) \/ Spent(e, s, A) \/ Moved(e, s, A)
                   \/ Resumed(e, s, A) \/ Born(e, s, A)
           OnlyJobs(X, Y) == \A k \in JobId : JobToken(k, e, s, A)' =>
              <<"job", k>> \in Y \/ (JobToken(k, e, s, A) /\ <<"job", k>> \notin X)
           OnlyCalls(X, Y) == \A c \in Callers : CallToken(c, e, A)' =>
              <<"call", c>> \in Y \/ (CallToken(c, e, A) /\ <<"call", c>> \notin X)
<1>a. ASSUME NEW X, NEW Y, OnlyJobs(X, Y), OnlyCalls(X, Y) PROVE Within(e, s, A, X, Y)
  BY <1>a, TokensWithin DEF Within
<1>b. ASSUME UNCHANGED <<jobs, pc, todo>> PROVE OnlyJobs({}, {})
  BY <1>b DEF JobToken, ExecOf, StepOf
<1>c. ASSUME UNCHANGED <<callPc, callExec, callStep>>, NEW X, NEW Y,
             \A c \in Callers : <<"call", c>> \notin X
      PROVE  OnlyCalls(X, Y)
  BY <1>c DEF CallToken, CallAt
<1>d. ASSUME UNCHANGED effects[e][s], OnlyJobs({}, {}), OnlyCalls({}, {}) PROVE Goal
  BY <1>a, <1>d DEF Kept
<1>e. \A p \in Steps, t \in A : Edge(p, t) => /\ p \in A /\ p # s
                                              /\ \A u \in A : Edge(p, u) => u = t
  BY DEF IsTrail
<1>f. \A j \in JobId : \A i \in DOMAIN todo[j] : StepOf(j) \in Steps /\ Edge(StepOf(j), todo[j][i])
  BY DEF ReachInv, HandlersStarted
<1> HIDE DEF Goal, OnlyJobs, OnlyCalls
<1> USE DEF rowVars, queueVars, workVars, callVars, boundVars
<1>1. ASSUME NEW j \in JobId, DelayElapsed(j) \/ TakeJob(j) PROVE Goal
  <2>1. UNCHANGED <<effects, callPc, callExec, callStep, todo>>
    BY <1>1 DEF DelayElapsed, TakeJob
  <2>2. OnlyJobs({}, {})
    BY <1>1 DEF DelayElapsed, TakeJob, OnlyJobs, JobToken, Goto, ExecOf, StepOf, TypeOK
  <2>. QED BY <2>1, <2>2, <1>c, <1>d
(* Before and after the effect a handler's token stays or goes.              *)
<1>2. ASSUME NEW j \in JobId,
             \/ FindExecution(j) \/ FindWorkflow(j) \/ LogStart(j) \/ SetCurrentStep(j)
             \/ executeConditionStep(j) \/ executeWaitStep(j) \/ SetCompleted(j)
             \/ LogFailure(j) \/ SetFailed(j)
      PROVE  Goal
  <2>1. UNCHANGED <<effects, callPc, callExec, callStep, jobs>> /\ jobs[j] = "active"
    BY <1>2 DEF FindExecution, FindWorkflow, LogStart, SetCurrentStep, executeConditionStep,
       executeWaitStep, SetCompleted, LogFailure, SetFailed, At
  <2>2. ASSUME NEW k \in JobId, k # j PROVE pc'[k] = pc[k] /\ todo'[k] = todo[k]
    BY <1>2, <2>2 DEF FindExecution, FindWorkflow, LogStart, SetCurrentStep,
       executeConditionStep, executeWaitStep, SetCompleted, LogFailure, SetFailed, Goto, TypeOK
  <2>3. pc[j] \notin AfterEffect \/ pc'[j] = "done"
    BY <1>2 DEF FindExecution, FindWorkflow, LogStart, SetCurrentStep, executeConditionStep,
       executeWaitStep, SetCompleted, LogFailure, SetFailed, Goto, At, AfterEffect, TypeOK
  <2>4. OnlyJobs({}, {})
    BY <2>1, <2>2, <2>3 DEF OnlyJobs, JobToken, ExecOf, StepOf, AfterEffect
  <2>. QED BY <2>1, <2>4, <1>c, <1>d
(* The effect of s spends the handler's token; the effect of another step    *)
(* leaves it.                                                                *)
<1>3. ASSUME NEW j \in JobId, executeHttpStep(j) \/ executeWebhookStep(j) PROVE Goal
  <2>1. UNCHANGED <<callPc, callExec, callStep, jobs, todo>> /\ At(j, "execute")
    BY <1>3 DEF executeHttpStep, executeWebhookStep
  <2>2. \A k \in JobId : k # j => pc'[k] = pc[k]
    BY <1>3 DEF executeHttpStep, executeWebhookStep, Goto, TypeOK
  <2>3. CASE effects'[e][s] = effects[e][s]
    <3>1. OnlyJobs({}, {})
      BY <2>1, <2>2 DEF OnlyJobs, JobToken, ExecOf, StepOf, At, AfterEffect
    <3>. QED BY <2>1, <2>3, <3>1, <1>c, <1>d
  <2>4. CASE effects'[e][s] # effects[e][s]
    <3>1. /\ CountEffect(j) /\ Goto(j, "logCompletion")
          /\ ExecOf(j) \in Execs /\ StepOf(j) \in Steps
          /\ effects \in [Execs -> [Steps -> Nat]]
      BY <1>3, <2>1, <2>4, JobIds DEF executeHttpStep, executeWebhookStep, At, HandlerOK, Stepping, TypeOK
    <3>2. ExecOf(j) = e /\ StepOf(j) = s /\ effects'[e][s] = effects[e][s] + 1
      BY <2>4, <3>1 DEF CountEffect
    <3>3. JobToken(j, e, s, A) /\ ~JobToken(j, e, s, A)'
      BY <2>1, <3>1, <3>2 DEF JobToken, At, AfterEffect, IsTrail, Goto, ExecOf, StepOf, TypeOK
    <3>4. OnlyJobs({<<"job", j>>}, {})
      BY <2>1, <2>2, <3>3 DEF OnlyJobs, JobToken, ExecOf, StepOf
    <3>5. OnlyCalls({<<"job", j>>}, {})
      BY <2>1, <1>c
    <3>. QED BY <3>2, <3>3, <3>4, <3>5, <1>a, TokenOf DEF Goal, Spent
  <2>. QED BY <2>3, <2>4
(* No next step of s is on the trail; another step's token walks on.         *)
<1>4. ASSUME NEW j \in JobId, LogCompletion(j) PROVE Goal
  <2>1. /\ UNCHANGED <<effects, callPc, callExec, callStep, jobs>> /\ At(j, "logCompletion")
        /\ todo' = [todo EXCEPT ![j] = nextStepIds(jobDef[j], StepOf(j), branch[j])]
        /\ pc' = [pc EXCEPT ![j] = IF todo'[j] = <<>> THEN "setCompleted" ELSE "nextSteps"]
    BY <1>4 DEF LogCompletion, Goto
  <2>2. /\ \A k \in JobId : k # j => pc'[k] = pc[k] /\ todo'[k] = todo[k]
        /\ pc'[j] \in {"setCompleted", "nextSteps"}
        /\ todo'[j] = nextStepIds(jobDef[j], StepOf(j), branch[j])
    BY <2>1 DEF TypeOK
  <2>3. StepOf(j) \in Steps /\ jobDef[j] \in Defs /\ branch[j] \in BOOLEAN
    BY <2>1 DEF At, HandlerOK, Stepping, TypeOK
  <2>4. ASSUME NEW i \in DOMAIN todo'[j], todo'[j][i] \in A PROVE StepOf(j) # s
    BY <2>2, <2>3, <2>4, <1>e, NextStepIsEdge
  <2>5. ASSUME JobToken(j, e, s, A)' PROVE JobToken(j, e, s, A)
    BY <2>1, <2>2, <2>4, <2>5 DEF JobToken, ExecOf, StepOf, At, AfterEffect
  <2>6. OnlyJobs({}, {})
    BY <2>1, <2>2, <2>5 DEF OnlyJobs, JobToken, ExecOf, StepOf
  <2>. QED BY <2>1, <2>6, <1>c, <1>d
(* A next step on the trail takes the token over: there is only one.         *)
<1>5. ASSUME NEW j \in JobId, QueueNextStep(j) PROVE Goal
  <2> DEFINE t == Head(todo[j])
             x == jobIdOf(ExecOf(j), t)
  <2>1. /\ UNCHANGED <<effects, callPc, callExec, callStep>> /\ At(j, "nextSteps")
        /\ AddJob(x, "waiting")
        /\ todo' = [todo EXCEPT ![j] = Tail(@)]
        /\ pc' = [pc EXCEPT ![j] = IF Tail(todo[j]) = <<>> THEN "done" ELSE "nextSteps"]
    BY <1>5 DEF QueueNextStep, Goto
  <2>2. /\ todo[j] \in Seq(Steps) /\ todo[j] # <<>>
        /\ 1 \in DOMAIN todo[j] /\ todo[j][1] = t
        /\ StepOf(j) \in Steps /\ Edge(StepOf(j), t)
    <3>. todo[j] \in Seq(Steps) /\ todo[j] # <<>> /\ StepOf(j) \in Steps
      BY <2>1 DEF At, HandlerOK, Stepping, TypeOK
    <3>. QED BY <1>f
  <2>3. /\ \A k \in JobId : k # j => pc'[k] = pc[k] /\ todo'[k] = todo[k]
        /\ pc'[j] \in {"done", "nextSteps"}
        /\ todo'[j] = Tail(todo[j])
    BY <2>1 DEF TypeOK
  <2>4. \A i \in DOMAIN todo'[j] : i + 1 \in DOMAIN todo[j] /\ i + 1 # 1 /\ todo'[j][i] = todo[j][i + 1]
    BY <2>2, <2>3
  <2>5. /\ \A k \in JobId : k # x => jobs'[k] = jobs[k]
        /\ x \in JobId
        /\ jobs[j] = "active" /\ jobs'[j] = "active"
    BY <2>1, <2>2, JobIds DEF AddJob, At, StepOrNone, TypeOK
  <2>6. ExecOf(x) = ExecOf(j) /\ StepOf(x) = t
    BY DEF jobIdOf, ExecOf, StepOf
  <2>7. CASE ExecOf(j) = e /\ t \in A
    <3>1. StepOf(j) \in A
      BY <2>2, <2>7, <1>e
    <3>2. JobToken(j, e, s, A)
      BY <2>1, <2>2, <2>7, <3>1 DEF JobToken, At
    <3>3. ASSUME NEW i \in DOMAIN todo'[j], todo'[j][i] \in A PROVE FALSE
      <4>1. i + 1 \in DOMAIN todo[j] /\ todo[j][i + 1] = t
        BY <2>2, <2>4, <2>7, <3>3, <1>e, <1>f
      <4>. QED BY <2>2, <2>4, <4>1 DEF TodoDistinct, OneTo
    <3>4. ~JobToken(j, e, s, A)'
      BY <2>3, <2>5, <3>3 DEF JobToken, AfterEffect
    <3>5. OnlyJobs({<<"job", j>>}, {<<"job", x>>})
      BY <2>3, <2>5, <3>4 DEF OnlyJobs, JobToken, ExecOf, StepOf
    <3>6. OnlyCalls({<<"job", j>>}, {<<"job", x>>})
      BY <2>1, <1>c
    <3>7. Within(e, s, A, {<<"job", j>>}, {<<"job", x>>})
      BY <3>5, <3>6, <1>a
    <3>. QED BY <2>1, <3>2, <3>7, TokenOf DEF Goal, Moved
  <2>8. CASE ~(ExecOf(j) = e /\ t \in A)
    <3>1. \A k \in JobId : k = x => ~JobToken(k, e, s, A)'
      BY <2>6, <2>8 DEF JobToken, ExecOf, StepOf
    <3>2. ASSUME JobToken(j, e, s, A)' PROVE JobToken(j, e, s, A)
      BY <2>1, <2>3, <2>4, <2>5, <3>2 DEF JobToken, ExecOf, StepOf, At, AfterEffect
    <3>3. OnlyJobs({}, {})
      BY <2>3, <2>5, <3>1, <3>2 DEF OnlyJobs, JobToken, ExecOf, StepOf
    <3>. QED BY <2>1, <3>3, <1>c, <1>d
  <2>. QED BY <2>7, <2>8
<1>6. ASSUME NEW j \in JobId, JobCompleted(j) \/ JobFailed(j) \/ Evict(j) PROVE Goal
  <2>1. UNCHANGED <<effects, callPc, callExec, callStep>>
    BY <1>6 DEF JobCompleted, JobFailed, Evict
  <2>2. /\ \A k \in JobId : k # j => /\ pc'[k] = pc[k] /\ todo'[k] = todo[k]
                                     /\ jobs'[k] = jobs[k]
        /\ \/ jobs'[j] \notin {"waiting", "delayed", "active"}
           \/ jobs[j] = "active" /\ pc[j] = "throw"
    BY <1>6 DEF JobCompleted, JobFailed, Evict, Release, At, TypeOK
  <2>3. OnlyJobs({}, {})
    BY <2>2 DEF OnlyJobs, JobToken, ExecOf, StepOf, AfterEffect
  <2>. QED BY <2>1, <2>3, <1>c, <1>d
(* A trigger makes the first token of an execution ...                       *)
<1>7. ASSUME NEW c \in Callers, CreateExecution(c) PROVE Goal
  <2>1. UNCHANGED <<effects, jobs, pc, todo>>
    BY <1>7 DEF CreateExecution
  <2>2. \A d \in Callers : d # c => /\ callPc'[d] = callPc[d] /\ callExec'[d] = callExec[d]
                                    /\ callStep'[d] = callStep[d]
    BY <1>7 DEF CreateExecution, EndCall, TypeOK
  <2>3. OnlyCalls({}, {<<"call", c>>})
    BY <2>2 DEF OnlyCalls, CallToken, CallAt
  <2>4. OnlyJobs({}, {<<"call", c>>})
    BY <2>1 DEF OnlyJobs, JobToken, ExecOf, StepOf
  <2>5. CASE callPc'[c] = "start" /\ callExec'[c] = e
    <3>1. status[e] = "none"
      BY <1>7, <2>5 DEF CreateExecution, EndCall, TypeOK
    <3>. QED BY <2>1, <2>3, <2>4, <3>1, <1>a DEF Goal, Born
  <2>6. CASE ~(callPc'[c] = "start" /\ callExec'[c] = e)
    <3>1. callPc'[c] \in {"start", "idle"}
      BY <1>7 DEF CreateExecution, EndCall, TypeOK
    <3>2. OnlyCalls({}, {})
      BY <2>2, <2>6, <3>1 DEF OnlyCalls, CallToken, CallAt
    <3>. QED BY <2>1, <3>2, <1>b, <1>d
  <2>. QED BY <2>5, <2>6
(* ... and hands it to the first step's job, as a resume to the current one's. *)
<1>8. ASSUME NEW c \in Callers, StartWorkflowExecution(c) \/ RequeueCurrentStep(c) PROVE Goal
  <2>1. /\ UNCHANGED <<effects, pc, todo>>
        /\ callPc'[c] \in {"idle", "setRunning"}
        /\ \A d \in Callers : d # c => /\ callPc'[d] = callPc[d] /\ callExec'[d] = callExec[d]
                                       /\ callStep'[d] = callStep[d]
    BY <1>8 DEF StartWorkflowExecution, RequeueCurrentStep, EndCall, TypeOK
  <2>2. ~CallToken(c, e, A)'
    BY <2>1 DEF CallToken, CallAt
  <2>3. OnlyCalls({}, {}) /\ \A y : OnlyCalls({<<"call", c>>}, {y})
    BY <2>1, <2>2 DEF OnlyCalls, CallToken, CallAt
  <2>4. CASE UNCHANGED jobs
    BY <2>1, <2>3, <2>4, <1>b, <1>d
  <2>5. ASSUME NEW t \in StepOrNone, AddJob(jobIdOf(callExec[c], t), "waiting"),
               CallAt(c, "start") \/ (CallAt(c, "requeue") /\ callStep[c] = t)
        PROVE  Goal
    <3> DEFINE x == jobIdOf(callExec[c], t)
    <3>1. /\ \A k \in JobId : k # x => jobs'[k] = jobs[k]
          /\ ExecOf(x) = callExec[c] /\ StepOf(x) = t
      BY <2>5 DEF AddJob, jobIdOf, ExecOf, StepOf, TypeOK
    <3>2. CASE callExec[c] = e /\ t \in A
      <4>1. CallToken(c, e, A)
        BY <2>5, <3>2 DEF CallToken
      <4>2. OnlyJobs({<<"call", c>>}, {<<"job", x>>})
        BY <2>1, <3>1 DEF OnlyJobs, JobToken, ExecOf, StepOf
      <4>3. Within(e, s, A, {<<"call", c>>}, {<<"job", x>>})
        BY <2>3, <4>2, <1>a
      <4>. QED BY <2>1, <4>1, <4>3, TokenOf DEF Goal, Moved
    <3>3. CASE ~(callExec[c] = e /\ t \in A)
      <4>1. \A k \in JobId : k = x => ~JobToken(k, e, s, A)'
        BY <3>1, <3>3 DEF JobToken, ExecOf, StepOf
      <4>2. OnlyJobs({}, {})
        BY <2>1, <3>1, <4>1 DEF OnlyJobs, JobToken, ExecOf, StepOf
      <4>. QED BY <2>1, <2>3, <4>2, <1>d
    <3>. QED BY <3>2, <3>3
  <2>6. CASE StartWorkflowExecution(c)
    BY <2>4, <2>5, <2>6 DEF StartWorkflowExecution, StepOrNone
  <2>7. CASE RequeueCurrentStep(c)
    BY <2>5, <2>7 DEF RequeueCurrentStep, TypeOK
  <2>. QED BY <1>8, <2>6, <2>7
(* A resume is the one other source of tokens, and finds a paused execution. *)
<1>9. ASSUME NEW c \in Callers, NEW x \in Execs, ResumeExecution(c, x) PROVE Goal
  <2>1. /\ UNCHANGED <<effects, jobs, pc, todo>> /\ resumes'[x] = resumes[x] + 1
        /\ callExec'[c] = x
        /\ \A d \in Callers : d # c => /\ callPc'[d] = callPc[d] /\ callExec'[d] = callExec[d]
                                       /\ callStep'[d] = callStep[d]
    BY <1>9 DEF ResumeExecution, CountResume, PausesKnown, Begin, TypeOK
  <2>2. CASE x = e
    <3>1. OnlyCalls({}, {<<"call", c>>})
      BY <2>1 DEF OnlyCalls, CallToken, CallAt
    <3>2. OnlyJobs({}, {<<"call", c>>})
      BY <2>1 DEF OnlyJobs, JobToken, ExecOf, StepOf
    <3>. QED BY <2>1, <2>2, <3>1, <3>2, <1>a DEF Goal, Resumed
  <2>3. CASE x # e
    <3>1. OnlyCalls({}, {})
      BY <2>1, <2>3 DEF OnlyCalls, CallToken, CallAt
    <3>. QED BY <2>1, <3>1, <1>b, <1>d
  <2>. QED BY <2>2, <2>3
<1>10. ASSUME NEW c \in Callers,
              \/ TriggerWorkflow(c) \/ PauseWorkflow(c) \/ DeleteWorkflow(c)
              \/ ActivateWorkflow(c) \/ UpdateWorkflow(c) \/ (\E x \in Execs : PauseExecution(c, x))
              \/ ListExecutions(c) \/ ListJobs(c) \/ SetPaused(c)
              \/ SetRunning(c) \/ DeleteRows(c)
       PROVE  Goal
  <2>1. UNCHANGED <<effects, jobs, pc, todo>>
    BY <1>10 DEF TriggerWorkflow, PauseWorkflow, DeleteWorkflow, ActivateWorkflow,
       UpdateWorkflow, PauseExecution, ListExecutions, ListJobs, SetPaused, SetRunning, DeleteRows
  <2>2. /\ \A d \in Callers : d # c => /\ callPc'[d] = callPc[d] /\ callExec'[d] = callExec[d]
                                       /\ callStep'[d] = callStep[d]
        /\ \/ callPc'[c] \notin {"start", "requeue"}
           \/ UNCHANGED <<callPc, callExec, callStep>>
    BY <1>10 DEF TriggerWorkflow, PauseWorkflow, DeleteWorkflow, ActivateWorkflow,
       UpdateWorkflow, PauseExecution, ListExecutions, ListJobs, SetPaused, NextExecution,
       SetRunning, DeleteRows, EndCall, TypeOK
  <2>3. OnlyCalls({}, {})
    BY <2>2 DEF OnlyCalls, CallToken, CallAt
  <2>. QED BY <2>1, <2>3, <1>b, <1>d
<1>11. ASSUME NEW c \in Callers, RemoveJob(c) PROVE Goal
  <2>1. /\ UNCHANGED <<effects, pc, todo>>
        /\ \A d \in Callers : d # c => /\ callPc'[d] = callPc[d] /\ callExec'[d] = callExec[d]
                                       /\ callStep'[d] = callStep[d]
        /\ \/ callPc'[c] \notin {"start", "requeue"}
           \/ UNCHANGED <<callPc, callExec, callStep>>
        /\ \A k \in JobId : jobs'[k] \in {jobs[k], "none"}
    BY <1>11 DEF RemoveJob, EndCall, TypeOK
  <2>2. OnlyCalls({}, {}) /\ OnlyJobs({}, {})
    BY <2>1 DEF OnlyCalls, CallToken, CallAt, OnlyJobs, JobToken, ExecOf, StepOf
  <2>. QED BY <2>1, <2>2, <1>d
<1>12. /\ \A j \in JobId : ~HandlerError(j)
       /\ \A c \in Callers : ~CallError(c)
       /\ ~Crash
  BY DEF Undisturbed, HandlerError, CallError, Crash, TypeOK
<1>13. ASSUME UNCHANGED vars PROVE Goal
  <2>1. UNCHANGED <<effects, jobs, pc, todo, callPc, callExec, callStep>>
    BY <1>13 DEF vars
  <2>2. OnlyJobs({}, {})
    BY <2>1, <1>b
  <2>3. OnlyCalls({}, {})
    BY <2>1, <1>c
  <2>. QED BY <2>1, <2>2, <2>3, <1>d
<1>14. ASSUME NEW j \in JobId, Handler(j) \/ HandlerError(j) \/ Evict(j) PROVE Goal
  BY <1>1, <1>2, <1>3, <1>4, <1>5, <1>6, <1>12, <1>14 DEF Handler
<1>15. ASSUME NEW c \in Callers, CallStart(c) \/ CallStep(c) \/ CallError(c) PROVE Goal
  BY <1>7, <1>8, <1>9, <1>10, <1>11, <1>12, <1>15 DEF CallStart, CallStep
<1>16. Goal
  BY <1>12, <1>13, <1>14, <1>15 DEF Next
<1>. QED BY <1>16 DEF Goal

(* The history: pauses are remembered, resumes only added.                   *)
LEMMA HistoryStep ==
  ASSUME TypeOK, [Next]_vars
  PROVE  \/ UNCHANGED <<pausedOnce, resumes>>
         \/ \E c \in Callers : SetPaused(c)
         \/ \E c \in Callers, x \in Execs : ResumeExecution(c, x)
<1> USE DEF rowVars, queueVars, workVars, callVars, boundVars
<1>1. ASSUME NEW j \in JobId, Handler(j) \/ HandlerError(j) \/ Evict(j)
      PROVE  UNCHANGED <<pausedOnce, resumes>>
  BY <1>1 DEF Handler, HandlerError, Evict, DelayElapsed, TakeJob, FindExecution,
     FindWorkflow, LogStart, SetCurrentStep, executeHttpStep, executeWebhookStep,
     executeConditionStep, executeWaitStep, LogCompletion, SetCompleted, QueueNextStep,
     JobCompleted, LogFailure, SetFailed, JobFailed
<1>2. ASSUME NEW c \in Callers, CallStep(c) \/ CallError(c), ~SetPaused(c)
      PROVE  UNCHANGED <<pausedOnce, resumes>>
  BY <1>2 DEF CallStep, CallError, CreateExecution, StartWorkflowExecution, ListExecutions,
     ListJobs, RemoveJob, RequeueCurrentStep, SetRunning, DeleteRows
<1>3. ASSUME NEW c \in Callers, CallStart(c), \A x \in Execs : ~ResumeExecution(c, x)
      PROVE  UNCHANGED <<pausedOnce, resumes>>
  BY <1>3 DEF CallStart, TriggerWorkflow, PauseWorkflow, DeleteWorkflow, ActivateWorkflow,
     UpdateWorkflow, PauseExecution
<1>4. Crash \/ UNCHANGED vars => UNCHANGED <<pausedOnce, resumes>>
  BY DEF Crash, vars
<1>. QED BY <1>1, <1>2, <1>3, <1>4 DEF Next

LEMMA ResumesGrow ==
  ASSUME TypeOK, [Next]_vars
  PROVE  \A e \in Execs : resumes[e] <= resumes'[e]
<1>1. \A c \in Callers : SetPaused(c) => UNCHANGED resumes
  BY DEF SetPaused
<1>2. \A c \in Callers, x \in Execs : ResumeExecution(c, x) =>
        \A e \in Execs : resumes[e] <= resumes'[e]
  BY DEF ResumeExecution, CountResume, TypeOK
<1>3. \A e \in Execs : resumes[e] <= resumes[e]
  BY DEF TypeOK
<1>. QED BY <1>1, <1>2, <1>3, HistoryStep

LEMMA PausesStep ==
  ASSUME TypeOK, PausesKnown, [Next]_vars
  PROVE  PausesKnown'
<1> SUFFICES ASSUME NEW e \in Execs, status'[e] = "paused" PROVE e \in pausedOnce'
  BY DEF PausesKnown
<1> USE DEF rowVars, queueVars, workVars, callVars, boundVars
<1>1. pausedOnce \subseteq pausedOnce'
  <2>1. \A c \in Callers : SetPaused(c) => pausedOnce \subseteq pausedOnce'
    BY DEF SetPaused
  <2>2. \A c \in Callers, x \in Execs : ResumeExecution(c, x) => UNCHANGED pausedOnce
    BY DEF ResumeExecution
  <2>. QED BY <2>1, <2>2, HistoryStep
<1>2. CASE \E c \in Callers : SetPaused(c)
  BY <1>2 DEF SetPaused
<1>3. CASE \A c \in Callers : ~SetPaused(c)
  <2>1. status'[e] = "paused" => status[e] = "paused"
    <3>1. ASSUME NEW j \in JobId, SetCompleted(j) \/ SetFailed(j) PROVE status[e] = "paused"
      BY <3>1 DEF SetCompleted, SetFailed, updateStatus, TypeOK
    <3>2. ASSUME NEW c \in Callers, CreateExecution(c) \/ SetRunning(c) \/ DeleteRows(c)
          PROVE  status[e] = "paused"
      BY <3>2 DEF CreateExecution, SetRunning, DeleteRows, updateStatus, TypeOK
    <3>3. ASSUME NEW j \in JobId, Handler(j) \/ HandlerError(j) \/ Evict(j),
                 ~SetCompleted(j), ~SetFailed(j)
          PROVE  UNCHANGED status
      BY <3>3 DEF Handler, HandlerError, Evict, DelayElapsed, TakeJob, FindExecution,
         FindWorkflow, LogStart, SetCurrentStep, executeHttpStep, executeWebhookStep,
         executeConditionStep, executeWaitStep, LogCompletion, QueueNextStep, JobCompleted,
         LogFailure, JobFailed
    <3>4. ASSUME NEW c \in Callers,
                 \/ CallStart(c) \/ StartWorkflowExecution(c) \/ ListExecutions(c)
                 \/ ListJobs(c) \/ RemoveJob(c) \/ RequeueCurrentStep(c) \/ CallError(c)
          PROVE  UNCHANGED status
      BY <3>4 DEF CallStart, CallError, TriggerWorkflow, PauseWorkflow, DeleteWorkflow,
         ActivateWorkflow, UpdateWorkflow, PauseExecution, ResumeExecution,
         StartWorkflowExecution, ListExecutions, ListJobs, RemoveJob, RequeueCurrentStep
    <3>5. Crash \/ UNCHANGED vars => UNCHANGED status
      BY DEF Crash, vars
    <3>. QED BY <1>3, <3>1, <3>2, <3>3, <3>4, <3>5 DEF Next, CallStep
  <2>. QED BY <1>1, <2>1 DEF PausesKnown
<1>. QED BY <1>2, <1>3

(* A spent token makes room for the effect, a resume raises the bound.        *)
LEMMA TokenStep ==
  ASSUME TypeOK, TypeOK', HandlerOK, ReachInv, PausesKnown, Unborn, TodoDistinct, TokenInv, [Next]_vars
  PROVE  TokenInv'
<1> SUFFICES ASSUME Undisturbed', timers' = 0, Unjoined,
                    NEW e \in Execs, NEW s \in Steps, NEW A \in SUBSET Steps, IsTrail(A, s)
             PROVE  TokensBounded(e, s, A)'
  BY DEF TokenInv, Unjoined, IsTrail, Edge
<1>1. Undisturbed /\ timers = 0
  <2>1. timers' >= timers
    BY Counters
  <2>2. timers \in Nat
    BY EngineAssumption DEF TypeOK
  <2>. QED BY <2>1, <2>2, Premises
<1>2. TokensBounded(e, s, A)
  BY <1>1 DEF TokenInv
<1>3. /\ effects[e][s] \in Nat /\ effects'[e][s] \in Nat
      /\ resumes[e] \in Nat /\ resumes'[e] \in Nat /\ resumes[e] <= resumes'[e]
  BY ResumesGrow DEF TypeOK
<1> DEFINE T == Tokens(e, s, A)
           U == Tokens(e, s, A)'
<1>5. /\ IsFiniteSet(T) /\ Cardinality(T) \in Nat
      /\ effects[e][s] + Cardinality(T) <= 1 + resumes[e]
  BY <1>2, FS_CardinalityType DEF TokensBounded
<1>6. SUFFICES /\ IsFiniteSet(U)
               /\ effects'[e][s] + Cardinality(U) <= 1 + resumes'[e]
  BY DEF TokensBounded
<1>7. ASSUME NEW X, NEW Y, IsFiniteSet((T \ X) \cup Y), U \subseteq (T \ X) \cup Y,
             effects'[e][s] + Cardinality((T \ X) \cup Y) <= 1 + resumes'[e]
      PROVE  /\ IsFiniteSet(U)
             /\ effects'[e][s] + Cardinality(U) <= 1 + resumes'[e]
  <2>1. IsFiniteSet(U) /\ Cardinality(U) <= Cardinality((T \ X) \cup Y)
    BY <1>7, FS_Subset
  <2>2. Cardinality(U) \in Nat /\ Cardinality((T \ X) \cup Y) \in Nat
    BY <1>7, <2>1, FS_CardinalityType
  <2>. QED BY <1>3, <1>7, <2>1, <2>2
<1>8. \A x \in T : IsFiniteSet(T \ {x}) /\ Cardinality(T \ {x}) = Cardinality(T) - 1
  BY <1>5, FS_RemoveElement
<1>9. ASSUME NEW S, NEW y, IsFiniteSet(S)
      PROVE  /\ IsFiniteSet(S \cup {y}) /\ Cardinality(S \cup {y}) \in Nat
             /\ Cardinality(S) \in Nat /\ Cardinality(S \cup {y}) <= Cardinality(S) + 1
  <2>1. /\ IsFiniteSet(S \cup {y})
        /\ Cardinality(S \cup {y}) \in {Cardinality(S), Cardinality(S) + 1}
    BY <1>9, FS_AddElement
  <2>2. Cardinality(S) \in Nat
    BY <1>9, FS_CardinalityType
  <2>. QED BY <2>1, <2>2
<1> HIDE DEF T, U
<1>10. CASE Kept(e, s, A)
  <2>1. (T \ {}) \cup {} = T
    OBVIOUS
  <2>2. effects'[e][s] = effects[e][s] /\ U \subseteq (T \ {}) \cup {}
    BY <1>10 DEF Kept, Within, T, U
  <2>3. effects'[e][s] + Cardinality(T) <= 1 + resumes'[e]
    BY <1>3, <1>5, <2>2
  <2>. QED BY <1>5, <1>7, <2>1, <2>2, <2>3
<1>11. CASE Spent(e, s, A)
  <2>1. PICK x \in T : U \subseteq (T \ {x}) \cup {}
    BY <1>11 DEF Spent, Within, T, U
  <2>2. (T \ {x}) \cup {} = T \ {x}
    OBVIOUS
  <2>3. effects'[e][s] = effects[e][s] + 1
    BY <1>11 DEF Spent
  <2>4. effects'[e][s] + Cardinality(T \ {x}) <= 1 + resumes'[e]
    BY <1>3, <1>5, <1>8, <2>3
  <2>. QED BY <1>7, <1>8, <2>1, <2>2, <2>4
<1>12. CASE Moved(e, s, A)
  <2>1. PICK x \in T : \E y : U \subseteq (T \ {x}) \cup {y}
    BY <1>12 DEF Moved, Within, T, U
  <2>2. PICK y : U \subseteq (T \ {x}) \cup {y}
    BY <2>1
  <2>3. effects'[e][s] = effects[e][s]
    BY <1>12 DEF Moved
  <2>4. /\ IsFiniteSet((T \ {x}) \cup {y}) /\ Cardinality((T \ {x}) \cup {y}) \in Nat
        /\ Cardinality((T \ {x}) \cup {y}) <= Cardinality(T \ {x}) + 1
    BY <1>8, <1>9
  <2>5. Cardinality(T \ {x}) = Cardinality(T) - 1
    BY <1>8
  <2>6. effects'[e][s] + Cardinality((T \ {x}) \cup {y}) <= 1 + resumes'[e]
    BY <1>3, <1>5, <2>3, <2>4, <2>5
  <2>. QED BY <1>7, <2>2, <2>4, <2>6
<1>13. CASE Resumed(e, s, A)
  <2>1. PICK y : U \subseteq (T \ {}) \cup {y}
    BY <1>13 DEF Resumed, Within, T, U
  <2>2. (T \ {}) = T
    OBVIOUS
  <2>4. effects'[e][s] = effects[e][s] /\ resumes'[e] = resumes[e] + 1
    BY <1>13 DEF Resumed
  <2>5. /\ IsFiniteSet(T \cup {y}) /\ Cardinality(T \cup {y}) \in Nat
        /\ Cardinality(T \cup {y}) <= Cardinality(T) + 1
    BY <1>5, <1>9
  <2>6. effects'[e][s] + Cardinality(T \cup {y}) <= 1 + resumes'[e]
    BY <1>3, <1>5, <2>4, <2>5
  <2>. QED BY <1>7, <2>1, <2>2, <2>5, <2>6
<1>14. CASE Born(e, s, A)
  <2>1. PICK y : U \subseteq (T \ {}) \cup {y}
    BY <1>14 DEF Born, Within, T, U
  <2>2. T = {}
    <3>1. ASSUME NEW j \in JobId, JobToken(j, e, s, A) PROVE FALSE
      BY <1>14, <3>1 DEF Born, JobToken, ReachInv, JobsReached
    <3>2. ASSUME NEW c \in Callers, CallToken(c, e, A) PROVE FALSE
      BY <1>14, <3>2 DEF Born, CallToken, CallAt, ReachInv, PointersReached
    <3>. QED BY <3>1, <3>2 DEF T, Tokens
  <2>3. effects'[e][s] = 0
    BY <1>14 DEF Born, Unborn
  <2>4. (T \ {}) \cup {y} = {y}
    BY <2>2
  <2>5. IsFiniteSet({y}) /\ Cardinality({y}) = 1
    BY FS_Singleton
  <2>6. effects'[e][s] + Cardinality({y}) <= 1 + resumes'[e]
    BY <1>3, <2>3, <2>5
  <2>. QED BY <1>7, <2>1, <2>4, <2>5, <2>6
<1>. QED BY <1>1, <1>10, <1>11, <1>12, <1>13, <1>14, TokenMoves

LEMMA InitTokens == Init => PausesKnown /\ Unborn /\ TodoDistinct /\ TokenInv
<1> SUFFICES ASSUME Init PROVE PausesKnown /\ Unborn /\ TodoDistinct /\ TokenInv
  OBVIOUS
<1>1. PausesKnown /\ Unborn /\ TodoDistinct
  BY DEF Init, PausesKnown, Unborn, TodoDistinct, OneTo
<1>2. ASSUME NEW e \in Execs, NEW s \in Steps, NEW A \in SUBSET Steps
      PROVE  TokensBounded(e, s, A)
  <2>1. Tokens(e, s, A) = {}
    BY DEF Init, Tokens, JobToken, CallToken, CallAt
  <2>2. effects[e][s] = 0 /\ resumes[e] = 0
    BY DEF Init
  <2>. QED BY <2>1, <2>2, FS_EmptySet DEF TokensBounded
<1>. QED BY <1>1, <1>2 DEF TokenInv

(* When branches never join and nothing waits or fails, a step takes effect   *)
(* once, and once more at most for each resume of its execution made after   *)
(* that was first paused: no other request, and no race, repeats it.         *)
THEOREM RepetitionNeedsPauseAndResumeCorrect == Spec => []RepetitionNeedsPauseAndResume
<1> DEFINE IInv == /\ TypeOK /\ HandlerOK /\ ReachInv /\ PausesKnown
                   /\ Unborn /\ TodoDistinct /\ TokenInv
<1>1. Init => IInv
  BY InitTyped, InitReached, InitTokens
<1>2. IInv /\ [Next]_vars => IInv'
  BY TypeStep, HandlerStep, JobsStep, HandlersStep, PointersStep, OnlyStep, PausesStep,
     UnbornStep, TodoDistinctStep, TokenStep DEF ReachInv
<1>3. IInv => RepetitionNeedsPauseAndResume
  <2> SUFFICES ASSUME TypeOK, TokenInv, Unjoined, timers = 0, Undisturbed,
                      NEW e \in Execs, NEW s \in Steps
               PROVE  effects[e][s] <= 1 + resumes[e]
    BY DEF RepetitionNeedsPauseAndResume
  <2>1. PICK A \in SUBSET Steps : IsTrail(A, s)
    BY DEF Unjoined
  <2>2. IsFiniteSet(Tokens(e, s, A)) /\ effects[e][s] + Cardinality(Tokens(e, s, A)) <= 1 + resumes[e]
    BY <2>1 DEF TokenInv, TokensBounded
  <2>3. Cardinality(Tokens(e, s, A)) \in Nat
    BY <2>2, FS_CardinalityType
  <2>4. effects[e][s] \in Nat /\ resumes[e] \in Nat
    BY DEF TypeOK
  <2>. QED BY <2>2, <2>3, <2>4
<1>. QED BY <1>1, <1>2, <1>3, PTL DEF Spec

=============================================================================
