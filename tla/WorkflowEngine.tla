--------------------------- MODULE WorkflowEngine ---------------------------
(***************************************************************************)
(* The workflow engine of the marketing-automation service: WorkflowService *)
(* (API calls and executeWorkflowStep), WorkflowRepository (the rows of      *)
(* workflows and workflow_executions) and the Bull queue                     *)
(* 'workflow-execution' that QueueManager puts between them.                 *)
(*                                                                           *)
(* One workflow, several executions of it.  Every await of the code is a     *)
(* point where other callers and workers run: a worker's handler and an API  *)
(* call are sequences of actions with a program counter.                     *)
(***************************************************************************)
EXTENDS Integers, Sequences, FiniteSets

CONSTANTS
  Execs,        \* identifiers of executions (uuids, each created at most once)
  Steps,        \* identifiers of workflow steps
  NoStep,       \* current_step is null; also the step '' of a resumed job
  Defs,         \* the contents the steps column can have
  Callers,      \* HTTP requests in flight at the same time
  Ops,          \* the API operations these requests make
  Concurrency,  \* jobs processed in parallel (server.ts: 5)
  MaxAttempts,  \* defaultJobOptions.attempts
  PageSize,     \* limit of the page of executions pauseWorkflow reads
  Retention,    \* TRUE: no finished job is evicted (removeOnComplete: 100)
  MaxTimers,    \* bound: delayed jobs added by wait steps
  MaxCalls,     \* bound: API calls other than trigger
  MaxFaults     \* bound: database or Redis errors and crashes of the process

HttpTypes == {"email", "tag", "score", "segment"}
StepTypes == HttpTypes \cup {"wait", "condition", "webhook"}

(* A definition is the steps array (ids in order), each step's type and      *)
(* nextSteps, and the steps whose own config carries a "services" object     *)
(* (the http steps read config.services from the step, not from the module). *)
Definition == [steps : Seq(Steps), type : [Steps -> StepTypes],
               next : [Steps -> Seq(Steps)], services : SUBSET Steps]

StepIds(d) == {d.steps[i] : i \in DOMAIN d.steps}

validateWorkflowStructure(d) ==
  /\ d.steps # <<>>
  /\ \A i, k \in DOMAIN d.steps : d.steps[i] = d.steps[k] => i = k
  /\ \A s \in StepIds(d) : \A i \in DOMAIN d.next[s] : d.next[s][i] \in StepIds(d)

ASSUME EngineAssumption ==
  /\ Execs # {}
  /\ NoStep \notin Steps
  /\ Defs # {}
  /\ Defs \subseteq Definition
  /\ \A d \in Defs : validateWorkflowStructure(d)
  /\ MaxAttempts \in Nat \ {0}
  /\ MaxTimers \in Nat
  /\ Retention \in BOOLEAN

VARIABLES
  wfStatus, def,               \* the workflows row
  status, currentStep,         \* the workflow_executions rows
  log,                         \* execution_log: number of entries of each kind
  created,                     \* executions in the order of started_at
  effects,                     \* emails, tags, scores, segments, webhooks done
  jobs, attempts, stalls,      \* the queue: state and counters of each job id
  pc, todo, jobDef, branch,    \* the handler running a job: its local variables
  callPc, callExec, callTodo, callJobs, callStep, callDef,   \* API calls
  timers, calls, faults, crashes,                            \* counters
  pausedOnce, resumes   \* history: executions ever paused, resumes of each since

rowVars   == <<status, currentStep, log, created, effects>>
queueVars == <<jobs, attempts, stalls>>
workVars  == <<pc, todo, jobDef, branch>>
callVars  == <<callPc, callExec, callTodo, callJobs, callStep, callDef>>
boundVars == <<timers, calls, faults, crashes, pausedOnce, resumes>>
vars == <<wfStatus, def, rowVars, queueVars, workVars, callVars, boundVars>>

-----------------------------------------------------------------------------
(* Types and helpers.                                                        *)

StepOrNone == Steps \cup {NoStep}
EntryKind  == {"started", "completed", "failed"}
JobId      == Execs \X StepOrNone \X (0 .. MaxTimers)
JobState   == {"none", "waiting", "delayed", "active", "completed", "failed"}
HandlerPc  == {"idle", "findExecution", "findWorkflow", "logStart", "setCurrent",
               "execute", "logCompletion", "setCompleted", "nextSteps", "done",
               "logFailure", "setFailed", "throw"}
CallPc     == {"idle", "create", "start", "listExecutions", "listJobs",
               "removeJobs", "requeue", "setRunning", "delete"}
ExecStatus == {"none", "running", "paused", "completed", "failed", "deleted"}

AnyDef  == CHOOSE d \in Defs : TRUE
AnyExec == CHOOSE e \in Execs : TRUE

(* Job ids: `workflow-<exec>-<step>` is <<e, s, 0>>; the id of a delayed step *)
(* ends in Date.now(), so the n-th delayed job is <<e, s, n>>.                *)
jobIdOf(e, s) == <<e, s, 0>>
ExecOf(j) == j[1]
StepOf(j) == j[2]

RowExists(e) == status[e] \notin {"none", "deleted"}

(* A step with no incoming connections, the first in the array.              *)
IsFirstStep(d, s) ==
  LET Incoming(x) == \E p \in StepIds(d) : \E i \in DOMAIN d.next[p] : d.next[p][i] = x
  IN  \E i \in DOMAIN d.steps :
        /\ d.steps[i] = s
        /\ ~Incoming(s)
        /\ \A k \in 1 .. (i - 1) : Incoming(d.steps[k])

HasFirstStep(d) == \E s \in StepIds(d) : IsFirstStep(d, s)

(* processNextSteps: a condition takes its first edge when it is met and its *)
(* second when it is not.                                                    *)
nextStepIds(d, s, met) ==
  LET next == d.next[s]
  IN  IF d.type[s] # "condition" THEN next
      ELSE IF met /\ Len(next) > 0 THEN <<next[1]>>
      ELSE IF ~met /\ Len(next) > 1 THEN <<next[2]>>
      ELSE <<>>

(* Mutant: a finished job does not block its id.                             *)
AddJobAgain(j, st) ==
  jobs' = IF jobs[j] \in {"none", "completed"} THEN [jobs EXCEPT ![j] = st] ELSE jobs

(* Bull's add: a job id that exists in any state is left as it is.           *)
AddJob(j, st) == jobs' = IF jobs[j] = "none" THEN [jobs EXCEPT ![j] = st] ELSE jobs

PendingJobs(e) == {j \in JobId : ExecOf(j) = e /\ jobs[j] \in {"waiting", "delayed"}}
ActiveJobs == {j \in JobId : jobs[j] = "active"}

(* An UPDATE of a row that a cascade deleted changes nothing and is no error. *)
addExecutionLogEntry(e, s, kind) ==
  log' = IF RowExists(e) THEN [log EXCEPT ![e][s][kind] = @ + 1] ELSE log

updateStatus(e, st) ==
  status' = IF RowExists(e) THEN [status EXCEPT ![e] = st] ELSE status

(* The page findExecutionsByWorkflow returns: the n most recent executions.  *)
MostRecent(n) == {created[i] : i \in {k \in DOMAIN created : k > Len(created) - n}}

Init ==
  /\ wfStatus = "active"
  /\ def \in Defs
  /\ status = [e \in Execs |-> "none"]
  /\ currentStep = [e \in Execs |-> NoStep]
  /\ log = [e \in Execs |-> [s \in StepOrNone |-> [k \in EntryKind |-> 0]]]
  /\ created = <<>>
  /\ effects = [e \in Execs |-> [s \in Steps |-> 0]]
  /\ jobs = [j \in JobId |-> "none"]
  /\ attempts = [j \in JobId |-> 0]
  /\ stalls = [j \in JobId |-> 0]
  /\ pc = [j \in JobId |-> "idle"]
  /\ todo = [j \in JobId |-> <<>>]
  /\ jobDef = [j \in JobId |-> AnyDef]
  /\ branch = [j \in JobId |-> FALSE]
  /\ callPc = [c \in Callers |-> "idle"]
  /\ callExec = [c \in Callers |-> AnyExec]
  /\ callTodo = [c \in Callers |-> {}]
  /\ callJobs = [c \in Callers |-> {}]
  /\ callStep = [c \in Callers |-> NoStep]
  /\ callDef = [c \in Callers |-> AnyDef]
  /\ timers = 0 /\ calls = 0 /\ faults = 0 /\ crashes = 0
  /\ pausedOnce = {} /\ resumes = [e \in Execs |-> 0]


-----------------------------------------------------------------------------
(* The handler of one job: WorkflowProcessor.processWorkflowExecution and     *)
(* WorkflowService.executeWorkflowStep.                                       *)

At(j, l) == jobs[j] = "active" /\ pc[j] = l
Goto(j, l) == pc' = [pc EXCEPT ![j] = l]

Release(j) ==
  /\ pc' = [pc EXCEPT ![j] = "idle"]
  /\ todo' = [todo EXCEPT ![j] = <<>>]
  /\ jobDef' = [jobDef EXCEPT ![j] = AnyDef]
  /\ branch' = [branch EXCEPT ![j] = FALSE]

(* A delayed job, or one waiting for its backoff, becomes due.               *)
DelayElapsed(j) ==
  /\ jobs[j] = "delayed"
  /\ jobs' = [jobs EXCEPT ![j] = "waiting"]
  /\ UNCHANGED <<wfStatus, def, rowVars, attempts, stalls, workVars, callVars, boundVars>>

TakeJob(j) ==
  /\ jobs[j] = "waiting"
  /\ Cardinality(ActiveJobs) < Concurrency
  /\ jobs' = [jobs EXCEPT ![j] = "active"]
  /\ Goto(j, "findExecution")
  /\ UNCHANGED <<wfStatus, def, rowVars, attempts, stalls, todo, jobDef, branch,
                 callVars, boundVars>>

(* Mutant: the status is not checked.                                        *)
FindExecutionAnyStatus(j) ==
  /\ At(j, "findExecution")
  /\ Goto(j, IF ~RowExists(ExecOf(j)) THEN "logFailure" ELSE "findWorkflow")
  /\ UNCHANGED <<wfStatus, def, rowVars, queueVars, todo, jobDef, branch,
                 callVars, boundVars>>

(* A missing execution is an error, one that is not running is skipped.      *)
FindExecution(j) ==
  /\ At(j, "findExecution")
  /\ Goto(j, IF ~RowExists(ExecOf(j)) THEN "logFailure"
             ELSE IF status[ExecOf(j)] # "running" THEN "done"
             ELSE "findWorkflow")
  /\ UNCHANGED <<wfStatus, def, rowVars, queueVars, todo, jobDef, branch,
                 callVars, boundVars>>

FindWorkflow(j) ==
  /\ At(j, "findWorkflow")
  /\ \/ /\ wfStatus # "deleted"
        /\ StepOf(j) \in StepIds(def)
        /\ jobDef' = [jobDef EXCEPT ![j] = def]
        /\ todo' = [todo EXCEPT ![j] = def.next[StepOf(j)]]
        /\ Goto(j, "logStart")
     \/ /\ wfStatus = "deleted" \/ StepOf(j) \notin StepIds(def)
        /\ Goto(j, "logFailure")
        /\ UNCHANGED <<jobDef, todo>>
  /\ UNCHANGED <<wfStatus, def, rowVars, queueVars, branch, callVars, boundVars>>

LogStart(j) ==
  /\ At(j, "logStart")
  /\ addExecutionLogEntry(ExecOf(j), StepOf(j), "started")
  /\ Goto(j, "setCurrent")
  /\ UNCHANGED <<wfStatus, def, status, currentStep, created, effects, queueVars,
                 todo, jobDef, branch, callVars, boundVars>>

SetCurrentStep(j) ==
  /\ At(j, "setCurrent")
  /\ currentStep' = IF RowExists(ExecOf(j))
                    THEN [currentStep EXCEPT ![ExecOf(j)] = StepOf(j)] ELSE currentStep
  /\ Goto(j, "execute")
  /\ UNCHANGED <<wfStatus, def, status, log, created, effects, queueVars,
                 todo, jobDef, branch, callVars, boundVars>>

(* executeStepByType.  An http step reads config.services from the step.     *)
TypeOfStep(j) == jobDef[j].type[StepOf(j)]

CountEffect(j) == effects' = [effects EXCEPT ![ExecOf(j)][StepOf(j)] = @ + 1]

executeHttpStep(j) ==
  /\ At(j, "execute")
  /\ TypeOfStep(j) \in HttpTypes
  /\ \/ /\ StepOf(j) \in jobDef[j].services
        /\ CountEffect(j)
        /\ Goto(j, "logCompletion")
     \/ /\ Goto(j, "logFailure")
        /\ UNCHANGED effects
  /\ UNCHANGED <<wfStatus, def, status, currentStep, log, created, queueVars,
                 todo, jobDef, branch, callVars, boundVars>>

(* The webhook itself is sent from its own queue.                            *)
executeWebhookStep(j) ==
  /\ At(j, "execute")
  /\ TypeOfStep(j) = "webhook"
  /\ CountEffect(j)
  /\ Goto(j, "logCompletion")
  /\ UNCHANGED <<wfStatus, def, status, currentStep, log, created, queueVars,
                 todo, jobDef, branch, callVars, boundVars>>

(* getContactData may fail; otherwise the conditions hold or do not.         *)
executeConditionStep(j) ==
  /\ At(j, "execute")
  /\ TypeOfStep(j) = "condition"
  /\ \/ /\ \E met \in BOOLEAN : branch' = [branch EXCEPT ![j] = met]
        /\ Goto(j, "logCompletion")
     \/ /\ Goto(j, "logFailure")
        /\ UNCHANGED branch
  /\ UNCHANGED <<wfStatus, def, rowVars, queueVars, todo, jobDef, callVars, boundVars>>

(* One delayed job per next step, under an id of its own.                    *)
executeWaitStep(j) ==
  /\ At(j, "execute")
  /\ TypeOfStep(j) = "wait"
  /\ \/ /\ todo[j] # <<>>
        /\ timers < MaxTimers
        /\ timers' = timers + 1
        /\ AddJob(<<ExecOf(j), Head(todo[j]), timers + 1>>, "delayed")
        /\ todo' = [todo EXCEPT ![j] = Tail(@)]
        /\ UNCHANGED pc
     \/ /\ todo[j] = <<>>
        /\ Goto(j, "logCompletion")
        /\ UNCHANGED <<timers, jobs, todo>>
  /\ UNCHANGED <<wfStatus, def, rowVars, attempts, stalls, jobDef, branch, callVars,
                 calls, faults, crashes, pausedOnce, resumes>>

(* Mutant: the last step does not complete the execution.                    *)
LogCompletionOnly(j) ==
  /\ At(j, "logCompletion")
  /\ addExecutionLogEntry(ExecOf(j), StepOf(j), "completed")
  /\ todo' = [todo EXCEPT ![j] = nextStepIds(jobDef[j], StepOf(j), branch[j])]
  /\ Goto(j, IF todo'[j] = <<>> THEN "done" ELSE "nextSteps")
  /\ UNCHANGED <<wfStatus, def, status, currentStep, created, effects, queueVars,
                 jobDef, branch, callVars, boundVars>>

LogCompletion(j) ==
  /\ At(j, "logCompletion")
  /\ addExecutionLogEntry(ExecOf(j), StepOf(j), "completed")
  /\ todo' = [todo EXCEPT ![j] = nextStepIds(jobDef[j], StepOf(j), branch[j])]
  /\ Goto(j, IF todo'[j] = <<>> THEN "setCompleted" ELSE "nextSteps")
  /\ UNCHANGED <<wfStatus, def, status, currentStep, created, effects, queueVars,
                 jobDef, branch, callVars, boundVars>>

(* processNextSteps: no next step completes the execution ...                *)
SetCompleted(j) ==
  /\ At(j, "setCompleted")
  /\ updateStatus(ExecOf(j), "completed")
  /\ Goto(j, "done")
  /\ UNCHANGED <<wfStatus, def, currentStep, log, created, effects, queueVars,
                 todo, jobDef, branch, callVars, boundVars>>

(* ... otherwise each of them is queued, without a delay.                    *)
QueueNextStep(j) ==
  /\ At(j, "nextSteps")
  /\ AddJob(jobIdOf(ExecOf(j), Head(todo[j])), "waiting")
  /\ todo' = [todo EXCEPT ![j] = Tail(@)]
  /\ Goto(j, IF Tail(todo[j]) = <<>> THEN "done" ELSE "nextSteps")
  /\ UNCHANGED <<wfStatus, def, rowVars, attempts, stalls, jobDef, branch, callVars,
                 boundVars>>

(* The handler returned: Bull moves the job to the completed set.            *)
JobCompleted(j) ==
  /\ At(j, "done")
  /\ jobs' = [jobs EXCEPT ![j] = "completed"]
  /\ Release(j)
  /\ UNCHANGED <<wfStatus, def, rowVars, attempts, stalls, callVars, boundVars>>

(* Mutants: the catch block without its log entry, and without its update.   *)
LogFailureNot(j) ==
  /\ At(j, "logFailure")
  /\ Goto(j, "setFailed")
  /\ UNCHANGED <<wfStatus, def, rowVars, queueVars, todo, jobDef, branch, callVars,
                 boundVars>>

SetFailedNot(j) ==
  /\ At(j, "setFailed")
  /\ Goto(j, "throw")
  /\ UNCHANGED <<wfStatus, def, rowVars, queueVars, todo, jobDef, branch, callVars,
                 boundVars>>

(* The catch block: a log entry, status 'failed', and the error again.       *)
LogFailure(j) ==
  /\ At(j, "logFailure")
  /\ addExecutionLogEntry(ExecOf(j), StepOf(j), "failed")
  /\ Goto(j, "setFailed")
  /\ UNCHANGED <<wfStatus, def, status, currentStep, created, effects, queueVars,
                 todo, jobDef, branch, callVars, boundVars>>

SetFailed(j) ==
  /\ At(j, "setFailed")
  /\ updateStatus(ExecOf(j), "failed")
  /\ Goto(j, "throw")
  /\ UNCHANGED <<wfStatus, def, currentStep, log, created, effects, queueVars,
                 todo, jobDef, branch, callVars, boundVars>>

(* The handler threw: Bull retries after a backoff until attempts run out.   *)
JobFailed(j) ==
  /\ At(j, "throw")
  /\ attempts' = [attempts EXCEPT ![j] = @ + 1]
  /\ jobs' = [jobs EXCEPT ![j] = IF attempts[j] + 1 < MaxAttempts THEN "delayed"
                                 ELSE "failed"]
  /\ Release(j)
  /\ UNCHANGED <<wfStatus, def, rowVars, stalls, callVars, boundVars>>

(* A query or a queue operation of the handler fails: inside the try block   *)
(* of executeWorkflowStep its catch block runs; in that block, and at the     *)
(* job.progress calls before (10) and after (100) the step, the job throws.   *)
HandlerError(j) ==
  /\ jobs[j] = "active"
  /\ pc[j] # "throw"
  /\ faults + crashes < MaxFaults
  /\ faults' = faults + 1
  /\ \/ /\ pc[j] \in {"findExecution", "logFailure", "setFailed", "done"}
        /\ Goto(j, "throw")
     \/ /\ pc[j] \notin {"logFailure", "setFailed", "done"}
        /\ Goto(j, "logFailure")
  /\ UNCHANGED <<wfStatus, def, rowVars, queueVars, todo, jobDef, branch, callVars,
                 timers, calls, crashes, pausedOnce, resumes>>

(* removeOnComplete / removeOnFail: newer finished jobs push this one out.   *)
Evict(j) ==
  /\ ~Retention
  /\ jobs[j] \in {"completed", "failed"}
  /\ jobs' = [jobs EXCEPT ![j] = "none"]
  /\ attempts' = [attempts EXCEPT ![j] = 0]
  /\ stalls' = [stalls EXCEPT ![j] = 0]
  /\ UNCHANGED <<wfStatus, def, rowVars, workVars, callVars, boundVars>>

Handler(j) ==
  \/ DelayElapsed(j) \/ TakeJob(j)
  \/ FindExecution(j) \/ FindWorkflow(j) \/ LogStart(j) \/ SetCurrentStep(j)
  \/ executeHttpStep(j) \/ executeWebhookStep(j) \/ executeConditionStep(j)
  \/ executeWaitStep(j) \/ LogCompletion(j) \/ SetCompleted(j) \/ QueueNextStep(j)
  \/ JobCompleted(j) \/ LogFailure(j) \/ SetFailed(j) \/ JobFailed(j)

-----------------------------------------------------------------------------
(* API calls.  Nothing makes a client call, so no fairness is assumed of the  *)
(* first action of a call; an accepted call goes on until it returns.         *)

CallAt(c, l) == callPc[c] = l

Begin(c, op) ==
  /\ op \in Ops
  /\ CallAt(c, "idle")
  /\ calls < MaxCalls
  /\ calls' = calls + 1

EndCall(c) ==
  /\ callPc' = [callPc EXCEPT ![c] = "idle"]
  /\ callExec' = [callExec EXCEPT ![c] = AnyExec]
  /\ callTodo' = [callTodo EXCEPT ![c] = {}]
  /\ callJobs' = [callJobs EXCEPT ![c] = {}]
  /\ callStep' = [callStep EXCEPT ![c] = NoStep]
  /\ callDef' = [callDef EXCEPT ![c] = AnyDef]

(* triggerWorkflow reads the workflow, ...                                   *)
TriggerWorkflow(c) ==
  /\ "trigger" \in Ops
  /\ CallAt(c, "idle")
  /\ wfStatus = "active"
  /\ callPc' = [callPc EXCEPT ![c] = "create"]
  /\ callDef' = [callDef EXCEPT ![c] = def]
  /\ UNCHANGED <<wfStatus, def, rowVars, queueVars, workVars, callExec, callTodo,
                 callJobs, callStep, boundVars>>

(* ... inserts a running execution (refused once the workflow is deleted) ... *)
CreateExecution(c) ==
  /\ CallAt(c, "create")
  /\ \/ /\ wfStatus # "deleted"
        /\ \E e \in Execs :
             /\ status[e] = "none"
             /\ status' = [status EXCEPT ![e] = "running"]
             /\ created' = Append(created, e)
             /\ callExec' = [callExec EXCEPT ![c] = e]
        /\ callPc' = [callPc EXCEPT ![c] = "start"]
        /\ UNCHANGED <<callTodo, callJobs, callStep, callDef>>
     \/ /\ wfStatus = "deleted"
        /\ EndCall(c)
        /\ UNCHANGED <<status, created>>
  /\ UNCHANGED <<wfStatus, def, currentStep, log, effects, queueVars, workVars,
                 boundVars>>

(* Mutant: an execution starts at the last step of the array.                *)
StartAtLastStep(c) ==
  /\ CallAt(c, "start")
  /\ AddJob(jobIdOf(callExec[c], callDef[c].steps[Len(callDef[c].steps)]), "waiting")
  /\ EndCall(c)
  /\ UNCHANGED <<wfStatus, def, rowVars, attempts, stalls, workVars, boundVars>>

(* ... and queues its first step, if there is one.                           *)
StartWorkflowExecution(c) ==
  /\ CallAt(c, "start")
  /\ \/ \E s \in Steps :
          /\ IsFirstStep(callDef[c], s)
          /\ AddJob(jobIdOf(callExec[c], s), "waiting")
     \/ /\ ~HasFirstStep(callDef[c])
        /\ UNCHANGED jobs
  /\ EndCall(c)
  /\ UNCHANGED <<wfStatus, def, rowVars, attempts, stalls, workVars, boundVars>>

(* pauseWorkflow: the workflow row first, then each running execution of the *)
(* page, whose waiting and delayed jobs are removed one by one.              *)
PauseWorkflow(c) ==
  /\ Begin(c, "pauseWorkflow")
  /\ wfStatus # "deleted"
  /\ wfStatus' = "paused"
  /\ callPc' = [callPc EXCEPT ![c] = "listExecutions"]
  /\ UNCHANGED <<def, rowVars, queueVars, workVars, callExec, callTodo, callJobs,
                 callStep, callDef, timers, faults, crashes, pausedOnce,
                 resumes>>

NextExecution(c, rest) ==
  \/ /\ rest = {}
     /\ EndCall(c)
  \/ /\ \E e \in rest : /\ callExec' = [callExec EXCEPT ![c] = e]
                        /\ callTodo' = [callTodo EXCEPT ![c] = rest \ {e}]
     /\ callPc' = [callPc EXCEPT ![c] = "listJobs"]
     /\ UNCHANGED <<callJobs, callStep, callDef>>

ListExecutions(c) ==
  /\ CallAt(c, "listExecutions")
  /\ NextExecution(c, {e \in MostRecent(PageSize) : status[e] = "running"})
  /\ UNCHANGED <<wfStatus, def, rowVars, queueVars, workVars, boundVars>>

PauseExecution(c, e) ==
  /\ Begin(c, "pauseExecution")
  /\ status[e] # "none"
  /\ callExec' = [callExec EXCEPT ![c] = e]
  /\ callPc' = [callPc EXCEPT ![c] = "listJobs"]
  /\ UNCHANGED <<wfStatus, def, rowVars, queueVars, workVars, callTodo, callJobs,
                 callStep, callDef, timers, faults, crashes, pausedOnce,
                 resumes>>

ListJobs(c) ==
  /\ CallAt(c, "listJobs")
  /\ callJobs' = [callJobs EXCEPT ![c] = PendingJobs(callExec[c])]
  /\ callPc' = [callPc EXCEPT ![c] = "removeJobs"]
  /\ UNCHANGED <<wfStatus, def, rowVars, queueVars, workVars, callExec, callTodo,
                 callStep, callDef, boundVars>>

(* job.remove() throws for a job a worker has locked meanwhile, and the call *)
(* ends there; a job in any other state is deleted.                          *)
RemoveJob(c) ==
  /\ CallAt(c, "removeJobs")
  /\ \E j \in callJobs[c] :
       \/ /\ jobs[j] = "active"
          /\ EndCall(c)
          /\ UNCHANGED queueVars
       \/ /\ jobs[j] # "active"
          /\ jobs' = [jobs EXCEPT ![j] = "none"]
          /\ attempts' = [attempts EXCEPT ![j] = 0]
          /\ stalls' = [stalls EXCEPT ![j] = 0]
          /\ callJobs' = [callJobs EXCEPT ![c] = @ \ {j}]
          /\ UNCHANGED <<callPc, callExec, callTodo, callStep, callDef>>
  /\ UNCHANGED <<wfStatus, def, rowVars, workVars, boundVars>>

SetPaused(c) ==
  /\ CallAt(c, "removeJobs")
  /\ callJobs[c] = {}
  /\ updateStatus(callExec[c], "paused")
  /\ pausedOnce' = pausedOnce \cup {e \in Execs : status'[e] = "paused"}
  /\ NextExecution(c, callTodo[c])
  /\ UNCHANGED <<wfStatus, def, currentStep, log, created, effects, queueVars,
                 workVars, timers, calls, faults, crashes, resumes>>

CountResume(e) ==
  resumes' = IF e \in pausedOnce THEN [resumes EXCEPT ![e] = @ + 1] ELSE resumes

(* Mutant: an execution is resumed whatever its status.                      *)
ResumeAnyExecution(c, e) ==
  /\ Begin(c, "resumeExecution")
  /\ status[e] # "none"
  /\ callExec' = [callExec EXCEPT ![c] = e]
  /\ callStep' = [callStep EXCEPT ![c] = currentStep[e]]
  /\ callPc' = [callPc EXCEPT ![c] = "requeue"]
  /\ CountResume(e)
  /\ UNCHANGED <<wfStatus, def, rowVars, queueVars, workVars, callTodo, callJobs,
                 callDef, timers, faults, crashes, pausedOnce>>

(* resumeExecution queues the current step first and sets running after.     *)
ResumeExecution(c, e) ==
  /\ Begin(c, "resumeExecution")
  /\ status[e] = "paused"
  /\ callExec' = [callExec EXCEPT ![c] = e]
  /\ callStep' = [callStep EXCEPT ![c] = currentStep[e]]
  /\ callPc' = [callPc EXCEPT ![c] = "requeue"]
  /\ CountResume(e)
  /\ UNCHANGED <<wfStatus, def, rowVars, queueVars, workVars, callTodo, callJobs,
                 callDef, timers, faults, crashes, pausedOnce>>

RequeueCurrentStep(c) ==
  /\ CallAt(c, "requeue")
  /\ AddJob(jobIdOf(callExec[c], callStep[c]), "waiting")
  /\ callPc' = [callPc EXCEPT ![c] = "setRunning"]
  /\ UNCHANGED <<wfStatus, def, rowVars, attempts, stalls, workVars, callExec,
                 callTodo, callJobs, callStep, callDef, boundVars>>

(* Mutant: the status of a workflow is written to the execution.             *)
SetActive(c) ==
  /\ CallAt(c, "setRunning")
  /\ updateStatus(callExec[c], "active")
  /\ EndCall(c)
  /\ UNCHANGED <<wfStatus, def, currentStep, log, created, effects, queueVars,
                 workVars, boundVars>>

SetRunning(c) ==
  /\ CallAt(c, "setRunning")
  /\ updateStatus(callExec[c], "running")
  /\ EndCall(c)
  /\ UNCHANGED <<wfStatus, def, currentStep, log, created, effects, queueVars,
                 workVars, boundVars>>

(* deleteWorkflow looks at the most recent execution only; the foreign key   *)
(* deletes the executions with the workflow, the queue keeps their jobs.     *)
DeleteWorkflow(c) ==
  /\ Begin(c, "delete")
  /\ wfStatus # "deleted"
  /\ \A e \in MostRecent(1) : status[e] # "running"
  /\ callPc' = [callPc EXCEPT ![c] = "delete"]
  /\ UNCHANGED <<wfStatus, def, rowVars, queueVars, workVars, callExec, callTodo,
                 callJobs, callStep, callDef, timers, faults, crashes, pausedOnce,
                 resumes>>

DeleteRows(c) ==
  /\ CallAt(c, "delete")
  /\ wfStatus' = "deleted"
  /\ status' = [e \in Execs |-> IF RowExists(e) THEN "deleted" ELSE status[e]]
  /\ created' = <<>>
  /\ EndCall(c)
  /\ UNCHANGED <<def, currentStep, log, effects, queueVars, workVars, boundVars>>

(* activateWorkflow and updateWorkflow are one UPDATE each.                  *)
ActivateWorkflow(c) ==
  /\ Begin(c, "activate")
  /\ wfStatus # "deleted"
  /\ wfStatus' = "active"
  /\ UNCHANGED <<def, rowVars, queueVars, workVars, callVars, timers, faults, crashes,
                 pausedOnce, resumes>>

UpdateWorkflow(c) ==
  /\ Begin(c, "update")
  /\ wfStatus # "deleted"
  /\ def' \in Defs
  /\ wfStatus' \in {"draft", "active", "paused"}
  /\ UNCHANGED <<rowVars, queueVars, workVars, callVars, timers, faults, crashes,
                 pausedOnce, resumes>>

(* A query or a queue operation of the call fails: the call ends there.      *)
CallError(c) ==
  /\ callPc[c] # "idle"
  /\ faults + crashes < MaxFaults
  /\ faults' = faults + 1
  /\ EndCall(c)
  /\ UNCHANGED <<wfStatus, def, rowVars, queueVars, workVars, timers, calls, crashes,
                 pausedOnce, resumes>>

CallStep(c) ==
  \/ CreateExecution(c) \/ StartWorkflowExecution(c)
  \/ ListExecutions(c) \/ ListJobs(c) \/ RemoveJob(c) \/ SetPaused(c)
  \/ RequeueCurrentStep(c) \/ SetRunning(c) \/ DeleteRows(c)

CallStart(c) ==
  \/ TriggerWorkflow(c) \/ PauseWorkflow(c) \/ DeleteWorkflow(c)
  \/ ActivateWorkflow(c) \/ UpdateWorkflow(c)
  \/ \E e \in Execs : PauseExecution(c, e) \/ ResumeExecution(c, e)

(* The process dies: its calls end; Bull finds the jobs it was working on    *)
(* stalled and runs each of them once more, and fails it the second time.    *)
Crash ==
  /\ faults + crashes < MaxFaults
  /\ crashes' = crashes + 1
  /\ jobs' = [j \in JobId |-> IF jobs[j] # "active" THEN jobs[j]
                              ELSE IF stalls[j] = 0 THEN "waiting" ELSE "failed"]
  /\ stalls' = [j \in JobId |-> IF jobs[j] = "active" THEN 1 ELSE stalls[j]]
  /\ pc' = [j \in JobId |-> "idle"]
  /\ todo' = [j \in JobId |-> <<>>]
  /\ jobDef' = [j \in JobId |-> AnyDef]
  /\ branch' = [j \in JobId |-> FALSE]
  /\ callPc' = [c \in Callers |-> "idle"]
  /\ callExec' = [c \in Callers |-> AnyExec]
  /\ callTodo' = [c \in Callers |-> {}]
  /\ callJobs' = [c \in Callers |-> {}]
  /\ callStep' = [c \in Callers |-> NoStep]
  /\ callDef' = [c \in Callers |-> AnyDef]
  /\ UNCHANGED <<wfStatus, def, rowVars, attempts, timers, calls, faults, pausedOnce,
                 resumes>>

Next ==
  \/ \E j \in JobId : Handler(j) \/ HandlerError(j) \/ Evict(j)
  \/ \E c \in Callers : CallStart(c) \/ CallStep(c) \/ CallError(c)
  \/ Crash

Spec == Init /\ [][Next]_vars

(* Bull's workers and an accepted request keep going.                        *)
Fairness ==
  /\ \A j \in JobId : WF_vars(Handler(j))
  /\ \A c \in Callers : WF_vars(CallStep(c))

FairSpec == Spec /\ Fairness

-----------------------------------------------------------------------------
TypeOK ==
  /\ wfStatus \in {"draft", "active", "paused", "deleted"}
  /\ def \in Defs
  /\ status \in [Execs -> ExecStatus]
  /\ currentStep \in [Execs -> StepOrNone]
  /\ log \in [Execs -> [StepOrNone -> [EntryKind -> Nat]]]
  /\ created \in Seq(Execs)
  /\ effects \in [Execs -> [Steps -> Nat]]
  /\ jobs \in [JobId -> JobState]
  /\ attempts \in [JobId -> Nat]
  /\ stalls \in [JobId -> 0 .. 1]
  /\ pc \in [JobId -> HandlerPc]
  /\ todo \in [JobId -> Seq(Steps)]
  /\ jobDef \in [JobId -> Defs]
  /\ branch \in [JobId -> BOOLEAN]
  /\ callPc \in [Callers -> CallPc]
  /\ callExec \in [Callers -> Execs]
  /\ callTodo \in [Callers -> SUBSET Execs]
  /\ callJobs \in [Callers -> SUBSET JobId]
  /\ callStep \in [Callers -> StepOrNone]
  /\ callDef \in [Callers -> Defs]
  /\ timers \in 0 .. MaxTimers
  /\ calls \in Nat /\ faults \in Nat /\ crashes \in Nat
  /\ pausedOnce \subseteq Execs /\ resumes \in [Execs -> Nat]

-----------------------------------------------------------------------------
(* Properties.                                                               *)

Started(e, s) == log[e][s]["started"] > 0
Edge(p, s) == \E d \in Defs : \E i \in DOMAIN d.next[p] : d.next[p][i] = s
Entry(s) == \E d \in Defs : IsFirstStep(d, s)
Reached(e, s) == Entry(s) \/ \E p \in Steps : Started(e, p) /\ Edge(p, s)

(* A step runs only when it is the first step or a step with an edge to it   *)
(* has been started in the same execution: no retry, resume, crash, delayed  *)
(* job or concurrent update makes an execution jump (processNextSteps,       *)
(* executeWaitStep, resumeExecution).                                        *)
OnlyReachedSteps == \A e \in Execs, s \in Steps : Started(e, s) => Reached(e, s)

(* An execution marked failed or completed has the entry that says why: a    *)
(* failed one a failure entry, a completed one the completion of a step that *)
(* can be the last (the order of the writes in executeWorkflowStep).         *)
OutcomeIsLogged ==
  \A e \in Execs :
    /\ status[e] = "failed" => \E s \in StepOrNone : log[e][s]["failed"] > 0
    /\ status[e] = "completed" =>
         \E s \in Steps, d \in Defs, met \in BOOLEAN :
            /\ log[e][s]["completed"] > 0
            /\ nextStepIds(d, s, met) = <<>>

(* No error and no crash has happened so far, and nobody but triggers called. *)
Undisturbed == faults = 0 /\ crashes = 0
OnlyTriggers == Undisturbed /\ calls = 0

(* No request has removed jobs: none was made, or pauses are not offered.     *)
NoPauses == calls = 0 \/ Ops \cap {"pauseExecution", "pauseWorkflow"} = {}

(* No set of steps hands over only to itself.  (validateWorkflowStructure     *)
(* does not look for cycles.)                                                *)
Acyclic(d) ==
  \A S \in (SUBSET StepIds(d)) \ {{}} :
    \E s \in S : \A i \in DOMAIN d.next[s] : d.next[s][i] \notin S

Linear(d) == \A s \in StepIds(d) : Len(d.next[s]) <= 1 /\ d.type[s] # "wait"

(* Without pauses, waits, evictions, faults and crashes a step has its effect *)
(* at most once per execution, whatever forks and joins there are: the job   *)
(* id `workflow-<exec>-<step>` deduplicates the requests for it.             *)
EffectAtMostOnce ==
  (Retention /\ timers = 0 /\ NoPauses /\ Undisturbed) =>
     \A e \in Execs, s \in Steps : effects[e][s] <= 1

(* A trail to s: s and all steps it can be reached from, when none of them   *)
(* branches on the way to s.  Every step has one in a workflow whose branches *)
(* never join (nor list a next step twice), whatever edits are made to it.   *)
IsTrail(A, s) ==
  /\ s \in A
  /\ \A p \in Steps, t \in A :
       Edge(p, t) => p \in A /\ p # s /\ \A u \in A : Edge(p, u) => u = t

Unjoined ==
  /\ \A s \in Steps : \E A \in SUBSET Steps : IsTrail(A, s)
  /\ \A d \in Defs, p \in Steps : \A i, k \in DOMAIN d.next[p] :
       d.next[p][i] = d.next[p][k] => i = k

(* A finished step can run again: a pause deletes the job it had listed      *)
(* although it has run meanwhile, a resume queues the step afresh, and so     *)
(* does a re-run predecessor.  But without joins, waits, faults and crashes  *)
(* every repetition takes one more resume of that very execution, made after *)
(* it was paused for the first time; no other request leads to one.          *)
RepetitionNeedsPauseAndResume ==
  (Unjoined /\ timers = 0 /\ Undisturbed) =>
    \A e \in Execs, s \in Steps : effects[e][s] <= 1 + resumes[e]

(* A handler run twice repeats the effect of its step, but only once for     *)
(* each retry after an error in the catch block and once for a stall (again   *)
(* without pauses, waits and evictions, which free the job id).              *)
EffectsBoundedByRuns ==
  (Retention /\ timers = 0 /\ NoPauses) =>
     \A e \in Execs, s \in Steps :
       effects[e][s] <= 1 + attempts[jobIdOf(e, s)] + stalls[jobIdOf(e, s)]

(* Without pauses, faults and crashes a running execution is never stranded: *)
(* a job of it is pending or being handled, or its trigger is under way.     *)
(* (A workflow in which every step has an incoming edge has no first step,   *)
(* and its executions stay running from the start; on a cycle the step that   *)
(* closes it asks for a job id that exists, and the execution stays running.) *)
NotStranded ==
  (OnlyTriggers /\ HasFirstStep(def) /\ Acyclic(def)) =>
    \A e \in Execs : status[e] = "running" =>
      \/ \E j \in JobId : ExecOf(j) = e /\ jobs[j] \in {"waiting", "delayed", "active"}
      \/ \E c \in Callers : callExec[c] = e /\ CallAt(c, "start")

(* ... and so every execution ends, under the fairness of Bull's workers.    *)
EveryExecutionEnds ==
  \A e \in Execs :
    (status[e] = "running" /\ HasFirstStep(def) /\ Acyclic(def))
      ~> (status[e] \in {"completed", "failed"} \/ ~OnlyTriggers)

(* In a workflow without forks and waits, and with no pause, an execution    *)
(* that failed or completed keeps that status: Bull's retries skip it.       *)
OutcomeIsFinal ==
  [][(OnlyTriggers /\ Linear(def)) =>
       \A e \in Execs : status[e] \in {"completed", "failed"} => status'[e] = status[e]]_status

-----------------------------------------------------------------------------
(* What a message of the code says of the engine and it does not do; refuted *)
(* by a run of its own (README.md, findings).                                *)

(* "Workflow execution resumed successfully": a running execution, resumed   *)
(* or not, goes on until it ends or is paused again.                         *)
ResumedExecutionProceeds ==
  \A e \in Execs : status[e] = "running" ~> status[e] # "running"

=============================================================================
