------------------------- MODULE DripCampaignProofs -------------------------
(***************************************************************************)
(* Proofs about DripCampaign, for any number of subscriptions, editions,     *)
(* callers and faults.                                                       *)
(***************************************************************************)
EXTENDS DripCampaign, TLAPS

LEMMA EditionsTyped ==
  /\ Editions # {}
  /\ \A d \in Editions : d \in Seq(Emails) /\ Len(d) <= MaxEmails
  BY DripAssumption

LEMMA JobIdTyped ==
  /\ \A j \in JobId : j[1] \in Subs /\ j[2] \in 0 .. MaxEmails - 1
  /\ \A s \in Subs, k \in 0 .. MaxEmails - 1 : <<s, k>> \in JobId
  BY DEF JobId

LEMMA IdleTyped == Idle \in Task /\ NoJob \in Job
<1>1. 1 \in Subs /\ AnyContact \in Contacts
  BY DripAssumption DEF Subs, AnyContact
<1>. QED BY <1>1 DEF Idle, NoJob, Task, TaskPc, Job

LEMMA LeaveTyped ==
  ASSUME TypeOK, NEW t \in Tasks, Leave(t)
  PROVE  task' \in [Tasks -> Task]
<1>1. task[t] \in Task
  BY DEF TypeOK
<1>2. task[t].back \in TaskPc /\ task[t].back \in {"idle", "done", "pauseNext", "batchNext"}
  BY <1>1 DEF Task, TaskPc, Processing
<1>3. task[t].todo \in SUBSET (Subs \X Nat)
  BY <1>1 DEF Task
<1>4. [Idle EXCEPT !.pc = task[t].back, !.back = task[t].back, !.todo = task[t].todo] \in Task
  BY <1>2, <1>3, IdleTyped DEF Task, Idle
<1>. QED BY <1>4 DEF Leave, TypeOK

LEMMA ReturnTyped ==
  ASSUME TypeOK, NEW t \in Tasks, Return(t)
  PROVE  task' \in [Tasks -> Task] /\ jobs' \in [JobId -> Job]
<1>1. task' \in [Tasks -> Task]
  BY LeaveTyped DEF Return
<1>. QED BY <1>1 DEF Return, TypeOK

LEMMA ThrowTyped ==
  ASSUME TypeOK, NEW t \in Tasks, Throw(t)
  PROVE  task' \in [Tasks -> Task] /\ jobs' \in [JobId -> Job]
<1>1. task' \in [Tasks -> Task]
  BY LeaveTyped, IdleTyped DEF Throw, TypeOK
<1>2. ASSUME t \in JobId, NEW st \in {"queued", "failed"}
      PROVE  [jobs EXCEPT ![t].attempts = @ + 1, ![t].state = st] \in [JobId -> Job]
  <2>1. jobs[t] \in Job /\ jobs[t].attempts + 1 \in Nat
    BY <1>2 DEF TypeOK, Job
  <2>2. [jobs EXCEPT ![t].attempts = @ + 1] \in [JobId -> Job]
    BY <1>2, <2>1 DEF TypeOK, Job
  <2>3. [[jobs EXCEPT ![t].attempts = @ + 1] EXCEPT ![t].state = st] \in [JobId -> Job]
    BY <1>2, <2>2 DEF Job
  <2>. QED BY <2>3
<1>. QED BY <1>1, <1>2 DEF Throw, TypeOK

LEMMA TypeProcess ==
  ASSUME TypeOK, NEW t \in Tasks
  PROVE  /\ TakeJob(t) /\ t \in JobId => TypeOK'
         /\ FindSubscription(t) => TypeOK'
         /\ FindCampaign(t) => TypeOK'
         /\ SendDripEmail(t) => TypeOK'
         /\ MoveToNextEmail(t) => TypeOK'
<1>0. task[t] \in Task /\ task \in [Tasks -> Task]
  BY DEF TypeOK
<1>s. task[t].sub \in Subs /\ rows[task[t].sub] \in Row
  BY <1>0 DEF TypeOK, Task
<1>1. ASSUME TakeJob(t), t \in JobId PROVE TypeOK'
  <2>1. jobs[t] \in Job /\ jobs[t].email \in Emails \cup {NoEmail} /\ t[1] \in Subs
    BY <1>1, JobIdTyped DEF TypeOK, Job
  <2>2. [Idle EXCEPT !.pc = "findSubscription", !.back = "done", !.sub = t[1],
                     !.email = jobs[t].email] \in Task
    BY <2>1, IdleTyped DEF Task, TaskPc, Processing, Idle
  <2>3. [jobs EXCEPT ![t].state = "active"] \in [JobId -> Job]
    BY <1>1 DEF TypeOK, Job
  <2>. QED BY <1>1, <2>2, <2>3, <1>0 DEF TypeOK, TakeJob
<1>2. ASSUME FindSubscription(t) PROVE TypeOK'
  <2>1. CASE Return(t)
    BY <2>1, <1>2, ReturnTyped DEF TypeOK, FindSubscription
  <2>2. CASE Throw(t)
    BY <2>2, <1>2, ThrowTyped DEF TypeOK, FindSubscription
  <2>3. CASE task' = [task EXCEPT ![t].pc = "findCampaign", ![t].index = rows[task[t].sub].index]
             /\ UNCHANGED jobs
    <3>1. rows[task[t].sub].index \in Nat
      BY <1>s DEF Row
    <3>2. task' \in [Tasks -> Task]
      BY <2>3, <3>1, <1>0 DEF Task, TaskPc, Processing
    <3>. QED BY <1>2, <2>3, <3>2 DEF TypeOK, FindSubscription
  <2>. QED BY <1>2, <2>1, <2>2, <2>3 DEF FindSubscription
<1>3. ASSUME FindCampaign(t) PROVE TypeOK'
  <2>1. CASE Return(t)
    BY <2>1, <1>3, ReturnTyped DEF TypeOK, FindCampaign
  <2>2. CASE Throw(t)
    BY <2>2, <1>3, ThrowTyped DEF TypeOK, FindCampaign
  <2>3. CASE task' = [task EXCEPT ![t].pc = "send", ![t].emails = campaign.emails]
             /\ UNCHANGED jobs
    <3>1. campaign.emails \in Editions
      BY DEF TypeOK, Campaign
    <3>2. task' \in [Tasks -> Task]
      BY <2>3, <3>1, <1>0 DEF Task, TaskPc, Processing
    <3>. QED BY <1>3, <2>3, <3>2 DEF TypeOK, FindCampaign
  <2>. QED BY <1>3, <2>1, <2>2, <2>3 DEF FindCampaign
<1>4. ASSUME SendDripEmail(t) PROVE TypeOK'
  <2>1. task' \in [Tasks -> Task]
    BY <1>4, <1>0 DEF SendDripEmail, Task, TaskPc, Processing
  <2>2. task[t].email \in Emails \cup {NoEmail}
    BY <1>0 DEF Task
  <2>3. inbox' \in [Subs -> Seq(Emails \cup {NoEmail})]
    BY <1>4, <2>2, <1>s DEF SendDripEmail, TypeOK
  <2>. QED BY <1>4, <2>1, <2>3 DEF TypeOK, SendDripEmail
<1>5. ASSUME MoveToNextEmail(t) PROVE TypeOK'
  <2> DEFINE s == task[t].sub
             next == task[t].index + 1
  <2>0. next \in Nat
    BY <1>0 DEF Task
  <2>1. rows' \in [Subs -> Row]
    <3>1. [rows EXCEPT ![s].index = next] \in [Subs -> Row]
      BY <2>0, <1>s DEF TypeOK, Row
    <3>2. [rows EXCEPT ![s].status = "completed", ![s].index = next] \in [Subs -> Row]
      BY <2>0, <1>s DEF TypeOK, Row, SubStatus
    <3>. QED BY <1>5, <3>1, <3>2 DEF MoveToNextEmail, TypeOK
  <2>2. task' \in [Tasks -> Task] /\ jobs' \in [JobId -> Job]
    <3>1. CASE Return(t)
      BY <3>1, ReturnTyped
    <3>2. CASE task' = [task EXCEPT ![t].pc = "schedule", ![t].index = next] /\ UNCHANGED jobs
      BY <3>2, <2>0, <1>0 DEF TypeOK, Task, TaskPc, Processing
    <3>. QED BY <1>5, <3>1, <3>2 DEF MoveToNextEmail
  <2>. QED BY <1>5, <2>1, <2>2 DEF TypeOK, MoveToNextEmail
<1>. QED BY <1>1, <1>2, <1>3, <1>4, <1>5

LEMMA TypeSchedule ==
  ASSUME TypeOK, NEW t \in Tasks
  PROVE  /\ ScheduleNextEmail(t) => TypeOK'
         /\ AddDripEmail(t) => TypeOK'
         /\ CompleteJob(t) => TypeOK'
<1> DEFINE s == task[t].sub
           k == task[t].index + 1
<1>0. task[t] \in Task /\ task \in [Tasks -> Task] /\ s \in Subs /\ k \in Nat
  BY DEF TypeOK, Task
<1>1. ASSUME ScheduleNextEmail(t), k \in DOMAIN task[t].emails PROVE TypeOK'
  <2>1. [rows EXCEPT ![s].dated = TRUE] \in [Subs -> Row]
    BY <1>0 DEF TypeOK, Row
  <2>2. task[t].emails \in Seq(Emails)
    <3>1. task[t].emails \in Editions \cup {<<>>}
      BY <1>0 DEF Task
    <3>2. task[t].emails # <<>>
      BY <1>1
    <3>. QED BY <3>1, <3>2, EditionsTyped
  <2>3. task[t].emails[k] \in Emails
    BY <1>1, <2>2
  <2>4. [task EXCEPT ![t].pc = "addJob", ![t].email = task[t].emails[k]] \in [Tasks -> Task]
    BY <2>3, <1>0 DEF Task, TaskPc, Processing
  <2>. QED BY <1>1, <2>1, <2>4 DEF ScheduleNextEmail, TypeOK
<1>2. ASSUME ScheduleNextEmail(t), k \notin DOMAIN task[t].emails PROVE TypeOK'
  BY <1>2, ReturnTyped DEF ScheduleNextEmail, TypeOK
<1>3. ASSUME AddDripEmail(t) PROVE TypeOK'
  <2> DEFINE id == <<s, task[t].index>>
  <2>1. EmailJob(task[t].email) \in Job
    BY <1>0, IdleTyped DEF EmailJob, NoJob, Job, Task
  <2>2. [jobs EXCEPT ![id] = EmailJob(task[t].email)] \in [JobId -> Job]
    BY <2>1 DEF TypeOK
  <2>3. task' \in [Tasks -> Task]
    BY <1>3, LeaveTyped DEF AddDripEmail
  <2>. QED BY <1>3, <2>2, <2>3 DEF AddDripEmail, TypeOK
<1>4. ASSUME CompleteJob(t) PROVE TypeOK'
  <2>1. jobs' \in [JobId -> Job]
    BY <1>4 DEF CompleteJob, TypeOK, Job
  <2>. QED BY <1>0, <1>4, <2>1, IdleTyped DEF CompleteJob, TypeOK
<1>. QED BY <1>1, <1>2, <1>3, <1>4

LEMMA TypeStop ==
  ASSUME TypeOK, NEW c \in Callers
  PROVE  /\ Unsubscribe(c) \/ PauseSubscription(c) => TypeOK'
         /\ ListJobs(c) => TypeOK'
         /\ RemoveJob(c) => TypeOK'
         /\ SetStopped(c) => TypeOK'
<1>0. c \in Tasks /\ task[c] \in Task /\ task \in [Tasks -> Task]
  BY DEF TypeOK, Tasks
<1>1. ASSUME NEW op, NEW to \in {"paused", "unsubscribed"}, StopSubscription(c, op, to)
      PROVE  TypeOK'
  <2>1. PICK s \in Subs :
          task' = [task EXCEPT ![c].pc = "listJobs", ![c].sub = s, ![c].to = to]
    BY <1>1 DEF StopSubscription
  <2>2. task' \in [Tasks -> Task]
    BY <2>1, <1>0 DEF Task, TaskPc
  <2>. QED BY <1>1, <2>2 DEF StopSubscription, Begin, TypeOK
<1>2. ASSUME ListJobs(c) PROVE TypeOK'
  <2>1. task' \in [Tasks -> Task]
    BY <1>2, <1>0 DEF ListJobs, Task, TaskPc
  <2>. QED BY <1>2, <2>1 DEF ListJobs, TypeOK
<1>3. ASSUME RemoveJob(c) PROVE TypeOK'
  <2>1. PICK j \in task[c].listed :
          \/ task' = [task EXCEPT ![c] = Idle] /\ UNCHANGED jobs
          \/ /\ jobs' = [jobs EXCEPT ![j] = NoJob]
             /\ task' = [task EXCEPT ![c].listed = @ \ {j}]
    BY <1>3 DEF RemoveJob
  <2>2. jobs' \in [JobId -> Job]
    BY <2>1, <1>0, IdleTyped DEF TypeOK, Task
  <2>3. [task EXCEPT ![c] = Idle] \in [Tasks -> Task]
    BY <1>0, IdleTyped
  <2>4. [task EXCEPT ![c].listed = @ \ {j}] \in [Tasks -> Task]
    BY <1>0 DEF Task
  <2>. QED BY <1>3, <2>1, <2>2, <2>3, <2>4 DEF RemoveJob, TypeOK
<1>4. ASSUME SetStopped(c) PROVE TypeOK'
  <2>1. task[c].sub \in Subs /\ task[c].to \in SubStatus
    BY <1>0 DEF Task, SubStatus
  <2>2. [rows EXCEPT ![task[c].sub].status = task[c].to] \in [Subs -> Row]
    BY <2>1 DEF TypeOK, Row
  <2>3. task' \in [Tasks -> Task]
    BY <1>4, <1>0, LeaveTyped DEF SetStopped
  <2>. QED BY <1>4, <2>2, <2>3 DEF SetStopped, TypeOK
<1>. QED BY <1>1, <1>2, <1>3, <1>4 DEF Unsubscribe, PauseSubscription

LEMMA TypeSubscribe ==
  ASSUME TypeOK, NEW c \in Callers
  PROVE  /\ Subscribe(c) => TypeOK'
         /\ FindExisting(c) => TypeOK'
         /\ CreateSubscription(c) => TypeOK'
         /\ ResumeSubscription(c) => TypeOK'
         /\ ResumeCampaign(c) => TypeOK'
         /\ SetActive(c) => TypeOK'
<1>0. c \in Tasks /\ task[c] \in Task /\ task \in [Tasks -> Task]
  BY DEF TypeOK, Tasks
<1>e. campaign.emails \in Editions
  BY DEF TypeOK, Campaign
<1>1. ASSUME Subscribe(c) PROVE TypeOK'
  <2>1. PICK x \in Contacts :
          task' = [task EXCEPT ![c].pc = "findExisting", ![c].contact = x,
                               ![c].emails = campaign.emails]
    BY <1>1 DEF Subscribe
  <2>2. task' \in [Tasks -> Task]
    BY <2>1, <1>0, <1>e DEF Task, TaskPc
  <2>. QED BY <1>1, <2>2 DEF Subscribe, TypeOK
<1>2. ASSUME FindExisting(c) PROVE TypeOK'
  <2>1. [task EXCEPT ![c].pc = "create"] \in [Tasks -> Task]
    BY <1>0 DEF Task, TaskPc
  <2>2. task' \in [Tasks -> Task]
    BY <1>2, <2>1, <1>0, LeaveTyped DEF FindExisting
  <2>. QED BY <1>2, <2>2 DEF FindExisting, TypeOK
<1>3. ASSUME CreateSubscription(c) PROVE TypeOK'
  <2>1. PICK s \in Subs :
          /\ rows' = [rows EXCEPT ![s] = [status |-> "active", index |-> 0, dated |-> FALSE,
                                          contact |-> task[c].contact]]
          /\ task' = [task EXCEPT ![c].pc = "schedule", ![c].sub = s, ![c].index = 0]
    BY <1>3 DEF CreateSubscription
  <2>2. [status |-> "active", index |-> 0, dated |-> FALSE, contact |-> task[c].contact] \in Row
    BY <1>0 DEF Task, Row, SubStatus
  <2>3. rows' \in [Subs -> Row]
    BY <2>1, <2>2 DEF TypeOK
  <2>4. task' \in [Tasks -> Task]
    BY <2>1, <1>0 DEF Task, TaskPc, Processing
  <2>5. offered' \in [Subs -> SUBSET Editions]
    BY <1>3, <1>e DEF CreateSubscription, TypeOK
  <2>. QED BY <1>3, <2>3, <2>4, <2>5 DEF CreateSubscription, TypeOK
<1>4. ASSUME ResumeSubscription(c) PROVE TypeOK'
  <2>1. PICK s \in Subs : task' = [task EXCEPT ![c].pc = "resumeCampaign", ![c].sub = s]
    BY <1>4 DEF ResumeSubscription
  <2>2. task' \in [Tasks -> Task]
    BY <2>1, <1>0 DEF Task, TaskPc
  <2>. QED BY <1>4, <2>2 DEF ResumeSubscription, Begin, TypeOK
<1>5. ASSUME ResumeCampaign(c) PROVE TypeOK'
  <2>1. [task EXCEPT ![c].pc = "setActive", ![c].emails = campaign.emails] \in [Tasks -> Task]
    BY <1>0, <1>e DEF Task, TaskPc
  <2>2. task' \in [Tasks -> Task]
    BY <1>5, <2>1, <1>0, LeaveTyped DEF ResumeCampaign
  <2>. QED BY <1>5, <2>2 DEF ResumeCampaign, TypeOK
<1>6. ASSUME SetActive(c) PROVE TypeOK'
  <2> DEFINE s == task[c].sub
  <2>1. s \in Subs /\ rows[s].index \in Nat
    BY <1>0 DEF Task, TypeOK, Row
  <2>2. [task EXCEPT ![c].pc = "schedule", ![c].index = rows[s].index] \in [Tasks -> Task]
    BY <2>1, <1>0 DEF Task, TaskPc, Processing
  <2>3. [rows EXCEPT ![s].status = "active"] \in [Subs -> Row]
    BY <2>1 DEF TypeOK, Row, SubStatus
  <2>4. task' \in [Tasks -> Task] /\ rows' \in [Subs -> Row]
    BY <1>6, <2>2, <2>3, <1>0, LeaveTyped DEF SetActive, TypeOK
  <2>. QED BY <1>6, <2>4 DEF SetActive, TypeOK
<1>. QED BY <1>1, <1>2, <1>3, <1>4, <1>5, <1>6

LEMMA TodoTyped ==
  ASSUME TypeOK
  PROVE  ActiveRows \subseteq Subs \X Nat
<1>1. ASSUME NEW s \in Subs PROVE rows[s].index \in Nat
  BY DEF TypeOK, Row
<1>. QED BY <1>1 DEF ActiveRows

LEMMA TypeBatch ==
  ASSUME TypeOK, NEW c \in Callers
  PROVE  /\ PauseCampaign(c) => TypeOK'
         /\ ListSubscriptions(c) => TypeOK'
         /\ PauseNext(c) => TypeOK'
         /\ ProcessActive(c) => TypeOK'
         /\ BatchNext(c) => TypeOK'
<1>0. c \in Tasks /\ task[c] \in Task /\ task \in [Tasks -> Task]
  BY DEF TypeOK, Tasks
<1>i. [task EXCEPT ![c] = Idle] \in [Tasks -> Task]
  BY <1>0, IdleTyped
<1>1. ASSUME PauseCampaign(c) PROVE TypeOK'
  <2>1. task' \in [Tasks -> Task]
    BY <1>1, <1>0 DEF PauseCampaign, Task, TaskPc
  <2>2. campaign' \in Campaign
    BY <1>1 DEF PauseCampaign, TypeOK, Campaign
  <2>. QED BY <1>1, <2>1, <2>2 DEF PauseCampaign, Begin, TypeOK
<1>2. ASSUME ListSubscriptions(c) PROVE TypeOK'
  <2>1. task' \in [Tasks -> Task]
    BY <1>2, <1>0, TodoTyped DEF ListSubscriptions, Task, TaskPc
  <2>. QED BY <1>2, <2>1 DEF ListSubscriptions, TypeOK
<1>3. ASSUME PauseNext(c) PROVE TypeOK'
  <2>1. ASSUME NEW x \in task[c].todo
        PROVE  [task EXCEPT ![c].pc = "listJobs", ![c].sub = x[1], ![c].to = "paused",
                            ![c].todo = @ \ {x}] \in [Tasks -> Task]
    <3>1. x[1] \in Subs /\ task[c].todo \ {x} \in SUBSET (Subs \X Nat)
      BY <1>0 DEF Task
    <3>. QED BY <3>1, <1>0 DEF Task, TaskPc
  <2>2. task' \in [Tasks -> Task]
    <3>1. CASE task' = [task EXCEPT ![c] = Idle]
      BY <3>1, <1>i
    <3>2. CASE \E x \in task[c].todo :
                 task' = [task EXCEPT ![c].pc = "listJobs", ![c].sub = x[1], ![c].to = "paused",
                                      ![c].todo = @ \ {x}]
      <4>1. PICK x \in task[c].todo :
                 task' = [task EXCEPT ![c].pc = "listJobs", ![c].sub = x[1], ![c].to = "paused",
                                      ![c].todo = @ \ {x}]
        BY <3>2, Zenon
      <4>. QED BY <4>1, <2>1
    <3>. QED BY <1>3, <3>1, <3>2 DEF PauseNext
  <2>. QED BY <1>3, <2>2 DEF PauseNext, TypeOK
<1>4. ASSUME ProcessActive(c) PROVE TypeOK'
  <2>1. PICK todo \in SUBSET (Subs \X Nat) :
          task' = [task EXCEPT ![c].pc = "batchNext", ![c].back = "batchNext", ![c].todo = todo]
    BY <1>4, TodoTyped DEF ProcessActive
  <2>2. task' \in [Tasks -> Task]
    BY <2>1, <1>0 DEF Task, TaskPc
  <2>. QED BY <1>4, <2>2 DEF ProcessActive, Begin, TypeOK
<1>5. ASSUME BatchNext(c) PROVE TypeOK'
  <2>1. ASSUME NEW x \in task[c].todo, x[2] + 1 \in DOMAIN campaign.emails
        PROVE  [task EXCEPT ![c].pc = "findSubscription", ![c].sub = x[1],
                            ![c].email = campaign.emails[x[2] + 1], ![c].todo = @ \ {x}]
                 \in [Tasks -> Task]
    <3>1. x[1] \in Subs /\ task[c].todo \ {x} \in SUBSET (Subs \X Nat)
      BY <1>0 DEF Task
    <3>2. campaign.emails \in Seq(Emails)
      BY EditionsTyped DEF TypeOK, Campaign
    <3>3. campaign.emails[x[2] + 1] \in Emails
      BY <2>1, <3>2
    <3>. QED BY <3>1, <3>3, <1>0 DEF Task, TaskPc, Processing
  <2>2. ASSUME NEW x \in task[c].todo
        PROVE  [task EXCEPT ![c].todo = @ \ {x}] \in [Tasks -> Task]
    BY <1>0 DEF Task
  <2>3. task' \in [Tasks -> Task]
    <3>1. CASE task' = [task EXCEPT ![c] = Idle]
      BY <3>1, <1>i
    <3>2. CASE \E x \in task[c].todo :
                 /\ x[2] + 1 \in DOMAIN campaign.emails
                 /\ task' = [task EXCEPT ![c].pc = "findSubscription", ![c].sub = x[1],
                       ![c].email = campaign.emails[x[2] + 1], ![c].todo = @ \ {x}]
      <4>1. PICK x \in task[c].todo :
                 /\ x[2] + 1 \in DOMAIN campaign.emails
                 /\ task' = [task EXCEPT ![c].pc = "findSubscription", ![c].sub = x[1],
                       ![c].email = campaign.emails[x[2] + 1], ![c].todo = @ \ {x}]
        BY <3>2, Zenon
      <4>. QED BY <4>1, <2>1
    <3>3. CASE \E x \in task[c].todo : task' = [task EXCEPT ![c].todo = @ \ {x}]
      BY <3>3, <2>2
    <3>. QED BY <1>5, <3>1, <3>2, <3>3 DEF BatchNext
  <2>. QED BY <1>5, <2>3 DEF BatchNext, TypeOK
<1>. QED BY <1>1, <1>2, <1>3, <1>4, <1>5

LEMMA TypeCampaign ==
  ASSUME TypeOK, NEW c \in Callers
  PROVE  /\ ActivateCampaign(c) => TypeOK'
         /\ UpdateCampaign(c) => TypeOK'
         /\ DeleteCampaign(c) => TypeOK'
         /\ DeleteRows(c) => TypeOK'
<1>0. c \in Tasks /\ task[c] \in Task /\ task \in [Tasks -> Task]
  BY DEF TypeOK, Tasks
<1>1. ASSUME ActivateCampaign(c) PROVE TypeOK'
  <2>1. campaign' \in Campaign /\ calls' \in Nat
    BY <1>1 DEF ActivateCampaign, TypeOK, Campaign
  <2>. QED BY <1>1, <2>1 DEF ActivateCampaign, TypeOK
<1>2. ASSUME UpdateCampaign(c) PROVE TypeOK'
  <2>1. campaign' \in Campaign
    BY <1>2 DEF UpdateCampaign, Campaign
  <2>2. offered' \in [Subs -> SUBSET Editions]
    <3>1. campaign'.emails \in Editions
      BY <2>1 DEF Campaign
    <3>. QED BY <1>2, <3>1 DEF UpdateCampaign, TypeOK
  <2>. QED BY <1>2, <2>1, <2>2 DEF UpdateCampaign, Begin, TypeOK
<1>3. ASSUME DeleteCampaign(c) PROVE TypeOK'
  <2>1. task' \in [Tasks -> Task]
    BY <1>3, <1>0 DEF DeleteCampaign, Task, TaskPc
  <2>. QED BY <1>3, <2>1 DEF DeleteCampaign, Begin, TypeOK
<1>4. ASSUME DeleteRows(c) PROVE TypeOK'
  <2>1. campaign' \in Campaign
    BY <1>4 DEF DeleteRows, TypeOK, Campaign
  <2>2. task' \in [Tasks -> Task]
    BY <1>4, <1>0, LeaveTyped DEF DeleteRows
  <2>3. ASSUME NEW s \in Subs PROVE [rows[s] EXCEPT !.status = "deleted"] \in Row
    BY DEF TypeOK, Row, SubStatus
  <2>4. rows' \in [Subs -> Row]
    BY <1>4, <2>3 DEF DeleteRows, TypeOK
  <2>. QED BY <1>4, <2>1, <2>2, <2>4 DEF DeleteRows, TypeOK
<1>. QED BY <1>1, <1>2, <1>3, <1>4

LEMMA TypeFailures ==
  ASSUME TypeOK
  PROVE  /\ \A t \in Tasks : ProcessingError(t) => TypeOK'
         /\ \A j \in JobId : Evict(j) => TypeOK'
         /\ \A c \in Callers : RequestError(c) => TypeOK'
         /\ Crash => TypeOK'
<1>1. ASSUME NEW t \in Tasks, ProcessingError(t) PROVE TypeOK'
  <2>0. task[t] \in Task /\ task[t].sub \in Subs /\ task[t].email \in Emails \cup {NoEmail}
    BY DEF TypeOK, Task
  <2>1. [inbox EXCEPT ![task[t].sub] = Append(@, task[t].email)]
          \in [Subs -> Seq(Emails \cup {NoEmail})]
    BY <2>0 DEF TypeOK
  <2>2. [rows EXCEPT ![task[t].sub].dated = TRUE] \in [Subs -> Row]
    BY <2>0 DEF TypeOK, Row
  <2>3. inbox' \in [Subs -> Seq(Emails \cup {NoEmail})] /\ rows' \in [Subs -> Row]
    BY <1>1, <2>1, <2>2 DEF ProcessingError, TypeOK
  <2>4. task' \in [Tasks -> Task] /\ jobs' \in [JobId -> Job]
    BY <1>1, ThrowTyped DEF ProcessingError
  <2>. QED BY <1>1, <2>3, <2>4 DEF ProcessingError, Fault, TypeOK
<1>2. ASSUME NEW j \in JobId, Evict(j) PROVE TypeOK'
  BY <1>2, IdleTyped DEF Evict, Fault, TypeOK
<1>3. ASSUME NEW c \in Callers, RequestError(c) PROVE TypeOK'
  <2>0. c \in Tasks /\ task[c] \in Task /\ task \in [Tasks -> Task]
    BY DEF TypeOK, Tasks
  <2>1. ASSUME NEW x PROVE [task EXCEPT ![c].todo = @ \ {x}] \in [Tasks -> Task]
    BY <2>0 DEF Task
  <2>2. task' \in [Tasks -> Task]
    BY <1>3, <2>0, <2>1, IdleTyped DEF RequestError
  <2>. QED BY <1>3, <2>2 DEF RequestError, Fault, TypeOK
<1>4. ASSUME Crash PROVE TypeOK'
  <2>1. ASSUME NEW j \in JobId, NEW st \in {"queued", "failed"}
        PROVE  [jobs[j] EXCEPT !.stalls = 1, !.state = st] \in Job
    <3>1. jobs[j] \in Job
      BY DEF TypeOK
    <3>2. [jobs[j] EXCEPT !.stalls = 1] \in Job
      BY <3>1 DEF Job
    <3>. QED BY <3>2 DEF Job
  <2>2. jobs' \in [JobId -> Job]
    BY <1>4, <2>1 DEF Crash, TypeOK
  <2>3. task' \in [Tasks -> Task]
    BY <1>4, IdleTyped DEF Crash
  <2>4. happened' \subseteq Ops \cup {"fault", "evict"} /\ faults' \in Nat
    <3>1. faults' = faults + 1 /\ happened' = happened \cup {"fault"}
      BY <1>4 DEF Crash, Fault
    <3>. QED BY <3>1 DEF TypeOK
  <2>. QED BY <1>4, <2>2, <2>3, <2>4 DEF Crash, TypeOK
<1>. QED BY <1>1, <1>2, <1>3, <1>4

LEMMA TypeInit == Init => TypeOK
<1>1. \A s \in Subs : [status |-> "none", index |-> 0, contact |-> AnyContact, dated |-> FALSE] \in Row
  BY DripAssumption DEF Row, SubStatus, AnyContact
<1> SUFFICES ASSUME Init PROVE TypeOK
  OBVIOUS
<1>2. campaign \in Campaign
  BY DEF Init, Campaign
<1>3. inbox \in [Subs -> Seq(Emails \cup {NoEmail})]
  BY DEF Init
<1>4. rows \in [Subs -> Row] /\ jobs \in [JobId -> Job] /\ task \in [Tasks -> Task]
  BY <1>1, IdleTyped DEF Init
<1>. QED BY <1>2, <1>3, <1>4 DEF Init, TypeOK

LEMMA TypeNext == TypeOK /\ [Next]_vars => TypeOK'
<1> SUFFICES ASSUME TypeOK, [Next]_vars PROVE TypeOK'
  OBVIOUS
<1>1. ASSUME NEW t \in Tasks, Process(t) PROVE TypeOK'
  BY <1>1, TypeProcess, TypeSchedule DEF Process
<1>2. ASSUME NEW j \in JobId, TakeJob(j) PROVE TypeOK'
  BY <1>2, TypeProcess DEF Tasks
<1>3. ASSUME NEW c \in Callers, Start(c) PROVE TypeOK'
  BY <1>3, TypeSubscribe, TypeStop, TypeBatch, TypeCampaign DEF Start
<1>4. ASSUME NEW c \in Callers, Request(c) PROVE TypeOK'
  BY <1>4, TypeSubscribe, TypeStop, TypeBatch, TypeCampaign DEF Request
<1>5. CASE UNCHANGED vars
  BY <1>5 DEF vars, TypeOK
<1>. QED BY <1>1, <1>2, <1>3, <1>4, <1>5, TypeFailures DEF Next

(* Rows, jobs, tasks and mailboxes keep their types.                         *)
THEOREM TypeCorrect == Spec => []TypeOK
  BY TypeInit, TypeNext, PTL DEF Spec

-----------------------------------------------------------------------------
(* The mail behind an index.  A task that works on a subscription holds an   *)
(* index the mail already covers; once the email is sent, the next one too.  *)
Holding == {"findCampaign", "send", "advance"}

Covered(t) ==
  /\ task[t].pc \in {"findCampaign", "send"} => task[t].index <= Len(inbox[task[t].sub])
  /\ task[t].pc = "advance" => task[t].index + 1 <= Len(inbox[task[t].sub])
  /\ task[t].pc \in {"send", "advance"} => task[t].emails \in offered[task[t].sub]
  /\ task[t].pc \in Holding => rows[task[t].sub].status # "none"

IInv ==
  /\ TypeOK
  /\ NeverAheadOfMail
  /\ CompletionIsEarned
  /\ \A t \in Tasks : Covered(t)

(* What most steps do: no index or completion is written, no mail is lost,   *)
(* and no task comes to hold an index.                                       *)
Harmless ==
  /\ \A s \in Subs :
       /\ Len(inbox[s]) <= Len(inbox'[s])
       /\ rows'[s].index \in {0, rows[s].index}
       /\ rows'[s].status = "completed" => rows[s].status = "completed"
  /\ \A u \in Tasks : task'[u].pc \in Holding =>
       /\ task'[u].pc = task[u].pc
       /\ task'[u].index = task[u].index
       /\ task'[u].sub = task[u].sub
       /\ task'[u].emails = task[u].emails

(* A row stays once it is there, and what its subscriber was offered too.    *)
Grows ==
  \A s \in Subs : rows[s].status # "none" =>
    /\ rows'[s].status # "none"
    /\ offered[s] \subseteq offered'[s]

(* The emails the campaign has now are among those.                          *)
Offering == \A s \in Subs : rows[s].status # "none" => campaign.emails \in offered[s]

LEMMA LengthsTyped ==
  ASSUME TypeOK
  PROVE  /\ \A s \in Subs : Len(inbox[s]) \in Nat /\ rows[s].index \in Nat
         /\ \A t \in Tasks : task[t].index \in Nat /\ task[t].sub \in Subs
         /\ \A d \in Editions : Len(d) \in Nat
<1>1. \A s \in Subs : Len(inbox[s]) \in Nat /\ rows[s].index \in Nat
  BY DEF TypeOK, Row
<1>2. \A t \in Tasks : task[t].index \in Nat /\ task[t].sub \in Subs
  BY DEF TypeOK, Task
<1>. QED BY <1>1, <1>2, EditionsTyped

LEMMA HarmlessKeeps ==
  ASSUME IInv, TypeOK', Grows, Harmless
  PROVE  IInv'
<1>0. /\ \A s \in Subs : Len(inbox[s]) \in Nat /\ rows[s].index \in Nat
      /\ \A t \in Tasks : task[t].index \in Nat /\ task[t].sub \in Subs
      /\ \A d \in Editions : Len(d) \in Nat
  BY LengthsTyped DEF IInv
<1>1. \A s \in Subs : Len(inbox'[s]) \in Nat
  BY DEF TypeOK
<1>2. NeverAheadOfMail'
  BY <1>0, <1>1 DEF IInv, NeverAheadOfMail, Harmless
<1>3. CompletionIsEarned'
  <2> SUFFICES ASSUME NEW s \in Subs, rows'[s].status = "completed"
               PROVE  \E d \in offered'[s] : Len(d) <= Len(inbox'[s])
    BY DEF CompletionIsEarned
  <2>1. rows[s].status = "completed" /\ Len(inbox[s]) <= Len(inbox'[s])
    BY DEF Harmless
  <2>2. PICK d \in offered[s] : Len(d) <= Len(inbox[s])
    BY <2>1 DEF IInv, CompletionIsEarned
  <2>3. d \in offered'[s] /\ Len(d) \in Nat
    BY <1>0, <2>1, <2>2 DEF Grows, IInv, TypeOK
  <2>. QED BY <1>0, <1>1, <2>1, <2>2, <2>3
<1>4. ASSUME NEW t \in Tasks PROVE Covered(t)'
  <2>1. CASE task'[t].pc \in Holding
    <3>1. /\ task'[t].pc = task[t].pc /\ task'[t].index = task[t].index
          /\ task'[t].sub = task[t].sub /\ task'[t].emails = task[t].emails
      BY <2>1 DEF Harmless
    <3>2. Len(inbox[task[t].sub]) <= Len(inbox'[task[t].sub])
      BY <1>0 DEF Harmless
    <3>3. Covered(t)
      BY DEF IInv
    <3>4. /\ rows'[task[t].sub].status # "none"
          /\ offered[task[t].sub] \subseteq offered'[task[t].sub]
      BY <2>1, <3>1, <3>3, <1>0 DEF Grows, Covered
    <3>. QED BY <3>1, <3>2, <3>3, <3>4, <1>0, <1>1 DEF Covered
  <2>2. CASE task'[t].pc \notin Holding
    BY <2>2 DEF Covered, Holding
  <2>. QED BY <2>1, <2>2
<1>. QED BY <1>2, <1>3, <1>4 DEF IInv

(* A step of one task that touches neither rows nor mail.                    *)
LEMMA TaskStepHarmless ==
  ASSUME NEW t \in Tasks,
         UNCHANGED <<rows, inbox>>,
         \A u \in Tasks \ {t} : task'[u] = task[u],
         task'[t].pc \notin Holding,
         TypeOK
  PROVE  Harmless
<1>1. \A s \in Subs : Len(inbox[s]) \in Nat
  BY DEF TypeOK
<1>. QED BY <1>1 DEF Harmless

LEMMA LeaveElsewhere ==
  ASSUME TypeOK, NEW t \in Tasks, Leave(t) \/ Throw(t)
  PROVE  /\ \A u \in Tasks \ {t} : task'[u] = task[u]
         /\ task'[t].pc \notin Holding
<1>1. task \in [Tasks -> Task] /\ task[t].back \in {"idle", "done", "pauseNext", "batchNext"}
  BY DEF TypeOK, Task
<1>2. [Idle EXCEPT !.pc = task[t].back, !.back = task[t].back, !.todo = task[t].todo].pc
        = task[t].back
    /\ Idle.pc = "idle"
  BY DEF Idle
<1>. QED BY <1>1, <1>2 DEF Leave, Throw, Holding

(* Requests: every step but creating a row, setting its status and DeleteRows *)
(* is a step of the task alone.                                              *)
LEMMA RequestStepsHarmless ==
  ASSUME TypeOK, NEW c \in Callers
  PROVE  /\ Start(c) => Harmless
         /\ Request(c) => Harmless
         /\ RequestError(c) => Harmless
<1>0. c \in Tasks /\ task \in [Tasks -> Task]
  BY DEF TypeOK, Tasks
<1>1. ASSUME UNCHANGED <<rows, inbox, task>> PROVE Harmless
  <2>1. \A s \in Subs : Len(inbox[s]) \in Nat
    BY DEF TypeOK
  <2>. QED BY <1>1, <2>1 DEF Harmless
<1>2. ASSUME UNCHANGED <<rows, inbox>>,
             \/ \A u \in Tasks \ {c} : task'[u] = task[u]
             \/ Leave(c),
             Leave(c) \/ task'[c].pc \notin Holding
      PROVE  Harmless
  BY <1>0, <1>2, TaskStepHarmless, LeaveElsewhere
<1>i. Idle.pc = "idle"
  BY DEF Idle
<1>3. ASSUME Start(c) PROVE Harmless
  <2>1. CASE Subscribe(c)
    BY <2>1, <1>0, <1>2 DEF Subscribe, Holding
  <2>2. CASE Unsubscribe(c)
    BY <2>2, <1>0, <1>2 DEF Unsubscribe, StopSubscription, Holding
  <2>3. CASE PauseSubscription(c)
    BY <2>3, <1>0, <1>2 DEF PauseSubscription, StopSubscription, Holding
  <2>4. CASE ResumeSubscription(c)
    BY <2>4, <1>0, <1>2 DEF ResumeSubscription, Holding
  <2>5. CASE PauseCampaign(c)
    BY <2>5, <1>0, <1>2 DEF PauseCampaign, Holding
  <2>6. CASE ProcessActive(c)
    <3>1. PICK todo :
            task' = [task EXCEPT ![c].pc = "batchNext", ![c].back = "batchNext", ![c].todo = todo]
      BY <2>6 DEF ProcessActive
    <3>. QED BY <2>6, <3>1, <1>0, <1>2 DEF ProcessActive, Holding, Task
  <2>7. CASE ActivateCampaign(c) \/ UpdateCampaign(c)
    BY <2>7, <1>1 DEF ActivateCampaign, UpdateCampaign
  <2>8. CASE DeleteCampaign(c)
    BY <2>8, <1>0, <1>2 DEF DeleteCampaign, Holding
  <2>. QED BY <1>3, <2>1, <2>2, <2>3, <2>4, <2>5, <2>6, <2>7, <2>8 DEF Start
<1>4. ASSUME Request(c) PROVE Harmless
  <2>1. CASE FindExisting(c)
    <3>1. CASE Leave(c)
      BY <2>1, <3>1, <1>2 DEF FindExisting
    <3>2. CASE task' = [task EXCEPT ![c].pc = "create"]
      BY <2>1, <3>2, <1>0, <1>2 DEF FindExisting, Holding, Task
    <3>. QED BY <2>1, <3>1, <3>2 DEF FindExisting
  <2>11. CASE ResumeCampaign(c)
    <3>1. CASE Leave(c)
      BY <2>11, <3>1, <1>2 DEF ResumeCampaign
    <3>2. CASE task' = [task EXCEPT ![c].pc = "setActive", ![c].emails = campaign.emails]
      <4>1. task'[c].pc = "setActive" /\ \A u \in Tasks \ {c} : task'[u] = task[u]
        BY <3>2, <1>0 DEF Task
      <4>. QED BY <2>11, <4>1, <1>2 DEF ResumeCampaign, Holding
    <3>. QED BY <2>11, <3>1, <3>2 DEF ResumeCampaign
  <2>2. CASE ListJobs(c)
    BY <2>2, <1>0, <1>2 DEF ListJobs, Holding
  <2>3. CASE RemoveJob(c)
    <3>1. PICK j \in task[c].listed :
            \/ task' = [task EXCEPT ![c] = Idle]
            \/ task' = [task EXCEPT ![c].listed = @ \ {j}]
      BY <2>3 DEF RemoveJob
    <3>2. task'[c].pc \in {"idle", "removeJobs"} /\ \A u \in Tasks \ {c} : task'[u] = task[u]
      BY <2>3, <3>1, <1>0, <1>i DEF RemoveJob, At, Task
    <3>. QED BY <2>3, <3>2, <1>2 DEF RemoveJob, Holding
  <2>4. CASE ListSubscriptions(c)
    BY <2>4, <1>0, <1>2 DEF ListSubscriptions, Holding
  <2>5. CASE PauseNext(c)
    <3>1. CASE task' = [task EXCEPT ![c] = Idle]
      BY <2>5, <3>1, <1>0, <1>2, <1>i DEF PauseNext, Holding
    <3>2. CASE \E x \in task[c].todo :
                 task' = [task EXCEPT ![c].pc = "listJobs", ![c].sub = x[1], ![c].to = "paused",
                                      ![c].todo = @ \ {x}]
      <4>1. task'[c].pc = "listJobs" /\ \A u \in Tasks \ {c} : task'[u] = task[u]
        BY <3>2, <1>0 DEF Task
      <4>. QED BY <2>5, <4>1, <1>2 DEF PauseNext, Holding
    <3>. QED BY <2>5, <3>1, <3>2 DEF PauseNext
  <2>6. CASE BatchNext(c)
    <3>1. CASE task' = [task EXCEPT ![c] = Idle]
      BY <2>6, <3>1, <1>0, <1>2, <1>i DEF BatchNext, Holding
    <3>2. CASE \E x \in task[c].todo :
                 task' = [task EXCEPT ![c].pc = "findSubscription", ![c].sub = x[1],
                            ![c].email = campaign.emails[x[2] + 1], ![c].todo = @ \ {x}]
      <4>1. task'[c].pc = "findSubscription" /\ \A u \in Tasks \ {c} : task'[u] = task[u]
        BY <3>2, <1>0 DEF Task
      <4>. QED BY <2>6, <4>1, <1>2 DEF BatchNext, Holding
    <3>3. CASE \E x \in task[c].todo : task' = [task EXCEPT ![c].todo = @ \ {x}]
      <4>1. task'[c].pc = "batchNext" /\ \A u \in Tasks \ {c} : task'[u] = task[u]
        <5>1. task[c].pc = "batchNext" /\ task[c] \in Task
          BY <2>6, <1>0 DEF BatchNext, At
        <5>2. PICK todo : task' = [task EXCEPT ![c].todo = todo]
          BY <3>3
        <5>. QED BY <5>1, <5>2, <1>0 DEF Task
      <4>. QED BY <2>6, <4>1, <1>2 DEF BatchNext, Holding
    <3>. QED BY <2>6, <3>1, <3>2, <3>3 DEF BatchNext
  <2>7. CASE CreateSubscription(c)
    BY <2>7, <1>0 DEF CreateSubscription, Harmless, Holding, TypeOK
  <2>8. CASE SetStopped(c)
    <3>1. task[c].to # "completed"
      BY <1>0 DEF Task
    <3>2. /\ \A u \in Tasks \ {c} : task'[u] = task[u]
          /\ task'[c].pc \notin Holding
      BY <2>8, <1>0, LeaveElsewhere DEF SetStopped
    <3>3. \A s \in Subs : rows'[s].index = rows[s].index
                          /\ rows'[s].status \in {rows[s].status, task[c].to}
      BY <2>8 DEF SetStopped, TypeOK, Row
    <3>4. \A s \in Subs : Len(inbox[s]) \in Nat
      BY DEF TypeOK
    <3>. QED BY <2>8, <3>1, <3>2, <3>3, <3>4 DEF SetStopped, Harmless
  <2>9. CASE SetActive(c)
    <3>1. ASSUME NEW k, task' = [task EXCEPT ![c].pc = "schedule", ![c].index = k]
          PROVE  task'[c].pc = "schedule" /\ \A u \in Tasks \ {c} : task'[u] = task[u]
      BY <3>1, <1>0 DEF Task
    <3>2. /\ \A u \in Tasks \ {c} : task'[u] = task[u]
          /\ task'[c].pc \notin Holding
      BY <2>9, <3>1, <1>0, LeaveElsewhere DEF SetActive, Holding
    <3>3. \A s \in Subs : rows'[s].index = rows[s].index
                          /\ rows'[s].status \in {rows[s].status, "active"}
      <4>1. \/ rows' = [rows EXCEPT ![task[c].sub].status = "active"]
            \/ UNCHANGED rows
        BY <2>9 DEF SetActive
      <4>2. task[c].sub \in Subs /\ rows \in [Subs -> Row]
        BY <1>0 DEF TypeOK, Task
      <4>. QED BY <4>1, <4>2 DEF Row
    <3>4. \A s \in Subs : Len(inbox[s]) \in Nat
      BY DEF TypeOK
    <3>. QED BY <2>9, <3>2, <3>3, <3>4 DEF SetActive, Harmless
  <2>10. CASE DeleteRows(c)
    <3>1. /\ \A u \in Tasks \ {c} : task'[u] = task[u]
          /\ task'[c].pc \notin Holding
      BY <2>10, <1>0, LeaveElsewhere DEF DeleteRows
    <3>2. \A s \in Subs : rows'[s].index = rows[s].index
                          /\ rows'[s].status \in {rows[s].status, "deleted"}
      BY <2>10 DEF DeleteRows, TypeOK, Row
    <3>3. UNCHANGED inbox /\ \A s \in Subs : Len(inbox[s]) \in Nat
      BY <2>10 DEF DeleteRows, TypeOK
    <3>. QED BY <3>1, <3>2, <3>3 DEF Harmless
  <2>. QED BY <1>4, <2>1, <2>2, <2>3, <2>4, <2>5, <2>6, <2>7, <2>8, <2>9, <2>10,
         <2>11 DEF Request
<1>5. ASSUME RequestError(c) PROVE Harmless
  <2>1. CASE task' = [task EXCEPT ![c] = Idle]
    BY <1>5, <2>1, <1>0, <1>2, <1>i DEF RequestError, Holding
  <2>2. CASE At(c, "batchNext") /\ \E x \in task[c].todo : task' = [task EXCEPT ![c].todo = @ \ {x}]
    BY <1>5, <2>2, <1>0, <1>2 DEF RequestError, At, Holding
  <2>. QED BY <1>5, <2>1, <2>2 DEF RequestError
<1>. QED BY <1>3, <1>4, <1>5

(* A step of one task that is covered afterwards.                            *)
LEMMA TaskStepKeeps ==
  ASSUME IInv, TypeOK', Grows, NEW t \in Tasks,
         \A u \in Tasks \ {t} : task'[u] = task[u],
         \A s \in Subs : Len(inbox[s]) <= Len(inbox'[s]),
         Covered(t)',
         \A s \in Subs : \/ rows'[s].index = rows[s].index
                         \/ rows'[s].index <= Len(inbox'[s]),
         \A s \in Subs : rows'[s].status = "completed" =>
           \/ rows[s].status = "completed"
           \/ \E d \in offered'[s] : Len(d) <= Len(inbox'[s])
  PROVE  IInv'
<1>0. /\ \A s \in Subs : Len(inbox[s]) \in Nat /\ rows[s].index \in Nat
      /\ \A u \in Tasks : task[u].index \in Nat /\ task[u].sub \in Subs
      /\ \A d \in Editions : Len(d) \in Nat
  BY LengthsTyped DEF IInv
<1>1. \A s \in Subs : Len(inbox'[s]) \in Nat
  BY DEF TypeOK
<1>2. NeverAheadOfMail'
  BY <1>0, <1>1 DEF IInv, NeverAheadOfMail
<1>3. CompletionIsEarned'
  <2>1. ASSUME NEW s \in Subs, rows[s].status = "completed"
        PROVE  \E d \in offered'[s] : Len(d) <= Len(inbox'[s])
    <3>1. PICK d \in offered[s] : Len(d) <= Len(inbox[s])
      BY <2>1 DEF IInv, CompletionIsEarned
    <3>2. d \in offered'[s] /\ Len(d) \in Nat
      BY <1>0, <2>1, <3>1 DEF Grows, IInv, TypeOK
    <3>. QED BY <3>1, <3>2, <1>0, <1>1
  <2>. QED BY <2>1 DEF CompletionIsEarned
<1>4. ASSUME NEW u \in Tasks \ {t} PROVE Covered(u)'
  <2>1. Covered(u) /\ task'[u] = task[u]
    BY DEF IInv
  <2>2. Len(inbox[task[u].sub]) <= Len(inbox'[task[u].sub])
    BY <1>0
  <2>3. task[u].pc \in Holding =>
          /\ rows'[task[u].sub].status # "none"
          /\ offered[task[u].sub] \subseteq offered'[task[u].sub]
    BY <2>1, <1>0 DEF Grows, Covered
  <2>. QED BY <2>1, <2>2, <2>3, <1>0, <1>1 DEF Covered, Holding
<1>. QED BY <1>2, <1>3, <1>4 DEF IInv

LEMMA LeaveKeeps ==
  ASSUME IInv, TypeOK', Grows, NEW t \in Tasks, Leave(t) \/ Throw(t),
         \A s \in Subs : /\ Len(inbox[s]) <= Len(inbox'[s])
                         /\ rows'[s].index = rows[s].index
                         /\ rows'[s].status = rows[s].status
  PROVE  IInv'
<1>1. TypeOK
  BY DEF IInv
<1>2. /\ \A u \in Tasks \ {t} : task'[u] = task[u]
      /\ task'[t].pc \notin Holding
  BY <1>1, LeaveElsewhere
<1>3. Covered(t)'
  BY <1>2 DEF Covered, Holding
<1>. QED BY <1>2, <1>3, TaskStepKeeps

(* Setting next_email_at leaves index and status alone.                      *)
LEMMA DatedOnly ==
  ASSUME TypeOK, NEW s,
         UNCHANGED rows \/ rows' = [rows EXCEPT ![s].dated = TRUE],
         NEW r \in Subs
  PROVE  rows'[r].index = rows[r].index /\ rows'[r].status = rows[r].status
<1>1. CASE UNCHANGED rows
  BY <1>1
<1>2. CASE rows' = [rows EXCEPT ![s].dated = TRUE]
  <2>1. rows \in [Subs -> Row] /\ rows[r] \in Row
    BY DEF TypeOK
  <2>2. rows'[r] = IF r = s THEN [rows[r] EXCEPT !.dated = TRUE] ELSE rows[r]
    BY <1>2, <2>1
  <2>. QED BY <2>1, <2>2 DEF Row
<1>. QED BY <1>1, <1>2

(* The steps of processDripEmail.                                            *)
LEMMA ProcessKeeps ==
  ASSUME IInv, TypeOK', Grows, Offering, NEW t \in Tasks, Process(t)
  PROVE  IInv'
<1> DEFINE s == task[t].sub
<1>0. /\ task \in [Tasks -> Task] /\ rows \in [Subs -> Row]
      /\ inbox \in [Subs -> Seq(Emails \cup {NoEmail})]
      /\ s \in Subs /\ task[t].index \in Nat
      /\ \A r \in Subs : Len(inbox[r]) \in Nat
  BY DEF IInv, TypeOK, Task
<1>1. CASE FindSubscription(t)
  <2>1. CASE Leave(t) \/ Throw(t)
    BY <1>1, <2>1, <1>0, LeaveKeeps DEF FindSubscription
  <2>2. CASE /\ task' = [task EXCEPT ![t].pc = "findCampaign", ![t].index = rows[s].index]
             /\ rows[s].status = "active"
    <3>1. /\ \A u \in Tasks \ {t} : task'[u] = task[u]
          /\ task'[t].pc = "findCampaign" /\ task'[t].index = rows[s].index /\ task'[t].sub = s
      BY <2>2, <1>0 DEF Task
    <3>2. rows[s].index <= Len(inbox[s])
      BY <1>0 DEF IInv, NeverAheadOfMail
    <3>3. Covered(t)'
      BY <1>1, <2>2, <3>1, <3>2 DEF Covered, FindSubscription
    <3>. QED BY <1>1, <3>1, <3>3, <1>0, TaskStepKeeps DEF FindSubscription
  <2>. QED BY <1>1, <2>1, <2>2 DEF FindSubscription, Return
<1>2. CASE FindCampaign(t)
  <2>1. CASE Leave(t) \/ Throw(t)
    BY <1>2, <2>1, <1>0, LeaveKeeps DEF FindCampaign
  <2>2. CASE task' = [task EXCEPT ![t].pc = "send", ![t].emails = campaign.emails]
    <3>1. /\ \A u \in Tasks \ {t} : task'[u] = task[u]
          /\ task'[t].pc = "send" /\ task'[t].index = task[t].index /\ task'[t].sub = s
          /\ task'[t].emails = campaign.emails
      BY <2>2, <1>0 DEF Task
    <3>2. task[t].index <= Len(inbox[s]) /\ rows[s].status # "none"
      BY <1>2 DEF IInv, Covered, FindCampaign, At, Holding
    <3>4. campaign.emails \in offered[s]
      BY <3>2, <1>0 DEF Offering
    <3>3. Covered(t)'
      BY <1>2, <3>1, <3>2, <3>4 DEF Covered, FindCampaign
    <3>. QED BY <1>2, <3>1, <3>3, <1>0, TaskStepKeeps DEF FindCampaign
  <2>. QED BY <1>2, <2>1, <2>2 DEF FindCampaign, Return
<1>3. CASE SendDripEmail(t)
  <2>1. /\ \A u \in Tasks \ {t} : task'[u] = task[u]
        /\ task'[t].pc = "advance" /\ task'[t].index = task[t].index /\ task'[t].sub = s
        /\ task'[t].emails = task[t].emails
    BY <1>3, <1>0 DEF SendDripEmail, Task
  <2>2. task[t].index <= Len(inbox[s]) /\ task[t].emails \in offered[s]
        /\ rows[s].status # "none" /\ UNCHANGED offered
    BY <1>3 DEF IInv, Covered, SendDripEmail, At, Holding
  <2>3. task[t].email \in Emails \cup {NoEmail}
    BY <1>0 DEF Task
  <2>4. /\ Len(inbox'[s]) = Len(inbox[s]) + 1
        /\ \A r \in Subs : Len(inbox[r]) <= Len(inbox'[r])
    BY <1>3, <2>3, <1>0 DEF SendDripEmail
  <2>6. UNCHANGED rows
    BY <1>3 DEF SendDripEmail
  <2>5. Covered(t)'
    BY <2>1, <2>2, <2>4, <2>6, <1>0 DEF Covered
  <2>. QED BY <2>1, <2>4, <2>5, <2>6, TaskStepKeeps
<1>4. CASE MoveToNextEmail(t)
  <2> DEFINE next == task[t].index + 1
  <2>1. next <= Len(inbox[s]) /\ task[t].emails \in offered[s] /\ next \in Nat
        /\ UNCHANGED offered
    BY <1>4, <1>0 DEF IInv, Covered, MoveToNextEmail, At
  <2>2. Len(task[t].emails) \in Nat
    BY <2>1, <1>0, EditionsTyped DEF IInv, TypeOK
  <2>3. UNCHANGED inbox
    BY <1>4 DEF MoveToNextEmail
  <2>a. \A r \in Subs : rows[r] \in Row
    BY <1>0
  <2>b. \/ UNCHANGED rows
        \/ rows' = [rows EXCEPT ![s].index = next]
        \/ /\ rows' = [rows EXCEPT ![s].status = "completed", ![s].index = next]
           /\ next >= Len(task[t].emails)
    BY <1>4 DEF MoveToNextEmail
  <2>4. ASSUME NEW r \in Subs PROVE rows'[r].index = rows[r].index \/ rows'[r].index <= Len(inbox'[r])
    BY <2>a, <2>b, <2>1, <2>3, <1>0 DEF Row
  <2>5. ASSUME NEW r \in Subs, rows'[r].status = "completed", rows[r].status # "completed"
        PROVE  \E d \in offered'[r] : Len(d) <= Len(inbox'[r])
    <3>1. r = s /\ next >= Len(task[t].emails)
      <4>1. CASE UNCHANGED rows
        BY <2>5, <4>1
      <4>2. CASE rows' = [rows EXCEPT ![s].index = next]
        BY <2>a, <2>5, <4>2, <1>0 DEF Row
      <4>3. CASE /\ rows' = [rows EXCEPT ![s].status = "completed", ![s].index = next]
                 /\ next >= Len(task[t].emails)
        BY <2>a, <2>5, <4>3, <1>0 DEF Row
      <4>. QED BY <2>b, <4>1, <4>2, <4>3
    <3>. QED BY <3>1, <2>1, <2>2, <2>3, <1>0
  <2>6. (\A u \in Tasks \ {t} : task'[u] = task[u]) /\ task'[t].pc \notin Holding
    <3>1. CASE Leave(t)
      BY <3>1, LeaveElsewhere DEF IInv
    <3>2. CASE task' = [task EXCEPT ![t].pc = "schedule", ![t].index = next]
      BY <3>2, <1>0 DEF Task, Holding
    <3>. QED BY <1>4, <3>1, <3>2 DEF MoveToNextEmail, Return
  <2>7. Covered(t)'
    BY <2>6 DEF Covered, Holding
  <2>. QED BY <2>3, <2>4, <2>5, <2>6, <2>7, <1>0, TaskStepKeeps
<1>5. CASE ScheduleNextEmail(t)
  <2>1. /\ \A u \in Tasks \ {t} : task'[u] = task[u]
        /\ task'[t].pc \notin Holding
    <3>1. CASE Leave(t)
      BY <3>1, LeaveElsewhere DEF IInv
    <3>2. CASE task' = [task EXCEPT ![t].pc = "addJob", ![t].email = task[t].emails[task[t].index + 1]]
      BY <3>2, <1>0 DEF Task, Holding
    <3>. QED BY <1>5, <3>1, <3>2 DEF ScheduleNextEmail, Return
  <2>2. \/ UNCHANGED rows
        \/ rows' = [rows EXCEPT ![s].dated = TRUE]
    BY <1>5 DEF ScheduleNextEmail
  <2>3. ASSUME NEW r \in Subs
        PROVE  rows'[r].index = rows[r].index /\ rows'[r].status = rows[r].status
    BY <2>2, DatedOnly DEF IInv
  <2>4. UNCHANGED inbox
    BY <1>5 DEF ScheduleNextEmail
  <2>5. Covered(t)'
    BY <2>1 DEF Covered, Holding
  <2>. QED BY <2>1, <2>3, <2>4, <2>5, <1>0, TaskStepKeeps
<1>6. CASE AddDripEmail(t)
  BY <1>6, <1>0, LeaveKeeps DEF AddDripEmail
<1>7. CASE CompleteJob(t)
  <2>1. (\A u \in Tasks \ {t} : task'[u] = task[u]) /\ task'[t].pc \notin Holding
    BY <1>7, <1>0 DEF CompleteJob, Idle, Holding
  <2>2. UNCHANGED <<rows, inbox>>
    BY <1>7 DEF CompleteJob
  <2>. QED BY <2>1, <2>2, TaskStepHarmless, HarmlessKeeps DEF IInv
<1>. QED BY <1>1, <1>2, <1>3, <1>4, <1>5, <1>6, <1>7 DEF Process

(* The other steps: a mail may go out unrecorded, jobs and tasks restart.    *)
LEMMA FailureKeeps ==
  ASSUME IInv, TypeOK', Grows
  PROVE  /\ \A t \in Tasks : ProcessingError(t) => IInv'
         /\ \A j \in JobId : TakeJob(j) \/ Evict(j) => IInv'
         /\ Crash => IInv'
<1>0. /\ task \in [Tasks -> Task] /\ rows \in [Subs -> Row]
      /\ inbox \in [Subs -> Seq(Emails \cup {NoEmail})]
      /\ TypeOK
      /\ \A s \in Subs : Len(inbox[s]) \in Nat
  BY DEF IInv, TypeOK
<1>1. ASSUME NEW t \in Tasks, ProcessingError(t) PROVE IInv'
  <2> DEFINE s == task[t].sub
  <2>0. s \in Subs /\ task[t].email \in Emails \cup {NoEmail}
    BY <1>0 DEF Task
  <2>1. Throw(t)
    BY <1>1 DEF ProcessingError
  <2>2. inbox' \in {inbox, [inbox EXCEPT ![s] = Append(@, task[t].email)]}
    BY <1>1 DEF ProcessingError
  <2>3. rows' \in {rows, [rows EXCEPT ![s].dated = TRUE]}
    BY <1>1 DEF ProcessingError
  <2>4. ASSUME NEW r \in Subs
        PROVE  rows'[r].index = rows[r].index /\ rows'[r].status = rows[r].status
    BY <2>3, <1>0, DatedOnly
  <2>5. ASSUME NEW r \in Subs PROVE Len(inbox[r]) <= Len(inbox'[r])
    BY <2>2, <2>0, <1>0
  <2>. QED BY <2>1, <2>4, <2>5, LeaveKeeps
<1>2. ASSUME NEW j \in JobId, TakeJob(j) PROVE IInv'
  <2>1. j \in Tasks
    BY DEF Tasks
  <2>2. [Idle EXCEPT !.pc = "findSubscription", !.back = "done", !.sub = j[1],
                     !.email = jobs[j].email].pc = "findSubscription"
    BY DEF Idle
  <2>3. (\A u \in Tasks \ {j} : task'[u] = task[u]) /\ task'[j].pc \notin Holding
    BY <1>2, <2>1, <2>2, <1>0 DEF TakeJob, Holding
  <2>4. UNCHANGED <<rows, inbox>>
    BY <1>2 DEF TakeJob
  <2>. QED BY <2>1, <2>3, <2>4, <1>0, TaskStepHarmless, HarmlessKeeps
<1>3. ASSUME NEW j \in JobId, Evict(j) PROVE IInv'
  BY <1>3, <1>0, HarmlessKeeps DEF Evict, Harmless
<1>4. CASE Crash
  <2>1. \A u \in Tasks : task'[u].pc = "idle"
    BY <1>4 DEF Crash, Idle
  <2>2. UNCHANGED <<rows, inbox>>
    BY <1>4 DEF Crash
  <2>. QED BY <2>1, <2>2, <1>0, HarmlessKeeps DEF Harmless, Holding
<1>. QED BY <1>1, <1>2, <1>3, <1>4

LEMMA IInvInit == Init => IInv
<1> SUFFICES ASSUME Init PROVE IInv
  OBVIOUS
<1>1. TypeOK
  BY TypeInit
<1>2. \A s \in Subs : rows[s].index = 0 /\ rows[s].status = "none" /\ Len(inbox[s]) = 0
  BY DEF Init
<1>3. \A t \in Tasks : task[t].pc = "idle"
  BY DEF Init, Idle
<1>. QED BY <1>1, <1>2, <1>3 DEF IInv, NeverAheadOfMail, CompletionIsEarned, Covered, Holding

(* Only creating a row, updating the campaign and deleting it are not        *)
(* obviously so.                                                             *)
LEMMA Growing ==
  ASSUME TypeOK, TypeOK', [Next]_vars
  PROVE  Grows /\ (Offering => Offering')
<1>0. /\ rows \in [Subs -> Row] /\ offered \in [Subs -> SUBSET Editions]
      /\ \A t \in Tasks : task[t].to # "none" /\ task[t].sub \in Subs
  BY DEF TypeOK, Task
<1>1. ASSUME UNCHANGED offered,
             \A s \in Subs : rows'[s].status # rows[s].status =>
               rows[s].status # "none" /\ rows'[s].status # "none",
             campaign'.emails = campaign.emails
      PROVE  Grows /\ (Offering => Offering')
  BY <1>1 DEF Grows, Offering
<1>u. ASSUME UNCHANGED <<rows, offered>>, campaign'.emails = campaign.emails
      PROVE  Grows /\ (Offering => Offering')
  BY <1>1, <1>u
<1>2. ASSUME NEW s \in Subs, Exists(s), UNCHANGED <<offered, campaign>>,
             rows'[s].status # "none", \A r \in Subs \ {s} : rows'[r] = rows[r]
      PROVE  Grows /\ (Offering => Offering')
  BY <1>1, <1>2 DEF Exists
<1>3. ASSUME NEW t \in Tasks, Process(t) \/ ProcessingError(t)
      PROVE  Grows /\ (Offering => Offering')
  <2>1. CASE MoveToNextEmail(t)
    <3>1. UNCHANGED <<offered, campaign>>
      BY <2>1 DEF MoveToNextEmail
    <3>2. \/ UNCHANGED rows
          \/ /\ Exists(task[t].sub)
             /\ rows'[task[t].sub].status # "none"
             /\ \A r \in Subs \ {task[t].sub} : rows'[r] = rows[r]
      BY <2>1, <1>0 DEF MoveToNextEmail, Exists, Row
    <3>3. task[t].sub \in Subs
      BY <1>0
    <3>. QED BY <1>2, <1>u, <3>1, <3>2, <3>3
  <2>2. CASE ScheduleNextEmail(t) \/ ProcessingError(t)
    <3>1. /\ UNCHANGED <<offered, campaign>>
          /\ \/ UNCHANGED rows
             \/ Exists(task[t].sub) /\ rows' = [rows EXCEPT ![task[t].sub].dated = TRUE]
      BY <2>2 DEF ScheduleNextEmail, ProcessingError
    <3>2. task[t].sub \in Subs
      BY <1>0
    <3>3. CASE Exists(task[t].sub) /\ rows' = [rows EXCEPT ![task[t].sub].dated = TRUE]
      <4>1. /\ rows'[task[t].sub].status # "none"
            /\ \A r \in Subs \ {task[t].sub} : rows'[r] = rows[r]
        BY <1>0, <3>2, <3>3 DEF Exists, Row
      <4>. QED BY <1>2, <3>1, <3>2, <3>3, <4>1
    <3>. QED BY <1>u, <3>1, <3>3
  <2>3. CASE \/ FindSubscription(t) \/ FindCampaign(t) \/ SendDripEmail(t) \/ AddDripEmail(t)
             \/ CompleteJob(t)
    BY <2>3, <1>u DEF FindSubscription, FindCampaign, SendDripEmail, AddDripEmail, CompleteJob
  <2>. QED BY <1>3, <2>1, <2>2, <2>3 DEF Process
<1>4. ASSUME NEW c \in Callers, Start(c) PROVE Grows /\ (Offering => Offering')
  <2>1. CASE UpdateCampaign(c)
    <3>1. UNCHANGED rows
      BY <2>1 DEF UpdateCampaign
    <3>2. \A s \in Subs : rows[s].status # "none" =>
            offered'[s] = offered[s] \cup {campaign'.emails}
      BY <2>1 DEF UpdateCampaign
    <3>. QED BY <3>1, <3>2 DEF Grows, Offering
  <2>2. CASE PauseCampaign(c) \/ ActivateCampaign(c)
    <3>1. campaign'.emails = campaign.emails /\ UNCHANGED <<rows, offered>>
      BY <2>2 DEF PauseCampaign, ActivateCampaign, TypeOK, Campaign
    <3>. QED BY <3>1, <1>u
  <2>3. CASE \/ Subscribe(c) \/ Unsubscribe(c) \/ PauseSubscription(c) \/ ResumeSubscription(c)
             \/ ProcessActive(c) \/ DeleteCampaign(c)
    BY <2>3, <1>u DEF Subscribe, Unsubscribe, PauseSubscription, StopSubscription, ResumeSubscription,
         ProcessActive, DeleteCampaign
  <2>. QED BY <1>4, <2>1, <2>2, <2>3 DEF Start
<1>5. ASSUME NEW c \in Callers, Request(c) \/ RequestError(c)
      PROVE  Grows /\ (Offering => Offering')
  <2>1. CASE CreateSubscription(c)
    <3>1. PICK s \in Subs :
            /\ rows[s].status = "none"
            /\ rows' = [rows EXCEPT ![s] = [status |-> "active", index |-> 0, dated |-> FALSE,
                                            contact |-> task[c].contact]]
            /\ offered' = [offered EXCEPT ![s] = {campaign.emails}]
      BY <2>1 DEF CreateSubscription
    <3>2. UNCHANGED campaign
      BY <2>1 DEF CreateSubscription
    <3>. QED BY <3>1, <3>2, <1>0 DEF Grows, Offering
  <2>2. CASE SetStopped(c) \/ SetActive(c)
    <3>1. /\ UNCHANGED <<offered, campaign>>
          /\ \/ UNCHANGED rows
             \/ /\ Exists(task[c].sub)
                /\ \E st \in {task[c].to, "active"} : rows' = [rows EXCEPT ![task[c].sub].status = st]
      BY <2>2 DEF SetStopped, SetActive
    <3>2. task[c].to # "none" /\ task[c].sub \in Subs
      BY <1>0 DEF Tasks
    <3>3. ASSUME Exists(task[c].sub), NEW st, st # "none",
                 rows' = [rows EXCEPT ![task[c].sub].status = st]
          PROVE  Grows /\ (Offering => Offering')
      <4>1. /\ rows'[task[c].sub].status # "none"
            /\ \A r \in Subs \ {task[c].sub} : rows'[r] = rows[r]
        BY <1>0, <3>2, <3>3 DEF Row
      <4>. QED BY <1>2, <3>1, <3>2, <3>3, <4>1
    <3>. QED BY <1>u, <3>1, <3>2, <3>3
  <2>3. CASE DeleteRows(c)
    <3>1. campaign'.emails = campaign.emails /\ UNCHANGED offered
      BY <2>3 DEF DeleteRows, TypeOK, Campaign
    <3>2. ASSUME NEW s \in Subs
          PROVE  rows'[s].status # rows[s].status => rows[s].status # "none" /\ rows'[s].status # "none"
      BY <2>3, <1>0 DEF DeleteRows, Exists, Row
    <3>. QED BY <3>1, <3>2, <1>1
  <2>4. CASE \/ FindExisting(c) \/ ListJobs(c) \/ RemoveJob(c) \/ ResumeCampaign(c)
             \/ ListSubscriptions(c) \/ PauseNext(c) \/ BatchNext(c) \/ RequestError(c)
    BY <2>4, <1>u DEF FindExisting, ListJobs, RemoveJob, ResumeCampaign, ListSubscriptions, PauseNext,
         BatchNext, RequestError
  <2>. QED BY <1>5, <2>1, <2>2, <2>3, <2>4 DEF Request
<1>6. ASSUME NEW j \in JobId, TakeJob(j) \/ Evict(j) PROVE Grows /\ (Offering => Offering')
  BY <1>6, <1>u DEF TakeJob, Evict
<1>7. CASE Crash \/ UNCHANGED vars
  BY <1>7, <1>u DEF Crash, vars
<1>. QED BY <1>3, <1>4, <1>5, <1>6, <1>7 DEF Next

LEMMA IInvNext == IInv /\ Offering /\ [Next]_vars => IInv' /\ Offering'
<1> SUFFICES ASSUME IInv, Offering, [Next]_vars PROVE IInv' /\ Offering'
  OBVIOUS
<1>t. TypeOK /\ TypeOK'
  BY TypeNext DEF IInv
<1>0. TypeOK /\ TypeOK' /\ Grows /\ Offering'
  BY <1>t, Growing
<1>1. ASSUME NEW t \in Tasks, Process(t) PROVE IInv'
  BY <1>1, <1>0, ProcessKeeps
<1>2. ASSUME NEW c \in Callers, Start(c) \/ Request(c) \/ RequestError(c) PROVE IInv'
  BY <1>2, <1>0, RequestStepsHarmless, HarmlessKeeps
<1>3. CASE UNCHANGED vars
  BY <1>0, <1>3 DEF vars, IInv, NeverAheadOfMail, CompletionIsEarned, Covered
<1>. QED BY <1>0, <1>1, <1>2, <1>3, FailureKeeps DEF Next

(* The invariant holds of every behaviour of the drip campaign.              *)
THEOREM InductiveInvariant == Spec => [](IInv /\ Offering)
<1>1. Init => IInv /\ Offering
  BY IInvInit DEF Init, Offering
<1>. QED BY <1>1, IInvNext, PTL DEF Spec

(* The index of a subscription never runs ahead of the emails it was sent,   *)
(* whatever stale index moveToNextEmail writes and whatever is retried.      *)
THEOREM NeverAheadOfMailCorrect == Spec => []NeverAheadOfMail
<1>1. IInv => NeverAheadOfMail
  BY DEF IInv
<1>. QED BY <1>1, InductiveInvariant, PTL

(* A subscription completes only with as much mail as an edition that the    *)
(* campaign had since the subscription began has emails.                     *)
THEOREM CompletionIsEarnedCorrect == Spec => []CompletionIsEarned
<1>1. IInv => CompletionIsEarned
  BY DEF IInv
<1>. QED BY <1>1, InductiveInvariant, PTL

-----------------------------------------------------------------------------
(* InSequence.  The emails of a subscription pass from job to job: a live job *)
(* is for the email the row is at, and who is about to queue one ("hands") is *)
(* the only one to carry the subscription on, unless it has been resumed; but *)
(* then nobody removes its jobs any more, and their ids deduplicate.         *)

Premise ==
  /\ Quiet({"fault", "batch", "update", "evict"})
  /\ Quiet({"resume"}) \/ calls <= 2

Sending  == {"findSubscription", "findCampaign", "send", "advance"}
Handing  == {"schedule", "addJob"}
Resuming == {"resumeCampaign", "setActive"}
Stopping == {"listSubscriptions", "pauseNext", "listJobs", "removeJobs"}

Index(s) == rows[s].index
Hands(t, s) == task[t].pc \in Handing /\ task[t].sub = s
Live(j) == jobs[j].state = "queued" \/ task[j].pc \in Sending

(* A request that is going to remove jobs of the subscription.               *)
Threatens(c, s) ==
  \/ At(c, "listSubscriptions")
  \/ task[c].pc \in {"listJobs", "removeJobs"} /\ task[c].sub = s
  \/ task[c].pc \in Stopping /\ \E x \in task[c].todo : x[1] = s

Safe(s) == "resume" \in happened /\ calls >= 2 /\ \A c \in Callers : ~Threatens(c, s)

(* A worker's task belongs to the job; no batch lends it another way back.    *)
JobTask(j) ==
  /\ task[j].pc \in Processing \cup {"idle"}
  /\ task[j].pc # "idle" => jobs[j].state = "active" /\ task[j].back = "done"
  /\ task[j].pc \notin {"idle", "done"} => task[j].sub = j[1]
  /\ jobs[j].state # "none" => rows[j[1]].status # "none"

CallerTask(c) ==
  /\ task[c].pc \notin Sending \cup {"batchNext", "done"}
  /\ task[c].back \notin {"batchNext", "done"}
  /\ task[c].pc \notin Stopping => task[c].back = "idle"
  /\ task[c].back = "idle" => task[c].todo = {}
  /\ At(c, "listSubscriptions") => task[c].back # "idle"
  /\ \A x, y \in task[c].todo : x[1] = y[1] => x = y
  /\ task[c].pc \in {"listJobs", "removeJobs"} => \A x \in task[c].todo : x[1] # task[c].sub
  /\ At(c, "removeJobs") => \A j \in task[c].listed : j[1] = task[c].sub
  /\ task[c].pc \in Handing \cup Resuming => rows[task[c].sub].status # "none"
  /\ task[c].pc \in Resuming => Safe(task[c].sub)

(* The copies of the emails are the emails: nobody updates the campaign.      *)
Copied(t) ==
  /\ task[t].pc \in Handing \cup {"findExisting", "create", "setActive", "send", "advance"}
       => task[t].emails = campaign.emails
  /\ At(t, "addJob") => /\ task[t].index + 1 \in DOMAIN campaign.emails
                        /\ task[t].email = campaign.emails[task[t].index + 1]

InStep(j) ==
  /\ Live(j) => j[2] = Index(j[1]) /\ j[2] + 1 \in DOMAIN campaign.emails
  /\ jobs[j].state \in {"queued", "active"} => jobs[j].email = campaign.emails[j[2] + 1]
  /\ task[j].pc \in {"findSubscription", "findCampaign", "send"}
       => task[j].email = campaign.emails[j[2] + 1]
  /\ task[j].pc \in {"findCampaign", "send", "advance"} => task[j].index = j[2]
  /\ task[j].pc \in Handing => task[j].index = j[2] + 1

HandsFresh(t) ==
  task[t].pc \in Handing =>
    /\ task[t].index <= Index(task[t].sub)
    /\ task[t].index < Index(task[t].sub) => jobs[<<task[t].sub, task[t].index>>].state # "none"

Single(s) ==
  \A t \in Tasks : Hands(t, s) =>
    /\ task[t].index = Index(s)
    /\ \A j \in JobId : j[1] = s => ~Live(j)
    /\ \A u \in Tasks : Hands(u, s) => u = t

MailOf(s) ==
  /\ Index(s) <= Len(campaign.emails)
  /\ \A i \in DOMAIN inbox[s] : i <= Len(campaign.emails) /\ inbox[s][i] = campaign.emails[i]
  /\ \/ Len(inbox[s]) = Index(s)
     \/ /\ Len(inbox[s]) = Index(s) + 1
        /\ rows[s].status = "deleted" \/ \E j \in JobId : j[1] = s /\ At(j, "advance")
  /\ \A j \in JobId : j[1] = s =>
       /\ task[j].pc \in {"findCampaign", "send"} => Len(inbox[s]) = Index(s)
       /\ At(j, "advance") => Len(inbox[s]) = Index(s) + 1
  /\ rows[s].status = "completed" => Index(s) = Len(campaign.emails)
  /\ rows[s].status = "none" => Index(s) = 0 /\ inbox[s] = <<>>

(* Every request that stops subscriptions counts as a call.                  *)
Stoppers ==
  /\ calls = 0 => \A c \in Callers : task[c].pc \notin Stopping
  /\ calls <= 1 => \A c, d \in Callers :
       task[c].pc \in Stopping /\ task[d].pc \in Stopping => c = d

PausedQuietly ==
  \A s \in Subs : rows[s].status = "paused" /\ calls <= 1 =>
     calls = 1 /\ \A c \in Callers : ~Threatens(c, s)

RequestsInv == (\A c \in Callers : CallerTask(c)) /\ Stoppers /\ PausedQuietly

PassedOn ==
  /\ \A j \in JobId : JobTask(j) /\ InStep(j)
  /\ \A t \in Tasks : Copied(t) /\ HandsFresh(t)
  /\ \A s \in Subs : Single(s) \/ Safe(s)

Ordered == RequestsInv /\ PassedOn /\ \A s \in Subs : MailOf(s)
SequenceInv == Premise => Ordered

(* What the steps below have in common: one task moves.                      *)
Others(t) == \A u \in Tasks \ {t} : task'[u] = task[u]

LEMMA PremiseBefore ==
  ASSUME TypeOK, TypeOK', [Next]_vars, Premise'
  PROVE  /\ Premise /\ happened \subseteq happened'
         /\ calls \in Nat /\ calls' \in {calls, calls + 1}
         /\ "resume" \in happened' => calls' <= 2
         /\ \A t \in Tasks : ~ProcessingError(t)
         /\ \A j \in JobId : ~Evict(j)
         /\ \A c \in Callers : ~RequestError(c) /\ ~ProcessActive(c) /\ ~UpdateCampaign(c)
         /\ ~Crash
<1>0. calls \in Nat /\ calls' \in Nat
  BY DEF TypeOK
<1>1. ASSUME NEW t \in Tasks, Process(t)
      PROVE  UNCHANGED <<calls, happened>>
  BY <1>1 DEF Process, FindSubscription, FindCampaign, SendDripEmail, MoveToNextEmail,
     ScheduleNextEmail, AddDripEmail, CompleteJob
<1>2. ASSUME NEW c \in Callers, Request(c) PROVE UNCHANGED <<calls, happened>>
  BY <1>2 DEF Request, FindExisting, CreateSubscription, ListJobs, RemoveJob, SetStopped,
     ResumeCampaign, SetActive, ListSubscriptions, PauseNext, BatchNext, DeleteRows
<1>3. ASSUME NEW c \in Callers, Start(c)
      PROVE  calls' \in {calls, calls + 1} /\ happened \subseteq happened'
  BY <1>3 DEF Start, Subscribe, Unsubscribe, PauseSubscription, StopSubscription,
     ResumeSubscription, PauseCampaign, ProcessActive, ActivateCampaign, UpdateCampaign,
     DeleteCampaign, Begin
<1>4. ASSUME NEW j \in JobId, TakeJob(j) PROVE UNCHANGED <<calls, happened>>
  BY <1>4 DEF TakeJob
<1>5. /\ \A t \in Tasks : ~ProcessingError(t)
      /\ \A j \in JobId : ~Evict(j)
      /\ \A c \in Callers : ~RequestError(c) /\ ~ProcessActive(c) /\ ~UpdateCampaign(c)
      /\ ~Crash
  BY DEF Premise, Quiet, ProcessingError, Evict, RequestError, Crash, Fault, ProcessActive,
     UpdateCampaign, Begin
<1>6. calls' \in {calls, calls + 1} /\ happened \subseteq happened'
  <2>1. UNCHANGED vars => UNCHANGED <<calls, happened>>
    BY DEF vars
  <2>. QED BY <2>1, <1>1, <1>2, <1>3, <1>4, <1>5 DEF Next
<1>7. "resume" \in happened' => calls' <= 2
  BY DEF Premise, Quiet
<1>8. Premise
  BY <1>0, <1>6 DEF Premise, Quiet
<1>. QED BY <1>0, <1>5, <1>6, <1>7, <1>8

(* Leaving, with no batch: a request goes idle or on with its list.          *)
LEMMA LeaveFields ==
  ASSUME TypeOK, NEW t \in Tasks, Leave(t)
  PROVE  /\ Others(t)
         /\ task'[t].pc = task[t].back /\ task'[t].back = task[t].back
         /\ task'[t].todo = task[t].todo
<1>1. task \in [Tasks -> Task]
  BY DEF TypeOK
<1>. QED BY <1>1 DEF Leave, Others, Idle

(* No step of a request makes a resumed subscription unsafe: the resume and   *)
(* the call before it have used up the calls.                                *)
LEMMA SafeStep ==
  ASSUME TypeOK, TypeOK', NEW c \in Callers, Others(c),
         calls' \in {calls, calls + 1}, happened \subseteq happened',
         "resume" \in happened' => calls' <= 2,
         \A s \in Subs : Threatens(c, s)' => Threatens(c, s) \/ calls' = calls + 1
  PROVE  \A s \in Subs : Safe(s) => Safe(s)'
<1>0. /\ calls \in Nat /\ c \in Tasks
      /\ \A u \in Callers \ {c} : task'[u] = task[u] /\ \A s : Threatens(u, s)' <=> Threatens(u, s)
  BY DEF TypeOK, Tasks, Others, Threatens, At
<1>. QED BY <1>0 DEF Safe

(* A step of one request, seen by the other requests.                        *)
LEMMA RequestStep ==
  ASSUME TypeOK, TypeOK', RequestsInv, NEW c \in Callers, Others(c),
         CallerTask(c)',
         calls' \in {calls, calls + 1}, happened \subseteq happened',
         "resume" \in happened' => calls' <= 2,
         \A s \in Subs : rows'[s].status = "none" => rows[s].status = "none",
         \A s \in Subs : Threatens(c, s)' => Threatens(c, s) \/ calls' = calls + 1,
         task'[c].pc \in Stopping => task[c].pc \in Stopping \/ calls' = calls + 1,
         \A s \in Subs : rows'[s].status = "paused" =>
            \/ rows[s].status = "paused"
            \/ calls' = calls /\ task[c].pc \in Stopping /\ ~Threatens(c, s)'
  PROVE  RequestsInv' /\ \A s \in Subs : Safe(s) => Safe(s)'
<1>0. /\ calls \in Nat /\ c \in Tasks
      /\ \A u \in Callers \ {c} : task'[u] = task[u] /\ \A s : Threatens(u, s)' <=> Threatens(u, s)
      /\ \A u \in Tasks : task[u].sub \in Subs
  BY DEF TypeOK, Tasks, Task, Others, Threatens, At
<1>1. \A s \in Subs : Safe(s) => Safe(s)'
  BY SafeStep
<1>2. ASSUME NEW u \in Callers PROVE CallerTask(u)'
  <2>1. CASE u = c
    BY <2>1
  <2>2. CASE u # c
    <3>1. CallerTask(u) /\ task'[u] = task[u] /\ task[u].sub \in Subs
      BY <1>0, <2>2 DEF RequestsInv, Tasks
    <3>. QED BY <3>1, <1>1 DEF CallerTask, At
  <2>. QED BY <2>1, <2>2
<1>3. Stoppers'
  BY <1>0 DEF RequestsInv, Stoppers
<1>4. PausedQuietly'
  <2> SUFFICES ASSUME NEW s \in Subs, rows'[s].status = "paused", calls' <= 1
               PROVE  calls' = 1 /\ \A u \in Callers : ~Threatens(u, s)'
    BY DEF PausedQuietly, Threatens, At
  <2>1. CASE rows[s].status = "paused"
    BY <1>0, <2>1 DEF RequestsInv, PausedQuietly
  <2>2. CASE calls' = calls /\ task[c].pc \in Stopping /\ ~Threatens(c, s)'
    <3>1. calls = 1
      BY <1>0, <2>2 DEF RequestsInv, Stoppers
    <3>2. \A u \in Callers \ {c} : task[u].pc \notin Stopping
      BY <2>2, <3>1 DEF RequestsInv, Stoppers
    <3>3. \A u \in Callers \ {c} : ~Threatens(u, s)
      BY <3>2 DEF Threatens, At, Stopping
    <3>. QED BY <1>0, <2>2, <3>1, <3>3
  <2>. QED BY <2>1, <2>2
<1>. QED BY <1>1, <1>2, <1>3, <1>4 DEF RequestsInv

(* A step of a worker.                                                       *)
LEMMA WorkerStep ==
  ASSUME TypeOK, RequestsInv, NEW j \in JobId, Others(j), UNCHANGED <<calls, happened>>,
         \A s \in Subs : rows'[s].status \in {"none", "paused"} => rows'[s].status = rows[s].status
  PROVE  RequestsInv' /\ \A s \in Subs : Safe(s) => Safe(s)'
<1>0. \A u \in Callers : task'[u] = task[u] /\ task[u].sub \in Subs /\ \A s : Threatens(u, s)' <=> Threatens(u, s)
  BY DripAssumption DEF TypeOK, Task, Tasks, Others, Threatens, At
<1>1. \A s \in Subs : Safe(s) => Safe(s)'
  BY <1>0 DEF Safe
<1>2. ASSUME NEW u \in Callers PROVE CallerTask(u)'
  <2>. CallerTask(u)
    BY DEF RequestsInv
  <2>. QED BY <1>0, <1>1 DEF CallerTask, At
<1>3. Stoppers' /\ PausedQuietly'
  BY <1>0 DEF RequestsInv, Stoppers, PausedQuietly
<1>. QED BY <1>1, <1>2, <1>3 DEF RequestsInv

(* A task starts to hand over a subscription only as the only one to carry it *)
(* on, or when the subscription has been resumed and its jobs stay.          *)
TakesOver(t, s) ==
  /\ task'[t].index = Index(s)'
  /\ \/ Safe(s)'
     \/ /\ \A j \in JobId : j[1] = s => ~Live(j)
        /\ \A u \in Tasks : ~Hands(u, s)

(* A step that moves task t, settles its own job or removes jobs, and leaves  *)
(* the mail and the index of every row.                                      *)
LEMMA LocalStep ==
  ASSUME TypeOK, TypeOK', PassedOn, NEW t \in Tasks, Others(t),
         \A s \in Subs : Safe(s) => Safe(s)',
         campaign'.emails = campaign.emails,
         \A s \in Subs : Index(s) <= Len(campaign.emails),
         \A s \in Subs : /\ rows'[s].index = rows[s].index
                         /\ rows'[s].status = "none" => rows[s].status = "none",
         \A j \in JobId \ {t} :
           \/ jobs'[j] = jobs[j]
           \/ jobs'[j].state = "none" /\ jobs[j].state # "active" /\ ~Safe(j[1]),
         t \in JobId => /\ JobTask(t)' /\ InStep(t)'
                        /\ Live(t)' => Live(t)
                        /\ jobs'[t].state = "none" => jobs[t].state = "none",
         t \in Callers => task'[t].pc \notin Sending,
         Copied(t)',
         \A s \in Subs : Hands(t, s)' =>
           (Hands(t, s) /\ task'[t].index = task[t].index) \/ TakesOver(t, s)
  PROVE  PassedOn'
<1>0. /\ \A u \in Tasks : task[u].sub \in Subs /\ task'[u].sub \in Subs
      /\ \A u \in Tasks : task[u].index \in Nat /\ task'[u].index \in Nat
      /\ \A s \in Subs : Index(s) \in Nat /\ Index(s)' = Index(s)
      /\ \A j \in JobId : j \in Tasks /\ j[1] \in Subs
      /\ \A u \in Tasks \ {t} : task'[u] = task[u]
  BY JobIdTyped DEF TypeOK, Task, Row, Index, Tasks, Others
<1>1. ASSUME NEW j \in JobId PROVE Live(j)' => Live(j)
  <2>1. CASE j = t
    BY <2>1
  <2>2. CASE j # t
    <3>. jobs'[j].state \in {"none", jobs[j].state}
      BY <2>2
    <3>. QED BY <2>2, <1>0 DEF Live
  <2>. QED BY <2>1, <2>2
<1>2. ASSUME NEW j \in JobId PROVE JobTask(j)' /\ InStep(j)'
  <2>1. CASE j = t
    BY <2>1
  <2>2. CASE j # t
    <3>0. JobTask(j) /\ InStep(j) /\ task'[j] = task[j]
      BY <1>0, <2>2 DEF PassedOn
    <3>1. CASE jobs'[j] = jobs[j]
      BY <3>0, <3>1, <1>0 DEF JobTask, InStep, Live, Index
    <3>2. CASE jobs'[j].state = "none" /\ jobs[j].state # "active"
      BY <3>0, <3>2, <1>0 DEF JobTask, InStep, Live, Sending, Handing, Processing
    <3>. QED BY <2>2, <3>1, <3>2
  <2>. QED BY <2>1, <2>2
<1>3. ASSUME NEW u \in Tasks PROVE Copied(u)'
  <2>1. CASE u = t
    BY <2>1
  <2>2. CASE u # t
    <3>. Copied(u)
      BY DEF PassedOn
    <3>. QED BY <1>0, <2>2 DEF Copied, At
  <2>. QED BY <2>1, <2>2
<1>4. \A u \in Tasks \ {t} : \A s : Hands(u, s)' <=> Hands(u, s)
  BY <1>0 DEF Hands
<1>5. ASSUME NEW u \in Tasks PROVE HandsFresh(u)'
  <2> SUFFICES ASSUME task'[u].pc \in Handing, NEW s \in Subs, s = task'[u].sub,
                      NEW k, k = task'[u].index
               PROVE  /\ k <= Index(s)
                      /\ k < Index(s) => jobs'[<<s, k>>].state # "none"
    BY <1>0 DEF HandsFresh
  <2>1. CASE k = Index(s)
    BY <2>1, <1>0
  <2>2. CASE k # Index(s)
    <3>1. /\ task[u].pc \in Handing /\ task[u].sub = s /\ task[u].index = k
          /\ Hands(u, s)
      BY <2>2, <1>0 DEF Hands, TakesOver
    <3>2. k <= Index(s) /\ (k < Index(s) => jobs[<<s, k>>].state # "none")
      BY <3>1 DEF PassedOn, HandsFresh
    <3>3. ~Single(s)
      BY <3>1, <2>2 DEF Single
    <3>4. Safe(s)
      BY <3>3 DEF PassedOn
    <3>5. ASSUME k < Index(s) PROVE jobs'[<<s, k>>].state # "none"
      <4>1. jobs[<<s, k>>].state # "none"
        BY <3>2, <3>5
      <4>2. <<s, k>> \in JobId
        <5>1. Len(campaign.emails) \in Nat /\ Len(campaign.emails) <= MaxEmails
          BY EditionsTyped DEF TypeOK, Campaign
        <5>2. k \in Nat /\ Index(s) \in Nat /\ k < Index(s) /\ Index(s) <= Len(campaign.emails)
          BY <1>0, <3>5
        <5>. QED BY <5>1, <5>2, JobIdTyped, DripAssumption DEF JobId
      <4>. QED BY <4>1, <4>2, <3>4
    <3>. QED BY <3>2, <3>5
  <2>. QED BY <2>1, <2>2
<1>6. ASSUME NEW s \in Subs PROVE Single(s)' \/ Safe(s)'
  <2> SUFFICES ASSUME ~Safe(s)' PROVE Single(s)'
    OBVIOUS
  <2>1. Single(s) /\ ~Safe(s)
    BY DEF PassedOn
  <2>2. CASE Hands(t, s)' /\ TakesOver(t, s)
    <3>1. /\ \A j \in JobId : j[1] = s => ~Live(j)
          /\ \A u \in Tasks : ~Hands(u, s)
          /\ task'[t].index = Index(s)'
      BY <2>2 DEF TakesOver
    <3>2. \A u \in Tasks : Hands(u, s)' => u = t
      BY <3>1, <1>4
    <3>. QED BY <3>1, <3>2, <1>1 DEF Single
  <2>3. CASE ~(Hands(t, s)' /\ TakesOver(t, s))
    <3>1. \A u \in Tasks : Hands(u, s)' => Hands(u, s) /\ task'[u].index = task[u].index
      BY <2>3, <1>0, <1>4
    <3>. QED BY <3>1, <2>1, <1>0, <1>1 DEF Single
  <2>. QED BY <2>2, <2>3
<1>. QED BY <1>2, <1>3, <1>5, <1>6 DEF PassedOn

LEMMA OneLive ==
  ASSUME PassedOn, NEW i \in JobId, NEW j \in JobId, i[1] = j[1], Live(i), Live(j)
  PROVE  i = j
<1>1. i[2] = Index(i[1]) /\ j[2] = Index(j[1])
  BY DEF PassedOn, InStep
<1>. QED BY <1>1 DEF JobId

(* A step that leaves the mail and the index of every row.                   *)
LEMMA LocalMail ==
  ASSUME TypeOK, TypeOK', PassedOn, \A s \in Subs : MailOf(s), NEW t \in Tasks, Others(t),
         UNCHANGED inbox, campaign'.emails = campaign.emails,
         \A s \in Subs : /\ rows'[s].index = rows[s].index
                         /\ rows[s].status = "deleted" => rows'[s].status = "deleted"
                         /\ rows'[s].status \in {"none", "completed"} =>
                              rows'[s].status = rows[s].status,
         t \in JobId =>
           /\ At(t, "advance")' => At(t, "advance")
           /\ At(t, "advance") /\ ~At(t, "advance")' => rows[t[1]].status = "deleted"
           /\ task'[t].pc \in {"findCampaign", "send"} =>
                \/ task[t].pc \in {"findCampaign", "send"}
                \/ At(t, "findSubscription") /\ rows[t[1]].status = "active"
  PROVE  \A s \in Subs : MailOf(s)'
<1> SUFFICES ASSUME NEW s \in Subs PROVE MailOf(s)'
  OBVIOUS
<1>0. /\ MailOf(s)
      /\ Index(s)' = Index(s) /\ inbox'[s] = inbox[s]
      /\ \A j \in JobId : j \in Tasks /\ (j # t => task'[j] = task[j])
      /\ Len(inbox[s]) \in Nat /\ Index(s) \in Nat
  BY DEF Index, Tasks, Others, TypeOK, Row
<1>1. \/ Len(inbox[s]) = Index(s)
      \/ /\ Len(inbox[s]) = Index(s) + 1
         /\ rows'[s].status = "deleted" \/ \E j \in JobId : j[1] = s /\ At(j, "advance")'
  BY <1>0 DEF MailOf, At
<1>2. ASSUME NEW j \in JobId, j[1] = s
      PROVE  /\ task'[j].pc \in {"findCampaign", "send"} => Len(inbox[s]) = Index(s)
             /\ At(j, "advance")' => Len(inbox[s]) = Index(s) + 1
  <2>1. At(j, "advance")' => At(j, "advance")
    BY <1>0 DEF At
  <2>2. ASSUME At(j, "findSubscription"), rows[s].status = "active"
        PROVE  Len(inbox[s]) = Index(s)
    <3>1. Live(j)
      BY <2>2 DEF Live, At, Sending
    <3>2. \A i \in JobId : i[1] = s /\ At(i, "advance") => i = j
      BY <3>1, <1>2, OneLive DEF Live, At, Sending
    <3>3. \A i \in JobId : i[1] = s => ~At(i, "advance")
      BY <3>2, <2>2 DEF At
    <3>. QED BY <3>3, <2>2, <1>0 DEF MailOf
  <2>3. task'[j].pc \in {"findCampaign", "send"} =>
          \/ task[j].pc \in {"findCampaign", "send"}
          \/ At(j, "findSubscription") /\ rows[s].status = "active"
    BY <1>0, <1>2
  <2>. QED BY <2>1, <2>2, <2>3, <1>0, <1>2 DEF MailOf
<1>. QED BY <1>0, <1>1, <1>2 DEF MailOf, Index, At

Counted ==
  /\ calls' \in {calls, calls + 1} /\ happened \subseteq happened'
  /\ "resume" \in happened' => calls' <= 2

RowsLocal ==
  \A s \in Subs :
    /\ rows'[s].index = rows[s].index
    /\ rows[s].status = "deleted" => rows'[s].status = "deleted"
    /\ rows'[s].status \in {"none", "completed"} => rows'[s].status = rows[s].status

LEMMA RowsSame == ASSUME UNCHANGED rows PROVE RowsLocal
  BY DEF RowsLocal

(* A step of a request that may remove jobs, but queues none.                *)
LEMMA RequestLocal ==
  ASSUME TypeOK, TypeOK', Ordered, NEW c \in Callers, Others(c), Counted, RowsLocal,
         UNCHANGED inbox, campaign'.emails = campaign.emails,
         CallerTask(c)', Copied(c)',
         \A s \in Subs : Threatens(c, s)' => Threatens(c, s) \/ calls' = calls + 1,
         task'[c].pc \in Stopping => task[c].pc \in Stopping \/ calls' = calls + 1,
         \A s \in Subs : rows'[s].status = "paused" =>
            \/ rows[s].status = "paused"
            \/ calls' = calls /\ task[c].pc \in Stopping /\ ~Threatens(c, s)',
         \A j \in JobId :
           \/ jobs'[j] = jobs[j]
           \/ jobs'[j].state = "none" /\ jobs[j].state # "active" /\ ~Safe(j[1]),
         \A s \in Subs : Hands(c, s)' =>
           (Hands(c, s) /\ task'[c].index = task[c].index) \/ TakesOver(c, s)
  PROVE  Ordered'
<1>0. c \in Tasks /\ c \notin JobId
  BY DripAssumption DEF Tasks
<1>1. RequestsInv' /\ \A s \in Subs : Safe(s) => Safe(s)'
  BY RequestStep DEF Counted, RowsLocal, Ordered
<1>2. task'[c].pc \notin Sending
  BY DEF CallerTask
<1>3. PassedOn'
  <2>. \A s \in Subs : Index(s) <= Len(campaign.emails)
    BY DEF Ordered, MailOf
  <2>. QED BY <1>0, <1>1, <1>2, LocalStep DEF RowsLocal, Ordered
<1>4. \A s \in Subs : MailOf(s)'
  BY <1>0, LocalMail DEF RowsLocal, Ordered
<1>. QED BY <1>1, <1>3, <1>4 DEF Ordered

(* A step of a worker that settles at most its own job and queues none.      *)
LEMMA WorkerLocal ==
  ASSUME TypeOK, TypeOK', Ordered, NEW t \in JobId, Others(t), RowsLocal,
         UNCHANGED <<inbox, campaign, calls, happened>>,
         \A s \in Subs : rows'[s].status = rows[s].status,
         \A j \in JobId \ {t} : jobs'[j] = jobs[j],
         JobTask(t)', InStep(t)', Copied(t)',
         Live(t)' => Live(t),
         jobs'[t].state = "none" => jobs[t].state = "none",
         \A s \in Subs : Hands(t, s)' => Hands(t, s) /\ task'[t].index = task[t].index,
         At(t, "advance")' => At(t, "advance"),
         At(t, "advance") /\ ~At(t, "advance")' => rows[t[1]].status = "deleted",
         task'[t].pc \in {"findCampaign", "send"} =>
            \/ task[t].pc \in {"findCampaign", "send"}
            \/ At(t, "findSubscription") /\ rows[t[1]].status = "active"
  PROVE  Ordered'
<1>0. t \in Tasks /\ t \notin Callers
  BY DripAssumption DEF Tasks
<1>1. RequestsInv' /\ \A s \in Subs : Safe(s) => Safe(s)'
  BY WorkerStep DEF RowsLocal, Ordered
<1>3. PassedOn'
  <2>. \A s \in Subs : Index(s) <= Len(campaign.emails)
    BY DEF Ordered, MailOf
  <2>. QED BY <1>0, <1>1, LocalStep DEF RowsLocal, Ordered
<1>4. \A s \in Subs : MailOf(s)'
  BY <1>0, LocalMail DEF RowsLocal, Ordered
<1>. QED BY <1>1, <1>3, <1>4 DEF Ordered

(* A request that has stopped, or that only reads.                           *)
LEMMA CallerLeaves ==
  ASSUME TypeOK, NEW c \in Callers, CallerTask(c), Leave(c),
         At(c, "removeJobs") \/ task[c].pc \notin Stopping
  PROVE  /\ Others(c) /\ CallerTask(c)' /\ Copied(c)'
         /\ task'[c].pc \in {"idle", "pauseNext"}
         /\ task'[c].pc \in Stopping => task[c].pc \in Stopping
         /\ \A s \in Subs : Threatens(c, s)' => Threatens(c, s) /\ s # task[c].sub
         /\ \A s \in Subs : ~Hands(c, s)'
<1>0. c \in Tasks /\ task[c] \in Task
  BY DEF TypeOK, Tasks
<1>1. /\ Others(c) /\ task'[c].pc = task[c].back /\ task'[c].back = task[c].back
      /\ task'[c].todo = task[c].todo
  BY <1>0, LeaveFields
<1>2. task[c].back \in {"idle", "pauseNext"}
  BY <1>0 DEF CallerTask, Task
<1>3. CallerTask(c)'
  BY <1>1, <1>2 DEF CallerTask, At, Sending, Handing, Resuming, Stopping
<1>4. Copied(c)'
  BY <1>1, <1>2 DEF Copied, At, Handing
<1>5. task'[c].pc \in Stopping => task[c].pc \in Stopping
  BY <1>1, <1>2 DEF CallerTask, Stopping
<1>6. ASSUME NEW s \in Subs, Threatens(c, s)' PROVE Threatens(c, s) /\ s # task[c].sub
  <2>1. task'[c].pc = "pauseNext" /\ \E x \in task[c].todo : x[1] = s
    BY <1>1, <1>2, <1>6 DEF Threatens, At, Stopping
  <2>2. At(c, "removeJobs")
    BY <2>1, <1>1 DEF CallerTask
  <2>. QED BY <2>1, <2>2 DEF CallerTask, Threatens, At, Stopping
<1>7. \A s \in Subs : ~Hands(c, s)'
  BY <1>1, <1>2 DEF Hands, Handing
<1>. QED BY <1>1, <1>2, <1>3, <1>4, <1>5, <1>6, <1>7

(* One action of a request is enough to keep the order.                      *)
LEMMA SubscribeOrdered ==
  ASSUME TypeOK, TypeOK', Ordered, NEW c \in Callers, Counted,
         Subscribe(c) \/ FindExisting(c) \/ CreateSubscription(c)
  PROVE  Ordered'
<1>0. c \in Tasks /\ task \in [Tasks -> Task] /\ task[c] \in Task /\ CallerTask(c) /\ Copied(c)
  BY DEF TypeOK, Tasks, Ordered, RequestsInv, PassedOn
<1>1. CASE Subscribe(c)
  <2>0. PICK x \in Contacts :
          task' = [task EXCEPT ![c].pc = "findExisting", ![c].contact = x,
                               ![c].emails = campaign.emails]
    BY <1>1 DEF Subscribe
  <2>1. /\ Others(c) /\ task'[c].pc = "findExisting" /\ task'[c].emails = campaign.emails
        /\ task'[c].back = task[c].back /\ task'[c].todo = task[c].todo
        /\ At(c, "idle") /\ UNCHANGED <<campaign, rows, jobs, inbox>>
    BY <1>0, <1>1, <2>0 DEF Subscribe, Others, Task, At
  <2>2. CallerTask(c)' /\ Copied(c)'
    BY <2>1, <1>0 DEF CallerTask, Copied, At, Sending, Handing, Resuming, Stopping
  <2>3. /\ \A s \in Subs : ~Hands(c, s)' /\ ~Threatens(c, s)'
        /\ task'[c].pc \notin Stopping
    BY <2>1 DEF Hands, Handing, Threatens, At, Stopping
  <2>. QED BY <2>1, <2>2, <2>3, RowsSame, RequestLocal
<1>2. CASE FindExisting(c) /\ Leave(c)
  <2>1. /\ UNCHANGED <<campaign, rows, jobs, inbox>> /\ task[c].pc \notin Stopping
    BY <1>2 DEF FindExisting, At, Stopping
  <2>. QED BY <2>1, <1>0, <1>2, RowsSame, CallerLeaves, RequestLocal
<1>3. CASE FindExisting(c) /\ ~Leave(c)
  <2>1. /\ Others(c) /\ task'[c].pc = "create" /\ task'[c].emails = task[c].emails
        /\ task'[c].back = task[c].back /\ task'[c].todo = task[c].todo
        /\ At(c, "findExisting") /\ UNCHANGED <<campaign, rows, jobs, inbox>>
    BY <1>0, <1>3 DEF FindExisting, Others, Task, At
  <2>2. CallerTask(c)' /\ Copied(c)'
    BY <2>1, <1>0 DEF CallerTask, Copied, At, Sending, Handing, Resuming, Stopping
  <2>3. /\ \A s \in Subs : ~Hands(c, s)' /\ ~Threatens(c, s)'
        /\ task'[c].pc \notin Stopping
    BY <2>1 DEF Hands, Handing, Threatens, At, Stopping
  <2>. QED BY <2>1, <2>2, <2>3, RowsSame, RequestLocal
<1>4. CASE CreateSubscription(c)
  <2>1. PICK s \in Subs :
          /\ rows[s].status = "none"
          /\ rows' = [rows EXCEPT ![s] = [status |-> "active", index |-> 0, dated |-> FALSE,
                                          contact |-> task[c].contact]]
          /\ task' = [task EXCEPT ![c].pc = "schedule", ![c].sub = s, ![c].index = 0]
    BY <1>4 DEF CreateSubscription
  <2>2. /\ Others(c) /\ task'[c].pc = "schedule" /\ task'[c].emails = task[c].emails
        /\ task'[c].sub = s /\ task'[c].index = 0
        /\ task'[c].back = task[c].back /\ task'[c].todo = task[c].todo
        /\ At(c, "create") /\ UNCHANGED <<campaign, jobs, inbox>>
    BY <1>0, <1>4, <2>1 DEF CreateSubscription, Others, Task, At
  <2>3. Index(s) = 0
    BY <2>1 DEF Ordered, MailOf
  <2>4. /\ rows'[s].status = "active" /\ rows'[s].index = 0
        /\ \A r \in Subs \ {s} : rows'[r] = rows[r]
    BY <2>1 DEF TypeOK
  <2>5. RowsLocal
    BY <2>1, <2>3, <2>4 DEF RowsLocal, Index
  <2>6. CallerTask(c)' /\ Copied(c)'
    BY <2>2, <2>4, <1>0 DEF CallerTask, Copied, At, Sending, Handing, Resuming, Stopping
  <2>7. \A j \in JobId : j[1] = s => ~Live(j)
    BY <2>1 DEF Ordered, PassedOn, JobTask, Live, Sending
  <2>8. ASSUME NEW u \in Tasks PROVE ~Hands(u, s)
    <3>1. CASE u \in JobId
      BY <3>1, <2>1 DEF Ordered, PassedOn, JobTask, Hands, Handing
    <3>2. CASE u \in Callers
      BY <3>2, <2>1 DEF Ordered, RequestsInv, CallerTask, Hands
    <3>. QED BY <3>1, <3>2 DEF Tasks
  <2>9. /\ \A r \in Subs : Hands(c, r)' => TakesOver(c, r)
        /\ \A r \in Subs : ~Threatens(c, r)'
        /\ task'[c].pc \notin Stopping
    BY <2>2, <2>4, <2>7, <2>8 DEF Hands, TakesOver, Threatens, At, Stopping, Index
  <2>10. \A r \in Subs : rows'[r].status = "paused" => rows[r].status = "paused"
    BY <2>4
  <2>. QED BY <2>2, <2>5, <2>6, <2>9, <2>10, RequestLocal
<1>. QED BY <1>1, <1>2, <1>3, <1>4

LEMMA StopOrdered ==
  ASSUME TypeOK, TypeOK', Ordered, NEW c \in Callers, Counted,
         \/ Unsubscribe(c) \/ PauseSubscription(c) \/ ListJobs(c) \/ RemoveJob(c)
         \/ SetStopped(c)
  PROVE  Ordered'
<1>0. c \in Tasks /\ task \in [Tasks -> Task] /\ task[c] \in Task /\ CallerTask(c) /\ Copied(c)
  BY DEF TypeOK, Tasks, Ordered, RequestsInv, PassedOn
<1>1. CASE Unsubscribe(c) \/ PauseSubscription(c)
  <2>1. PICK s \in Subs, to \in {"paused", "unsubscribed"} :
          task' = [task EXCEPT ![c].pc = "listJobs", ![c].sub = s, ![c].to = to]
    BY <1>1 DEF Unsubscribe, PauseSubscription, StopSubscription
  <2>2. /\ Others(c) /\ task'[c].pc = "listJobs" /\ task'[c].sub = s
        /\ task'[c].back = task[c].back /\ task'[c].todo = task[c].todo
        /\ At(c, "idle") /\ UNCHANGED <<campaign, rows, jobs, inbox>> /\ calls' = calls + 1
    BY <1>0, <1>1, <2>1 DEF Unsubscribe, PauseSubscription, StopSubscription, Begin, Others,
       Task, At
  <2>3. CallerTask(c)' /\ Copied(c)'
    BY <2>2, <1>0 DEF CallerTask, Copied, At, Sending, Handing, Resuming, Stopping
  <2>4. \A r \in Subs : ~Hands(c, r)'
    BY <2>2 DEF Hands, Handing
  <2>. QED BY <2>2, <2>3, <2>4, RowsSame, RequestLocal
<1>2. CASE ListJobs(c)
  <2>1. /\ Others(c) /\ task'[c].pc = "removeJobs" /\ task'[c].sub = task[c].sub
        /\ task'[c].back = task[c].back /\ task'[c].todo = task[c].todo
        /\ \A j \in task'[c].listed : j[1] = task[c].sub
        /\ At(c, "listJobs") /\ UNCHANGED <<campaign, rows, jobs, inbox>>
    BY <1>0, <1>2 DEF ListJobs, Others, Task, At
  <2>2. CallerTask(c)' /\ Copied(c)'
    BY <2>1, <1>0 DEF CallerTask, Copied, At, Sending, Handing, Resuming, Stopping
  <2>3. /\ \A s \in Subs : ~Hands(c, s)' /\ (Threatens(c, s)' => Threatens(c, s))
        /\ task[c].pc \in Stopping
    BY <2>1 DEF Hands, Handing, Threatens, At, Stopping
  <2>. QED BY <2>1, <2>2, <2>3, RowsSame, RequestLocal
<1>3. ASSUME NEW j \in task[c].listed, At(c, "removeJobs"),
             UNCHANGED <<campaign, rows, inbox>>,
             jobs[j].state = "active", task' = [task EXCEPT ![c] = Idle], UNCHANGED jobs
      PROVE  Ordered'
  <2>1. /\ Others(c) /\ task'[c].pc = "idle" /\ task'[c].back = "idle" /\ task'[c].todo = {}
    BY <1>0, <1>3 DEF Others, Idle
  <2>2. CallerTask(c)' /\ Copied(c)'
    BY <2>1, <1>0 DEF CallerTask, Copied, At, Sending, Handing, Resuming, Stopping
  <2>3. /\ \A s \in Subs : ~Hands(c, s)' /\ ~Threatens(c, s)'
        /\ task'[c].pc \notin Stopping
    BY <2>1 DEF Hands, Handing, Threatens, At, Stopping
  <2>. QED BY <1>3, <2>1, <2>2, <2>3, RowsSame, RequestLocal
<1>4. ASSUME NEW j \in task[c].listed, At(c, "removeJobs"),
             UNCHANGED <<campaign, rows, inbox>>,
             jobs[j].state # "active", jobs' = [jobs EXCEPT ![j] = NoJob],
             task' = [task EXCEPT ![c].listed = @ \ {j}]
      PROVE  Ordered'
  <2>1. /\ Others(c) /\ task'[c].pc = task[c].pc /\ task'[c].sub = task[c].sub
        /\ task'[c].back = task[c].back /\ task'[c].todo = task[c].todo
        /\ task'[c].listed \subseteq task[c].listed
    BY <1>0, <1>4 DEF Others, Task, At
  <2>2. CallerTask(c)' /\ Copied(c)'
    BY <2>1, <1>0, <1>4 DEF CallerTask, Copied, At, Sending, Handing, Resuming, Stopping
  <2>3. /\ \A s \in Subs : ~Hands(c, s)' /\ (Threatens(c, s)' => Threatens(c, s))
        /\ task[c].pc \in Stopping
    BY <1>4, <2>1 DEF Hands, Handing, Threatens, At, Stopping
  <2>4. j \in JobId /\ j[1] = task[c].sub /\ ~Safe(j[1])
    BY <1>0, <1>4 DEF Task, CallerTask, Safe, Threatens, At
  <2>5. \A i \in JobId : \/ jobs'[i] = jobs[i]
                         \/ jobs'[i].state = "none" /\ jobs[i].state # "active" /\ ~Safe(i[1])
    BY <2>4, <1>4 DEF TypeOK, NoJob
  <2>. QED BY <1>4, <2>1, <2>2, <2>3, <2>5, RowsSame, RequestLocal
<1>5. CASE SetStopped(c)
  <2>1. /\ At(c, "removeJobs") /\ Leave(c) /\ UNCHANGED <<campaign, jobs, inbox, calls>>
        /\ rows' = IF Exists(task[c].sub)
                   THEN [rows EXCEPT ![task[c].sub].status = task[c].to] ELSE rows
        /\ task[c].to \in {"paused", "unsubscribed"} /\ task[c].sub \in Subs
    BY <1>0, <1>5 DEF SetStopped, Task
  <2>2. RowsLocal /\ \A s \in Subs : s # task[c].sub => rows'[s] = rows[s]
    BY <2>1 DEF RowsLocal, Exists, TypeOK, Row
  <2>3. task[c].pc \in Stopping
    BY <2>1 DEF At, Stopping
  <2>4. \A s \in Subs : rows'[s].status = "paused" =>
          \/ rows[s].status = "paused"
          \/ calls' = calls /\ task[c].pc \in Stopping /\ ~Threatens(c, s)'
    <3> SUFFICES ASSUME NEW s \in Subs, s = task[c].sub PROVE ~Threatens(c, s)'
      BY <2>1, <2>2, <2>3
    <3>. QED BY <1>0, <2>1, CallerLeaves
  <2>5. /\ Others(c) /\ CallerTask(c)' /\ Copied(c)'
        /\ \A s \in Subs : ~Hands(c, s)' /\ (Threatens(c, s)' => Threatens(c, s))
    BY <1>0, <2>1, CallerLeaves
  <2>. QED BY <2>1, <2>2, <2>3, <2>4, <2>5, RequestLocal
<1>6. CASE RemoveJob(c)
  BY <1>3, <1>4, <1>6 DEF RemoveJob
<1>. QED BY <1>1, <1>2, <1>5, <1>6

LEMMA ResumeOrdered ==
  ASSUME TypeOK, TypeOK', Ordered, NEW c \in Callers, Counted,
         ResumeSubscription(c) \/ ResumeCampaign(c) \/ SetActive(c)
  PROVE  Ordered'
<1>0. /\ c \in Tasks /\ task \in [Tasks -> Task] /\ task[c] \in Task
      /\ CallerTask(c) /\ Copied(c) /\ calls \in Nat
  BY DEF TypeOK, Tasks, Ordered, RequestsInv, PassedOn
<1>1. CASE ResumeSubscription(c)
  <2>0. PICK s \in Subs :
          /\ rows[s].status = "paused"
          /\ task' = [task EXCEPT ![c].pc = "resumeCampaign", ![c].sub = s]
    BY <1>1 DEF ResumeSubscription
  <2>1. /\ Others(c) /\ task'[c].pc = "resumeCampaign" /\ task'[c].sub = s
        /\ task'[c].back = task[c].back /\ task'[c].todo = task[c].todo
        /\ At(c, "idle") /\ UNCHANGED <<campaign, rows, jobs, inbox>>
        /\ calls' = calls + 1 /\ "resume" \in happened'
    BY <1>0, <1>1, <2>0 DEF ResumeSubscription, Begin, Others, Task, At
  <2>2. /\ \A r \in Subs : ~Hands(c, r)' /\ ~Threatens(c, r)'
        /\ task'[c].pc \notin Stopping
    BY <2>1 DEF Hands, Handing, Threatens, At, Stopping
  <2>3. Safe(s)'
    <3>1. calls <= 1
      BY <1>0, <2>1 DEF Counted
    <3>2. calls = 1 /\ \A u \in Callers : ~Threatens(u, s)
      BY <2>0, <3>1 DEF Ordered, RequestsInv, PausedQuietly
    <3>3. \A u \in Callers : ~Threatens(u, s)'
      BY <2>1, <2>2, <3>2 DEF Others, Threatens, At, Tasks
    <3>. QED BY <2>1, <3>2, <3>3 DEF Safe
  <2>4. CallerTask(c)' /\ Copied(c)'
    BY <2>0, <2>1, <2>3, <1>0 DEF CallerTask, Copied, At, Sending, Handing, Resuming, Stopping
  <2>. QED BY <2>1, <2>2, <2>4, RowsSame, RequestLocal
<1>2. CASE ResumeCampaign(c) /\ Leave(c)
  <2>1. /\ UNCHANGED <<campaign, rows, jobs, inbox>> /\ task[c].pc \notin Stopping
    BY <1>2 DEF ResumeCampaign, At, Stopping
  <2>. QED BY <2>1, <1>0, <1>2, RowsSame, CallerLeaves, RequestLocal
<1>3. CASE ResumeCampaign(c) /\ ~Leave(c)
  <2>1. /\ Others(c) /\ task'[c].pc = "setActive" /\ task'[c].emails = campaign.emails
        /\ task'[c].sub = task[c].sub
        /\ task'[c].back = task[c].back /\ task'[c].todo = task[c].todo
        /\ At(c, "resumeCampaign") /\ UNCHANGED <<campaign, rows, jobs, inbox>>
    BY <1>0, <1>3 DEF ResumeCampaign, Others, Task, At
  <2>2. /\ \A r \in Subs : ~Hands(c, r)' /\ ~Threatens(c, r)'
        /\ task'[c].pc \notin Stopping
    BY <2>1 DEF Hands, Handing, Threatens, At, Stopping
  <2>3. task[c].sub \in Subs /\ Safe(task[c].sub) /\ rows[task[c].sub].status # "none"
    BY <1>0, <2>1 DEF CallerTask, Task, At, Resuming
  <2>4. \A s \in Subs : Safe(s) => Safe(s)'
    BY <2>1, <2>2, SafeStep DEF Counted
  <2>5. CallerTask(c)' /\ Copied(c)'
    BY <2>1, <2>3, <2>4, <1>0 DEF CallerTask, Copied, At, Sending, Handing, Resuming, Stopping
  <2>. QED BY <2>1, <2>2, <2>5, RowsSame, RequestLocal
<1>4. CASE SetActive(c) /\ ~Exists(task[c].sub)
  <2>1. /\ UNCHANGED <<campaign, rows, jobs, inbox>> /\ task[c].pc \notin Stopping /\ Leave(c)
    BY <1>4 DEF SetActive, At, Stopping
  <2>. QED BY <2>1, <1>0, RowsSame, CallerLeaves, RequestLocal
<1>5. CASE SetActive(c) /\ Exists(task[c].sub)
  <2> DEFINE s == task[c].sub
  <2>1. /\ Others(c) /\ task'[c].pc = "schedule" /\ task'[c].emails = task[c].emails
        /\ task'[c].sub = s /\ task'[c].index = rows[s].index
        /\ task'[c].back = task[c].back /\ task'[c].todo = task[c].todo
        /\ At(c, "setActive") /\ UNCHANGED <<campaign, jobs, inbox>>
        /\ rows' = [rows EXCEPT ![s].status = "active"]
    BY <1>0, <1>5 DEF SetActive, Others, Task, At
  <2>2. s \in Subs /\ Safe(s) /\ rows[s].status \notin {"none", "deleted"}
    BY <1>0, <1>5, <2>1 DEF CallerTask, Task, At, Resuming, Exists
  <2>3. /\ rows'[s].status = "active" /\ \A r \in Subs : rows'[r].index = rows[r].index
        /\ \A r \in Subs \ {s} : rows'[r] = rows[r]
    BY <2>1, <2>2 DEF TypeOK, Row
  <2>4. RowsLocal /\ \A r \in Subs : rows'[r].status = "paused" => rows[r].status = "paused"
    BY <2>2, <2>3 DEF RowsLocal
  <2>5. /\ \A r \in Subs : ~Threatens(c, r)' /\ (Hands(c, r)' => r = s)
        /\ task'[c].pc \notin Stopping
    BY <2>1 DEF Hands, Handing, Threatens, At, Stopping
  <2>6. \A r \in Subs : Safe(r) => Safe(r)'
    BY <2>5, <2>1, SafeStep DEF Counted
  <2>7. \A r \in Subs : Hands(c, r)' => TakesOver(c, r)
    BY <2>1, <2>2, <2>3, <2>5, <2>6 DEF TakesOver, Index
  <2>8. CallerTask(c)' /\ Copied(c)'
    <3>. \A k : k = s => rows'[k].status = "active"
      BY <2>3
    <3>. QED BY <2>1, <2>3, <1>0 DEF CallerTask, Copied, At, Sending, Handing, Resuming, Stopping
  <2>. QED BY <2>1, <2>4, <2>5, <2>7, <2>8, RequestLocal
<1>. QED BY <1>1, <1>2, <1>3, <1>4, <1>5

LEMMA CampaignOrdered ==
  ASSUME TypeOK, TypeOK', Ordered, NEW c \in Callers, Counted,
         \/ PauseCampaign(c) \/ ListSubscriptions(c) \/ PauseNext(c)
         \/ ActivateCampaign(c) \/ DeleteCampaign(c) \/ DeleteRows(c)
  PROVE  Ordered'
<1>0. /\ c \in Tasks /\ task \in [Tasks -> Task] /\ task[c] \in Task
      /\ CallerTask(c) /\ Copied(c) /\ campaign \in Campaign
  BY DEF TypeOK, Tasks, Ordered, RequestsInv, PassedOn
<1>1. CASE PauseCampaign(c)
  <2>1. /\ Others(c) /\ task'[c].pc = "listSubscriptions" /\ task'[c].back = "pauseNext"
        /\ task'[c].todo = task[c].todo /\ At(c, "idle") /\ UNCHANGED <<rows, jobs, inbox>>
        /\ calls' = calls + 1 /\ campaign'.emails = campaign.emails
    BY <1>0, <1>1 DEF PauseCampaign, Begin, Others, Task, At, Campaign
  <2>2. CallerTask(c)' /\ Copied(c)'
    BY <2>1, <1>0 DEF CallerTask, Copied, At, Sending, Handing, Resuming, Stopping
  <2>3. \A r \in Subs : ~Hands(c, r)'
    BY <2>1 DEF Hands, Handing
  <2>. QED BY <2>1, <2>2, <2>3, RowsSame, RequestLocal
<1>2. CASE ListSubscriptions(c)
  <2>1. /\ Others(c) /\ task'[c].pc = "pauseNext" /\ task'[c].back = task[c].back
        /\ task'[c].todo = ActiveRows
        /\ At(c, "listSubscriptions") /\ UNCHANGED <<campaign, rows, jobs, inbox>>
    BY <1>0, <1>2 DEF ListSubscriptions, Others, Task, At
  <2>2. \A x, y \in ActiveRows : x[1] = y[1] => x = y
    BY DEF ActiveRows
  <2>3. CallerTask(c)' /\ Copied(c)'
    BY <2>1, <2>2, <1>0 DEF CallerTask, Copied, At, Sending, Handing, Resuming, Stopping
  <2>4. /\ \A s \in Subs : ~Hands(c, s)' /\ Threatens(c, s)
        /\ task[c].pc \in Stopping
    BY <2>1 DEF Hands, Handing, Threatens, At, Stopping
  <2>. QED BY <2>1, <2>3, <2>4, RowsSame, RequestLocal
<1>3. ASSUME At(c, "pauseNext"), UNCHANGED <<campaign, rows, jobs, inbox>>,
             task' = [task EXCEPT ![c] = Idle]
      PROVE  Ordered'
  <2>1. /\ Others(c) /\ task'[c].pc = "idle" /\ task'[c].back = "idle" /\ task'[c].todo = {}
    BY <1>0, <1>3 DEF Others, Idle
  <2>2. CallerTask(c)' /\ Copied(c)'
    BY <2>1, <1>0 DEF CallerTask, Copied, At, Sending, Handing, Resuming, Stopping
  <2>3. /\ \A s \in Subs : ~Hands(c, s)' /\ ~Threatens(c, s)'
        /\ task'[c].pc \notin Stopping
    BY <2>1 DEF Hands, Handing, Threatens, At, Stopping
  <2>. QED BY <1>3, <2>1, <2>2, <2>3, RowsSame, RequestLocal
<1>4. ASSUME At(c, "pauseNext"), UNCHANGED <<campaign, rows, jobs, inbox>>,
             NEW x \in task[c].todo,
             task' = [task EXCEPT ![c].pc = "listJobs", ![c].sub = x[1], ![c].to = "paused",
                                  ![c].todo = @ \ {x}]
      PROVE  Ordered'
  <2>1. /\ Others(c) /\ task'[c].pc = "listJobs" /\ task'[c].back = task[c].back
        /\ task'[c].sub = x[1] /\ task'[c].todo = task[c].todo \ {x}
    BY <1>0, <1>4 DEF Others, Task, At
  <2>2. CallerTask(c)' /\ Copied(c)'
    BY <2>1, <1>0, <1>4 DEF CallerTask, Copied, At, Sending, Handing, Resuming, Stopping
  <2>3. /\ \A s \in Subs : ~Hands(c, s)' /\ (Threatens(c, s)' => Threatens(c, s))
        /\ task[c].pc \in Stopping
    BY <1>4, <2>1 DEF Hands, Handing, Threatens, At, Stopping
  <2>. QED BY <1>4, <2>1, <2>2, <2>3, RowsSame, RequestLocal
<1>5. CASE ActivateCampaign(c)
  <2>1. /\ UNCHANGED <<rows, jobs, task, inbox>> /\ campaign'.emails = campaign.emails
    BY <1>0, <1>5 DEF ActivateCampaign, Campaign
  <2>2. /\ Others(c) /\ \A s \in Subs : Hands(c, s)' <=> Hands(c, s)
        /\ \A s \in Subs : Threatens(c, s)' <=> Threatens(c, s)
    BY <2>1 DEF Others, Hands, Threatens, At
  <2>3. \A s \in Subs : Safe(s) => Safe(s)'
    BY <2>2, SafeStep DEF Counted
  <2>4. CallerTask(c)' /\ Copied(c)'
    BY <2>1, <2>3, <1>0 DEF CallerTask, Copied, At, Task
  <2>. QED BY <2>1, <2>2, <2>4, RowsSame, RequestLocal
<1>6. CASE DeleteCampaign(c)
  <2>1. /\ Others(c) /\ task'[c].pc = "delete" /\ task'[c].back = task[c].back
        /\ task'[c].todo = task[c].todo
        /\ At(c, "idle") /\ UNCHANGED <<campaign, rows, jobs, inbox>>
    BY <1>0, <1>6 DEF DeleteCampaign, Begin, Others, Task, At
  <2>2. CallerTask(c)' /\ Copied(c)'
    BY <2>1, <1>0 DEF CallerTask, Copied, At, Sending, Handing, Resuming, Stopping
  <2>3. /\ \A s \in Subs : ~Hands(c, s)' /\ ~Threatens(c, s)'
        /\ task'[c].pc \notin Stopping
    BY <2>1 DEF Hands, Handing, Threatens, At, Stopping
  <2>. QED BY <2>1, <2>2, <2>3, RowsSame, RequestLocal
<1>7. CASE DeleteRows(c)
  <2>1. /\ Leave(c) /\ UNCHANGED <<jobs, inbox>> /\ campaign'.emails = campaign.emails
        /\ task[c].pc \notin Stopping
    BY <1>0, <1>7 DEF DeleteRows, Campaign, At, Stopping
  <2>2. RowsLocal /\ \A s \in Subs : rows'[s].status = "paused" => rows[s].status = "paused"
    <3>1. \A s \in Subs : rows'[s] \in {rows[s], [rows[s] EXCEPT !.status = "deleted"]}
                          /\ (~Exists(s) => rows'[s] = rows[s])
      BY <1>7 DEF DeleteRows
    <3>. QED BY <3>1 DEF RowsLocal, Exists, TypeOK, Row
  <2>. QED BY <2>1, <2>2, <1>0, CallerLeaves, RequestLocal
<1>8. CASE PauseNext(c)
  BY <1>3, <1>4, <1>8 DEF PauseNext
<1>. QED BY <1>1, <1>2, <1>5, <1>6, <1>7, <1>8

(* A job that has been processed, or that fails and is queued again.         *)
LEMMA WorkerLeaves ==
  ASSUME TypeOK, PassedOn, NEW t \in JobId, RowsLocal, UNCHANGED campaign,
         task[t].pc \in Processing,
         Return(t) \/ (Throw(t) /\ task[t].pc \in Sending)
  PROVE  /\ Others(t) /\ task'[t].pc \in {"idle", "done"}
         /\ JobTask(t)' /\ InStep(t)' /\ Copied(t)'
         /\ \A j \in JobId \ {t} : jobs'[j] = jobs[j]
         /\ jobs'[t].state # "none" /\ (Live(t)' => Live(t))
         /\ \A s \in Subs : ~Hands(t, s)'
<1>0. /\ t \in Tasks /\ t[1] \in Subs /\ JobTask(t) /\ InStep(t) /\ jobs \in [JobId -> Job]
      /\ jobs[t] \in Job
  BY JobIdTyped DEF Tasks, PassedOn, TypeOK
<1>1. task[t].pc # "idle" /\ jobs[t].state = "active" /\ task[t].back = "done"
  BY <1>0 DEF JobTask, Processing
<1>3. CASE Return(t)
  <2>0. Others(t) /\ task'[t].pc = "done" /\ task'[t].back = "done"
    BY <1>0, <1>1, <1>3, LeaveFields DEF Return
  <2>1. UNCHANGED jobs
    BY <1>3 DEF Return
  <2>2. JobTask(t)' /\ InStep(t)' /\ Copied(t)' /\ ~Live(t)' /\ \A s \in Subs : ~Hands(t, s)'
    BY <1>0, <1>1, <2>0, <2>1
       DEF JobTask, InStep, Copied, Live, Hands, At, RowsLocal, Sending, Handing, Processing
  <2>. QED BY <1>1, <2>0, <2>1, <2>2
<1>4. CASE Throw(t) /\ task[t].pc \in Sending
  <2>0. Others(t) /\ task'[t].pc = "idle" /\ task'[t].back = "idle"
    BY <1>0, <1>4, DripAssumption DEF Throw, Others, Idle, TypeOK
  <2>1. /\ jobs'[t].state \in {"queued", "failed"} /\ jobs'[t].email = jobs[t].email
        /\ \A j \in JobId \ {t} : jobs'[j] = jobs[j]
    BY <1>0, <1>4, DripAssumption DEF Throw, Job
  <2>2. Live(t)
    BY <1>4 DEF Live
  <2>3. Index(t[1])' = Index(t[1])
    BY <1>0 DEF RowsLocal, Index
  <2>4. JobTask(t)' /\ Copied(t)' /\ \A s \in Subs : ~Hands(t, s)'
    BY <1>0, <1>1, <2>0, <2>1
       DEF JobTask, Copied, Hands, At, RowsLocal, Sending, Handing, Processing
  <2>5. InStep(t)'
    BY <1>0, <1>1, <2>0, <2>1, <2>2, <2>3 DEF InStep, Live, Index, At, Sending, Handing
  <2>. QED BY <2>0, <2>1, <2>2, <2>4, <2>5
<1>. QED BY <1>3, <1>4

LEMMA DatedLocal ==
  ASSUME TypeOK, NEW s \in Subs,
         rows' \in {rows, [rows EXCEPT ![s].dated = TRUE]}
  PROVE  RowsLocal /\ \A r \in Subs : rows'[r].status = rows[r].status
<1>1. ASSUME NEW r \in Subs
      PROVE  rows'[r].index = rows[r].index /\ rows'[r].status = rows[r].status
  <2>1. rows[r] \in Row /\ rows \in [Subs -> Row]
    BY DEF TypeOK
  <2>2. rows'[r] = rows[r] \/ rows'[r] = [rows[r] EXCEPT !.dated = TRUE]
    BY <2>1
  <2>. QED BY <2>1, <2>2 DEF Row
<1>. QED BY <1>1 DEF RowsLocal

LEMMA FindOrdered ==
  ASSUME TypeOK, TypeOK', Ordered, NEW t \in JobId,
         TakeJob(t) \/ FindSubscription(t) \/ FindCampaign(t)
  PROVE  Ordered'
<1>0. /\ t \in Tasks /\ task \in [Tasks -> Task] /\ task[t] \in Task /\ t[1] \in Subs
      /\ jobs \in [JobId -> Job] /\ jobs[t] \in Job
      /\ JobTask(t) /\ InStep(t) /\ Copied(t) /\ PassedOn
      /\ UNCHANGED <<campaign, rows, inbox, calls, happened>> /\ RowsLocal
  BY JobIdTyped, RowsSame DEF TypeOK, Tasks, Ordered, PassedOn, TakeJob, FindSubscription, FindCampaign
<1>1. CASE TakeJob(t)
  <2>1. /\ Others(t) /\ task'[t].pc = "findSubscription" /\ task'[t].sub = t[1]
        /\ task'[t].email = jobs[t].email /\ task'[t].back = "done"
        /\ jobs[t].state = "queued" /\ jobs'[t].state = "active" /\ jobs'[t].email = jobs[t].email
        /\ \A j \in JobId \ {t} : jobs'[j] = jobs[j]
    BY <1>0, <1>1 DEF TakeJob, Others, Idle, Job
  <2>2. Live(t) /\ JobTask(t)' /\ Copied(t)' /\ \A s \in Subs : ~Hands(t, s)'
    BY <1>0, <2>1 DEF JobTask, Copied, Live, Hands, At, Sending, Handing, Processing
  <2>3. InStep(t)'
    BY <1>0, <2>1, <2>2 DEF InStep, Live, Index, At, Sending, Handing
  <2>4. ~At(t, "advance") /\ ~At(t, "advance")' /\ jobs'[t].state # "none"
        /\ task'[t].pc \notin {"findCampaign", "send"}
    BY <1>0, <2>1 DEF JobTask, At
  <2>. QED BY <1>0, <2>1, <2>2, <2>3, <2>4, WorkerLocal
<1>2. ASSUME task[t].pc \in {"findSubscription", "findCampaign"}, Return(t) \/ Throw(t)
      PROVE  Ordered'
  <2>1. task[t].pc \in Processing /\ task[t].pc \in Sending /\ ~At(t, "advance")
    BY <1>2 DEF Processing, Sending, At
  <2>2. /\ Others(t) /\ task'[t].pc \in {"idle", "done"} /\ JobTask(t)' /\ InStep(t)' /\ Copied(t)'
        /\ \A j \in JobId \ {t} : jobs'[j] = jobs[j]
        /\ jobs'[t].state # "none" /\ (Live(t)' => Live(t))
        /\ \A s \in Subs : ~Hands(t, s)'
    BY <1>0, <1>2, <2>1, WorkerLeaves
  <2>3. ~At(t, "advance")'
    BY <2>2 DEF At
  <2>. QED BY <1>0, <2>1, <2>2, <2>3, WorkerLocal
<1>3. ASSUME task[t].pc \in {"findSubscription", "findCampaign"}, UNCHANGED jobs, Others(t),
             task'[t].pc \in {"findCampaign", "send"}, task'[t].back = task[t].back,
             task'[t].sub = task[t].sub, task'[t].email = task[t].email,
             task'[t].index = t[2],
             task'[t].pc = "send" => task'[t].emails = campaign.emails,
             At(t, "findCampaign") \/ rows[t[1]].status = "active"
      PROVE  Ordered'
  <2>1. /\ JobTask(t)' /\ Copied(t)' /\ Live(t) /\ \A s \in Subs : ~Hands(t, s)'
        /\ ~At(t, "advance") /\ ~At(t, "advance")'
    BY <1>0, <1>3 DEF JobTask, Copied, Live, Hands, At, Sending, Handing, Processing
  <2>2. InStep(t)'
    BY <1>0, <1>3, <2>1 DEF InStep, Live, Index, At, Sending, Handing
  <2>. QED BY <1>0, <1>3, <2>1, <2>2, WorkerLocal DEF At
<1>4. CASE FindSubscription(t) /\ ~(Return(t) \/ Throw(t))
  <2>1. /\ At(t, "findSubscription") /\ rows[task[t].sub].status = "active" /\ UNCHANGED jobs
        /\ task' = [task EXCEPT ![t].pc = "findCampaign", ![t].index = rows[task[t].sub].index]
    BY <1>4 DEF FindSubscription
  <2>2. task[t].sub = t[1] /\ rows[task[t].sub].index = t[2]
    BY <1>0, <2>1 DEF JobTask, InStep, Live, At, Sending, Index
  <2>. QED BY <1>0, <2>1, <2>2, <1>3 DEF Others, At, Task
<1>5. CASE FindCampaign(t) /\ ~(Return(t) \/ Throw(t))
  <2>1. /\ At(t, "findCampaign") /\ UNCHANGED jobs
        /\ task' = [task EXCEPT ![t].pc = "send", ![t].emails = campaign.emails]
    BY <1>5 DEF FindCampaign
  <2>2. task[t].index = t[2]
    BY <1>0, <2>1 DEF InStep, At
  <2>. QED BY <1>0, <2>1, <2>2, <1>3 DEF Others, At, Task
<1>. QED BY <1>1, <1>2, <1>4, <1>5 DEF FindSubscription, FindCampaign, At

LEMMA ScheduleOrdered ==
  ASSUME TypeOK, TypeOK', Ordered, NEW t \in Tasks, Counted, ScheduleNextEmail(t)
  PROVE  Ordered'
<1>0. /\ task \in [Tasks -> Task] /\ task[t] \in Task /\ jobs \in [JobId -> Job]
      /\ Copied(t) /\ PassedOn /\ At(t, "schedule")
      /\ UNCHANGED <<campaign, inbox, calls, happened>>
      /\ t \in JobId => t[1] \in Subs /\ jobs[t] \in Job /\ JobTask(t) /\ InStep(t)
      /\ t \in Callers => CallerTask(t)
  BY JobIdTyped DEF TypeOK, Ordered, RequestsInv, PassedOn, ScheduleNextEmail
<1>1. rows' \in {rows, [rows EXCEPT ![task[t].sub].dated = TRUE]} /\ task[t].sub \in Subs
  BY <1>0 DEF ScheduleNextEmail, Task
<1>2. RowsLocal /\ \A r \in Subs : rows'[r].status = rows[r].status
  BY <1>1, DatedLocal
<1>3. CASE Return(t) /\ t \in Callers
  <2>1. Leave(t) /\ UNCHANGED jobs /\ task[t].pc \notin Stopping
    BY <1>0, <1>3, DripAssumption DEF Return, At, Stopping
  <2>. QED BY <2>1, <1>0, <1>2, <1>3, CallerLeaves, RequestLocal
<1>4. CASE Return(t) /\ t \in JobId
  <2>1. task[t].pc \in Processing /\ ~At(t, "advance")
    BY <1>0 DEF Processing, At
  <2>2. /\ Others(t) /\ task'[t].pc \in {"idle", "done"} /\ JobTask(t)' /\ InStep(t)' /\ Copied(t)'
        /\ \A j \in JobId \ {t} : jobs'[j] = jobs[j]
        /\ jobs'[t].state # "none" /\ (Live(t)' => Live(t))
        /\ \A s \in Subs : ~Hands(t, s)'
    BY <1>0, <1>2, <1>4, <2>1, WorkerLeaves
  <2>3. ~At(t, "advance")'
    BY <2>2 DEF At
  <2>. QED BY <1>0, <1>2, <1>4, <2>1, <2>2, <2>3, WorkerLocal
<1>5. CASE ~Return(t)
  <2> DEFINE k == task[t].index + 1
  <2>1. /\ k \in DOMAIN task[t].emails /\ UNCHANGED jobs
        /\ task' = [task EXCEPT ![t].pc = "addJob", ![t].email = task[t].emails[k]]
    BY <1>5 DEF ScheduleNextEmail
  <2>2. task[t].emails = campaign.emails
    BY <1>0 DEF Copied, At, Handing
  <2>3. /\ Others(t) /\ task'[t].pc = "addJob" /\ task'[t].email = campaign.emails[k]
        /\ task'[t].emails = campaign.emails /\ task'[t].index = task[t].index
        /\ task'[t].sub = task[t].sub /\ task'[t].back = task[t].back
        /\ task'[t].todo = task[t].todo
    BY <1>0, <2>1, <2>2 DEF Others, Task
  <2>4. Copied(t)'
    <3>. task'[t].index + 1 \in DOMAIN campaign.emails
         /\ task'[t].email = campaign.emails[task'[t].index + 1]
      BY <2>1, <2>2, <2>3
    <3>. QED BY <1>0, <2>3 DEF Copied, At, Handing
  <2>5. \A s \in Subs : Hands(t, s)' => Hands(t, s) /\ task'[t].index = task[t].index
    BY <1>0, <2>3 DEF Hands, At, Handing
  <2>6. CASE t \in Callers
    <3>1. CallerTask(t)'
      BY <1>0, <1>2, <2>1, <2>3, <2>6
         DEF CallerTask, At, Sending, Handing, Resuming, Stopping, RowsLocal, Task
    <3>2. /\ \A s \in Subs : ~Threatens(t, s)'
          /\ task'[t].pc \notin Stopping
      BY <2>3 DEF Threatens, At, Stopping
    <3>. QED BY <1>0, <1>2, <2>1, <2>3, <2>4, <2>5, <2>6, <3>1, <3>2, RequestLocal
  <2>7. CASE t \in JobId
    <3>1. JobTask(t)' /\ (Live(t)' => Live(t)) /\ ~At(t, "advance") /\ ~At(t, "advance")'
      BY <1>0, <1>2, <2>1, <2>3, <2>7
         DEF JobTask, Live, At, Sending, Handing, Processing, RowsLocal
    <3>2. InStep(t)'
      BY <1>0, <1>2, <2>1, <2>3, <2>7, <3>1
         DEF InStep, Live, Index, At, Sending, Handing, RowsLocal
    <3>3. task'[t].pc \notin {"findCampaign", "send"} /\ jobs'[t] = jobs[t]
      BY <2>1, <2>3
    <3>. QED BY <1>0, <1>2, <2>1, <2>3, <2>4, <2>5, <2>7, <3>1, <3>2, <3>3, WorkerLocal
  <2>. QED BY <2>6, <2>7 DEF Tasks
<1>. QED BY <1>3, <1>4, <1>5 DEF Tasks

(* The mail is sent: the subscription has one email more than its index.     *)
LEMMA SendOrdered ==
  ASSUME TypeOK, TypeOK', Ordered, NEW t \in JobId, SendDripEmail(t)
  PROVE  Ordered'
<1>0. /\ t \in Tasks /\ task \in [Tasks -> Task] /\ task[t] \in Task /\ t[1] \in Subs
      /\ JobTask(t) /\ InStep(t) /\ Copied(t) /\ PassedOn /\ At(t, "send")
      /\ UNCHANGED <<campaign, rows, jobs, calls, happened>> /\ RowsLocal
      /\ inbox \in [Subs -> Seq(Emails \cup {NoEmail})]
      /\ \A j \in JobId : j[1] \in Subs /\ j \in Tasks
  BY JobIdTyped, RowsSame DEF TypeOK, Tasks, Ordered, PassedOn, SendDripEmail
<1>1. /\ Others(t) /\ task'[t].pc = "advance" /\ task'[t].sub = task[t].sub
      /\ task'[t].emails = task[t].emails /\ task'[t].index = task[t].index
      /\ task'[t].back = task[t].back
  BY <1>0 DEF SendDripEmail, Others, Task
<1>2. /\ task[t].sub = t[1] /\ t[2] = Index(t[1]) /\ t[2] + 1 \in DOMAIN campaign.emails
      /\ task[t].email = campaign.emails[t[2] + 1] /\ Live(t)
  BY <1>0 DEF JobTask, InStep, Live, At, Sending
<1>3. RequestsInv' /\ \A s \in Subs : Safe(s) => Safe(s)'
  BY <1>0, <1>1, WorkerStep DEF Ordered
<1>4. PassedOn'
  <2>1. /\ JobTask(t)' /\ Copied(t)' /\ \A s \in Subs : ~Hands(t, s)'
    BY <1>0, <1>1 DEF JobTask, Copied, Hands, At, Sending, Handing, Processing
  <2>2. InStep(t)'
    BY <1>0, <1>1, <1>2 DEF InStep, Live, Index, At, Sending, Handing
  <2>3. \A s \in Subs : Index(s) <= Len(campaign.emails)
    BY DEF Ordered, MailOf
  <2>4. t \notin Callers
    BY DripAssumption
  <2>. QED BY <1>0, <1>1, <1>2, <1>3, <2>1, <2>2, <2>3, <2>4, LocalStep DEF RowsLocal
<1>5. ASSUME NEW s \in Subs PROVE MailOf(s)'
  <2>0. MailOf(s) /\ Index(s)' = Index(s)
    BY <1>0 DEF Ordered, Index
  <2>1. CASE s # t[1]
    <3>1. inbox'[s] = inbox[s]
      BY <1>0, <1>2, <2>1 DEF SendDripEmail
    <3>2. \A j \in JobId : j[1] = s => task'[j] = task[j]
      BY <1>0, <1>1, <2>1 DEF Others
    <3>. QED BY <1>0, <2>0, <3>1, <3>2 DEF MailOf, Index, At
  <2>2. CASE s = t[1]
    <3>1. /\ inbox'[s] = Append(inbox[s], campaign.emails[Index(s) + 1])
          /\ inbox[s] \in Seq(Emails \cup {NoEmail})
          /\ Len(inbox[s]) = Index(s) /\ Index(s) + 1 \in DOMAIN campaign.emails
      BY <1>0, <1>2, <2>0, <2>2 DEF SendDripEmail, MailOf, At
    <3>2. /\ Index(s) \in Nat /\ campaign.emails \in Seq(Emails)
      BY EditionsTyped DEF TypeOK, Row, Campaign, Index
    <3>3. campaign.emails[Index(s) + 1] \in Emails \cup {NoEmail}
      BY <3>1, <3>2
    <3>4. /\ Len(inbox'[s]) = Index(s) + 1 /\ DOMAIN inbox'[s] = 1 .. Index(s) + 1
          /\ inbox'[s][Index(s) + 1] = campaign.emails[Index(s) + 1]
          /\ \A i \in 1 .. Index(s) : inbox'[s][i] = inbox[s][i] /\ i \in DOMAIN inbox[s]
      BY <3>1, <3>2, <3>3
    <3>5. \A i \in DOMAIN inbox'[s] :
            i <= Len(campaign.emails) /\ inbox'[s][i] = campaign.emails[i]
      BY <2>0, <3>1, <3>2, <3>4 DEF MailOf
    <3>6. \A j \in JobId : j[1] = s /\ j # t => task[j].pc \notin Sending
      BY <1>0, <1>2, <2>2, OneLive DEF Live
    <3>7. \A j \in JobId : j[1] = s =>
            task'[j].pc \notin {"findCampaign", "send"}
      BY <1>0, <1>1, <3>6 DEF Others, Sending
    <3>8. At(t, "advance")'
      BY <1>1 DEF At
    <3>9. rows[s].status # "none"
      BY <1>0, <2>2 DEF JobTask, At
    <3>10. /\ Index(s) <= Len(campaign.emails)
           /\ rows[s].status = "completed" => Index(s) = Len(campaign.emails)
      BY <2>0 DEF MailOf
    <3>. QED BY <1>0, <2>0, <2>2, <3>4, <3>5, <3>7, <3>8, <3>9, <3>10 DEF MailOf, Index
  <2>. QED BY <2>1, <2>2
<1>. QED BY <1>3, <1>4, <1>5 DEF Ordered

(* moveToNextEmail of a row that is gone: nothing is written.                *)
LEMMA MoveGone ==
  ASSUME TypeOK, TypeOK', Ordered, NEW t \in JobId, MoveToNextEmail(t),
         ~Exists(task[t].sub)
  PROVE  Ordered'
<1>0. /\ t \in Tasks /\ JobTask(t) /\ PassedOn /\ At(t, "advance") /\ RowsLocal
      /\ Return(t) /\ UNCHANGED <<campaign, rows, inbox, calls, happened>>
  BY RowsSame DEF Tasks, Ordered, PassedOn, MoveToNextEmail
<1>1. rows[t[1]].status = "deleted"
  BY <1>0 DEF JobTask, At, Exists
<1>2. task[t].pc \in Processing
  BY <1>0 DEF At, Processing
<1>3. /\ Others(t) /\ task'[t].pc \in {"idle", "done"} /\ JobTask(t)' /\ InStep(t)' /\ Copied(t)'
      /\ \A j \in JobId \ {t} : jobs'[j] = jobs[j]
      /\ jobs'[t].state # "none" /\ (Live(t)' => Live(t))
      /\ \A s \in Subs : ~Hands(t, s)'
  BY <1>0, <1>2, WorkerLeaves
<1>4. ~At(t, "advance")'
  BY <1>3 DEF At
<1>. QED BY <1>0, <1>1, <1>3, <1>4, WorkerLocal

(* The row moves on by one: the subscription has exactly that many emails.   *)
LEMMA MoveOrdered ==
  ASSUME TypeOK, TypeOK', Ordered, NEW t \in JobId, MoveToNextEmail(t)
  PROVE  Ordered'
<1> DEFINE s == t[1]
           next == t[2] + 1
<1>0. /\ t \in Tasks /\ task \in [Tasks -> Task] /\ task[t] \in Task /\ s \in Subs
      /\ jobs \in [JobId -> Job] /\ jobs[t] \in Job /\ rows \in [Subs -> Row] /\ rows[s] \in Row
      /\ JobTask(t) /\ InStep(t) /\ Copied(t) /\ PassedOn /\ At(t, "advance")
      /\ UNCHANGED <<campaign, inbox, calls, happened>>
      /\ \A j \in JobId : j[1] \in Subs /\ j \in Tasks
      /\ MailOf(s)
  BY JobIdTyped DEF TypeOK, Tasks, Ordered, PassedOn, MoveToNextEmail
<1>1. /\ task[t].sub = s /\ task[t].index = t[2] /\ t[2] = Index(s) /\ Index(s) \in Nat
      /\ task[t].emails = campaign.emails /\ next \in DOMAIN campaign.emails
      /\ Live(t) /\ jobs[t].state = "active" /\ rows[s].status # "none"
      /\ task[t].back = "done" /\ campaign.emails \in Seq(Emails)
  BY <1>0, EditionsTyped DEF JobTask, InStep, Copied, Live, At, Sending, TypeOK, Campaign, Row, Index
<1> SUFFICES ASSUME Exists(s) PROVE Ordered'
  BY <1>1, MoveGone
<1>2. /\ Others(t) /\ task'[t].back = "done"
      /\ rows'[s].index = next /\ \A r \in Subs \ {s} : rows'[r] = rows[r]
      /\ jobs'[t].state # "none" /\ jobs'[t].state # "queued"
      /\ \A j \in JobId \ {t} : jobs'[j] = jobs[j]
      /\ \/ /\ next = Len(campaign.emails) /\ rows'[s].status = "completed"
            /\ task'[t].pc = "done" /\ jobs'[t] = jobs[t]
         \/ /\ next < Len(campaign.emails) /\ rows'[s].status = rows[s].status
            /\ task'[t].pc = "schedule"
            /\ task'[t].sub = s /\ task'[t].index = next /\ task'[t].emails = campaign.emails
            /\ jobs'[t] = jobs[t]
  <2>1. next \in Nat /\ Len(campaign.emails) \in Nat /\ next <= Len(campaign.emails)
    BY <1>1
  <2>2. CASE next >= Len(campaign.emails)
    <3>1. /\ Return(t)
          /\ rows' = [rows EXCEPT ![s].status = "completed", ![s].index = next]
      BY <1>1, <2>1, <2>2 DEF MoveToNextEmail
    <3>2. /\ rows'[s].status = "completed" /\ rows'[s].index = next
          /\ \A r \in Subs \ {s} : rows'[r] = rows[r]
      BY <1>0, <3>1 DEF Row
    <3>3. UNCHANGED jobs
      BY <3>1 DEF Return
    <3>4. Others(t) /\ task'[t].pc = "done" /\ task'[t].back = "done"
      BY <1>0, <1>1, <3>1, LeaveFields DEF Return
    <3>. QED BY <1>1, <2>1, <2>2, <3>2, <3>3, <3>4
  <2>3. CASE next < Len(campaign.emails)
    <3>1. /\ rows' = [rows EXCEPT ![s].index = next] /\ UNCHANGED jobs
          /\ task' = [task EXCEPT ![t].pc = "schedule", ![t].index = next]
      BY <1>1, <2>1, <2>3 DEF MoveToNextEmail
    <3>2. /\ rows'[s].status = rows[s].status /\ rows'[s].index = next
          /\ \A r \in Subs \ {s} : rows'[r] = rows[r]
      BY <1>0, <3>1 DEF Row
    <3>3. Others(t) /\ task'[t].pc = "schedule" /\ task'[t].back = "done" /\ task'[t].index = next
          /\ task'[t].sub = s /\ task'[t].emails = campaign.emails
      BY <1>0, <1>1, <3>1 DEF Others, Task
    <3>. QED BY <1>1, <2>3, <3>1, <3>2, <3>3
  <2>. QED BY <2>1, <2>2, <2>3
<1>3. Index(s)' = next /\ \A r \in Subs \ {s} : Index(r)' = Index(r)
  BY <1>0, <1>2 DEF Index
<1>4. \A j \in JobId : j[1] = s /\ j # t => ~Live(j)
  BY <1>0, <1>1, OneLive
<1>5. \A j \in JobId : (Live(j)' => Live(j) /\ j # t)
  BY <1>0, <1>2 DEF Live, Others, Sending
<1>6. RequestsInv' /\ \A r \in Subs : Safe(r) => Safe(r)'
  <2>1. \A r \in Subs : rows'[r].status \in {"none", "paused"} => rows'[r].status = rows[r].status
    BY <1>2
  <2>. QED BY <1>0, <1>2, <2>1, WorkerStep DEF Ordered
<1>7. ASSUME NEW j \in JobId PROVE JobTask(j)' /\ InStep(j)'
  <2>1. CASE j = t
    <3>1. JobTask(t)'
      BY <1>0, <1>1, <1>2 DEF JobTask, Processing
    <3>2. ~Live(t)'
      BY <1>5
    <3>3. InStep(t)'
      BY <1>0, <1>1, <1>2, <3>2 DEF InStep, At, Handing
    <3>. QED BY <2>1, <3>1, <3>3
  <2>2. CASE j # t
    <3>1. JobTask(j) /\ InStep(j) /\ task'[j] = task[j] /\ jobs'[j] = jobs[j] /\ j[1] \in Subs
      BY <1>0, <1>2, <2>2 DEF PassedOn, Others
    <3>2. JobTask(j)'
      BY <1>1, <1>2, <3>1 DEF JobTask
    <3>3. Live(j)' => Live(j) /\ j[1] # s
      BY <1>4, <1>5, <2>2
    <3>4. Live(j)' => j[2] = Index(j[1])' /\ j[2] + 1 \in DOMAIN campaign'.emails
      BY <1>0, <1>3, <3>1, <3>3 DEF InStep, Index
    <3>. QED BY <1>0, <3>1, <3>2, <3>4 DEF InStep, At
  <2>. QED BY <2>1, <2>2
<1>8. ASSUME NEW u \in Tasks PROVE Copied(u)'
  <2>. Copied(u) /\ (u # t => task'[u] = task[u])
    BY <1>2 DEF PassedOn, Ordered, Others
  <2>. QED BY <1>0, <1>2 DEF Copied, At, Handing
<1>9. \A u \in Tasks \ {t} : \A r : Hands(u, r)' <=> Hands(u, r)
  BY <1>2 DEF Hands, Others
<1>10. ~Hands(t, s) /\ (\A u \in Tasks : Hands(u, s) => Safe(s))
  <2>1. ~Hands(t, s)
    BY <1>0 DEF Hands, At, Handing
  <2>2. ASSUME NEW u \in Tasks, Hands(u, s), ~Safe(s) PROVE FALSE
    <3>1. Single(s)
      BY <1>0, <2>2 DEF PassedOn
    <3>2. ~Live(t)
      BY <3>1, <2>2 DEF Single
    <3>. QED BY <3>2, <1>1
  <2>. QED BY <2>1, <2>2
<1>11. ASSUME NEW u \in Tasks PROVE HandsFresh(u)'
  <2>0. HandsFresh(u) /\ task[u].index \in Nat /\ task[u].sub \in Subs
    BY DEF Ordered, PassedOn, TypeOK, Task
  <2>1. CASE u = t
    <3>. task'[t].pc \in Handing => task'[t].index = next /\ task'[t].sub = s
      BY <1>2 DEF Handing
    <3>. QED BY <1>1, <1>3, <2>1 DEF HandsFresh, Index
  <2>2. CASE u # t
    <3>0. task'[u] = task[u]
      BY <1>2, <2>2 DEF Others
    <3> SUFFICES ASSUME task[u].pc \in Handing, NEW r \in Subs, r = task[u].sub,
                        NEW k \in Nat, k = task[u].index
                 PROVE  /\ k <= Index(r)'
                        /\ k < Index(r)' => jobs'[<<r, k>>].state # "none"
      BY <2>0, <3>0 DEF HandsFresh, Index
    <3>1. /\ k <= Index(r) /\ (k < Index(r) => jobs[<<r, k>>].state # "none")
          /\ Index(r) <= Len(campaign.emails) /\ Index(r) \in Nat
      BY <2>0 DEF HandsFresh, Ordered, MailOf, TypeOK, Row, Index
    <3>2. ASSUME NEW n \in Nat, n < Len(campaign.emails) PROVE <<r, n>> \in JobId
      <4>1. Len(campaign.emails) \in Nat /\ Len(campaign.emails) <= MaxEmails
        BY EditionsTyped DEF TypeOK, Campaign
      <4>. QED BY <3>2, <4>1, JobIdTyped, DripAssumption
    <3>3. ASSUME k < Index(r) PROVE jobs'[<<r, k>>].state # "none"
      BY <3>1, <3>2, <3>3, <1>2, <1>1
    <3>4. CASE r # s
      BY <1>3, <3>1, <3>3, <3>4
    <3>5. CASE r = s
      <4>1. k = Index(s) => <<r, k>> = t
        BY <1>1, <3>5 DEF JobId
      <4>2. CASE k = Index(s)
        <5>1. jobs'[<<r, k>>].state # "none"
          BY <1>2, <3>5, <4>1, <4>2
        <5>. QED BY <5>1, <4>2, <3>5, <1>1, <1>3
      <4>3. CASE k < Index(s)
        <5>1. jobs'[<<r, k>>].state # "none"
          BY <3>3, <3>5, <4>3
        <5>. QED BY <5>1, <4>3, <3>5, <1>1, <1>3
      <4>. QED BY <3>1, <3>5, <4>2, <4>3
    <3>. QED BY <3>4, <3>5
  <2>. QED BY <2>1, <2>2
<1>12. ASSUME NEW r \in Subs PROVE Single(r)' \/ Safe(r)'
  <2> SUFFICES ASSUME ~Safe(r)' PROVE Single(r)'
    OBVIOUS
  <2>1. Single(r) /\ ~Safe(r)
    BY <1>0, <1>6 DEF PassedOn
  <2>2. CASE r = s
    <3>1. \A u \in Tasks : Hands(u, s)' => u = t
      BY <1>9, <1>10, <2>1, <2>2
    <3>2. Hands(t, s)' => task'[t].index = Index(s)'
      BY <1>2, <1>3 DEF Hands, Handing
    <3>3. \A j \in JobId : j[1] = s => ~Live(j)'
      BY <1>4, <1>5
    <3>. QED BY <3>1, <3>2, <3>3, <2>2 DEF Single
  <2>3. CASE r # s
    <3>1. ~Hands(t, r)'
      BY <1>2, <2>3 DEF Hands, Handing
    <3>2. \A u \in Tasks : Hands(u, r)' => Hands(u, r) /\ task'[u] = task[u]
      BY <1>2, <1>9, <3>1 DEF Others
    <3>. QED BY <1>3, <1>5, <2>1, <2>3, <3>2 DEF Single
  <2>. QED BY <2>2, <2>3
<1>13. PassedOn'
  BY <1>7, <1>8, <1>11, <1>12 DEF PassedOn
<1>14. ASSUME NEW r \in Subs PROVE MailOf(r)'
  <2>0. MailOf(r) /\ Len(inbox[r]) \in Nat
    BY DEF Ordered, TypeOK
  <2>1. CASE r # s
    <3>1. \A j \in JobId : j[1] = r => task'[j] = task[j]
      BY <1>0, <1>2, <2>1 DEF Others
    <3>. QED BY <1>0, <1>2, <2>0, <2>1, <3>1 DEF MailOf, Index, At
  <2>2. CASE r = s
    <3>1. Len(inbox[s]) = next /\ next <= Len(campaign.emails)
      BY <1>0, <1>1 DEF MailOf
    <3>2. \A j \in JobId : j[1] = s => task'[j].pc \notin {"findCampaign", "send", "advance"}
      BY <1>4, <1>5 DEF Live, Sending
    <3>3. /\ rows'[s].status = "completed" => next = Len(campaign.emails)
          /\ rows'[s].status # "none"
      <4>1. rows[s].status # "completed"
        BY <1>0, <1>1 DEF MailOf
      <4>. QED BY <1>1, <1>2, <4>1
    <3>. QED BY <1>0, <1>3, <2>0, <2>2, <3>1, <3>2, <3>3 DEF MailOf, At, Index
  <2>. QED BY <2>1, <2>2
<1>. QED BY <1>6, <1>13, <1>14 DEF Ordered

(* The next email is queued: from now on its job carries the subscription.   *)
LEMMA AddOrdered ==
  ASSUME TypeOK, TypeOK', Ordered, NEW t \in Tasks, Counted, AddDripEmail(t)
  PROVE  Ordered'
<1> DEFINE s == task[t].sub
           id == <<s, task[t].index>>
<1>0. /\ task \in [Tasks -> Task] /\ task[t] \in Task /\ jobs \in [JobId -> Job] /\ s \in Subs
      /\ Copied(t) /\ PassedOn /\ At(t, "addJob") /\ HandsFresh(t) /\ Leave(t)
      /\ UNCHANGED <<campaign, rows, inbox, calls, happened>> /\ RowsLocal
      /\ t \in JobId => t[1] \in Subs /\ jobs[t] \in Job /\ JobTask(t) /\ InStep(t)
      /\ t \in Callers => CallerTask(t)
      /\ \A u \in Tasks : task[u].sub \in Subs
  BY JobIdTyped, RowsSame DEF TypeOK, Ordered, RequestsInv, PassedOn, AddDripEmail, Task
<1>1. /\ task[t].index + 1 \in DOMAIN campaign.emails /\ task[t].index \in Nat
      /\ task[t].email = campaign.emails[task[t].index + 1]
      /\ Hands(t, s) /\ task[t].index <= Index(s)
      /\ task[t].index < Index(s) => jobs[id].state # "none"
  BY <1>0 DEF Copied, At, Hands, Handing, HandsFresh, Task
<1>2. id \in JobId /\ id[1] = s /\ id[2] = task[t].index
  <2>1. Len(campaign.emails) \in Nat /\ Len(campaign.emails) <= MaxEmails
        /\ campaign.emails \in Seq(Emails)
    BY EditionsTyped DEF TypeOK, Campaign
  <2>. QED BY <1>0, <1>1, <2>1, JobIdTyped, DripAssumption
<1>3. Others(t) /\ task'[t].back = task'[t].pc /\ task'[t].pc = IF t \in JobId THEN "done" ELSE "idle"
  <2>1. task[t].back = IF t \in JobId THEN "done" ELSE "idle"
    BY <1>0 DEF Tasks, JobTask, CallerTask, At, Stopping
  <2>. QED BY <1>0, <2>1, LeaveFields
<1>4. rows[s].status # "none"
  BY <1>0 DEF Tasks, JobTask, CallerTask, At, Handing
<1>5. t \in JobId => jobs[t].state = "active"
  BY <1>0 DEF JobTask, At
<1>6. ASSUME NEW j \in JobId
      PROVE  \/ jobs'[j] = jobs[j]
             \/ /\ j = id /\ j # t /\ jobs[j].state = "none" /\ jobs'[j].state = "queued"
                /\ jobs'[j].email = task[t].email
  BY <1>0, <1>2, <1>5 DEF AddDripEmail, EmailJob, NoJob, Job
<1>7. RequestsInv' /\ \A r \in Subs : Safe(r) => Safe(r)'
  <2>1. CASE t \in JobId
    BY <1>0, <1>3, <2>1, WorkerStep DEF Ordered
  <2>2. CASE t \in Callers
    <3>1. /\ CallerTask(t)' /\ task'[t].pc \notin Stopping
          /\ \A r \in Subs : Threatens(t, r)' => Threatens(t, r)
      BY <1>0, <1>3, <2>2, CallerLeaves, DripAssumption DEF At, Stopping
    <3>. QED BY <1>0, <2>2, <1>3, <3>1, RequestStep DEF Ordered, Counted, RowsLocal
  <2>. QED BY <2>1, <2>2 DEF Tasks
<1>8. ASSUME NEW j \in JobId PROVE JobTask(j)' /\ InStep(j)'
  <2>0. JobTask(j) /\ InStep(j) /\ j[1] \in Subs /\ (j # t => task'[j] = task[j])
    BY <1>3, JobIdTyped DEF Ordered, PassedOn, Others, Tasks
  <2>1. CASE j # t /\ jobs'[j] = jobs[j]
    BY <1>0, <2>0, <2>1 DEF JobTask, InStep, Live, Index, At
  <2>2. CASE j = t /\ jobs'[j] = jobs[j]
    BY <1>0, <1>3, <1>5, <2>0, <2>2 DEF JobTask, InStep, Live, At, Sending, Handing, Processing
  <2>3. CASE j = id /\ j # t /\ jobs[j].state = "none" /\ jobs'[j].state = "queued"
             /\ jobs'[j].email = task[t].email
    <3>1. task'[j].pc = "idle"
      BY <2>0, <2>3 DEF JobTask
    <3>2. task[t].index = Index(s)
      <4>. Index(s) \in Nat
        BY <1>0 DEF TypeOK, Row, Index
      <4>. QED BY <1>1, <2>3
    <3>3. JobTask(j)'
      BY <1>0, <1>2, <1>4, <2>3, <3>1 DEF JobTask
    <3>4. /\ j[2] = Index(j[1]) /\ j[2] + 1 \in DOMAIN campaign.emails
          /\ jobs'[j].email = campaign.emails[j[2] + 1]
      BY <1>1, <1>2, <2>3, <3>2
    <3>. QED BY <1>0, <2>0, <3>1, <3>3, <3>4 DEF InStep, Index, At, Handing
  <2>. QED BY <1>6, <2>1, <2>2, <2>3
<1>9. ASSUME NEW u \in Tasks PROVE Copied(u)' /\ HandsFresh(u)'
  <2>1. CASE u = t
    BY <1>3, <2>1 DEF Copied, HandsFresh, At, Handing
  <2>2. CASE u # t
    <3>1. Copied(u) /\ HandsFresh(u) /\ task'[u] = task[u]
      BY <1>3, <2>2 DEF Ordered, PassedOn, Others
    <3>2. \A j \in JobId : jobs[j].state # "none" => jobs'[j].state # "none"
      BY <1>6
    <3>3. Copied(u)'
      BY <1>0, <3>1 DEF Copied, At
    <3> SUFFICES ASSUME task[u].pc \in Handing, NEW r \in Subs, r = task[u].sub,
                        NEW k, k = task[u].index
                 PROVE  /\ k <= Index(r)
                        /\ k < Index(r) => jobs'[<<r, k>>].state # "none"
      BY <1>0, <3>1, <3>3 DEF HandsFresh, Index
    <3>4. k <= Index(r) /\ (k < Index(r) => jobs[<<r, k>>].state # "none")
          /\ Index(r) <= Len(campaign.emails) /\ Index(r) \in Nat /\ k \in Nat
      BY <3>1 DEF HandsFresh, Ordered, MailOf, TypeOK, Row, Task, Index
    <3>5. ASSUME k < Index(r) PROVE <<r, k>> \in JobId
      <4>1. Len(campaign.emails) \in Nat /\ Len(campaign.emails) <= MaxEmails
        BY EditionsTyped DEF TypeOK, Campaign
      <4>. QED BY <3>4, <3>5, <4>1, JobIdTyped, DripAssumption
    <3>. QED BY <3>2, <3>4, <3>5
  <2>. QED BY <2>1, <2>2
<1>10. ASSUME NEW r \in Subs PROVE Single(r)' \/ Safe(r)'
  <2> SUFFICES ASSUME ~Safe(r)' PROVE Single(r)'
    OBVIOUS
  <2>1. Single(r) /\ ~Safe(r)
    BY <1>0, <1>7 DEF PassedOn
  <2>2. \A u \in Tasks : Hands(u, r)' => u # t /\ Hands(u, r) /\ task'[u] = task[u]
    BY <1>3 DEF Hands, Handing, Others
  <2>3. CASE r = s
    BY <1>1, <2>1, <2>2, <2>3 DEF Single
  <2>4. CASE r # s
    <3>1. \A j \in JobId : j[1] = r /\ Live(j)' => Live(j)
      BY <1>2, <1>3, <1>6, <2>4 DEF Live, Others, Sending, Tasks
    <3>. QED BY <1>0, <2>1, <2>2, <3>1 DEF Single, Index
  <2>. QED BY <2>3, <2>4
<1>11. PassedOn'
  BY <1>8, <1>9, <1>10 DEF PassedOn
<1>12. \A r \in Subs : MailOf(r)'
  <2>. /\ ~At(t, "advance") /\ ~At(t, "advance")'
       /\ task'[t].pc \notin {"findCampaign", "send"}
    BY <1>0, <1>3 DEF At
  <2>. QED BY <1>0, <1>3, LocalMail DEF RowsLocal, Ordered
<1>. QED BY <1>7, <1>11, <1>12 DEF Ordered

LEMMA SequenceInit == Init => SequenceInv
<1> SUFFICES ASSUME Init PROVE Ordered
  BY DEF SequenceInv
<1>1. /\ \A t \in Tasks : task[t] = Idle
      /\ \A j \in JobId : jobs[j] = NoJob
      /\ \A s \in Subs : inbox[s] = <<>> /\ rows[s].status = "none" /\ rows[s].index = 0
      /\ calls = 0 /\ campaign.emails \in Editions
  BY DEF Init
<1>2. \A t \in Tasks : /\ task[t].pc = "idle" /\ task[t].back = "idle" /\ task[t].todo = {}
  BY <1>1 DEF Idle
<1>3. RequestsInv
  <2>1. ASSUME NEW c \in Callers PROVE CallerTask(c)
    BY <1>2 DEF CallerTask, Tasks, At, Sending, Handing, Resuming, Stopping
  <2>2. Stoppers /\ PausedQuietly
    BY <1>1, <1>2 DEF Stoppers, PausedQuietly, Tasks, Stopping
  <2>. QED BY <2>1, <2>2 DEF RequestsInv
<1>4. PassedOn
  <2>1. ASSUME NEW j \in JobId PROVE JobTask(j) /\ InStep(j)
    <3>. task[j].pc = "idle" /\ task[j].back = "idle" /\ jobs[j].state = "none"
      BY <1>1, <1>2 DEF NoJob, Tasks
    <3>. QED BY DEF JobTask, InStep, Live, At, Sending, Handing
  <2>2. ASSUME NEW t \in Tasks PROVE Copied(t) /\ HandsFresh(t) /\ \A s : ~Hands(t, s)
    BY <1>2 DEF Copied, HandsFresh, Hands, At, Handing
  <2>3. \A s \in Subs : Single(s)
    BY <2>2 DEF Single
  <2>. QED BY <2>1, <2>2, <2>3 DEF PassedOn
<1>5. ASSUME NEW s \in Subs PROVE MailOf(s)
  <2>1. Len(campaign.emails) \in Nat /\ Len(inbox[s]) = 0 /\ DOMAIN inbox[s] = {}
        /\ inbox[s] = <<>>
    BY <1>1, EditionsTyped
  <2>2. \A j \in JobId : task[j].pc = "idle"
    BY <1>2 DEF Tasks
  <2>. QED BY <1>1, <2>1, <2>2 DEF MailOf, Index, At
<1>. QED BY <1>3, <1>4, <1>5 DEF Ordered

(* The job completes: nothing of the subscription depends on it any more.    *)
LEMMA CompleteOrdered ==
  ASSUME TypeOK, TypeOK', Ordered, NEW t \in JobId, CompleteJob(t)
  PROVE  Ordered'
<1>0. /\ t \in Tasks /\ task \in [Tasks -> Task] /\ t[1] \in Subs
      /\ jobs \in [JobId -> Job] /\ jobs[t] \in Job
      /\ JobTask(t) /\ InStep(t) /\ PassedOn /\ At(t, "done")
      /\ UNCHANGED <<campaign, rows, inbox, calls, happened>> /\ RowsLocal
  BY JobIdTyped, RowsSame DEF TypeOK, Tasks, Ordered, PassedOn, CompleteJob
<1>1. /\ Others(t) /\ task'[t].pc = "idle" /\ jobs[t].state = "active"
      /\ jobs'[t].state = "completed" /\ \A j \in JobId \ {t} : jobs'[j] = jobs[j]
  BY <1>0 DEF CompleteJob, Others, Idle, Job, JobTask, At
<1>2. JobTask(t)' /\ InStep(t)' /\ Copied(t)' /\ ~Live(t)' /\ \A s \in Subs : ~Hands(t, s)'
  BY <1>0, <1>1 DEF JobTask, InStep, Copied, Live, Hands, At, Sending, Handing
<1>3. ~At(t, "advance") /\ ~At(t, "advance")'
  BY <1>0, <1>1 DEF At
<1>. QED BY <1>0, <1>1, <1>2, <1>3, WorkerLocal

(* Only a worker processes an email, except for its hand-over.               *)
LEMMA ProcessOrdered ==
  ASSUME TypeOK, TypeOK', Ordered, Counted, NEW t \in Tasks, Process(t)
  PROVE  Ordered'
<1>1. ASSUME FindSubscription(t) \/ FindCampaign(t) \/ SendDripEmail(t) \/ MoveToNextEmail(t)
      PROVE  t \in JobId
  <2>1. task[t].pc \in Sending
    BY <1>1 DEF FindSubscription, FindCampaign, SendDripEmail, MoveToNextEmail, At, Sending
  <2>. QED BY <2>1 DEF Tasks, Ordered, RequestsInv, CallerTask
<1>2. CASE FindSubscription(t) \/ FindCampaign(t)
  BY <1>1, <1>2, FindOrdered
<1>3. CASE SendDripEmail(t)
  BY <1>1, <1>3, SendOrdered
<1>4. CASE MoveToNextEmail(t)
  BY <1>1, <1>4, MoveOrdered
<1>5. CASE ScheduleNextEmail(t)
  BY <1>5, ScheduleOrdered
<1>6. CASE AddDripEmail(t)
  BY <1>6, AddOrdered
<1>7. CASE CompleteJob(t)
  BY <1>7, CompleteOrdered DEF CompleteJob
<1>. QED BY <1>2, <1>3, <1>4, <1>5, <1>6, <1>7 DEF Process

LEMMA SequenceNext == TypeOK /\ TypeOK' /\ SequenceInv /\ [Next]_vars => SequenceInv'
<1> SUFFICES ASSUME TypeOK, TypeOK', SequenceInv, [Next]_vars, Premise' PROVE Ordered'
  BY DEF SequenceInv
<1>1. /\ Premise /\ Counted
      /\ \A t \in Tasks : ~ProcessingError(t)
      /\ \A j \in JobId : ~Evict(j)
      /\ \A c \in Callers : ~RequestError(c) /\ ~ProcessActive(c) /\ ~UpdateCampaign(c)
      /\ ~Crash
  BY PremiseBefore DEF Counted
<1>2. Ordered
  BY <1>1 DEF SequenceInv
<1>3. ASSUME NEW t \in Tasks, Process(t) PROVE Ordered'
  BY <1>1, <1>2, <1>3, ProcessOrdered
<1>4. ASSUME NEW j \in JobId, TakeJob(j) PROVE Ordered'
  BY <1>2, <1>4, FindOrdered
<1>5. ASSUME NEW c \in Callers, Start(c) PROVE Ordered'
  BY <1>1, <1>2, <1>5, SubscribeOrdered, StopOrdered, ResumeOrdered, CampaignOrdered DEF Start
<1>6. ASSUME NEW c \in Callers, Request(c) PROVE Ordered'
  <2>1. ~BatchNext(c)
    BY <1>2 DEF BatchNext, At, Ordered, RequestsInv, CallerTask
  <2>. QED BY <1>1, <1>2, <1>6, <2>1, SubscribeOrdered, StopOrdered, ResumeOrdered, CampaignOrdered
           DEF Request
<1>7. CASE UNCHANGED vars
  BY <1>2, <1>7
     DEF vars, Ordered, RequestsInv, CallerTask, Stoppers, PausedQuietly, PassedOn, JobTask, InStep,
         Copied, HandsFresh, Single, Safe, MailOf, Threatens, Hands, Live, Index, At
<1>. QED BY <1>1, <1>3, <1>4, <1>5, <1>6, <1>7 DEF Next

LEMMA OrderedMail == TypeOK /\ SequenceInv => InSequence
<1> SUFFICES ASSUME TypeOK, Ordered, NEW s \in Subs
             PROVE  /\ Len(inbox[s]) <= Len(campaign.emails)
                    /\ \A k \in DOMAIN inbox[s] : inbox[s][k] = campaign.emails[k]
                    /\ rows[s].status = "completed" => inbox[s] = campaign.emails
  BY DEF SequenceInv, InSequence, Premise
<1>1. /\ MailOf(s) /\ inbox[s] \in Seq(Emails \cup {NoEmail})
      /\ campaign.emails \in Seq(Emails)
  BY EditionsTyped DEF Ordered, TypeOK, Campaign
<1>2. /\ DOMAIN inbox[s] = 1 .. Len(inbox[s]) /\ Len(inbox[s]) \in Nat
      /\ DOMAIN campaign.emails = 1 .. Len(campaign.emails) /\ Len(campaign.emails) \in Nat
  BY <1>1
<1>3. \A k \in DOMAIN inbox[s] : k <= Len(campaign.emails) /\ inbox[s][k] = campaign.emails[k]
  BY <1>1 DEF MailOf
<1>4. Len(inbox[s]) <= Len(campaign.emails)
  BY <1>2, <1>3
<1>5. ASSUME rows[s].status = "completed" PROVE inbox[s] = campaign.emails
  <2>1. ASSUME NEW j \in JobId, j[1] = s, At(j, "advance") PROVE FALSE
    <3>1. j[2] = Index(s) /\ j[2] + 1 \in DOMAIN campaign.emails
      BY <2>1 DEF Ordered, PassedOn, InStep, Live, At, Sending
    <3>2. Index(s) = Len(campaign.emails)
      BY <1>1, <1>5 DEF MailOf
    <3>. QED BY <3>1, <3>2, <1>2
  <2>2. Len(inbox[s]) = Len(campaign.emails)
    BY <1>1, <1>5, <2>1 DEF MailOf
  <2>. QED BY <1>1, <1>2, <1>3, <2>2
<1>. QED BY <1>3, <1>4, <1>5

(* Without faults, batch runs, edits and evictions a subscription is sent the *)
(* emails of the campaign, each once and in their order, and all of them if  *)
(* it is completed, whatever pauses, unsubscriptions, deletions and          *)
(* activations overlap with its jobs, and through a resume that is one of    *)
(* two calls (moveToNextEmail, scheduleNextEmail, resumeSubscription).       *)
THEOREM InSequenceCorrect == Spec => []InSequence
<1>1. Init => TypeOK /\ SequenceInv
  BY TypeInit, SequenceInit
<1>2. (TypeOK /\ SequenceInv) /\ [Next]_vars => (TypeOK /\ SequenceInv)'
  BY TypeNext, SequenceNext
<1>3. TypeOK /\ SequenceInv => InSequence
  BY OrderedMail
<1>. QED BY <1>1, <1>2, <1>3, PTL DEF Spec

=============================================================================
