---------------------------- MODULE DripCampaign ----------------------------
(***************************************************************************)
(* Drip campaigns of the marketing-automation service: DripCampaignService,  *)
(* the rows DripCampaignRepository keeps of the campaign and its             *)
(* subscriptions, and the Bull queue 'drip-email' that sends the emails.     *)
(*                                                                           *)
(* One campaign, several subscriptions.  processDripEmail is run by the      *)
(* queue's workers and by POST /drip-campaigns/process-active; both, and all *)
(* API calls, are tasks: sequences of actions, one for each await, with the  *)
(* local variables of the code in a record.                                  *)
(***************************************************************************)
EXTENDS Integers, Sequences, FiniteSets

CONSTANTS
  MaxSubs,      \* bound: subscriptions; their ids are in subscribed_at order
  Contacts,
  Emails,       \* identifiers of emails
  NoEmail,
  Editions,     \* the contents the emails column can have
  MaxEmails,    \* emails in an edition, at most
  Callers,      \* HTTP requests in flight at the same time
  Ops,          \* the API operations these requests make
  Concurrency,  \* jobs processed in parallel (server.ts: 10)
  MaxAttempts,  \* defaultJobOptions.attempts
  MaxCalls,     \* bound: API calls other than subscribe
  MaxFaults     \* bound: errors of the database, the mail or the queue, crashes
                \* of the process, and evictions

Subs == 1 .. MaxSubs
JobId == Subs \X (0 .. MaxEmails - 1)      \* `drip-<subscription>-<index>`

ASSUME DripAssumption ==
  /\ MaxSubs \in Nat \ {0}
  /\ Contacts # {} /\ Emails # {}
  /\ MaxEmails \in Nat
  /\ Editions # {}
  /\ \A d \in Editions : d \in Seq(Emails) /\ Len(d) <= MaxEmails
  /\ MaxAttempts \in Nat \ {0}
  /\ JobId \cap Callers = {}

VARIABLES
  campaign,   \* the email_campaigns row: status and emails
  rows,       \* the campaign_subscriptions rows
  jobs,       \* the queue
  task,       \* the local variables of workers (by job id) and requests
  inbox,      \* the emails each subscription has been sent, in order
  happened,   \* the operations, and "fault", that have happened
  calls, faults,
  offered     \* history: the editions the campaign had since each subscription began

vars == <<campaign, rows, jobs, task, inbox, happened, calls, faults, offered>>

-----------------------------------------------------------------------------
Tasks == JobId \cup Callers
SubStatus == {"none", "active", "paused", "unsubscribed", "completed", "deleted"}

AnyContact == CHOOSE c \in Contacts : TRUE

Exists(s) == rows[s].status \notin {"none", "deleted"}

(* Where a task goes when it is through with one subscription is its `back`: *)
(* a worker still has its progress to report, a list its next subscription.  *)
Idle == [pc |-> "idle", back |-> "idle", sub |-> 1, index |-> 0, email |-> NoEmail,
         emails |-> <<>>, contact |-> AnyContact, to |-> "paused", listed |-> {}, todo |-> {}]

NoJob == [state |-> "none", email |-> NoEmail, attempts |-> 0, stalls |-> 0]

Init ==
  /\ \E d \in Editions : d # <<>> /\ campaign = [status |-> "draft", emails |-> d]
  /\ rows = [s \in Subs |-> [status |-> "none", index |-> 0, contact |-> AnyContact,
                             dated |-> FALSE]]
  /\ jobs = [j \in JobId |-> NoJob]
  /\ task = [t \in Tasks |-> Idle]
  /\ inbox = [s \in Subs |-> <<>>]
  /\ happened = {} /\ calls = 0 /\ faults = 0
  /\ offered = [s \in Subs |-> {}]

-----------------------------------------------------------------------------
At(t, l) == task[t].pc = l

Leave(t) ==
  task' = [task EXCEPT ![t] = [Idle EXCEPT !.pc = task[t].back, !.back = task[t].back,
                                           !.todo = task[t].todo]]

(* processDripEmail returns, or throws: then Bull retries the job until its  *)
(* attempts run out; the batch goes on with the next subscription.           *)
Return(t) == Leave(t) /\ UNCHANGED jobs

Throw(t) ==
  \/ /\ t \in JobId
     /\ task' = [task EXCEPT ![t] = Idle]
     /\ jobs' = [jobs EXCEPT ![t].attempts = @ + 1,
                             ![t].state = IF jobs[t].attempts + 1 < MaxAttempts
                                          THEN "queued" ELSE "failed"]
  \/ t \notin JobId /\ Leave(t) /\ UNCHANGED jobs

(* The progress is reported and Bull moves the job to the completed set.     *)
CompleteJob(t) ==
  /\ t \in JobId
  /\ At(t, "done")
  /\ jobs' = [jobs EXCEPT ![t].state = "completed"]
  /\ task' = [task EXCEPT ![t] = Idle]
  /\ UNCHANGED <<campaign, rows, inbox, happened, calls, faults, offered>>

TakeJob(j) ==
  /\ jobs[j].state = "queued"
  /\ Cardinality({i \in JobId : jobs[i].state = "active"}) < Concurrency
  /\ jobs' = [jobs EXCEPT ![j].state = "active"]
  /\ task' = [task EXCEPT ![j] = [Idle EXCEPT !.pc = "findSubscription", !.back = "done",
                                              !.sub = j[1], !.email = jobs[j].email]]
  /\ UNCHANGED <<campaign, rows, inbox, happened, calls, faults, offered>>

(* processDripEmail.  The row is read here and its index used until the end. *)
FindSubscription(t) ==
  /\ At(t, "findSubscription")
  /\ LET s == task[t].sub
     IN  \/ /\ rows[s].status = "active"
            /\ task' = [task EXCEPT ![t].pc = "findCampaign", ![t].index = rows[s].index]
            /\ UNCHANGED jobs
         \/ Exists(s) /\ rows[s].status # "active" /\ Return(t)
         \/ ~Exists(s) /\ Throw(t)
  /\ UNCHANGED <<campaign, rows, inbox, happened, calls, faults, offered>>

HasEmail(e) == \E i \in DOMAIN campaign.emails : campaign.emails[i] = e

(* Mutant: an email of a paused campaign is skipped by moving on.            *)
FindCampaignSkips(t) ==
  /\ At(t, "findCampaign")
  /\ \/ /\ campaign.status = "active" /\ HasEmail(task[t].email)
        /\ task' = [task EXCEPT ![t].pc = "send", ![t].emails = campaign.emails]
     \/ /\ campaign.status \notin {"active", "deleted"}
        /\ task' = [task EXCEPT ![t].pc = "advance", ![t].emails = campaign.emails]
  /\ UNCHANGED <<campaign, rows, jobs, inbox, happened, calls, faults, offered>>

FindCampaign(t) ==
  /\ At(t, "findCampaign")
  /\ \/ /\ campaign.status = "active" /\ HasEmail(task[t].email)
        /\ task' = [task EXCEPT ![t].pc = "send", ![t].emails = campaign.emails]
        /\ UNCHANGED jobs
     \/ campaign.status \notin {"active", "deleted"} /\ Return(t)
     \/ (campaign.status = "deleted" \/ (campaign.status = "active" /\ ~HasEmail(task[t].email)))
          /\ Throw(t)
  /\ UNCHANGED <<campaign, rows, inbox, happened, calls, faults, offered>>

SendDripEmail(t) ==
  /\ At(t, "send")
  /\ inbox' = [inbox EXCEPT ![task[t].sub] = Append(@, task[t].email)]
  /\ task' = [task EXCEPT ![t].pc = "advance"]
  /\ UNCHANGED <<campaign, rows, jobs, happened, calls, faults, offered>>

(* Mutant: the subscription completes one email early.                       *)
MoveToNextEmailEarly(t) ==
  /\ At(t, "advance")
  /\ LET s == task[t].sub
         next == task[t].index + 1
     IN  \/ /\ next >= Len(task[t].emails) - 1
            /\ rows' = IF Exists(s) THEN [rows EXCEPT ![s].status = "completed", ![s].index = next]
                       ELSE rows
            /\ Return(t)
         \/ /\ next < Len(task[t].emails) - 1 /\ Exists(s)
            /\ rows' = [rows EXCEPT ![s].index = next]
            /\ task' = [task EXCEPT ![t].pc = "schedule", ![t].index = next]
            /\ UNCHANGED jobs
  /\ UNCHANGED <<campaign, inbox, happened, calls, faults, offered>>

(* moveToNextEmail: the index read at the start, plus one, is written over   *)
(* whatever the row says by now; the last email completes the subscription.  *)
MoveToNextEmail(t) ==
  /\ At(t, "advance")
  /\ LET s == task[t].sub
         next == task[t].index + 1
     IN  \/ /\ next >= Len(task[t].emails)
            /\ rows' = IF Exists(s) THEN [rows EXCEPT ![s].status = "completed", ![s].index = next]
                       ELSE rows
            /\ Return(t)
         \/ /\ next < Len(task[t].emails)
            /\ IF Exists(s)
               THEN /\ rows' = [rows EXCEPT ![s].index = next]
                    /\ task' = [task EXCEPT ![t].pc = "schedule", ![t].index = next]
                    /\ UNCHANGED jobs
               ELSE Return(t) /\ UNCHANGED rows
  /\ UNCHANGED <<campaign, inbox, happened, calls, faults, offered>>

(* Mutant: next_email_at is set and the email is left to the batch.          *)
ScheduleNextEmailDateOnly(t) ==
  /\ At(t, "schedule")
  /\ rows' = [rows EXCEPT ![task[t].sub].dated = TRUE]
  /\ Return(t)
  /\ UNCHANGED <<campaign, inbox, happened, calls, faults, offered>>

(* scheduleNextEmail, with the campaign the task has read: next_email_at is  *)
(* set for the email the subscription is at, if there is one, ...            *)
ScheduleNextEmail(t) ==
  /\ At(t, "schedule")
  /\ LET s == task[t].sub
         k == task[t].index + 1
     IN  \/ /\ k \in DOMAIN task[t].emails
            /\ rows' = IF Exists(s) THEN [rows EXCEPT ![s].dated = TRUE] ELSE rows
            /\ task' = [task EXCEPT ![t].pc = "addJob", ![t].email = task[t].emails[k]]
            /\ UNCHANGED jobs
         \/ /\ k \notin DOMAIN task[t].emails
            /\ Return(t)
            /\ UNCHANGED rows
  /\ UNCHANGED <<campaign, inbox, happened, calls, faults, offered>>

EmailJob(e) == [NoJob EXCEPT !.state = "queued", !.email = e]

(* Mutant: job ids that are not unique per email.                            *)
AddDripEmailAgain(t) ==
  /\ At(t, "addJob")
  /\ jobs' = [jobs EXCEPT ![<<task[t].sub, task[t].index>>] = EmailJob(task[t].email)]
  /\ Leave(t)
  /\ UNCHANGED <<campaign, rows, inbox, happened, calls, faults, offered>>

(* ... and the email is queued, unless Bull still knows its job id.          *)
AddDripEmail(t) ==
  /\ At(t, "addJob")
  /\ LET id == <<task[t].sub, task[t].index>>
     IN  jobs' = IF jobs[id].state # "none" THEN jobs
                 ELSE [jobs EXCEPT ![id] = EmailJob(task[t].email)]
  /\ Leave(t)
  /\ UNCHANGED <<campaign, rows, inbox, happened, calls, faults, offered>>

Fault(kind) ==
  /\ faults < MaxFaults
  /\ faults' = faults + 1
  /\ happened' = happened \cup {kind}

(* removeOnComplete and removeOnFail: newer jobs push a finished one out.    *)
Evict(j) ==
  /\ jobs[j].state \in {"completed", "failed"}
  /\ jobs' = [jobs EXCEPT ![j] = NoJob]
  /\ Fault("evict")
  /\ UNCHANGED <<campaign, rows, task, inbox, calls, offered>>

-----------------------------------------------------------------------------
(* API calls.                                                                *)
Begin(c, op) ==
  /\ op \in Ops
  /\ At(c, "idle")
  /\ calls < MaxCalls
  /\ calls' = calls + 1
  /\ happened' = happened \cup {op}

(* Bound: a subscribe begins only while there is an id for each one begun.   *)
IdLeft ==
  Cardinality({c \in Callers : task[c].pc \in {"findExisting", "create"}})
    < Cardinality({s \in Subs : rows[s].status = "none"})

(* subscribeToCampaign reads the campaign, ...                               *)
Subscribe(c) ==
  /\ At(c, "idle")
  /\ campaign.status = "active"
  /\ IdLeft
  /\ \E x \in Contacts :
       task' = [task EXCEPT ![c].pc = "findExisting", ![c].contact = x,
                            ![c].emails = campaign.emails]
  /\ UNCHANGED <<campaign, rows, jobs, inbox, happened, calls, faults, offered>>

(* ... looks for an active subscription of the contact, ...                  *)
FindExisting(c) ==
  /\ At(c, "findExisting")
  /\ IF \E s \in Subs : rows[s].status = "active" /\ rows[s].contact = task[c].contact
     THEN Leave(c)
     ELSE task' = [task EXCEPT ![c].pc = "create"]
  /\ UNCHANGED <<campaign, rows, jobs, inbox, happened, calls, faults, offered>>

(* ... inserts one and schedules its first email.                            *)
CreateSubscription(c) ==
  /\ At(c, "create")
  /\ \E s \in Subs :
       /\ rows[s].status = "none"
       /\ \A r \in 1 .. (s - 1) : rows[r].status # "none"
       /\ rows' = [rows EXCEPT ![s] = [status |-> "active", index |-> 0, dated |-> FALSE,
                                       contact |-> task[c].contact]]
       /\ offered' = [offered EXCEPT ![s] = {campaign.emails}]
       /\ task' = [task EXCEPT ![c].pc = "schedule", ![c].sub = s, ![c].index = 0]
  /\ UNCHANGED <<campaign, jobs, inbox, happened, calls, faults>>

(* unsubscribeFromCampaign and pauseSubscription remove the pending jobs one *)
(* by one and then write the status, whatever it was.                        *)
StopSubscription(c, op, to) ==
  /\ Begin(c, op)
  /\ \E s \in Subs :
       /\ rows[s].status # "none"
       /\ task' = [task EXCEPT ![c].pc = "listJobs", ![c].sub = s, ![c].to = to]
  /\ UNCHANGED <<campaign, rows, jobs, inbox, faults, offered>>

Unsubscribe(c) == StopSubscription(c, "unsubscribe", "unsubscribed")
PauseSubscription(c) == StopSubscription(c, "pause", "paused")

ListJobs(c) ==
  /\ At(c, "listJobs")
  /\ task' = [task EXCEPT ![c].pc = "removeJobs",
       ![c].listed = {j \in JobId : j[1] = task[c].sub /\ jobs[j].state = "queued"}]
  /\ UNCHANGED <<campaign, rows, jobs, inbox, happened, calls, faults, offered>>

(* job.remove() throws for a job that is being processed: the call ends.     *)
RemoveJob(c) ==
  /\ At(c, "removeJobs")
  /\ \E j \in task[c].listed :
       \/ /\ jobs[j].state = "active"
          /\ task' = [task EXCEPT ![c] = Idle]
          /\ UNCHANGED jobs
       \/ /\ jobs[j].state # "active"
          /\ jobs' = [jobs EXCEPT ![j] = NoJob]
          /\ task' = [task EXCEPT ![c].listed = @ \ {j}]
  /\ UNCHANGED <<campaign, rows, inbox, happened, calls, faults, offered>>

(* Mutant: the status is named after the queue operation.                    *)
SetCancelled(c) ==
  /\ At(c, "removeJobs")
  /\ task[c].listed = {}
  /\ rows' = [rows EXCEPT ![task[c].sub].status = "cancelled"]
  /\ Leave(c)
  /\ UNCHANGED <<campaign, jobs, inbox, happened, calls, faults, offered>>

SetStopped(c) ==
  /\ At(c, "removeJobs")
  /\ task[c].listed = {}
  /\ rows' = IF Exists(task[c].sub) THEN [rows EXCEPT ![task[c].sub].status = task[c].to]
             ELSE rows
  /\ Leave(c)
  /\ UNCHANGED <<campaign, jobs, inbox, happened, calls, faults, offered>>

(* resumeSubscription checks the row, then the campaign, sets the row active *)
(* and schedules the email the updated row is at.                            *)
ResumeSubscription(c) ==
  /\ Begin(c, "resume")
  /\ \E s \in Subs :
       /\ rows[s].status = "paused"
       /\ task' = [task EXCEPT ![c].pc = "resumeCampaign", ![c].sub = s]
  /\ UNCHANGED <<campaign, rows, jobs, inbox, faults, offered>>

ResumeCampaign(c) ==
  /\ At(c, "resumeCampaign")
  /\ IF campaign.status = "deleted" THEN Leave(c)
     ELSE task' = [task EXCEPT ![c].pc = "setActive", ![c].emails = campaign.emails]
  /\ UNCHANGED <<campaign, rows, jobs, inbox, happened, calls, faults, offered>>

SetActive(c) ==
  /\ At(c, "setActive")
  /\ LET s == task[c].sub
     IN  IF Exists(s)
         THEN /\ rows' = [rows EXCEPT ![s].status = "active"]
              /\ task' = [task EXCEPT ![c].pc = "schedule", ![c].index = rows[s].index]
         ELSE Leave(c) /\ UNCHANGED rows
  /\ UNCHANGED <<campaign, jobs, inbox, happened, calls, faults, offered>>

(* pauseDripCampaign: the campaign first, then every subscription that was   *)
(* active in the list read next (a page of 1000).                            *)
PauseCampaign(c) ==
  /\ Begin(c, "pauseCampaign")
  /\ campaign.status # "deleted"
  /\ campaign' = [campaign EXCEPT !.status = "paused"]
  /\ task' = [task EXCEPT ![c].pc = "listSubscriptions", ![c].back = "pauseNext"]
  /\ UNCHANGED <<rows, jobs, inbox, faults, offered>>

ActiveRows == {<<s, rows[s].index>> : s \in {r \in Subs : rows[r].status = "active"}}

ListSubscriptions(c) ==
  /\ At(c, "listSubscriptions")
  /\ task' = [task EXCEPT ![c].pc = "pauseNext", ![c].todo = ActiveRows]
  /\ UNCHANGED <<campaign, rows, jobs, inbox, happened, calls, faults, offered>>

PauseNext(c) ==
  /\ At(c, "pauseNext")
  /\ \/ /\ task[c].todo = {}
        /\ task' = [task EXCEPT ![c] = Idle]
     \/ \E x \in task[c].todo :
          task' = [task EXCEPT ![c].pc = "listJobs", ![c].sub = x[1], ![c].to = "paused",
                               ![c].todo = @ \ {x}]
  /\ UNCHANGED <<campaign, rows, jobs, inbox, happened, calls, faults, offered>>

(* processActiveSubscriptions: processDripEmail for each of the active       *)
(* subscriptions with a date, at the email its row was at in the list.       *)
ProcessActive(c) ==
  /\ Begin(c, "batch")
  /\ task' = [task EXCEPT ![c].pc = "batchNext", ![c].back = "batchNext",
       ![c].todo = IF campaign.status # "active" THEN {}
                   ELSE {x \in ActiveRows : rows[x[1]].dated}]
  /\ UNCHANGED <<campaign, rows, jobs, inbox, faults, offered>>

BatchNext(c) ==
  /\ At(c, "batchNext")
  /\ \/ /\ task[c].todo = {}
        /\ task' = [task EXCEPT ![c] = Idle]
     \/ \E x \in task[c].todo :
          \/ /\ campaign.status = "active" /\ x[2] + 1 \in DOMAIN campaign.emails
             /\ task' = [task EXCEPT ![c].pc = "findSubscription", ![c].sub = x[1],
                           ![c].email = campaign.emails[x[2] + 1], ![c].todo = @ \ {x}]
          \/ /\ campaign.status # "active" \/ x[2] + 1 \notin DOMAIN campaign.emails
             /\ task' = [task EXCEPT ![c].todo = @ \ {x}]
  /\ UNCHANGED <<campaign, rows, jobs, inbox, happened, calls, faults, offered>>

(* activateDripCampaign and updateDripCampaign are one UPDATE each.          *)
ActivateCampaign(c) ==
  /\ "activate" \in Ops
  /\ At(c, "idle")
  /\ campaign.status \notin {"active", "deleted"}
  /\ campaign.status = "draft" \/ calls < MaxCalls
  /\ calls' = IF campaign.status = "draft" THEN calls ELSE calls + 1
  /\ campaign' = [campaign EXCEPT !.status = "active"]
  /\ UNCHANGED <<rows, jobs, task, inbox, happened, faults, offered>>

UpdateCampaign(c) ==
  /\ Begin(c, "update")
  /\ campaign.status # "deleted"
  /\ \E d \in Editions, st \in {"active", "paused", "completed", "draft"} :
       campaign' = [status |-> st, emails |-> d]
  /\ offered' = [s \in Subs |-> IF rows[s].status = "none" THEN {}
                               ELSE offered[s] \cup {campaign'.emails}]
  /\ UNCHANGED <<rows, jobs, task, inbox, faults>>

(* deleteDripCampaign looks at the latest subscription only.  No migration   *)
(* creates campaign_subscriptions: whether a delete cascades is left open.   *)
DeleteCampaign(c) ==
  /\ Begin(c, "delete")
  /\ campaign.status # "deleted"
  /\ \A s \in Subs : rows[s].status = "active" =>
       \E r \in (s + 1) .. MaxSubs : Exists(r)
  /\ task' = [task EXCEPT ![c].pc = "delete"]
  /\ UNCHANGED <<campaign, rows, jobs, inbox, faults, offered>>

DeleteRows(c) ==
  /\ At(c, "delete")
  /\ campaign' = [campaign EXCEPT !.status = "deleted"]
  /\ \/ rows' = [s \in Subs |-> IF Exists(s) THEN [rows[s] EXCEPT !.status = "deleted"]
                                ELSE rows[s]]
     \/ UNCHANGED rows
  /\ Leave(c)
  /\ UNCHANGED <<jobs, inbox, happened, calls, faults, offered>>

-----------------------------------------------------------------------------
(* Failures.                                                                 *)
Processing == {"findSubscription", "findCampaign", "send", "advance", "schedule", "addJob",
               "done"}

(* An await of processDripEmail, or a job.progress call around it, rejects.  *)
(* A mail may have been sent all the same, and next_email_at written.        *)
ProcessingError(t) ==
  /\ task[t].pc \in Processing
  /\ Fault("fault")
  /\ inbox' \in IF At(t, "send")
                THEN {inbox, [inbox EXCEPT ![task[t].sub] = Append(@, task[t].email)]}
                ELSE {inbox}
  /\ rows' \in IF At(t, "schedule") /\ Exists(task[t].sub)
               THEN {rows, [rows EXCEPT ![task[t].sub].dated = TRUE]} ELSE {rows}
  /\ Throw(t)
  /\ UNCHANGED <<campaign, calls, offered>>

(* An await of a request does; the batch goes on with the next subscription. *)
RequestError(c) ==
  /\ task[c].pc \notin Processing \cup {"idle"}
  /\ Fault("fault")
  /\ \/ /\ ~At(c, "batchNext")
        /\ task' = [task EXCEPT ![c] = Idle]
     \/ /\ At(c, "batchNext")
        /\ \E x \in task[c].todo : task' = [task EXCEPT ![c].todo = @ \ {x}]
  /\ UNCHANGED <<campaign, rows, jobs, inbox, calls, offered>>

(* The process dies: its requests end; Bull runs its jobs once more, and     *)
(* fails them the second time.                                               *)
Crash ==
  /\ Fault("fault")
  /\ task' = [t \in Tasks |-> Idle]
  /\ jobs' = [j \in JobId |->
       IF jobs[j].state # "active" THEN jobs[j]
       ELSE [jobs[j] EXCEPT !.stalls = 1, !.state = IF jobs[j].stalls = 0 THEN "queued" ELSE "failed"]]
  /\ UNCHANGED <<campaign, rows, inbox, calls, offered>>

-----------------------------------------------------------------------------
Process(t) ==
  \/ FindSubscription(t) \/ FindCampaign(t) \/ SendDripEmail(t)
  \/ MoveToNextEmail(t) \/ ScheduleNextEmail(t) \/ AddDripEmail(t) \/ CompleteJob(t)

Request(c) ==
  \/ FindExisting(c) \/ CreateSubscription(c)
  \/ ListJobs(c) \/ RemoveJob(c) \/ SetStopped(c)
  \/ ResumeCampaign(c) \/ SetActive(c)
  \/ ListSubscriptions(c) \/ PauseNext(c) \/ BatchNext(c) \/ DeleteRows(c)

Start(c) ==
  \/ Subscribe(c) \/ Unsubscribe(c) \/ PauseSubscription(c) \/ ResumeSubscription(c)
  \/ PauseCampaign(c) \/ ProcessActive(c)
  \/ ActivateCampaign(c) \/ UpdateCampaign(c) \/ DeleteCampaign(c)

Next ==
  \/ \E t \in Tasks : Process(t) \/ ProcessingError(t)
  \/ \E j \in JobId : TakeJob(j) \/ Evict(j)
  \/ \E c \in Callers : Start(c) \/ Request(c) \/ RequestError(c)
  \/ Crash

Spec == Init /\ [][Next]_vars

(* Bull's workers and an accepted request keep going.                        *)
Fairness ==
  /\ \A t \in Tasks : WF_vars(Process(t))
  /\ \A j \in JobId : WF_vars(TakeJob(j))
  /\ \A c \in Callers : WF_vars(Request(c))

FairSpec == Spec /\ Fairness

-----------------------------------------------------------------------------
Campaign == [status : {"draft", "active", "paused", "completed", "deleted"}, emails : Editions]

Row == [status : SubStatus, index : Nat, contact : Contacts, dated : BOOLEAN]

Job == [state : {"none", "queued", "active", "completed", "failed"},
        email : Emails \cup {NoEmail}, attempts : Nat, stalls : 0 .. 1]

TaskPc == Processing \cup {"idle", "findExisting", "create", "listJobs", "removeJobs",
            "resumeCampaign", "setActive", "delete", "listSubscriptions", "pauseNext", "batchNext"}

Task == [pc : TaskPc, back : {"idle", "done", "pauseNext", "batchNext"}, sub : Subs, index : Nat,
         email : Emails \cup {NoEmail}, emails : Editions \cup {<<>>}, contact : Contacts,
         to : {"paused", "unsubscribed"}, listed : SUBSET JobId, todo : SUBSET (Subs \X Nat)]

TypeOK ==
  /\ campaign \in Campaign
  /\ rows \in [Subs -> Row]
  /\ jobs \in [JobId -> Job]
  /\ task \in [Tasks -> Task]
  /\ inbox \in [Subs -> Seq(Emails \cup {NoEmail})]
  /\ happened \subseteq Ops \cup {"fault", "evict"}
  /\ calls \in Nat /\ faults \in Nat
  /\ offered \in [Subs -> SUBSET Editions]

(* However often jobs are retried, stalled, run beside the batch or written  *)
(* with a stale index, a subscription is never ahead of its mail: its index  *)
(* is at most the number of emails it has been sent (moveToNextEmail).       *)
NeverAheadOfMail == \A s \in Subs : rows[s].index <= Len(inbox[s])

(* A subscription is completed only after as many emails as the campaign had *)
(* at some time since the subscription began: no fault, stale index, batch   *)
(* run or edit completes it earlier than one of those editions does.         *)
CompletionIsEarned ==
  \A s \in Subs : rows[s].status = "completed" =>
    \E d \in offered[s] : Len(d) <= Len(inbox[s])

Quiet(ops) == happened \cap ops = {}

(* Without faults, batch runs, edits and evictions each subscription is sent *)
(* the emails of the campaign in order, each once, and a completed one has   *)
(* been sent all: whatever pauses and unsubscriptions overlap, and through a *)
(* resume, unless that overlaps two other calls (cancelDripSubscription).    *)
InSequence ==
  (/\ Quiet({"fault", "batch", "update", "evict"})
   /\ Quiet({"resume"}) \/ calls <= 2) =>
    \A s \in Subs :
      /\ Len(inbox[s]) <= Len(campaign.emails)
      /\ \A k \in DOMAIN inbox[s] : inbox[s][k] = campaign.emails[k]
      /\ rows[s].status = "completed" => inbox[s] = campaign.emails

(* A subscription that is left alone, in a campaign that is, ends.           *)
EverySubscriptionEnds ==
  \A s \in Subs :
    rows[s].status = "active"
      ~> \/ rows[s].status # "active"
         \/ ~Quiet({"fault", "batch", "update", "pause", "pauseCampaign", "delete"})

-----------------------------------------------------------------------------
(* What a test says of the service and it does not do; refuted by a run of   *)
(* its own (README.md, findings).                                            *)

(* "should complete campaign when all emails sent": in a campaign that is    *)
(* not edited a completed subscription has been sent each of its emails.     *)
CompletedWhenAllSent ==
  Quiet({"update"}) =>
    \A s \in Subs, i \in DOMAIN campaign.emails :
      rows[s].status = "completed" => \E k \in DOMAIN inbox[s] : inbox[s][k] = campaign.emails[i]

=============================================================================
