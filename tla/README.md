# Newsletter CRM: TLA+ models

Formal models of the stateful cores of the newsletter CRM, the TLC configurations that
check them and proofs that TLAPS checks. Paths are relative to `src/`. Short names:

| name | directory |
| --- | --- |
| MA | `services/marketing-automation-service/src` |
| infra | `infrastructure/utils` |
| billing | `services/billing-service/src` |
| news | `services/newsletter-service/src` |

1. [The system](#1-the-system): components, state, interactions, hazards
2. [Modules](#2-modules): what models what, and how
3. [Runs](#3-runs): questions, bounds, fairness
4. [Proofs](#4-proofs): what holds for every value of the constants, and why
5. [Where code and documents disagree](#5-where-code-and-documents-disagree)
6. [What is not modelled](#6-what-is-not-modelled)
7. [Plan](#7-plan)

## 1. The system

Node services over PostgreSQL, Redis (with Bull job queues), RabbitMQ and Stripe. Each
service is one event loop: what runs between two `await`s is atomic, and everything else
interleaves, with other requests, with Bull's workers, with timers and with other
processes. That is the grain of all models: an action is what the code does from one
`await` to the next.

| component | state it keeps | operations | correct when |
| --- | --- | --- | --- |
| **Workflow engine** (MA: `services/WorkflowService.ts`, `repositories/WorkflowRepository.ts`, `utils/queue.ts`, `processors/WorkflowProcessor.ts`) | rows `workflows`, `workflow_executions` (status, current step, log); Bull queue `workflow-execution` | trigger, pause and resume (workflow, execution), activate, update, delete; the step handler | steps run in the order of the graph, a step's effect happens once per execution, an execution ends and its outcome is logged |
| **Drip campaigns** (MA: `services/DripCampaignService.ts`, `repositories/DripCampaignRepository.ts`, `utils/queue.ts`, `processors/DripEmailProcessor.ts`) | rows `email_campaigns`, `campaign_subscriptions` (status, index, date of the next email); Bull queue `drip-email` | subscribe, unsubscribe, pause, resume, pause/activate/update/delete the campaign, the email handler, the batch run | a contact gets the emails in order, each once, and is completed after the last |
| **Circuit breaker** (infra: `circuit-breaker.ts`) | state, counters, instants, a monitoring timer | execute, reset, forceOpen, forceClosed, destroy; results and timers | an open breaker lets nothing through for a reset period; only fresh results change its mind |
| **Message bus** (infra: `message-bus.ts`) | RabbitMQ connection and channel, handlers, queues per service, shared retry queues, a dead letter queue | publishEvent, subscribe, unsubscribe, retry, reconnect | a published event is handled by every subscriber or given up after all retries |
| **Event coordinator** (infra: `event-coordinator.ts`) | a breaker per subscription and per target | subscribe with breaker, call with breaker, request/response | a failing handler does not harm the others |
| **Billing** (billing: `services/SubscriptionService.ts`, `repositories/BillingRepository.ts`) | rows of subscriptions, usage records and events; Stripe's customers and subscriptions | create, update, cancel, record usage, sync | the row follows Stripe, nothing is charged unseen, a user has one live subscription |
| **Content library and approval** (news: `services/ContentLibraryService.ts`, `services/ApprovalWorkflowService.ts`, `repositories/ContentLibraryRepository.ts`) | rows `content_library_items` and `approval_workflows` (status, stage, votes as JSON); a cached copy of the item in Redis | create, read, update, approve, reject, archive, delete an item; vote, cancel a workflow | a workflow is what its votes make of it, no vote is lost, readers get no old copy after an update |
| **Email sender** (`services/shared/email/OptimizedEmailSender.ts`) | batches in each process's memory, intervals, a Bull queue of batches all processes share | queueEmail, queueBulkEmails, the batch timer, pauseSending, resumeSending, the workers | an email handed over is in one place until it is mailed, once |
| Newsletters (news: `services/NewsletterService.ts`) | newsletter row, schedule row, delayed job | edit, schedule, cancel | see section 6: nothing sends them |
| **Service discovery** (infra) | cache of instances, health checks | register, resolve, check | an instance that is down leaves the rotation and returns |
| **Monitoring** (`services/monitoring`) | alerts in memory, rules | evaluate, acknowledge, resolve | a rule that matches again raises an alert again |
| CRM, users, content, analytics, deliverability, front end, gateway | rows | mostly single statements | see section 6 |

How they interact. An HTTP request of MA writes rows and adds Bull jobs; Bull's workers
(`MA/server.ts`: 5 for workflows, 10 for drip emails) run the handlers, which read and write
the same rows and add the next jobs; there are no transactions across the steps of a
handler, no row versions and no locks. Services exchange events through the bus, each
handler wrapped in a circuit breaker by the coordinator. Rows and jobs live in two stores
that fail independently: a crash or an error leaves any prefix of a handler's writes.

What is hard to test here, and what the models are therefore about (PROJECT.json lists
each hazard at its line, with the property that watches it):

- a **stale read written back**: the status of an execution, the index of a subscription and
  the steps of a workflow are read once and used after several awaits;
- **job ids as locks**: Bull's `add` ignores an id it still knows, finished or not, so an id
  both deduplicates (a join of two branches) and swallows (a resume of a finished step);
- **list, then remove**: pausing lists pending jobs and removes them one by one while the
  workers go on;
- **retries of what was half done**: Bull runs a failed handler again from the start;
- **stale outcomes**: results of calls a breaker admitted in an earlier state;
- **fan-out of retries**: a retried event goes to all subscribers again;
- **whole rows written back**: a vote writes the workflow it read, with all its votes, over whatever
  the row holds by then; a cache is filled with a row read before an update;
- **half done between two systems**: Stripe has charged and the database does not know it; a batch has
  left memory and the queue does not have it yet;
- **check, then act at a distance**: a user's active subscription is looked for several calls to Stripe
  before the new row is inserted;
- **overlapping repairs**: reconnect timers that are not cancelled, connects that share the
  fields they assign, a disconnect whose close handler reconnects.

## 2. Modules

| module | models | checked by | proved in |
| --- | --- | --- | --- |
| `WorkflowEngine` | workflow engine and its queue | `WfRequests`, `WfRuns`, `WfResume` | `WorkflowEngineProofs` |
| `DripCampaign` | drip campaigns and their queue | `Drip`, `DripCompletion` | `DripCampaignProofs` |
| `BreakerContract` | what a breaker promises its callers (abstract) | `Breaker` (`ContractSpec`) | `CircuitBreakerProofs` |
| `CircuitBreaker` | one breaker, its calls, operators and timers | `Breaker` | `CircuitBreakerProofs` |
| `DeliveryContract` | what the bus promises of published events (abstract) | `Events` (`ContractSpec`) | `EventDeliveryProofs` |
| `EventDelivery` | one event type through bus, queues, retries and breakers | `Events` | `EventDeliveryProofs` |
| `BusConnection` | one bus's connection: connect, disconnect, subscribe, losses, reconnects | `BusConnection`, `BusResubscribe` | `BusConnectionProofs` |
| `SenderContract` | what the email sender promises of the emails handed to it (abstract) | `Batching` (`ContractSpec`) | `EmailBatchingProofs` |
| `EmailBatching` | the email sender of every process and their queue of batches | `Batching` | `EmailBatchingProofs` |
| `BillingSubscription` | subscriptions at Stripe and as rows, and the requests between them | `Billing` | `BillingSubscriptionProofs` |
| `ContentApproval` | an item of the content library, its approval workflow and its cached copy | `Approval` | `ContentApprovalProofs` |
| `MC...` | the instances: graphs, editions, names | | |

Definitions named *Mutant* are variants of the code with a plausible bug. No specification
uses them: substituted for the definition after them, each makes one property fail, which
shows that the property depends on that line of the code.

### WorkflowEngine

One workflow and any number of its executions.

| code | model |
| --- | --- |
| `workflows` row | `wfStatus`, `def` (the steps column: ids, types, `nextSteps`) |
| `workflow_executions` rows | `status`, `currentStep`, `log` (entries of each kind per step), `created` (order of `started_at`) |
| Bull queue | `jobs` (state of each id), `attempts`, `stalls` |
| ids `workflow-<exec>-<step>`, and with `Date.now()` for delayed steps | `<<e, s, 0>>`, and `<<e, s, n>>` for the n-th delayed job |
| local variables of `executeWorkflowStep` | `pc`, `todo`, `jobDef` (the workflow as read), `branch` |
| local variables of an API call | `callPc`, `callExec`, `callTodo`, `callJobs`, `callStep`, `callDef` |
| emails, tags, scores, segments, webhooks | `effects`, counted per execution and step |

`TakeJob .. JobCompleted / JobFailed` is the handler, one action per await: find the
execution (missing: error; not running: skip), find the workflow, log the start, set the
current step, execute by type, log the completion, queue the next steps or complete. An
error at any of them goes to the catch block (`LogFailure`, `SetFailed`, `JobFailed`), an error in
the catch block throws at once, and so does a rejected `job.progress` (`WorkflowProcessor.ts:28`, before the execution
is read, and `:34`, when the step is done): the step is then retried although it took effect. API calls are sequences in the same way; `RemoveJob` throws
when a worker holds the job. `Crash` ends all calls and requeues what workers held, once
(`maxStalledCount`). `Evict` is `removeOnComplete`/`removeOnFail`. `pausedOnce` (executions that were ever paused) and
`resumes` (how often each was resumed since) are history, for properties only.

### DripCampaign

One campaign. `campaign` and `rows` are its rows, `jobs` the queue, `task` the local variables of
every worker, request and batch run in one record each; `inbox` is the mail a subscription
was sent, `offered` the editions the campaign had since it began, and `happened` the kinds of requests and faults so far, for properties only.
`processDripEmail` is the same sequence for a worker and for the batch
(`POST /process-active`): `FindSubscription` (reads the index), `FindCampaign`, `SendDripEmail`,
`MoveToNextEmail` (writes index + 1), `ScheduleNextEmail` (the date), `AddDripEmail` (the next job), and for a worker
`CompleteJob` (progress 100 and the end of the job): an error or a crash before it leaves the next job queued and the current one to be retried.
No migration creates `campaign_subscriptions`, and `email_campaigns`
(`infrastructure/database/migrations/001_initial_schema.sql:250`) has neither the statuses nor the emails column
the service uses: the model assumes the schema the service's SQL presumes, and leaves
open whether deleting a campaign deletes its subscriptions.

### CircuitBreaker and BreakerContract

The functions are synchronous up to the call, so each is one action; results return in any
order (`Succeed`, `Fail`, `TimeOut`). Time is relative and saturates where the code cannot tell
values apart any more; `Tick` waits for due timers. `admitted` is history.
`BreakerContract` keeps the mode, how long an open breaker still refuses, and the calls in
flight; `CircuitBreaker` implements it under
`mode <- state, hold <- nextAttempt (0 if none), inFlight <- running calls`.

### EventDelivery and DeliveryContract

Composes the bus with the breakers of its subscribers. A copy is `<<service, event, retries>>`; equal
copies are counted. What RabbitMQ has given to a service and has no answer for is in one of three places: `unacked`
(its handler runs), `retrying` (it was rejected, and `retryMessage` awaits the declaration of its retry queue) and `answered` (its `ack`
or `nack` was written, and RabbitMQ has not heard it yet).

`publishEvent` routes to every bound queue; `Deliver`, `Handle`, `Fail` and
`Refuse` are the consumer with the coordinator's breaker around the handler. The catch block `Reject` drops the
copy after its last retry, or goes on to `retryMessage`, which publishes it to the retry queue, named after the
routing key and so shared by the services, and acknowledges it. `Remove` is the moment RabbitMQ hears the answer. `Crash` requeues all three
places, so that a crash between the publish and the acknowledgement leaves the event in both queues, and one between the handler's return and the
acknowledgement has it handled again. `Expire` returns a copy from its retry queue to the exchange, that is to *every* service.
The breaker is the abstract one of `BreakerContract`, with time reduced to "still resting or
not", so nothing about thresholds is assumed.
The channel is assumed to stay open apart from `Crash` (so `retryMessage` never leaves at its check of `this.channel`);
`BusConnection` models how it is lost and repaired, without the events that travel on it.

`DeliveryContract` has no queues, copies, breakers or crashes: an event is `owed` to services. A service answers it by handling it or giving it up, and may do so
again until the bus has word of it (`Settle`), which is when it is no longer owed. `EventDelivery` implements it
under `owed <- Owed`, the pairs of a service and an event of which some copy may still reach it or is not answered for (in its queue, with its handler, on its way to
a retry queue or in one, which is everyone's, or with an answer on the way), and `givenUp <- dropped`.
Publishing and every retry make the event owed to all services, also to those that had handled it; deliveries, expiries, recoveries of breakers and crashes are stutters.

### BusConnection

| code | model |
| --- | --- |
| `this.connection`, `this.channel`, `this.isConnected`, `this.reconnectAttempts` | variables of these names; each connection has one channel and shares its name |
| `this.handlers` (Map of arrays) | `keys` (insertion order), `handlers` (length of each array, counted up to `MaxHandlers`) |
| pending `setTimeout`s | `timers` (they are all alike) |
| calls under way, each at an `await` | `task` |
| RabbitMQ's side | `alive`, `open`, `consumers`; `watched` counts the close handlers on a connection |
| - | `overlapped`, `disconnected`, `broken`: history, for properties only |

A task reads the shared fields anew after each `await`, as the code does: `CreateChannel` attaches the
close handlers to whatever `this.connection` is by then, and `Setup` stands at the four awaits of `setupExchanges` and
`setupDeadLetterQueue` in turn, each on whatever `this.channel` is by then: a channel that is closed or null in the middle makes `connect` fail, one that
is null before the dead letter queue skips it (`SetupOver`). The three awaits of `subscribe` (queue, binding,
consumer) are one step (`Subscribed`) on what `this.channel` is at their end: that they fail because an older channel closed although a new one is there by then is left out.
A failed `connect` calls `handleReconnect` itself, and a timer that called it does so again (`Reconnects`).
`Walk` is the loop over the handlers; `subscribe` appends to the array it walks (`Store`). Counts stop at
`MaxHandlers` and the loop's position one below, so that a full array still has one more element to come.
A connection nothing refers to any more keeps running; when RabbitMQ's limit `MaxConns` is reached,
further connects fail (`ConnectionLimit`). `unsubscribe` is left out: nothing in the repository calls it.

### EmailBatching and SenderContract

| code | model |
| --- | --- |
| `this.pendingBatches` | `pending`, per process and key (priority and time bucket); `old`, the keys that waited for `maxBatchWaitTime` |
| a call of `queueBulkEmails`, a callback of the batch timer | `thread`: its process and the batch it took out of the map while it awaits `batchQueue.add`; `todo`, the emails still to queue, `due`, the keys still to walk |
| running intervals, `this.batchTimer` | `timers`, and `handle`: whether the field names one of them |
| `pauseSending`, `resumeSending` | `command`: what each process's awaits; `paused`, which is Bull's and everyone's |
| Bull queue `send-batch`, `transporter.sendMail` | `jobs`, `attempts` |
| - | `submitted`, `lost`, `halted`: history, for properties only |

`AddToBatch` is one iteration of the loop of `queueBulkEmails`, and takes a full batch out; `WalkTakes` is one of the timer's.
`resumeSending` starts an interval without clearing the old one, whose handle is then forgotten: `StopTimer` clears only the last.
`ProcessDies` takes what is in memory and stalls the active jobs, which start over once (`Stalled`). `SendEmailImmediate` ends the same way whether
`sendMail` succeeds or not: the loop of `processBatch` goes on. The clock is abstract (a bucket ends and a batch grows old at any moment), and the rate
limiter, which only delays, is left out. `send-email` jobs are never added in the code, so their processor is left out too.

`SenderContract` knows no batches, keys, timers, threads, jobs or pauses, only where an email is: `memory`, `queue`, `done`, `failed` or `lost`. Memory is what an
error or a crash can take; nothing leaves the queue but by its job's end. `EmailBatching` implements it under `memory <- InMemories` (every map, every thread's batch
and every caller's rest), `queue, done, failed <- InJobs(...)` by the state of the job, `restarted <- Restarted` (the job stalled once), `mailed <- attempts`: a bulk call is `HandOver`,
`BatchAdded` is `Enqueue`, an email of `processBatch` is `Mail`, the end of a job `Settle`, and every failure and death of a process a `Fault`; everything else is a stutter.

### BillingSubscription

A subscription is named by the request that creates it. `request` holds each request's local variables; its `pc` names the
await at which it stands: `findActive`, `listCustomers`, `createCustomer`, `stripe`, `write`, `event`. `row`, `usage.local` and
`events` are the tables, `stripe`, `customers` and `usage.stripe` Stripe. `Begin` is the read of the row (and of the new plan) with
which the other four operations start, `CallStripe` what Stripe makes of them, `WriteRow` the update of the row from Stripe's *answer*
(with the plan of the request or of the row as read, never Stripe's), `PublishEvent` the row in `billing_events`. `Fail` is an error, or the end of the process, at any await. `StripeChanges` is what
Stripe does on its own: webhooks change no row (`WebhookService.ts:545`), so a row learns of it from the next request only.
`disturbed`, `unsynced` and `lapsed`, and a request's `alone` and `before`, are history.
Taken as the code intends it: the search for a customer by user (`metadata` is no filter Stripe has). The read of Stripe in `recordUsage`
is one step with its write, and payment methods fail before anything is created.

### ContentApproval

One item, its workflow and its key in Redis. `Create` with `StartWorkflow` or `AutoApprove` is `createItem`; `Submit` is
`submitApproval` up to its await (checks, and the changed copy of the workflow in `request[r].copy`), `WriteVote` the UPDATE that writes this copy
over the row; `Decided` is the choice between ending, next stage and waiting for more. `GetCached`, `Find`, `Fill` are the
awaits of `getItem`, `Update` and `DelKey` those of `updateItem`. `ChangeStatus` is `approveItem`, `rejectItem` and `archiveItem`, which touch neither the
workflow nor the key. `Delete` deletes the row and, by the schema, the workflow
(`infrastructure/postgres/migrations/005_content_management_tables.sql`), but the key stays (section 5). `answered`, `lost`, `seen` and `late` are history.

## 3. Runs

| run | instance | shows |
| --- | --- | --- |
| `WfRequests` | a workflow of a wait and an email edited at will, one execution, two overlapping requests out of all kinds, evictions | rows and queue keep their types; steps run only when reached, outcomes are logged, a step's effect is repeated at most once for each resume of its execution after a first pause |
| `WfRuns` | five graphs: condition with joining branches, fork/join, a cycle behind the first step, one without a first step, chain; a fault or crash at any point | effects once, effects bounded by runs, no execution stranded, every execution ends, outcomes final |
| `WfResume` | two steps, pause and resume | *violated*: a resumed execution may stand still (section 5) |
| `Breaker` | two calls in flight, thresholds 2, timeout 2 < reset 3, all operators | invariants and the contract |
| `Drip` | one subscription, editions of one and two emails, two requests of all kinds, two workers, a fault, crash or eviction | the index never runs ahead of the mail, a completed subscription got as many mails as an edition of its time has, order, progress |
| `DripCompletion` | one fault, no other requests | *violated*: an email is skipped |
| `Events` | two services, one event, one retry, a crash at any step, also between publishing or handling and the acknowledgement | nothing lost, given up only by failing services, the contract (owed until handled or given up after all retries; what nobody is owed is not delivered again), delivery settles |
| `BusConnection` | three connections, two overlapping calls, one subscription, two attempts, two faults, a disconnect between any two awaits | repair is under way whenever it should be, losses will be noticed, the bus ends usable or has given up |
| `BusResubscribe` | two event types, one fault | *violated*: after a reconnect a type may stay without a consumer |
| `Batching` | three emails in batches of two, two bulk calls, two walks, two commands, a fault or crash | an email is in one place, no full batch waits, the contract (only memory loses emails; mailed before the job is done, again only after a stall), every email is mailed |
| `Billing` | three requests of every kind for one user, three plans of which two active, a change at Stripe, a fault | the settled row agrees with Stripe, nothing charged unseen, a second subscription only by overlap |
| `Approval` | five requests on one item, two managers and an editor in two stages of 2 and 1 approvals, a fault | the outcome follows the votes, votes are lost and old copies cached only by overlap |

**Bounds.** `MaxCalls`, `MaxFaults`, `MaxTimers`, `MaxCrashes`, `MaxRequests`, `MaxSubscriptions` and `MaxSubs` bound what users,
the environment and the histories can do; they appear as guards of the actions named
in the modules. Each is large enough for the races the properties are about: two
requests that overlap each other and a worker (pause against resume, edit against step,
delete against trigger), one failure at every await, a retry after it (2 or 3 attempts), two
parallel branches that join, two services of which one multiplies the copies of the
other, `MaxRequests` beyond both thresholds, and for the bus enough faults (2) to use up the attempts (2 in the
run, 10 in the code; a failing connect inside a timer uses two) with timers left over that connect next to one another; each such connect
needs a connection of its own, and with three the limit is also reached. `Events` has one retry (a second multiplies the copies beyond 25 million
states): a copy goes through the retry queue, comes back to both services and may be given up there; the theorems have any `MaxRetries`. `Drip` has one subscription
(`MaxSubs = 1`; `IdLeft` lets a subscribe begin only while an id is left for it), so the refusal of a contact that is subscribed already is not exercised there. In `Batching` (`MaxBucket`, `MaxJobs`, `MaxCommands`, `MaxFaults`) three emails make a full batch and one that waits for the timer; two walks
overlap when a resume has started a second interval; one process suffices because processes share nothing but the
queue and its pause (the proofs have any number). In `Billing` (`MaxChanges`, `MaxFaults`) three requests are a create with two others that race on it, or three creates.
In `Approval` the create is one of the five, which leaves two votes of the first stage that race, the one after them that
sees what was written over, and one more; the first stage requires both managers, where the code's default requires one of three. The state of one execution (subscription,
event) is never read by code that handles another, except by the pages of
`pauseWorkflow`, `deleteWorkflow` and their drip counterparts (section 5), so one of them with several
workers and requests shows the races. The safety properties named in section 4 are
proved without any of these bounds.

**Deadlock** is not checked where the system may stop: once the bounded requests are used up
and all jobs are settled there is nothing left to do. `Breaker` always can `Tick`, and is
checked.

**Fairness.** Weak fairness of each job (`Handler`, `Process`, `TakeJob`): Bull's workers poll for ever, a
delayed job becomes due, and a handler's awaits settle. Weak fairness of an
accepted request's later steps (`CallStep`, `Request`): the event loop runs them. None for the first step of a
request (nobody has to call), for errors, crashes and evictions. `EventDelivery`: a consumer
takes what waits, each call settles since the breaker has a timeout, RabbitMQ declares retry queues (`retryMessage`) and hears its consumers (`Remove`), and the retry queues have a
TTL; none for `Crash`, for publishing, or for the breaker's recovery (`ResetTimeout`), which
`EveryEventSettles` does not need: an open breaker refuses, and refusals use up retries. `BusConnection`: timers fire, and what is asked of
RabbitMQ is answered, with success or an error; none for faults, `subscribe` and `disconnect`.
`EmailBatching`: calls, walks and commands go on, batches grow old, an interval of each process fires, workers
take and end jobs; none for callers, pauses and faults: `EveryEmailIsMailed` allows for emails of a paused sender. The
choice between `Handle` and `Fail` is not fair: a handler may fail for ever.

**Symmetry** over requests (and plans in `Billing`, managers in `Approval`) is used in `WfRequests`, `Billing` and `Approval`, which have only invariants.

**Where guarantees end.** Some properties watch a hazard by saying exactly when it is harmless, and so show where the guarantee ends rather than that
the hazard cannot happen. What they exempt is behaviour of the code that the models contain:

| property | exempts |
| --- | --- |
| `VerdictsAreFresh` | successes counted while closed that the half-open state inherits (section 5); it forbids outcomes of calls admitted while closed |
| `OnlyReachedSteps`, `OutcomeIsLogged` | a pause or a deletion that a late handler overwrites |
| `EffectAtMostOnce`, `OutcomeIsFinal` | an execution that one branch completes while another still runs (`OutcomeIsFinal` is about straight lines) |
| `NeverAheadOfMail`, `CompletionIsEarned` | an index that a stale handler sets back, and mails sent twice by retries or the batch |
| `EveryEmailIsMailed` | emails of a sender that was paused or halted |
| `SettledRowAgrees` | rows overwritten by overlapping updates, by an update that failed after Stripe's part, or by an answer older than a change at Stripe |
| `NothingChargedUnseen` | requests that failed after Stripe's part: only an answer of success promises the records |
| `SecondOnlyByOverlap` | creates that overlap |
| `OutcomeFollowsVotes`, `VotesLostOnlyByOverlap` | votes that overlap, and a vote written over a cancellation |
| `NoOldCopyAfterUpdate` | a cache filled by a reader that read before an update deleted the key |
| `LossWillBeNoticed` | connects that overlap |
| `EndsUsable` | consumers: it is about connection and channel; that consumers are not restored is refuted by `ResubscribesAll` |

PROJECT.json says so in the notes of the hazards these properties are listed for.

## 4. Proofs

All proofs are for every value of the constants that satisfies the named assumptions:
any number of executions, steps, workflows, services, events, calls; any thresholds and
bounds.

**WorkflowEngineProofs** (`EngineAssumption`: steps are well formed, as `validateWorkflowStructure` enforces on create and update).
`OnlyReachedSteps` and `OutcomeIsLogged` are not inductive: they speak of the log, which is
written by handlers that decided long before. The types are inductive together with `HandlerOK`, the log with `ReachInv` and `HandlersLogged`:
- `HandlerOK`: a handler at work holds an active job, of a step of the graph once it has passed
  `findWorkflow`, and has successors left when it queues them;
- `ReachInv` (`JobsReached`, `HandlersStarted`, `PointersReached`, `OnlyReachedSteps`): the step of every job, every
  successor a handler still has to queue, every current step and every step a request remembers is
  reached. `Reached` is stable: a started step stays in the log and `Edge` ranges over
  all versions of the workflow, so edits do not disturb it. Deleted executions are excepted:
  handlers that had read them walk on, and what they queue finds no row;
- `HandlersLogged`: a handler at `setFailed` has logged a failure, one at `setCompleted` the completion
  of a step that has no successor in the version it read.

The other five properties hold under premises about what users and faults do, and each has an invariant of its own:
- `EffectsBoundedByRuns`, `EffectAtMostOnce`: nobody removes jobs, so an id once used stays used (`RunsInv`); a job that is still due
  has room for one more effect under the bound (`Bounded`), and without faults an effect lies behind the one run that got past it (`OnceInv`);
- `CalmInv`, the common base of the next two: with nothing but triggers the workflow row never changes, so every copy of it that a
  handler or a call holds is the row, and a new execution has no job before its trigger queues the first;
- `NotStranded` (`CarriedOnInv`): no job of a running execution has failed, finished jobs have their completion entry, and each completed step has
  handed over to a next step that has a live job or is completed too (`HandedOver`). Were no job left, the completed steps would hand over only among themselves, and
  `Acyclic` gives one that cannot. The proof showed that acyclicity is needed: `validateWorkflowStructure` does not look for cycles (section 5), and `WfRuns` has a cycle
  among its graphs;
- `OutcomeIsFinal` (`OneAtATimeInv`): on a straight line an execution has one job at a time, and no handler of an ended one is on its way to a status;
- `RepetitionNeedsPauseAndResume` (`TokenInv`): along a trail to a step the jobs and requests that can still lead to its effect are counted as tokens. A
  handler moves its token or spends it on the effect, only a trigger makes the first one of an execution and only a resume of that execution another. Effects and tokens
  together never exceed one and `resumes`: a resume finds the execution paused, so it was paused before (`PausesKnown`) and is counted. No other request makes a token; a pause deletes jobs. That branches do not join, even across edits, makes the trail the only way to the step.

**CircuitBreakerProofs** (`BreakerAssumption`, `TimeoutAssumption`). `BelowThreshold` and `AttemptScheduled` (`StateInv`) are inductive with
the types. `VerdictsAreFresh` needs `SettlesBeforeProbing` on the ages: while the breaker is open, the age of a call admitted before it opened
plus the time it still holds is at least `ResetTimeout`; calls time out at
`Timeout < ResetTimeout`, so none is left when it half-opens. `ImplementsContract` maps every action to an
action of `BreakerContract` or a stutter, using these invariants.

**EventDeliveryProofs** (`DeliveryAssumption`). `NotLost` follows each copy; `GivenUpAfterAllRetries` needs `CountsAreEarned`: a copy with count n, wherever it is, is of a published event that was
sent through every retry up to n; and `RetriesAreLow`: what awaits a retry queue has a retry left. `OnlyFailingServicesGiveUp` needs `OpenedByFailure`: a breaker is not closed
only after a failure of its own service. `ImplementsContract` puts them together: a rejected copy is a `Retry` (its count says which retries were made, so the next one is in turn) or a
`GiveUp`, by a service that has failed (`RetriesFollowFailures` says so of what awaits its retry queue). A crash requeues exactly what was unsettled. When RabbitMQ removes the last copy
of an event for a service that is a `Settle`, which `NotLost` allows: with no copy left, the service has handled it or given it up. Every other step keeps what is owed (`UnsettledSame`).

**DripCampaignProofs** (`DripAssumption`). `NeverAheadOfMail` and `CompletionIsEarned` fail to be inductive because a handler writes an
index it read long ago. The strengthening says of every task `t` that it is `Covered`: where it
stands between `send` and `advance`, the index it read is below the length of the inbox it
has already extended, and the edition it uses is one the campaign had. Inboxes and
`offered` only grow (`Grows`), so no other task can uncover it, and `offered` has the edition the campaign has now (`Offering`). Most steps are `Harmless`, which is shown once for all of them.
`InSequence` is about the order of the mail, and its proof follows who carries a subscription from one email to the next. While its premise holds (`SequenceInv`): a live job is
for the index its row is at, and its email is the campaign's (`InStep`); who holds an index and is about to queue a job holds one that is not ahead of the row, and if it is
behind, the job it would add exists (`HandsFresh`); and either it is alone, with no live job beside it, or the subscription is `Safe` (`Single(s) \/ Safe(s)`): it was resumed, both calls are
spent and none of them will remove its jobs any more, so that the queue's ids turn away what a second carrier adds. That needs the requests counted: as long as there was one call, at most one
stops subscriptions, and a paused row is one it has passed (`Stoppers`, `PausedQuietly`). The inbox is then as long as the index, or one longer between `send` and `advance` (`MailOf`).

**BusConnectionProofs** (`BusAssumption`). `RepairUnderWay` is inductive with the types: each place that clears
`isConnected` or ends a connect calls `handleReconnect`, which starts a timer or finds the attempts used up.
`LossWillBeNoticed` needs `NoticeInv`: until connects overlap or the bus is disconnected, at most one connect is
under way (`OneConnect`), `this.connection` is its own until the handlers are attached, and the channel it sets up
is `this.channel`, and watched if still alive (`ConnectsOrderly`).

**EmailBatchingProofs** (`EmailAssumption`). `InOnePlace` counts the places of an email through five variables; the strengthening `PlaceInv`
says that places which hold emails are disjoint (`Apart`), hold together what was handed over and not lost (`Located`), and that jobs not yet added
hold nothing (`FreshIds`). Most actions move emails from one place to one other, or drop a set of them: the lemmas `Moves` and `Loses`
show once that this keeps `PlaceInv`. `NoFullBatchWaits` needs `SizeInv`, which adds the batches threads hold; `MailedAgainOnlyAfterStall` needs `MailInv` (a waiting job was
run at most as often as it stalled, and only an active one has emails left to mail) and `PlaceInv`, since an email in two jobs would be mailed twice. `TypeCorrect` needs that `this.batchTimer` names a running interval.
`ImplementsContract` maps every step to a step of `SenderContract` or a stutter. It needs that what is in memory is what was handed over, is not lost and is in no job (`WhereInv`, from
`PlaceInv`), for otherwise a batch that is added or lost might still be elsewhere; and that an active job has mailed what it need not mail any more (`WorkInv`), for a job is `Settle`d only
after all of its emails were mailed. `MailedAgainOnlyAfterStall`, which relates mails to single jobs, is proved on its own and gives the guard of `Mail`.

**BillingSubscriptionProofs** (`BillingAssumption`, `NoneAssumption`). The types need `Known`: a request past its read names a subscription that has a row, and
at `write` it has Stripe's answer. `NothingChargedUnseen` follows with `ChargeInv` (which requests may be at which step with what at Stripe),
`SecondOnlyByOverlap` with `LapseInv` (a create past `findActive` met no live row among those answered before it came, and a row that is not live has lapsed). For
`SettledRowAgrees`, `PlanInv` says of an undisturbed subscription that at most one update is at work on it, that the row has Stripe's plan before Stripe's step
and the update will write it after; `SyncInv` says of a request that is `alone` that its answer is what Stripe has.

**ContentApprovalProofs** (`ApprovalAssumption`). `OutcomeFollowsVotes` becomes inductive when it is also said of every copy a request
will write (`OutcomeInv`): a vote that passes the checks keeps a workflow `Consistent`, and then it does not matter over what it is
written. For lost votes, `StartInv` (there is one workflow, and no vote before it) and `CarryInv`: a copy carries all votes answered when it was read and
not lost; what was answered since is counted as lost when it is written. `CopyInv` says of a reader about to fill the cache what the property says of the cache:
once an update was answered, its older copy is `late`; `Kinded` keeps the requests at each await apart.

Every invariant and action property of a passing run is a theorem, and so are the three contracts. **Only model-checked** are the five liveness
properties (`EveryExecutionEnds`, `EverySubscriptionEnds`, `EveryEventSettles`, `EndsUsable`, `EveryEmailIsMailed`): liveness under fairness
is out of the prover's reach. The three violations of section 5 are TLC's alone too. `MailedAgainOnlyAfterStall` and `GivenUpAfterAllRetries` are theorems that no
run lists: the contracts, which `Batching` and `Events` check, say as much of each email and each event.

## 5. Where code and documents disagree

Three disagreements are refuted by runs of their own (PROJECT.json, `findings`):
`ResumedExecutionProceeds` (`WorkflowService.ts:287`: the step is queued before the status is set,
and not queued at all if its job id is retained), `CompletedWhenAllSent` (`DripCampaignService.ts:520`: the retry of a job advances the row again) and
`ResubscribesAll` (`message-bus.ts:409`: the loop walks the array `subscribe` appends to, so it never
leaves the first event type).

Others came up while modelling. The models contain this behaviour, and the properties are
stated so that they hold with it:

- a wait step queues its successors delayed and `processNextSteps` queues them again at once
  (`WorkflowService.ts:796` against the comment at `:531`), under ids that do not deduplicate;
- `pauseWorkflow` misses an execution whose trigger has checked the status but not inserted
  the row (`:207` against `:161`), and reads one page of 100;
- the catch block marks the execution failed (`:406`), so Bull's retries find it not running
  and skip it (`WorkflowProcessor.ts:50` throws "for retry");
- an http step reads `config.services` from the step's own config (`:467`), which shadows the
  module's configuration, so without it every such step fails;
- `deleteWorkflow` refuses only if the *latest* execution runs (`:114-121`); the drip
  counterpart looks at the latest subscription;
- an execution is completed by the branch that ends first while another still runs (`:781`), whose
  remaining steps are then skipped;
- a workflow in which every step has an incoming edge validates, is triggered and never starts; one with a cycle behind its first step
  validates too (`validateWorkflowStructure` does not look for cycles), and the step that closes the cycle asks for a job id that exists, so the execution stays running (once the id is evicted, such a request runs the step again);
- `infrastructure/docs/inter-service-communication-guide.md:349` has the half-open breaker test "if service has
  recovered": successes counted while closed are carried into the half-open state (`circuit-breaker.ts:195-199`), so one
  success may close it, whatever `successThreshold` is;
- a success does not clear the breaker's failures while closed, only time does;
  `reset` during calls makes failures exceed requests (`circuit-breaker.ts:173`);
- the dead letter queue is bound with a wildcard to a *direct* exchange (`message-bus.ts:346`), so
  no message matches and failed events are dropped, where
  `infrastructure/docs/inter-service-communication-guide.md:355` promises "Dead letter queues for permanently failed messages";
- `disconnect` closes a connection whose close handler reconnects (`message-bus.ts:119`, `:359`), so a
  disconnected bus may connect again;
- the timers of failed connects are not cancelled by a successful one: a leftover timer opens another
  connection while the bus is connected, and the first one is never closed; overlapping connects may
  attach their close handlers to each other's connection, and a channel that breaks alone leaves
  `isConnected` true and is not repaired (`:370-383`);
- a subscription that fails leaves its handler stored, and the caller's retry stores it again (`:195`);
- an event can be given up without its handler having run, by an open breaker alone;
- two overlapping subscribe calls for one contact both find no subscription and both insert one (`DripCampaignService.ts:203`);
- unsubscribing, then pausing and resuming a drip subscription reactivates it; pausing a
  campaign overwrites an unsubscription that comes after the list was read; activating it again
  leaves the subscriptions paused; edited emails without ids match the first one;
- billing: the check for an active subscription (`SubscriptionService.ts:46-51`, "User already has an active
  subscription") does not see a create that is under way, so two overlapping creates make two, and two customers;
  an error after Stripe's part leaves a subscription Stripe charges and no row names, and the retry makes another; a retried
  usage record is charged twice. An update without a plan writes back the plan it read before Stripe answered
  (`:220`), `syncSubscriptionWithStripe` does not repair the plan, and `cancelledAt` is never cleared again;
- webhooks find no row (`WebhookService.ts:545` returns null "For now"), so no webhook changes a subscription and
  dunning is never started or cancelled by one;
- the email sender: a newsletter is marked 'sent' as soon as its emails are queued, its last batch still in memory
  (`services/shared/examples/PerformanceIntegrationExample.ts:231-236`); a shutdown pauses the sender and ends with batches in memory
  (`services/shared/performance/PerformanceOptimizationService.ts:433`); a pause stops the queue for every process but the timer of one, and another
  process's resume does not start it; a resume leaves the old interval running (`OptimizedEmailSender.ts:280`); Bull takes
  lower numbers first, so `getPriorityValue` (`:626`) turns the priorities round; an email that fails in a batch is not retried;
- approval: `approveItem` (`ContentLibraryService.ts:223`) does not ask for the workflow, and an approved workflow does not approve the item, where
  `.kiro/specs/professional-platform-enhancement/requirements.md:190` wants "multi-stage approval workflows"; if starting the
  workflow fails the item stays a draft no one is asked about; a vote may write over another's rejection or over a cancellation;
- `deleteItem` and `cancelWorkflow` take the number of returned rows for the number of changed ones
  (`ContentLibraryRepository.ts:218`, `ApprovalWorkflowService.ts:263`), without a RETURNING clause: they answer that nothing was done,
  and a deleted item stays in the cache; approving, rejecting or archiving leaves the item's key as well, for up to an hour;
- resolved alerts stay in `AlertManager`'s map, so a rule fires once per process
  (`AlertManager.ts:206-250`).

## 6. What is not modelled

Validation of names and configurations, metrics, analytics queries, logging and wording.
PostgreSQL statements are atomic and are not reordered; Redis and RabbitMQ keep what they
acknowledged. Bull's `add` that rejects is taken to leave no job behind. `CircuitBreakerManager` (a map
of breakers), request/response over events and plain HTTP calls are left out.
Newsletters: scheduling adds `send-newsletter` and `send-scheduled-newsletter` jobs, but no worker in the repository acts on them and
nothing calls `markAsProcessing`, `markAsSent` or `markAsFailed`, so a schedule has no behaviour beyond its row; its edits are single statements.
Billing: webhooks and dunning (no webhook reaches a row, section 5), invoices and payment methods. Content library: the caches of lists and tags, searches,
statistics, and notifications, which are log lines. Email sender: the rate limiter and statistics.
Service discovery and alerts keep state in one process's memory and are left to a later step (section 7); of the shared caches, which read
through Redis, the race of a fill with an invalidation is the one `ContentApproval` has for the library's items.
CRM, users, analytics and deliverability are single statements over PostgreSQL with no protocol between processes;
the front end, gateway, migrations and deployment keep no state of their own; the
content service has no source. PROJECT.json gives the reason for each component. These parts are most of
the repository's lines (validation, types, queries, reports, user interface): they hold no state between requests that two actors could disagree about,
and the models cover the parts that do rather than a large share of the lines.

## 7. Plan

Done: `WorkflowEngine`, `DripCampaign`, `CircuitBreaker` with `BreakerContract`, `EventDelivery` with `DeliveryContract`, `BusConnection`,
`EmailBatching` with `SenderContract`, `BillingSubscription`, `ContentApproval`, and the proofs of section 4.

| order | what | questions |
| --- | --- | --- |
| 1 | `ExecutionLifecycle`, an abstract specification (an execution is created, runs, is paused and ends) `WorkflowEngine` refines | which changes of status can a stale handler cause |
| 2 | `ServiceDiscovery` | an instance that is down leaves the rotation and returns; the cache converges |
| 3 | `AlertManager` | overlapping evaluations, alerts that fire again |
