------------------------- MODULE BillingSubscription -------------------------
(***************************************************************************)
(* SubscriptionService: a subscription lives at Stripe and as a row of the   *)
(* billing database.  A request reads the row, has Stripe do its part,       *)
(* writes the row from what Stripe answered, and publishes an event; nothing *)
(* is undone when a step fails, and nothing keeps two requests on one        *)
(* subscription apart.                                                       *)
(*                                                                           *)
(* A request runs until an await.  A subscription is named by the request    *)
(* that creates it.  Webhooks change no row (findLocalSubscriptionByStripeId *)
(* returns null): a row learns of Stripe's own changes from requests only.   *)
(***************************************************************************)
EXTENDS Integers, FiniteSets

CONSTANTS
  Requests,     \* requests to the billing service, each made once
  Users,
  Plans,        \* subscription_plans, each with a Stripe price of its own
  ActivePlans,  \* those with is_active
  None,         \* null, undefined, or no such row
  MaxChanges,   \* bound: changes Stripe makes on its own
  MaxFaults     \* bound: requests that fail at an await

ASSUME BillingAssumption ==
  /\ ActivePlans \subseteq Plans
  /\ Plans # {} /\ Users # {}
  /\ None \notin Requests \cup Plans \cup BOOLEAN
  /\ MaxChanges \in Nat /\ MaxFaults \in Nat

VARIABLES
  request,   \* the local variables of each request
  stripe,    \* Stripe's subscriptions
  row,       \* table subscriptions
  customers, \* how many Stripe customers each user has
  usage,     \* usage records, by request: at Stripe, in table usage_records
  events,    \* requests whose event is in table billing_events
  disturbed, \* history: two updates of the subscription overlapped, or one failed
  unsynced,  \* history: its requests overlapped, one failed, or Stripe changed it,
             \* and no request has written the row alone since
  lapsed,    \* history: subscriptions whose row has not been live all the time
  changes, faults

historyVars == <<disturbed, unsynced, lapsed>>
boundVars == <<changes, faults>>
vars == <<request, stripe, row, customers, usage, events, historyVars, boundVars>>

-----------------------------------------------------------------------------
Live   == {"active", "trialing", "past_due"}
Status == Live \cup {"incomplete", "canceled"}

(* Mutant: Stripe's spelling goes to the row.                                *)
StripeStatus(s) == s

(* mapStripeStatusToLocal                                                    *)
LocalStatus(s) == IF s = "canceled" THEN "cancelled" ELSE s

StripeSub == [status : Status, plan : Plans, cancelAtPeriodEnd : BOOLEAN]
Row == [user : Users, plan : Plans, status : Live \cup {"incomplete", "cancelled"},
        cancelAtPeriodEnd : BOOLEAN, cancelledAt : BOOLEAN]

ASSUME NoneAssumption == None \notin StripeSub \cup Row

(* canceled_at is set when the end of the subscription is decided.           *)
CanceledAt(x) == x.status = "canceled" \/ x.cancelAtPeriodEnd

Kinds == {"create", "update", "cancel", "usage", "sync"}
Waiting == {"findActive", "listCustomers", "createCustomer", "stripe", "write", "event"}

(* plan, flag: the body of the request.  seen: the plan in the row that was  *)
(* read.  alone: nothing else happened to the subscription since.  before:   *)
(* creates that were answered when this one came.                            *)
NewRequest ==
  [pc |-> "new", kind |-> "sync", sub |-> None, user |-> None, plan |-> None,
   flag |-> None, seen |-> None, answer |-> None, alone |-> FALSE, before |-> {}]

At(r, l) == request[r].pc = l
InFlight(r) == request[r].pc \in Waiting
Is(r, kind) == request[r].kind = kind
Goto(r, l) == request' = [request EXCEPT ![r].pc = l]

HasRow(s) == row[s] # None
RowKinds == {"create", "update", "cancel", "sync"}
(* The requests of these kinds that are about to write the row of s.         *)
Writers(s, kinds) ==
  {r \in Requests : /\ request[r].pc \in {"stripe", "write"}
                    /\ request[r].sub = s /\ request[r].kind \in kinds}
LiveRows(u) == {s \in Requests : HasRow(s) /\ row[s].user = u /\ row[s].status \in Live}

Init ==
  /\ request = [r \in Requests |-> NewRequest]
  /\ stripe = [r \in Requests |-> None]
  /\ row = [r \in Requests |-> None]
  /\ customers = [u \in Users |-> 0]
  /\ usage = [stripe |-> {}, local |-> {}]
  /\ events = {}
  /\ disturbed = {} /\ unsynced = {} /\ lapsed = {}
  /\ changes = 0 /\ faults = 0

-----------------------------------------------------------------------------
(* createSubscription.                                                       *)

(* The plan is looked up; one that is not active ends the request.           *)
Create(r, u, p) ==
  /\ At(r, "new")
  /\ request' = [request EXCEPT ![r] =
       [NewRequest EXCEPT !.pc = IF p \in ActivePlans THEN "findActive" ELSE "failed",
                          !.kind = "create", !.sub = r, !.user = u, !.plan = p,
                          !.before = {s \in Requests : Is(s, "create") /\ At(s, "ok")}]]
  /\ UNCHANGED <<stripe, row, customers, usage, events, historyVars, boundVars>>

(* Mutant: only 'active' counts.                                             *)
ActiveRowsOnly(u) == {s \in LiveRows(u) : row[s].status = "active"}

(* getActiveSubscriptionByUserId                                             *)
ActiveSubscriptions(u) == LiveRows(u)

FindActive(r) ==
  /\ At(r, "findActive")
  /\ Goto(r, IF ActiveSubscriptions(request[r].user) = {} THEN "listCustomers" ELSE "failed")
  /\ UNCHANGED <<stripe, row, customers, usage, events, historyVars, boundVars>>

ListCustomers(r) ==
  /\ At(r, "listCustomers")
  /\ Goto(r, IF customers[request[r].user] = 0 THEN "createCustomer" ELSE "stripe")
  /\ UNCHANGED <<stripe, row, customers, usage, events, historyVars, boundVars>>

CreateCustomer(r) ==
  /\ At(r, "createCustomer")
  /\ customers' = [customers EXCEPT ![request[r].user] = @ + 1]
  /\ Goto(r, "stripe")
  /\ UNCHANGED <<stripe, row, usage, events, historyVars, boundVars>>

(* A payment method that cannot be attached is a failure before this step.   *)
CreateAtStripe(r) ==
  /\ At(r, "stripe") /\ Is(r, "create")
  /\ \E status \in {"trialing", "active", "incomplete"} :
       LET x == [status |-> status, plan |-> request[r].plan, cancelAtPeriodEnd |-> FALSE]
       IN /\ stripe' = [stripe EXCEPT ![r] = x]
          /\ request' = [request EXCEPT ![r].pc = "write", ![r].answer = x,
                                        ![r].alone = TRUE]
  /\ UNCHANGED <<row, customers, usage, events, historyVars, boundVars>>

(* A row that is not live when it is written has lapsed.                     *)
Lapses(s, status) == lapsed' = IF status \in Live THEN lapsed ELSE lapsed \cup {s}

InsertRow(r) ==
  LET x == request[r].answer
  IN /\ At(r, "write") /\ Is(r, "create")
     /\ row' = [row EXCEPT ![r] =
          [user |-> request[r].user, plan |-> request[r].plan,
           status |-> LocalStatus(x.status), cancelAtPeriodEnd |-> x.cancelAtPeriodEnd,
           cancelledAt |-> CanceledAt(x)]]
     /\ Goto(r, "event")
     /\ Lapses(r, x.status)
     /\ UNCHANGED <<stripe, customers, usage, events, disturbed, unsynced, boundVars>>

-----------------------------------------------------------------------------
(* updateSubscription, cancelSubscription, syncSubscriptionWithStripe and    *)
(* recordUsage read the row first.                                           *)

(* History: requests that write the row disturb each other, and are alone    *)
(* no more.  Only updates write the plan.                                    *)
Overlap(kind, s) ==
  /\ disturbed' = IF kind = "update" /\ Writers(s, {"update"}) # {}
                    THEN disturbed \cup {s} ELSE disturbed
  /\ unsynced' = IF kind # "usage" /\ Writers(s, RowKinds) # {}
                   THEN unsynced \cup {s} ELSE unsynced

NotAlone(s) ==
  [r \in Requests |-> IF request[r].sub = s THEN [request[r] EXCEPT !.alone = FALSE]
                                           ELSE request[r]]

(* plan, flag: what update sets the plan and cancelAtPeriodEnd to, if at     *)
(* all; flag: whether cancel is immediate.  A new plan must be active.       *)
Begin(r, kind, s, plan, flag) ==
  /\ At(r, "new") /\ HasRow(s)
  /\ request' = [(IF kind = "usage" THEN request ELSE NotAlone(s)) EXCEPT ![r] =
       [NewRequest EXCEPT
          !.pc = IF plan \in ActivePlans \cup {None, row[s].plan} THEN "stripe" ELSE "failed",
          !.kind = kind, !.sub = s, !.user = row[s].user, !.plan = plan, !.flag = flag,
          !.seen = row[s].plan, !.alone = Writers(s, RowKinds) = {}]]
  /\ Overlap(kind, s)
  /\ UNCHANGED <<stripe, row, customers, usage, events, lapsed, boundVars>>

(* The price goes to Stripe only when the row that was read has another plan.*)
NewPrice(r, x) ==
  IF request[r].plan \in {None, request[r].seen} THEN x.plan ELSE request[r].plan

(* What Stripe makes of the request.                                         *)
Updated(r, x) ==
  CASE Is(r, "update") ->
         [x EXCEPT !.plan = NewPrice(r, x),
                   !.cancelAtPeriodEnd = IF request[r].flag = None THEN @ ELSE request[r].flag]
    [] Is(r, "cancel") /\ request[r].flag -> [x EXCEPT !.status = "canceled"]
    [] Is(r, "cancel") /\ ~request[r].flag -> [x EXCEPT !.cancelAtPeriodEnd = TRUE]
    [] OTHER -> x

(* Stripe refuses to change a subscription that is canceled.                 *)
CallStripe(r) ==
  LET s == request[r].sub
      x == Updated(r, stripe[s])
  IN /\ At(r, "stripe") /\ ~Is(r, "create")
     /\ Is(r, "sync") \/ stripe[s].status # "canceled"
     /\ stripe' = [stripe EXCEPT ![s] = x]
     /\ request' = [request EXCEPT ![r].pc = "write", ![r].answer = x]
     /\ usage' = IF Is(r, "usage") THEN [usage EXCEPT !.stripe = @ \cup {r}] ELSE usage
     /\ UNCHANGED <<row, customers, events, historyVars, boundVars>>

StripeRefuses(r) ==
  /\ At(r, "stripe") /\ request[r].kind \in {"update", "cancel", "usage"}
  /\ stripe[request[r].sub].status = "canceled"
  /\ Goto(r, "failed")
  /\ UNCHANGED <<stripe, row, customers, usage, events, historyVars, boundVars>>

(* The plan the request was given, else the one it read: not Stripe's.       *)
PlanWritten(r, old) ==
  IF ~Is(r, "update") THEN old
  ELSE IF request[r].plan = None THEN request[r].seen ELSE request[r].plan

(* Mutant: the end of the period is not brought back from Stripe.            *)
RowWithoutEnd(r, old, x) ==
  [old EXCEPT !.plan = PlanWritten(r, old.plan), !.status = LocalStatus(x.status),
              !.cancelledAt = @ \/ CanceledAt(x)]

(* BillingRepository.updateSubscription leaves alone what is undefined: a    *)
(* date of cancellation is never cleared.                                    *)
RowFrom(r, old, x) ==
  [old EXCEPT !.plan = PlanWritten(r, old.plan), !.status = LocalStatus(x.status),
              !.cancelAtPeriodEnd = x.cancelAtPeriodEnd,
              !.cancelledAt = @ \/ CanceledAt(x)]

WriteRow(r) ==
  LET s == request[r].sub
      x == request[r].answer
  IN /\ At(r, "write") /\ request[r].kind \in {"update", "cancel", "sync"}
     /\ row' = [row EXCEPT ![s] = RowFrom(r, row[s], x)]
     /\ Goto(r, IF Is(r, "sync") THEN "ok" ELSE "event")
     /\ Lapses(s, x.status)
     /\ unsynced' = IF request[r].alone THEN unsynced \ {s} ELSE unsynced
     /\ UNCHANGED <<stripe, customers, usage, events, disturbed, boundVars>>

InsertUsage(r) ==
  /\ At(r, "write") /\ Is(r, "usage")
  /\ usage' = [usage EXCEPT !.local = @ \cup {r}]
  /\ Goto(r, "event")
  /\ UNCHANGED <<stripe, row, customers, events, historyVars, boundVars>>

-----------------------------------------------------------------------------
(* publishEvent: the row in billing_events; side effects only log.           *)
PublishEvent(r) ==
  /\ At(r, "event")
  /\ events' = events \cup {r}
  /\ Goto(r, "ok")
  /\ UNCHANGED <<stripe, row, customers, usage, historyVars, boundVars>>

(* Mutant: a row that cannot be inserted is only logged.                     *)
LoggedOnly(r) == IF At(r, "write") THEN "event" ELSE "failed"

(* Every catch logs, and throws the error on.                                *)
AfterError(r) == "failed"

(* An await throws, or the process stops: what was done stays done.          *)
Fail(r) ==
  LET s == request[r].sub
  IN /\ InFlight(r)
     /\ faults < MaxFaults /\ faults' = faults + 1
     /\ Goto(r, AfterError(r))
     /\ disturbed' = IF At(r, "write") /\ Is(r, "update") THEN disturbed \cup {s} ELSE disturbed
     /\ unsynced' = IF At(r, "write") /\ request[r].kind \in {"update", "cancel"}
                      THEN unsynced \cup {s} ELSE unsynced
     /\ UNCHANGED <<stripe, row, customers, usage, events, lapsed, changes>>

(* Stripe renews, charges, or ends a subscription; what is canceled stays so.*)
StripeChanges(s) ==
  /\ stripe[s] # None
  /\ stripe[s].status # "canceled"
  /\ changes < MaxChanges /\ changes' = changes + 1
  /\ \E status \in Status \ {stripe[s].status} :
       stripe' = [stripe EXCEPT ![s].status = status]
  /\ unsynced' = unsynced \cup {s}
  /\ request' = NotAlone(s)
  /\ UNCHANGED <<row, customers, usage, events, disturbed, lapsed, faults>>

-----------------------------------------------------------------------------
NewRequestComes(r) ==
  \/ \E u \in Users, p \in Plans : Create(r, u, p)
  \/ \E s \in Requests :
       \/ \E p \in Plans \cup {None}, f \in BOOLEAN \cup {None} : Begin(r, "update", s, p, f)
       \/ \E f \in BOOLEAN : Begin(r, "cancel", s, None, f)
       \/ \E kind \in {"usage", "sync"} : Begin(r, kind, s, None, None)

Step(r) ==
  \/ FindActive(r) \/ ListCustomers(r) \/ CreateCustomer(r) \/ CreateAtStripe(r)
  \/ InsertRow(r) \/ CallStripe(r) \/ StripeRefuses(r) \/ WriteRow(r)
  \/ InsertUsage(r) \/ PublishEvent(r)

Next ==
  \/ \E r \in Requests : NewRequestComes(r) \/ Step(r) \/ Fail(r)
  \/ \E s \in Requests : StripeChanges(s)

Spec == Init /\ [][Next]_vars

-----------------------------------------------------------------------------
Request ==
  [pc : Waiting \cup {"new", "ok", "failed"}, kind : Kinds, sub : Requests \cup {None},
   user : Users \cup {None}, plan : Plans \cup {None}, flag : BOOLEAN \cup {None},
   seen : Plans \cup {None}, answer : StripeSub \cup {None}, alone : BOOLEAN,
   before : SUBSET Requests]

(* The variables keep their types (the tables' columns, Stripe's objects).   *)
TypeOK ==
  /\ request \in [Requests -> Request]
  /\ stripe \in [Requests -> StripeSub \cup {None}]
  /\ row \in [Requests -> Row \cup {None}]
  /\ customers \in [Users -> Nat]
  /\ usage \in [stripe : SUBSET Requests, local : SUBSET Requests]
  /\ events \in SUBSET Requests
  /\ disturbed \in SUBSET Requests /\ unsynced \in SUBSET Requests
  /\ lapsed \in SUBSET Requests
  /\ changes \in 0 .. MaxChanges /\ faults \in 0 .. MaxFaults

(* What the billing service knows of Stripe.  Once no request is working on  *)
(* a subscription: its plan is the one Stripe charges, unless two updates    *)
(* overlapped or one failed after Stripe's part; and its status and its      *)
(* cancellation are Stripe's from the first update, cancel or sync that had  *)
(* the subscription for itself.                                              *)
SettledRowAgrees ==
  \A s \in Requests :
    HasRow(s) /\ Writers(s, RowKinds) = {} =>
      /\ s \notin disturbed => row[s].plan = stripe[s].plan
      /\ s \notin unsynced =>
           /\ row[s].status = LocalStatus(stripe[s].status)
           /\ row[s].cancelAtPeriodEnd = stripe[s].cancelAtPeriodEnd
           /\ CanceledAt(stripe[s]) => row[s].cancelledAt

(* Nothing is charged behind the service's back but by a request that is     *)
(* still between Stripe and the database, or that failed there: a request    *)
(* that was answered with success has its subscription or usage in both, and *)
(* an event tells of it.                                                     *)
NothingChargedUnseen ==
  \A r \in Requests :
    /\ stripe[r] # None /\ ~HasRow(r) => At(r, "write") \/ At(r, "failed")
    /\ r \in usage.stripe \ usage.local => At(r, "write") \/ At(r, "failed")
    /\ At(r, "ok") => \/ Is(r, "sync")
                      \/ r \in events /\ (Is(r, "create") => stripe[r] # None /\ HasRow(r))
                                     /\ (Is(r, "usage") => r \in usage.local)
    /\ HasRow(r) => stripe[r] # None
    /\ usage.local \subseteq usage.stripe

(* A user who was answered with a subscription gets no second live one, as   *)
(* long as the row of the first stays live: only creates that overlap, or a  *)
(* row that lapsed and came back, can make two.                              *)
SecondOnlyByOverlap ==
  \A a, b \in Requests :
    /\ a # b /\ HasRow(a) /\ HasRow(b) /\ row[a].user = row[b].user
    /\ a \in request[b].before
    => a \in lapsed
=============================================================================
