---------------------- MODULE BillingSubscriptionProofs ----------------------
(***************************************************************************)
(* Proofs about BillingSubscription, for every set of requests, users and    *)
(* plans, and any number of failures and changes at Stripe.                  *)
(***************************************************************************)
EXTENDS BillingSubscription, TLAPS

-----------------------------------------------------------------------------
(* Type correctness.  A request under way knows its subscription, which is   *)
(* its own if it creates one, and has a row otherwise; at write it holds     *)
(* Stripe's answer.                                                          *)
Knows(r) ==
  /\ InFlight(r) => request[r].sub \in Requests /\ request[r].user \in Users
  /\ At(r, "findActive") \/ At(r, "listCustomers") \/ At(r, "createCustomer")
       => Is(r, "create")
  /\ InFlight(r) /\ Is(r, "create") => request[r].sub = r /\ request[r].plan \in Plans
  /\ InFlight(r) /\ ~Is(r, "create") => HasRow(request[r].sub) /\ request[r].seen \in Plans
  /\ At(r, "write") => request[r].answer \in StripeSub
  /\ At(r, "write") /\ Is(r, "create") => stripe[r] # None

Known == /\ \A r \in Requests : Knows(r)
         /\ \A s \in Requests : HasRow(s) => stripe[s] # None

TypeInv == TypeOK /\ Known


LEMMA UpdatedTyped ==
  ASSUME TypeInv, NEW r \in Requests, NEW x \in StripeSub
  PROVE  Updated(r, x) \in StripeSub
<1>1. request[r] \in Request
  BY DEF TypeInv, TypeOK
<1>2. NewPrice(r, x) \in Plans
  BY <1>1 DEF NewPrice, StripeSub, Request
<1>3. request[r].flag # None => request[r].flag \in BOOLEAN
  BY <1>1 DEF Request
<1>4. CASE Is(r, "update")
  <2> DEFINE end == IF request[r].flag = None THEN x.cancelAtPeriodEnd ELSE request[r].flag
  <2>1. end \in BOOLEAN
    BY <1>3 DEF StripeSub
  <2>2. Updated(r, x) = [x EXCEPT !.plan = NewPrice(r, x), !.cancelAtPeriodEnd = end]
    BY <1>4 DEF Updated, Is, StripeSub
  <2> HIDE DEF end
  <2>. QED BY <1>2, <2>1, <2>2 DEF StripeSub
<1>5. CASE Is(r, "cancel") /\ request[r].flag
  BY <1>5 DEF Updated, Is, StripeSub, Status
<1>6. CASE Is(r, "cancel") /\ ~request[r].flag
  BY <1>6 DEF Updated, Is, StripeSub
<1>7. CASE ~Is(r, "update") /\ ~Is(r, "cancel")
  BY <1>7 DEF Updated
<1>. QED BY <1>4, <1>5, <1>6, <1>7

LEMMA RequestTyped ==
  ASSUME NEW q \in Request
  PROVE  /\ \A l \in Waiting \cup {"new", "ok", "failed"} : [q EXCEPT !.pc = l] \in Request
         /\ \A x \in StripeSub : [q EXCEPT !.answer = x] \in Request
         /\ \A b \in BOOLEAN : [q EXCEPT !.alone = b] \in Request
<1>1. ASSUME NEW l \in Waiting \cup {"new", "ok", "failed"} PROVE [q EXCEPT !.pc = l] \in Request
  BY DEF Request
<1>2. ASSUME NEW x \in StripeSub PROVE [q EXCEPT !.answer = x] \in Request
  BY DEF Request
<1>3. ASSUME NEW b \in BOOLEAN PROVE [q EXCEPT !.alone = b] \in Request
  BY DEF Request
<1>. QED BY <1>1, <1>2, <1>3

LEMMA RowTyped ==
  ASSUME NEW q \in Row, NEW p \in Plans, NEW end \in BOOLEAN, NEW at \in BOOLEAN,
         NEW status \in Live \cup {"incomplete", "cancelled"}
  PROVE  [q EXCEPT !.plan = p, !.status = status, !.cancelAtPeriodEnd = end,
                   !.cancelledAt = at] \in Row
  BY DEF Row

LEMMA RowFromTyped ==
  ASSUME NEW r \in Requests, NEW q \in Row, NEW x \in StripeSub, request[r] \in Request,
         request[r].seen \in Plans
  PROVE  RowFrom(r, q, x) \in Row
<1> DEFINE at == q.cancelledAt \/ CanceledAt(x)
<1>1. PlanWritten(r, q.plan) \in Plans
  BY DEF PlanWritten, Request, Row
<1>2. LocalStatus(x.status) \in Live \cup {"incomplete", "cancelled"}
  BY DEF LocalStatus, StripeSub, Status, Live
<1>3. at \in BOOLEAN /\ x.cancelAtPeriodEnd \in BOOLEAN
  BY DEF StripeSub
<1>4. RowFrom(r, q, x) =
        [q EXCEPT !.plan = PlanWritten(r, q.plan), !.status = LocalStatus(x.status),
                  !.cancelAtPeriodEnd = x.cancelAtPeriodEnd, !.cancelledAt = at]
  BY DEF RowFrom, Row
<1> HIDE DEF at
<1>5. [q EXCEPT !.plan = PlanWritten(r, q.plan), !.status = LocalStatus(x.status),
                !.cancelAtPeriodEnd = x.cancelAtPeriodEnd, !.cancelledAt = at] \in Row
  BY <1>1, <1>2, <1>3, RowTyped, Zenon
<1>. QED BY <1>4, <1>5, Zenon

LEMMA NewTyped ==
  ASSUME NEW l \in Waiting \cup {"failed"}, NEW kind \in Kinds, NEW s \in Requests,
         NEW u \in Users, NEW p \in Plans \cup {None}, NEW f \in BOOLEAN \cup {None},
         NEW seen \in Plans, NEW b \in BOOLEAN
  PROVE  [NewRequest EXCEPT !.pc = l, !.kind = kind, !.sub = s, !.user = u, !.plan = p,
                            !.flag = f, !.seen = seen, !.alone = b] \in Request
  BY DEF NewRequest, Request

LEMMA NotAloneTyped ==
  ASSUME request \in [Requests -> Request], NEW s \in Requests
  PROVE  NotAlone(s) \in [Requests -> Request]
<1>1. ASSUME NEW r \in Requests PROVE [request[r] EXCEPT !.alone = FALSE] \in Request
  BY RequestTyped, FALSE \in BOOLEAN
<1>. QED BY <1>1 DEF NotAlone

LEMMA TypeStep == TypeInv /\ [Next]_vars => TypeInv'
<1> SUFFICES ASSUME TypeInv, [Next]_vars PROVE TypeInv'
  OBVIOUS
<1>t. /\ request \in [Requests -> Request]
      /\ stripe \in [Requests -> StripeSub \cup {None}]
      /\ row \in [Requests -> Row \cup {None}]
      /\ Known
  BY DEF TypeInv, TypeOK
<1> USE DEF TypeInv, TypeOK, Known, Knows, At, Is, InFlight, HasRow, boundVars, historyVars
<1>1. ASSUME NEW r \in Requests, NEW u \in Users, NEW p \in Plans, Create(r, u, p)
      PROVE  TypeInv'
  <2> DEFINE new == [NewRequest EXCEPT !.pc = IF p \in ActivePlans THEN "findActive" ELSE "failed",
                          !.kind = "create", !.sub = r, !.user = u, !.plan = p,
                          !.before = {s \in Requests : Is(s, "create") /\ At(s, "ok")}]
  <2>1. new \in Request
    BY DEF NewRequest, Request, Waiting, Kinds
  <2>2. /\ request' = [request EXCEPT ![r] = new]
        /\ UNCHANGED <<stripe, row, customers, usage, events, historyVars, boundVars>>
    BY <1>1 DEF Create
  <2>3. /\ new.pc \in {"findActive", "failed"} /\ new.kind = "create" /\ new.sub = r
        /\ new.user = u /\ new.plan = p
    BY DEF NewRequest
  <2> HIDE DEF new
  <2>4. request' \in [Requests -> Request]
    BY <1>t, <2>1, <2>2
  <2>5. \A q \in Requests : Knows(q)'
    BY <1>t, <2>2, <2>3
  <2>. QED BY <1>t, <2>2, <2>4, <2>5
<1>2. ASSUME NEW r \in Requests, FindActive(r) \/ ListCustomers(r)
      PROVE  TypeInv'
  BY <1>2, <1>t DEF FindActive, ListCustomers, Goto, Request, Waiting
<1>3. ASSUME NEW r \in Requests, CreateCustomer(r)
      PROVE  TypeInv'
  BY <1>3, <1>t DEF CreateCustomer, Goto, Request, Waiting
<1>4. ASSUME NEW r \in Requests, CreateAtStripe(r)
      PROVE  TypeInv'
  <2>1. PICK status \in {"trialing", "active", "incomplete"} :
          LET x == [status |-> status, plan |-> request[r].plan, cancelAtPeriodEnd |-> FALSE]
          IN /\ stripe' = [stripe EXCEPT ![r] = x]
             /\ request' = [request EXCEPT ![r].pc = "write", ![r].answer = x, ![r].alone = TRUE]
    BY <1>4 DEF CreateAtStripe
  <2> DEFINE x == [status |-> status, plan |-> request[r].plan, cancelAtPeriodEnd |-> FALSE]
  <2>2. x \in StripeSub
    BY <1>4, <1>t DEF CreateAtStripe, StripeSub, Status, Live, Waiting
  <2>3. /\ stripe' = [stripe EXCEPT ![r] = x]
        /\ request' = [request EXCEPT ![r].pc = "write", ![r].answer = x, ![r].alone = TRUE]
        /\ UNCHANGED <<row, customers, usage, events, historyVars, boundVars>>
        /\ At(r, "stripe") /\ Is(r, "create")
    BY <1>4, <2>1 DEF CreateAtStripe
  <2> HIDE DEF x
  <2>4. request' \in [Requests -> Request] /\ stripe' \in [Requests -> StripeSub \cup {None}]
    <3>1. [request[r] EXCEPT !.pc = "write", !.answer = x, !.alone = TRUE] \in Request
      BY <1>t, <2>2, RequestTyped DEF Waiting
    <3>2. request' = [request EXCEPT ![r] =
                        [request[r] EXCEPT !.pc = "write", !.answer = x, !.alone = TRUE]]
      BY <2>3
    <3>. QED BY <1>t, <2>2, <2>3, <3>1, <3>2
  <2>5. x # None
    BY <2>2, NoneAssumption
  <2>6. Known'
    BY <1>t, <2>2, <2>3, <2>5 DEF Waiting
  <2>. QED BY <2>3, <2>4, <2>6
<1>5. ASSUME NEW r \in Requests, InsertRow(r)
      PROVE  TypeInv'
  <2> DEFINE new == [user |-> request[r].user, plan |-> request[r].plan,
                     status |-> LocalStatus(request[r].answer.status),
                     cancelAtPeriodEnd |-> request[r].answer.cancelAtPeriodEnd,
                     cancelledAt |-> CanceledAt(request[r].answer)]
  <2>1. new \in Row
    BY <1>5, <1>t DEF InsertRow, Row, StripeSub, Status, LocalStatus, CanceledAt, Live, Waiting
  <2>2. /\ row' = [row EXCEPT ![r] = new]
        /\ request' = [request EXCEPT ![r].pc = "event"]
        /\ UNCHANGED <<stripe, customers, usage, events, disturbed, unsynced, boundVars>>
        /\ lapsed' \in SUBSET Requests
        /\ At(r, "write") /\ Is(r, "create")
    BY <1>5 DEF InsertRow, Goto, Lapses
  <2> HIDE DEF new
  <2>3. request' \in [Requests -> Request] /\ row' \in [Requests -> Row \cup {None}]
    BY <1>t, <2>1, <2>2 DEF Request, Waiting
  <2>4. Known'
    BY <1>t, <2>1, <2>2, NoneAssumption DEF Waiting
  <2>. QED BY <2>2, <2>3, <2>4
<1>6. ASSUME NEW r \in Requests, NEW s \in Requests, NEW kind \in Kinds \ {"create"},
             NEW p \in Plans \cup {None}, NEW f \in BOOLEAN \cup {None}, Begin(r, kind, s, p, f)
      PROVE  TypeInv'
  <2> DEFINE new == [NewRequest EXCEPT
          !.pc = IF p \in ActivePlans \cup {None, row[s].plan} THEN "stripe" ELSE "failed",
          !.kind = kind, !.sub = s, !.user = row[s].user, !.plan = p, !.flag = f,
          !.seen = row[s].plan, !.alone = Writers(s, RowKinds) = {}]
  <2>1. row[s] \in Row /\ HasRow(s) /\ At(r, "new")
    BY <1>6, <1>t DEF Begin
  <2>2. new \in Request
    <3>1. row[s].user \in Users /\ row[s].plan \in Plans
      BY <2>1 DEF Row
    <3>2. (Writers(s, RowKinds) = {}) \in BOOLEAN
      OBVIOUS
    <3> DEFINE l == IF p \in ActivePlans \cup {None, row[s].plan} THEN "stripe" ELSE "failed"
    <3>3. l \in Waiting \cup {"failed"}
      BY DEF Waiting
    <3> DEFINE b == Writers(s, RowKinds) = {}
    <3>4. new = [NewRequest EXCEPT !.pc = l, !.kind = kind, !.sub = s, !.user = row[s].user,
                   !.plan = p, !.flag = f, !.seen = row[s].plan, !.alone = b]
      BY Zenon
    <3> HIDE DEF l, b, new
    <3>5. kind \in Kinds /\ b \in BOOLEAN
      BY <3>2, Zenon DEF b
    <3>. QED BY <3>1, <3>3, <3>4, <3>5, NewTyped, Zenon
  <2>3. /\ new.pc \in {"stripe", "failed"} /\ new.kind = kind /\ new.sub = s
        /\ new.user \in Users /\ new.seen \in Plans
    BY <2>1 DEF NewRequest, Row
  <2>4. /\ request' = [(IF kind = "usage" THEN request ELSE NotAlone(s)) EXCEPT ![r] = new]
        /\ UNCHANGED <<stripe, row, customers, usage, events, lapsed, boundVars>>
    BY <1>6 DEF Begin
  <2>5. disturbed' \in SUBSET Requests /\ unsynced' \in SUBSET Requests
    BY <1>6 DEF Begin, Overlap
  <2> HIDE DEF new
  <2>6. NotAlone(s) \in [Requests -> Request]
    BY <1>t, NotAloneTyped
  <2>7. request' \in [Requests -> Request]
    BY <1>t, <2>2, <2>4, <2>6
  <2>8. ASSUME NEW q \in Requests, q # r
        PROVE  /\ request'[q].pc = request[q].pc /\ request'[q].kind = request[q].kind
               /\ request'[q].sub = request[q].sub /\ request'[q].user = request[q].user
               /\ request'[q].plan = request[q].plan /\ request'[q].seen = request[q].seen
               /\ request'[q].answer = request[q].answer
    BY <1>t, <2>4, <2>8 DEF NotAlone, Request
  <2>9. request'[r] = new
    BY <1>t, <2>4, <2>6
  <2>10. Known'
    BY <1>t, <2>1, <2>3, <2>4, <2>8, <2>9 DEF Waiting
  <2>. QED BY <2>4, <2>5, <2>7, <2>10
<1>7. ASSUME NEW r \in Requests, CallStripe(r)
      PROVE  TypeInv'
  <2> DEFINE s == request[r].sub
             x == Updated(r, stripe[s])
  <2>1. s \in Requests /\ stripe[s] \in StripeSub /\ HasRow(s)
    BY <1>7, <1>t DEF CallStripe, Waiting
  <2>2. x \in StripeSub
    BY <2>1, UpdatedTyped
  <2>3. /\ stripe' = [stripe EXCEPT ![s] = x]
        /\ request' = [request EXCEPT ![r].pc = "write", ![r].answer = x]
        /\ usage' \in [stripe : SUBSET Requests, local : SUBSET Requests]
        /\ UNCHANGED <<row, customers, events, historyVars, boundVars>>
        /\ At(r, "stripe") /\ ~Is(r, "create")
    BY <1>7 DEF CallStripe
  <2> HIDE DEF x
  <2>4. request' \in [Requests -> Request] /\ stripe' \in [Requests -> StripeSub \cup {None}]
    <3>1. [request[r] EXCEPT !.pc = "write", !.answer = x] \in Request
      BY <1>t, <2>2, RequestTyped DEF Waiting
    <3>2. request' = [request EXCEPT ![r] = [request[r] EXCEPT !.pc = "write", !.answer = x]]
      BY <2>3
    <3>. QED BY <1>t, <2>1, <2>2, <2>3, <3>1, <3>2
  <2>5. x # None
    BY <2>2, NoneAssumption
  <2>6. Known'
    BY <1>t, <2>1, <2>2, <2>3, <2>5 DEF Waiting
  <2>. QED BY <2>3, <2>4, <2>6
<1>8. ASSUME NEW r \in Requests, StripeRefuses(r)
      PROVE  TypeInv'
  BY <1>8, <1>t DEF StripeRefuses, Goto, Request, Waiting
<1>9. ASSUME NEW r \in Requests, WriteRow(r)
      PROVE  TypeInv'
  <2> DEFINE s == request[r].sub
             new == RowFrom(r, row[s], request[r].answer)
  <2>1. s \in Requests /\ row[s] \in Row /\ request[r].answer \in StripeSub
        /\ request[r].seen \in Plans /\ request[r] \in Request
    BY <1>9, <1>t DEF WriteRow, Waiting
  <2>2. new \in Row
    BY <2>1, RowFromTyped
  <2>3. /\ row' = [row EXCEPT ![s] = new]
        /\ request' = [request EXCEPT ![r].pc = IF Is(r, "sync") THEN "ok" ELSE "event"]
        /\ UNCHANGED <<stripe, customers, usage, events, disturbed, boundVars>>
        /\ lapsed' \in SUBSET Requests /\ unsynced' \in SUBSET Requests
        /\ At(r, "write")
    BY <1>9, <2>1 DEF WriteRow, Goto, Lapses
  <2> HIDE DEF new
  <2>4. request' \in [Requests -> Request] /\ row' \in [Requests -> Row \cup {None}]
    BY <1>t, <2>1, <2>2, <2>3 DEF Request, Waiting
  <2>5. new # None
    BY <2>2, NoneAssumption
  <2>6. Known'
    BY <1>t, <2>1, <2>3, <2>5 DEF Waiting
  <2>. QED BY <2>3, <2>4, <2>6
<1>10. ASSUME NEW r \in Requests, InsertUsage(r)
       PROVE  TypeInv'
  BY <1>10, <1>t DEF InsertUsage, Goto, Request, Waiting
<1>11. ASSUME NEW r \in Requests, PublishEvent(r)
       PROVE  TypeInv'
  BY <1>11, <1>t DEF PublishEvent, Goto, Request, Waiting
<1>12. ASSUME NEW r \in Requests, Fail(r)
       PROVE  TypeInv'
  <2>1. /\ request' = [request EXCEPT ![r].pc = "failed"]
        /\ disturbed' \in SUBSET Requests /\ unsynced' \in SUBSET Requests
        /\ faults' \in 0 .. MaxFaults
        /\ UNCHANGED <<stripe, row, customers, usage, events, lapsed, changes>>
    <3>1. request[r].sub \in Requests
      BY <1>12, <1>t DEF Fail
    <3>. QED BY <1>12, <3>1, BillingAssumption DEF Fail, Goto, AfterError
  <2>. QED BY <1>t, <2>1 DEF Request, Waiting
<1>13. ASSUME NEW s \in Requests, StripeChanges(s)
       PROVE  TypeInv'
  <2>1. PICK status \in Status : stripe' = [stripe EXCEPT ![s].status = status]
    BY <1>13 DEF StripeChanges
  <2>2. stripe[s] \in StripeSub /\ [stripe[s] EXCEPT !.status = status] \in StripeSub
    BY <1>13, <1>t DEF StripeChanges, StripeSub
  <2>3. stripe' = [stripe EXCEPT ![s] = [stripe[s] EXCEPT !.status = status]]
    BY <2>1
  <2>4. /\ request' = NotAlone(s)
        /\ unsynced' \in SUBSET Requests /\ changes' \in 0 .. MaxChanges
        /\ UNCHANGED <<row, customers, usage, events, disturbed, lapsed, faults>>
    BY <1>13, BillingAssumption DEF StripeChanges
  <2>5. request' \in [Requests -> Request]
    BY <1>t, <2>4, NotAloneTyped
  <2>6. ASSUME NEW q \in Requests
        PROVE  /\ request'[q].pc = request[q].pc /\ request'[q].kind = request[q].kind
               /\ request'[q].sub = request[q].sub /\ request'[q].user = request[q].user
               /\ request'[q].plan = request[q].plan /\ request'[q].seen = request[q].seen
               /\ request'[q].answer = request[q].answer
    BY <1>t, <2>4 DEF NotAlone, Request
  <2>7. stripe' \in [Requests -> StripeSub \cup {None}]
    BY <1>t, <2>2, <2>3
  <2>8. [stripe[s] EXCEPT !.status = status] # None
    BY <2>2, NoneAssumption
  <2>9. Known'
    BY <1>t, <2>3, <2>4, <2>6, <2>8 DEF Waiting
  <2>. QED BY <2>4, <2>5, <2>7, <2>9
<1>14. CASE UNCHANGED vars
  BY <1>14 DEF vars, Writers
<1>. QED
  BY <1>1, <1>2, <1>3, <1>4, <1>5, <1>6, <1>7, <1>8, <1>9, <1>10, <1>11, <1>12, <1>13, <1>14
     DEF Next, NewRequestComes, Step, Kinds

LEMMA TypeInit == Init => TypeInv
<1> SUFFICES ASSUME Init PROVE TypeInv
  OBVIOUS
<1>1. NewRequest \in Request
  BY DEF NewRequest, Request, Waiting, Kinds
<1>2. TypeOK
  BY <1>1, BillingAssumption DEF Init, TypeOK
<1>3. Known
  BY DEF Init, Known, Knows, At, InFlight, Is, HasRow, NewRequest, Waiting
<1>. QED BY <1>2, <1>3 DEF TypeInv

LEMMA TypeInvariant == Spec => []TypeInv
  BY TypeInit, TypeStep, PTL DEF Spec

(* Every variable keeps its type: in particular only the spellings of the    *)
(* local statuses get into the rows (mapStripeStatusToLocal).                *)
THEOREM TypeCorrect == Spec => []TypeOK
<1>1. TypeInv => TypeOK
  BY DEF TypeInv
<1>. QED BY <1>1, TypeInvariant, PTL

-----------------------------------------------------------------------------
(* What a request that comes, and a change at Stripe, make of the requests.  *)
Same(q) ==
  /\ request'[q].pc = request[q].pc /\ request'[q].kind = request[q].kind
  /\ request'[q].sub = request[q].sub /\ request'[q].user = request[q].user
  /\ request'[q].plan = request[q].plan /\ request'[q].seen = request[q].seen
  /\ request'[q].answer = request[q].answer /\ request'[q].before = request[q].before
  /\ request'[q].alone => request[q].alone

LEMMA BeginRequests ==
  ASSUME TypeInv, NEW r \in Requests, NEW s \in Requests, NEW kind \in Kinds \ {"create"},
         NEW p \in Plans \cup {None}, NEW f \in BOOLEAN \cup {None}, Begin(r, kind, s, p, f)
  PROVE  /\ At(r, "new") /\ HasRow(s)
         /\ \A q \in Requests \ {r} : Same(q)
         /\ kind # "usage" =>
              \A q \in Requests \ {r} : request[q].sub = s => ~request'[q].alone
         /\ request'[r].pc \in {"stripe", "failed"} /\ request'[r].kind = kind
         /\ request'[r].sub = s /\ request'[r].plan = p /\ request'[r].seen = row[s].plan
         /\ request'[r].before = {}
         /\ request'[r].alone => Writers(s, RowKinds) = {}
<1> DEFINE b == Writers(s, RowKinds) = {}
           new == [NewRequest EXCEPT
             !.pc = IF p \in ActivePlans \cup {None, row[s].plan} THEN "stripe" ELSE "failed",
             !.kind = kind, !.sub = s, !.user = row[s].user, !.plan = p, !.flag = f,
             !.seen = row[s].plan, !.alone = b]
<1>t. request \in [Requests -> Request]
  BY DEF TypeInv, TypeOK
<1>1. At(r, "new") /\ HasRow(s)
  BY DEF Begin
<1>2. request' = [(IF kind = "usage" THEN request ELSE NotAlone(s)) EXCEPT ![r] = new]
  BY DEF Begin
<1> HIDE DEF b
<1>3. /\ new.pc \in {"stripe", "failed"} /\ new.kind = kind /\ new.sub = s /\ new.plan = p
      /\ new.seen = row[s].plan /\ new.before = {} /\ new.alone = b
  BY DEF NewRequest
<1> HIDE DEF new
<1>4. request'[r] = new
  BY <1>t, <1>2 DEF NotAlone
<1>5. ASSUME NEW q \in Requests, q # r
      PROVE  Same(q) /\ (kind # "usage" /\ request[q].sub = s => ~request'[q].alone)
  <2>1. request'[q] = IF kind = "usage" THEN request[q] ELSE NotAlone(s)[q]
    BY <1>t, <1>2, <1>5 DEF NotAlone
  <2>. QED BY <1>t, <2>1 DEF NotAlone, Same, Request
<1>. QED BY <1>1, <1>3, <1>4, <1>5 DEF b

LEMMA NotAloneRequests ==
  ASSUME TypeInv, NEW s \in Requests, request' = NotAlone(s)
  PROVE  \A q \in Requests : Same(q) /\ (request[q].sub = s => ~request'[q].alone)
<1>1. request \in [Requests -> Request]
  BY DEF TypeInv, TypeOK
<1>. QED BY <1>1 DEF NotAlone, Same, Request

-----------------------------------------------------------------------------
(* Nothing is charged unseen.  What is at Stripe was put there by a create   *)
(* that is past that step, a usage record by a recordUsage; and whoever is   *)
(* at the event has written its row.                                         *)
ChargeInv ==
  \A r \in Requests :
    /\ stripe[r] # None => Is(r, "create") /\ ~At(r, "new")
    /\ r \in usage.stripe => Is(r, "usage") /\ ~At(r, "new")
    /\ At(r, "write") /\ Is(r, "usage") => r \in usage.stripe
    /\ At(r, "event") /\ Is(r, "create") => HasRow(r)
    /\ At(r, "event") /\ Is(r, "usage") => r \in usage.local
    /\ Is(r, "create") /\ ~At(r, "event") /\ InFlight(r) => ~HasRow(r)

LEMMA ChargeStep ==
  TypeInv /\ ChargeInv /\ NothingChargedUnseen /\ [Next]_vars
    => ChargeInv' /\ NothingChargedUnseen'
<1> SUFFICES ASSUME TypeInv, ChargeInv, NothingChargedUnseen, [Next]_vars
             PROVE  ChargeInv' /\ NothingChargedUnseen'
  OBVIOUS
<1>t. /\ request \in [Requests -> Request]
      /\ stripe \in [Requests -> StripeSub \cup {None}]
      /\ row \in [Requests -> Row \cup {None}]
      /\ usage \in [stripe : SUBSET Requests, local : SUBSET Requests]
      /\ events \in SUBSET Requests
      /\ Known /\ TypeInv'
  BY TypeStep DEF TypeInv, TypeOK
<1> USE DEF ChargeInv, NothingChargedUnseen, At, Is, InFlight, HasRow
<1> USE DEF Waiting, Known, Knows
<1>1. ASSUME NEW r \in Requests, NEW u \in Users, NEW p \in Plans, Create(r, u, p)
      PROVE  ChargeInv' /\ NothingChargedUnseen'
  <2>1. /\ \A q \in Requests \ {r} : request'[q] = request[q]
        /\ request'[r].pc \in {"findActive", "failed"} /\ request'[r].kind = "create"
        /\ request[r].pc = "new"
        /\ UNCHANGED <<stripe, row, usage, events>>
    BY <1>1, <1>t DEF Create, NewRequest
  <2>. QED BY <1>t, <2>1
<1>2. ASSUME NEW r \in Requests,
             FindActive(r) \/ ListCustomers(r) \/ CreateCustomer(r) \/ StripeRefuses(r)
             \/ Fail(r)
      PROVE  ChargeInv' /\ NothingChargedUnseen'
  <2>1. PICK l \in {"listCustomers", "createCustomer", "stripe", "failed"} :
          /\ request' = [request EXCEPT ![r].pc = l]
          /\ l # "failed" => Is(r, "create") /\ request[r].pc \in {"findActive", "listCustomers", "createCustomer"}
          /\ InFlight(r)
          /\ UNCHANGED <<stripe, row, usage, events>>
    BY <1>2, <1>t DEF FindActive, ListCustomers, CreateCustomer, StripeRefuses, Fail, Goto,
                      AfterError
  <2>. QED BY <1>t, <2>1
<1>3. ASSUME NEW r \in Requests, CreateAtStripe(r)
      PROVE  ChargeInv' /\ NothingChargedUnseen'
  <2>1. /\ \A q \in Requests \ {r} : stripe'[q] = stripe[q] /\ request'[q] = request[q]
        /\ request'[r].pc = "write" /\ request'[r].kind = "create"
        /\ At(r, "stripe") /\ Is(r, "create")
        /\ UNCHANGED <<row, usage, events>>
    BY <1>3, <1>t DEF CreateAtStripe, Request
  <2>2. stripe'[r] # None
    BY <1>t, <2>1 DEF TypeInv
  <2>. QED BY <1>t, <2>1, <2>2
<1>4. ASSUME NEW r \in Requests, InsertRow(r)
      PROVE  ChargeInv' /\ NothingChargedUnseen'
  <2>1. /\ \A q \in Requests \ {r} : row'[q] = row[q]
        /\ row'[r] # None
        /\ request' = [request EXCEPT ![r].pc = "event"]
        /\ At(r, "write") /\ Is(r, "create")
        /\ UNCHANGED <<stripe, usage, events>>
    <3>1. row'[r] \in Row
      BY <1>4, <1>t, NoneAssumption DEF InsertRow, TypeInv, TypeOK, Row, StripeSub, LocalStatus,
                                        Live, Status, CanceledAt
    <3>. QED BY <1>4, <1>t, <3>1, NoneAssumption DEF InsertRow, Goto
  <2>. QED BY <1>t, <2>1
<1>5. ASSUME NEW r \in Requests, NEW s \in Requests, NEW kind \in Kinds \ {"create"},
             NEW p \in Plans \cup {None}, NEW f \in BOOLEAN \cup {None}, Begin(r, kind, s, p, f)
      PROVE  ChargeInv' /\ NothingChargedUnseen'
  <2>1. UNCHANGED <<stripe, row, usage, events>>
    BY <1>5 DEF Begin
  <2>2. /\ At(r, "new")
        /\ \A q \in Requests \ {r} : Same(q)
        /\ request'[r].pc \in {"stripe", "failed"} /\ request'[r].kind # "create"
    <3> HIDE DEF ChargeInv, NothingChargedUnseen, Known, Knows
    <3>. QED BY <1>5, BeginRequests
  <2>3. /\ stripe[r] = None /\ row[r] = None
        /\ r \notin usage.stripe /\ r \notin usage.local
    BY <1>t, <2>2
  <2>4. ChargeInv'
    BY <1>t, <2>1, <2>2, <2>3 DEF Same
  <2>5. NothingChargedUnseen'
    BY <1>t, <2>1, <2>2, <2>3 DEF Same
  <2>. QED BY <2>4, <2>5
<1>6. ASSUME NEW r \in Requests, CallStripe(r)
      PROVE  ChargeInv' /\ NothingChargedUnseen'
  <2> DEFINE s == request[r].sub
  <2>1. /\ s \in Requests /\ stripe[s] # None /\ HasRow(s)
        /\ \A q \in Requests \ {s} : stripe'[q] = stripe[q]
        /\ \A q \in Requests \ {r} : request'[q] = request[q]
        /\ request'[r].pc = "write" /\ request'[r].kind = request[r].kind
        /\ At(r, "stripe") /\ ~Is(r, "create")
        /\ UNCHANGED <<row, events>>
        /\ usage'.local = usage.local
        /\ usage'.stripe = IF Is(r, "usage") THEN usage.stripe \cup {r} ELSE usage.stripe
    BY <1>6, <1>t DEF CallStripe
  <2>2. stripe'[s] # None
    BY <1>t, <2>1 DEF TypeInv, TypeOK
  <2>. QED BY <1>t, <2>1, <2>2
<1>7. ASSUME NEW r \in Requests, WriteRow(r)
      PROVE  ChargeInv' /\ NothingChargedUnseen'
  <2> DEFINE s == request[r].sub
  <2>1. /\ s \in Requests /\ HasRow(s)
        /\ \A q \in Requests \ {s} : row'[q] = row[q]
        /\ request' = [request EXCEPT ![r].pc = IF Is(r, "sync") THEN "ok" ELSE "event"]
        /\ At(r, "write") /\ request[r].kind \in {"update", "cancel", "sync"}
        /\ UNCHANGED <<stripe, usage, events>>
    BY <1>7, <1>t DEF WriteRow, Goto
  <2>2. row'[s] # None
    <3>1. row'[s] \in Row
      BY <1>7, <1>t, <2>1, RowFromTyped DEF WriteRow
    <3>. QED BY <3>1, NoneAssumption
  <2>. QED BY <1>t, <2>1, <2>2
<1>8. ASSUME NEW r \in Requests, InsertUsage(r)
      PROVE  ChargeInv' /\ NothingChargedUnseen'
  BY <1>8, <1>t DEF InsertUsage, Goto
<1>9. ASSUME NEW r \in Requests, PublishEvent(r)
      PROVE  ChargeInv' /\ NothingChargedUnseen'
  <2>1. /\ request' = [request EXCEPT ![r].pc = "ok"] /\ events' = events \cup {r}
        /\ At(r, "event") /\ UNCHANGED <<stripe, row, usage>>
    BY <1>9 DEF PublishEvent, Goto
  <2>. QED BY <1>t, <2>1
<1>10. ASSUME NEW s \in Requests, StripeChanges(s)
       PROVE  ChargeInv' /\ NothingChargedUnseen'
  <2>1. /\ \A q \in Requests \ {s} : stripe'[q] = stripe[q]
        /\ stripe[s] # None /\ request' = NotAlone(s)
        /\ UNCHANGED <<row, usage, events>>
    BY <1>10, <1>t DEF StripeChanges
  <2>2. stripe'[s] # None
    <3>1. PICK status \in Status : stripe' = [stripe EXCEPT ![s].status = status]
      BY <1>10 DEF StripeChanges
    <3>2. stripe'[s] \in StripeSub
      BY <1>t, <2>1, <3>1 DEF StripeSub
    <3>. QED BY <3>2, NoneAssumption
  <2>. QED BY <1>t, <2>1, <2>2, NotAloneRequests DEF Same
<1>11. CASE UNCHANGED vars
  BY <1>11 DEF vars
<1>. QED
  BY <1>1, <1>2, <1>3, <1>4, <1>5, <1>6, <1>7, <1>8, <1>9, <1>10, <1>11
     DEF Next, NewRequestComes, Step, Kinds

(* A request that was answered with success left its subscription or usage   *)
(* both at Stripe and in the database, with an event; what is at Stripe only *)
(* belongs to a request at work or failed (SubscriptionService).             *)
THEOREM NothingChargedUnseenCorrect == Spec => []NothingChargedUnseen
<1>1. Init => ChargeInv /\ NothingChargedUnseen
  BY DEF Init, ChargeInv, NothingChargedUnseen, At, Is, InFlight, HasRow, NewRequest
<1>. QED BY <1>1, TypeInvariant, ChargeStep, PTL DEF Spec

-----------------------------------------------------------------------------
(* A second subscription needs an overlap or a lapse.  Whoever passed        *)
(* findActive, or has a row, met no live row among those that were answered  *)
(* before it came; a row keeps its user.                                     *)
PastFindActive(r) ==
  At(r, "listCustomers") \/ At(r, "createCustomer") \/ At(r, "stripe") \/ At(r, "write")

LapseInv ==
  \A r \in Requests :
    /\ HasRow(r) => /\ Is(r, "create") /\ row[r].user = request[r].user
                    /\ row[r].status \in Live \/ r \in lapsed
    /\ \A a \in request[r].before : HasRow(a)
    /\ Is(r, "create") /\ (PastFindActive(r) \/ HasRow(r)) =>
         \A a \in request[r].before : row[a].user = request[r].user => a \in lapsed

LEMMA LapseStep ==
  TypeInv /\ ChargeInv /\ NothingChargedUnseen /\ LapseInv /\ [Next]_vars => LapseInv'
<1> SUFFICES ASSUME TypeInv, ChargeInv, NothingChargedUnseen, LapseInv, [Next]_vars
             PROVE  LapseInv'
  OBVIOUS
<1>t. /\ request \in [Requests -> Request]
      /\ stripe \in [Requests -> StripeSub \cup {None}]
      /\ row \in [Requests -> Row \cup {None}]
      /\ lapsed \in SUBSET Requests
      /\ Known
  BY DEF TypeInv, TypeOK
<1>b. \A r \in Requests : request[r].before \subseteq Requests
  BY <1>t DEF Request
<1>n. \A r \in Requests : HasRow(r) => Is(r, "create") /\ ~At(r, "new")
  BY <1>t DEF ChargeInv, Known
<1>w. \A r \in Requests : InFlight(r) /\ Is(r, "create") /\ ~At(r, "event") => ~HasRow(r)
  BY DEF ChargeInv
<1> USE DEF LapseInv, PastFindActive, At, Is, HasRow
<1>1. ASSUME NEW r \in Requests, NEW u \in Users, NEW p \in Plans, Create(r, u, p)
      PROVE  LapseInv'
  <2>1. /\ \A q \in Requests \ {r} : request'[q] = request[q]
        /\ request'[r].pc \in {"findActive", "failed"} /\ request'[r].kind = "create"
        /\ request'[r].before = {s \in Requests : Is(s, "create") /\ At(s, "ok")}
        /\ request[r].pc = "new"
        /\ UNCHANGED <<stripe, row, lapsed>>
    BY <1>1, <1>t DEF Create, NewRequest, historyVars
  <2>2. \A a \in request'[r].before : HasRow(a)
    BY <2>1 DEF NothingChargedUnseen
  <2>. QED BY <1>t, <1>b, <1>n, <2>1, <2>2
<1>2. ASSUME NEW r \in Requests, FindActive(r)
      PROVE  LapseInv'
  <2> DEFINE u == request[r].user
  <2>1. /\ \A q \in Requests \ {r} : request'[q] = request[q]
        /\ request'[r].kind = request[r].kind /\ request'[r].user = u
        /\ request'[r].before = request[r].before
        /\ request'[r].pc = IF LiveRows(u) = {} THEN "listCustomers" ELSE "failed"
        /\ ~HasRow(r)
        /\ UNCHANGED <<stripe, row, lapsed>>
    <3>1. Is(r, "create") /\ InFlight(r)
      BY <1>2, <1>t DEF FindActive, Known, Knows, InFlight, Waiting
    <3>. QED BY <1>2, <1>t, <1>w, <3>1 DEF FindActive, Goto, ActiveSubscriptions, historyVars
  <2>2. LiveRows(u) = {} =>
          \A a \in request[r].before : row[a].user = u => a \in lapsed
    BY <1>t, <1>b DEF LiveRows
  <2>. QED BY <1>t, <1>b, <2>1, <2>2
<1>3. ASSUME NEW r \in Requests, ListCustomers(r) \/ CreateCustomer(r)
      PROVE  LapseInv'
  <2>1. PICK l \in {"createCustomer", "stripe"} :
          /\ request' = [request EXCEPT ![r].pc = l]
          /\ PastFindActive(r)
          /\ UNCHANGED <<row, lapsed>>
    BY <1>3 DEF ListCustomers, CreateCustomer, Goto, historyVars
  <2>2. /\ \A q \in Requests \ {r} : request'[q] = request[q]
        /\ request'[r].kind = request[r].kind /\ request'[r].user = request[r].user
        /\ request'[r].before = request[r].before
    BY <1>t, <2>1
  <2>. QED BY <1>t, <1>b, <2>1, <2>2
<1>4. ASSUME NEW r \in Requests, CreateAtStripe(r) \/ CallStripe(r) \/ InsertUsage(r)
      PROVE  LapseInv'
  <2>1. /\ \A q \in Requests \ {r} : request'[q] = request[q]
        /\ request'[r].kind = request[r].kind /\ request'[r].user = request[r].user
        /\ request'[r].before = request[r].before
        /\ PastFindActive(r)
        /\ UNCHANGED <<row, lapsed>>
    BY <1>4, <1>t DEF CreateAtStripe, CallStripe, InsertUsage, Goto, historyVars, Request
  <2>. QED BY <1>t, <1>b, <2>1
<1>5. ASSUME NEW r \in Requests, StripeRefuses(r) \/ PublishEvent(r) \/ Fail(r)
      PROVE  LapseInv'
  <2>1. PICK l \in {"ok", "failed"} :
          /\ request' = [request EXCEPT ![r].pc = l]
          /\ UNCHANGED <<row, lapsed>>
    BY <1>5 DEF StripeRefuses, PublishEvent, Fail, Goto, AfterError, historyVars
  <2>2. /\ \A q \in Requests \ {r} : request'[q] = request[q]
        /\ request'[r].kind = request[r].kind /\ request'[r].user = request[r].user
        /\ request'[r].before = request[r].before /\ request'[r].pc = l
    BY <1>t, <2>1
  <2>. QED BY <1>t, <1>b, <2>1, <2>2
<1>6. ASSUME NEW r \in Requests, InsertRow(r)
      PROVE  LapseInv'
  <2> DEFINE x == request[r].answer
  <2>1. x \in StripeSub /\ At(r, "write") /\ Is(r, "create")
    BY <1>6, <1>t DEF InsertRow, Known, Knows
  <2>2. /\ \A q \in Requests \ {r} : request'[q] = request[q] /\ row'[q] = row[q]
        /\ request'[r].kind = request[r].kind /\ request'[r].user = request[r].user
        /\ request'[r].before = request[r].before
        /\ row'[r].user = request[r].user /\ row'[r].status = LocalStatus(x.status)
        /\ lapsed' = IF x.status \in Live THEN lapsed ELSE lapsed \cup {r}
    BY <1>6, <1>t DEF InsertRow, Goto, Lapses
  <2>3. x.status \in Live => LocalStatus(x.status) \in Live
    BY DEF LocalStatus, Live
  <2>4. row'[r] # None
    <3>1. row'[r] \in Row
      BY <1>6, <1>t, <2>1, NoneAssumption
         DEF InsertRow, Known, Knows, InFlight, Waiting, Row, StripeSub, LocalStatus, Live,
             Status, CanceledAt
    <3>. QED BY <3>1, NoneAssumption
  <2>5. ~HasRow(r)
    BY <1>w, <2>1 DEF InFlight, Waiting
  <2>. QED BY <1>t, <1>b, <2>1, <2>2, <2>3, <2>4, <2>5
<1>7. ASSUME NEW r \in Requests, NEW s \in Requests, NEW kind \in Kinds \ {"create"},
             NEW p \in Plans \cup {None}, NEW f \in BOOLEAN \cup {None}, Begin(r, kind, s, p, f)
      PROVE  LapseInv'
  <2>1. UNCHANGED <<row, lapsed>>
    BY <1>7 DEF Begin
  <2>2. /\ \A q \in Requests \ {r} : Same(q)
        /\ request'[r].kind # "create" /\ request'[r].before = {}
        /\ ~HasRow(r)
    <3>1. At(r, "new")
      BY <1>7 DEF Begin
    <3>. QED BY <1>n, <1>7, <3>1, BeginRequests
  <2>. QED BY <1>t, <1>b, <2>1, <2>2 DEF Same
<1>8. ASSUME NEW r \in Requests, WriteRow(r)
      PROVE  LapseInv'
  <2> DEFINE s == request[r].sub
             x == request[r].answer
  <2>1. s \in Requests /\ x \in StripeSub /\ row[s] \in Row /\ HasRow(s)
    BY <1>8, <1>t DEF WriteRow, Known, Knows, InFlight, Waiting
  <2>2. /\ \A q \in Requests \ {r} : request'[q] = request[q]
        /\ \A q \in Requests \ {s} : row'[q] = row[q]
        /\ request'[r].kind = request[r].kind /\ request'[r].user = request[r].user
        /\ request'[r].before = request[r].before
        /\ request'[r].pc \in {"ok", "event"} /\ ~Is(r, "create")
        /\ row'[s] = RowFrom(r, row[s], x)
        /\ lapsed' = IF x.status \in Live THEN lapsed ELSE lapsed \cup {s}
    BY <1>8, <1>t, <2>1 DEF WriteRow, Goto, Lapses
  <2>3. row'[s].user = row[s].user /\ row'[s].status = LocalStatus(x.status)
    BY <2>1, <2>2 DEF RowFrom, Row
  <2>4. x.status \in Live => LocalStatus(x.status) \in Live
    BY DEF LocalStatus, Live
  <2>5. row'[s] # None
    <3>1. row'[s] \in Row
      <4>1. At(r, "write") /\ request[r].kind \in {"update", "cancel", "sync"}
        BY <1>8 DEF WriteRow
      <4>2. request[r] \in Request /\ request[r].seen \in Plans
        BY <1>t, <4>1 DEF Known, Knows, InFlight, Waiting
      <4>. QED BY <2>1, <2>2, <4>2, RowFromTyped
    <3>. QED BY <3>1, NoneAssumption
  <2>6. \A q \in Requests : HasRow(q)' <=> HasRow(q)
    BY <2>1, <2>2, <2>5
  <2>7. \A q \in Requests : HasRow(q) => row'[q].user = row[q].user
    BY <2>2, <2>3
  <2>8. \A q \in Requests : HasRow(q) /\ (row[q].status \in Live \/ q \in lapsed)
          => row'[q].status \in Live \/ q \in lapsed'
    BY <2>2, <2>3, <2>4
  <2>9. /\ lapsed \subseteq lapsed'
        /\ \A q \in Requests : /\ request'[q].kind = request[q].kind
                               /\ request'[q].user = request[q].user
                               /\ request'[q].before = request[q].before
        /\ \A q \in Requests : Is(q, "create") => request'[q].pc = request[q].pc
    BY <2>2
  <2>. QED BY <1>t, <1>b, <2>6, <2>7, <2>8, <2>9
<1>9. ASSUME NEW s \in Requests, StripeChanges(s)
      PROVE  LapseInv'
  <2>1. request' = NotAlone(s) /\ UNCHANGED <<row, lapsed>>
    BY <1>9 DEF StripeChanges
  <2>. QED BY <1>t, <1>b, <2>1, NotAloneRequests DEF Same
<1>10. CASE UNCHANGED vars
  BY <1>10 DEF vars, historyVars
<1>. QED
  BY <1>1, <1>2, <1>3, <1>4, <1>5, <1>6, <1>7, <1>8, <1>9, <1>10
     DEF Next, NewRequestComes, Step, Kinds

(* A user whose create was answered gets no second subscription while the    *)
(* row of the first stays live, whatever else overlaps or fails              *)
(* (createSubscription).                                                     *)
THEOREM SecondOnlyByOverlapCorrect == Spec => []SecondOnlyByOverlap
<1>1. Init => ChargeInv /\ NothingChargedUnseen /\ LapseInv
  BY DEF Init, ChargeInv, NothingChargedUnseen, LapseInv, PastFindActive, At, Is, InFlight,
         HasRow, NewRequest
<1>2. LapseInv => SecondOnlyByOverlap
  BY DEF LapseInv, SecondOnlyByOverlap, HasRow
<1>. QED BY <1>1, <1>2, TypeInvariant, ChargeStep, LapseStep, PTL DEF Spec

-----------------------------------------------------------------------------
(* A settled row agrees with Stripe.  Plan: as long as the updates of a      *)
(* subscription neither overlapped nor failed, the one at work saw the plan  *)
(* of the row, which is Stripe's until Stripe has done the update.           *)
PlanInv ==
  /\ \A s \in Requests : HasRow(s) /\ s \notin disturbed =>
       /\ (\A r \in Writers(s, {"update"}) : ~At(r, "write")) => row[s].plan = stripe[s].plan
       /\ \A r \in Writers(s, {"update"}) :
            /\ Writers(s, {"update"}) \subseteq {r}
            /\ request[r].seen = row[s].plan
            /\ At(r, "write") => stripe[s].plan = PlanWritten(r, row[s].plan)
  /\ \A r \in Requests : At(r, "write") /\ Is(r, "create") => stripe[r].plan = request[r].plan

(* Status and cancellation: a request that has the subscription for itself   *)
(* holds Stripe's last word when it writes the row.                          *)
Agrees(s) ==
  /\ row[s].status = LocalStatus(stripe[s].status)
  /\ row[s].cancelAtPeriodEnd = stripe[s].cancelAtPeriodEnd
  /\ CanceledAt(stripe[s]) => row[s].cancelledAt

SyncInv ==
  /\ \A s \in Requests : HasRow(s) /\ s \notin unsynced =>
       /\ (\A r \in Writers(s, {"update", "cancel"}) : ~At(r, "write")) => Agrees(s)
       /\ \A r \in Writers(s, RowKinds) :
            /\ Writers(s, RowKinds) \subseteq {r}
            /\ At(r, "write") => request[r].answer = stripe[s]
  /\ \A s \in Requests : \A r \in Writers(s, {"update", "cancel", "sync"}) :
       request[r].alone => /\ Writers(s, RowKinds) \subseteq {r}
                           /\ At(r, "write") => request[r].answer = stripe[s]
  /\ \A r \in Requests :
       At(r, "write") /\ Is(r, "create") /\ r \notin unsynced => request[r].answer = stripe[r]

LEMMA PlanStep ==
  TypeInv /\ ChargeInv /\ NothingChargedUnseen /\ PlanInv /\ [Next]_vars => PlanInv'
<1> SUFFICES ASSUME TypeInv, ChargeInv, NothingChargedUnseen, PlanInv, [Next]_vars
             PROVE  PlanInv'
  OBVIOUS
<1>t. /\ request \in [Requests -> Request]
      /\ stripe \in [Requests -> StripeSub \cup {None}]
      /\ row \in [Requests -> Row \cup {None}]
      /\ disturbed \in SUBSET Requests
      /\ Known
  BY DEF TypeInv, TypeOK
<1>w. \A r \in Requests : InFlight(r) /\ Is(r, "create") /\ ~At(r, "event") => ~HasRow(r)
  BY DEF ChargeInv
<1>u. \A s \in Requests : \A r \in Writers(s, {"update"}) : HasRow(s)
  BY <1>t DEF Known, Knows, Writers, InFlight, Waiting, Is
<1> USE DEF PlanInv, Writers, At, Is, HasRow, PlanWritten
<1>1. ASSUME NEW r \in Requests,
             \A q \in Requests \ {r} : request'[q] = request[q],
             UNCHANGED <<row, stripe>>, disturbed \subseteq disturbed',
             request'[r].pc # "write", request'[r].pc = "stripe" => request'[r].kind # "update",
             At(r, "write") /\ Is(r, "update") => request[r].sub \in disturbed'
      PROVE  PlanInv'
  BY <1>1, <1>t
<1>2. ASSUME NEW r \in Requests, NEW u \in Users, NEW p \in Plans, Create(r, u, p)
      PROVE  PlanInv'
  <2>1. /\ \A q \in Requests \ {r} : request'[q] = request[q]
        /\ request'[r].pc \in {"findActive", "failed"} /\ request[r].pc = "new"
        /\ UNCHANGED <<stripe, row, disturbed>>
    BY <1>2, <1>t DEF Create, NewRequest, historyVars
  <2>. QED BY <1>1, <2>1
<1>3. ASSUME NEW r \in Requests,
             FindActive(r) \/ ListCustomers(r) \/ CreateCustomer(r)
      PROVE  PlanInv'
  <2>1. PICK l \in {"listCustomers", "createCustomer", "stripe", "failed"} :
          /\ request' = [request EXCEPT ![r].pc = l]
          /\ request[r].pc \in {"findActive", "listCustomers", "createCustomer"}
          /\ UNCHANGED <<stripe, row, disturbed>>
    BY <1>3 DEF FindActive, ListCustomers, CreateCustomer, Goto, historyVars
  <2>2. Is(r, "create")
    BY <1>t, <2>1 DEF Known, Knows
  <2>3. /\ \A q \in Requests \ {r} : request'[q] = request[q]
        /\ request'[r].pc = l /\ request'[r].kind = "create"
    BY <1>t, <2>1, <2>2
  <2>. QED BY <1>1, <2>1, <2>3
<1>4. ASSUME NEW r \in Requests,
             StripeRefuses(r) \/ InsertUsage(r) \/ PublishEvent(r) \/ Fail(r)
      PROVE  PlanInv'
  <2>1. PICK l \in {"event", "ok", "failed"} :
          /\ request' = [request EXCEPT ![r].pc = l]
          /\ UNCHANGED <<stripe, row>>
          /\ disturbed \subseteq disturbed'
          /\ At(r, "write") /\ Is(r, "update") => request[r].sub \in disturbed'
    BY <1>4 DEF StripeRefuses, InsertUsage, PublishEvent, Fail, Goto, AfterError, historyVars
  <2>2. \A q \in Requests \ {r} : request'[q] = request[q]
    BY <1>t, <2>1
  <2>3. request'[r].pc = l
    BY <1>t, <2>1
  <2>. QED BY <1>1, <2>1, <2>2, <2>3
<1>5. ASSUME NEW r \in Requests, CreateAtStripe(r)
      PROVE  PlanInv'
  <2>1. /\ \A q \in Requests \ {r} : stripe'[q] = stripe[q] /\ request'[q] = request[q]
        /\ request'[r].kind = "create" /\ request'[r].plan = request[r].plan
        /\ stripe'[r].plan = request[r].plan
        /\ Is(r, "create") /\ At(r, "stripe")
        /\ UNCHANGED <<row, disturbed>>
    BY <1>5, <1>t DEF CreateAtStripe, historyVars, Request
  <2>2. ~HasRow(r)
    BY <1>w, <2>1 DEF InFlight, Waiting
  <2>. QED BY <1>t, <2>1, <2>2
<1>6. ASSUME NEW r \in Requests, InsertRow(r)
      PROVE  PlanInv'
  <2>1. /\ \A q \in Requests \ {r} : row'[q] = row[q] /\ request'[q] = request[q]
        /\ row'[r].plan = request[r].plan
        /\ request'[r].pc = "event" /\ Is(r, "create") /\ At(r, "write")
        /\ UNCHANGED <<stripe, disturbed>>
    BY <1>6, <1>t DEF InsertRow, Goto
  <2>2. ~HasRow(r)
    BY <1>w, <2>1 DEF InFlight, Waiting
  <2>. QED BY <1>t, <1>u, <2>1, <2>2
<1>7. ASSUME NEW r \in Requests, NEW s \in Requests, NEW kind \in Kinds \ {"create"},
             NEW p \in Plans \cup {None}, NEW f \in BOOLEAN \cup {None}, Begin(r, kind, s, p, f)
      PROVE  PlanInv'
  <2>1. /\ UNCHANGED <<stripe, row>>
        /\ disturbed' = IF kind = "update" /\ Writers(s, {"update"}) # {}
                          THEN disturbed \cup {s} ELSE disturbed
    BY <1>7 DEF Begin, Overlap
  <2>2. /\ At(r, "new")
        /\ \A q \in Requests \ {r} : Same(q)
        /\ request'[r].pc \in {"stripe", "failed"} /\ request'[r].kind = kind
        /\ request'[r].sub = s /\ request'[r].seen = row[s].plan
    <3> HIDE DEF PlanInv, Writers, PlanWritten
    <3>. QED BY <1>7, BeginRequests
  <2>3. r \notin Writers(s, {"update"})
    BY <2>2
  <2>. QED BY <1>t, <2>1, <2>2, <2>3 DEF Same
<1>8. ASSUME NEW r \in Requests, CallStripe(r)
      PROVE  PlanInv'
  <2> DEFINE s == request[r].sub
             x == Updated(r, stripe[s])
  <2>1. /\ At(r, "stripe") /\ ~Is(r, "create")
        /\ s \in Requests /\ HasRow(s) /\ stripe[s] \in StripeSub
    BY <1>8, <1>t DEF CallStripe, Known, Knows, InFlight, Waiting
  <2>2. /\ \A q \in Requests \ {r} : request'[q] = request[q]
        /\ \A q \in Requests \ {s} : stripe'[q] = stripe[q]
        /\ stripe'[s] = x
        /\ request'[r].pc = "write" /\ request'[r].kind = request[r].kind
        /\ request'[r].sub = s /\ request'[r].seen = request[r].seen
        /\ request'[r].plan = request[r].plan
        /\ UNCHANGED <<row, disturbed>>
    BY <1>8, <1>t, <2>1 DEF CallStripe, historyVars, Request
  <2>3. x.plan = IF Is(r, "update") THEN NewPrice(r, stripe[s]) ELSE stripe[s].plan
    BY <2>1 DEF Updated, StripeSub
  <2>4. CASE Is(r, "update")
    <3>1. r \in Writers(s, {"update"})
      BY <2>1, <2>4
    <3>2. s \notin disturbed => /\ Writers(s, {"update"}) = {r}
                                /\ request[r].seen = row[s].plan
                                /\ row[s].plan = stripe[s].plan
      BY <2>1, <3>1
    <3>3. s \notin disturbed =>
            x.plan = IF request[r].plan = None THEN request[r].seen ELSE request[r].plan
      BY <2>3, <2>4, <3>2 DEF NewPrice
    <3>. QED BY <1>t, <1>w, <2>1, <2>2, <2>4, <3>2, <3>3 DEF InFlight, Waiting
  <2>5. CASE ~Is(r, "update")
    BY <1>t, <1>w, <2>1, <2>2, <2>3, <2>5 DEF InFlight, Waiting
  <2>. QED BY <2>4, <2>5
<1>9. ASSUME NEW r \in Requests, WriteRow(r)
      PROVE  PlanInv'
  <2> DEFINE s == request[r].sub
             x == request[r].answer
  <2>1. /\ At(r, "write") /\ request[r].kind \in {"update", "cancel", "sync"}
        /\ s \in Requests /\ HasRow(s) /\ row[s] \in Row
    BY <1>9, <1>t DEF WriteRow, Known, Knows, InFlight, Waiting
  <2>2. /\ \A q \in Requests \ {r} : request'[q] = request[q]
        /\ \A q \in Requests \ {s} : row'[q] = row[q]
        /\ row'[s].plan = PlanWritten(r, row[s].plan)
        /\ request'[r].pc \in {"ok", "event"}
        /\ UNCHANGED <<stripe, disturbed>>
    BY <1>9, <1>t, <2>1 DEF WriteRow, Goto, RowFrom, Row
  <2>3. CASE Is(r, "update")
    <3>1. s \notin disturbed => /\ Writers(s, {"update"}) = {r}
                                /\ row'[s].plan = stripe[s].plan
      BY <2>1, <2>2, <2>3
    <3>. QED BY <1>t, <2>1, <2>2, <3>1
  <2>4. CASE ~Is(r, "update")
    BY <1>t, <2>1, <2>2, <2>4
  <2>. QED BY <2>3, <2>4
<1>10. ASSUME NEW s \in Requests, StripeChanges(s)
       PROVE  PlanInv'
  <2>1. stripe[s] \in StripeSub
    BY <1>10, <1>t DEF StripeChanges
  <2>2. /\ request' = NotAlone(s) /\ UNCHANGED <<row, disturbed>>
        /\ \A q \in Requests \ {s} : stripe'[q] = stripe[q]
        /\ stripe'[s].plan = stripe[s].plan
    BY <1>10, <1>t, <2>1 DEF StripeChanges, StripeSub
  <2>3. \A q \in Requests : Same(q)
    BY <2>2, NotAloneRequests
  <2>. QED BY <1>t, <2>2, <2>3 DEF Same
<1>11. CASE UNCHANGED vars
  BY <1>11 DEF vars, historyVars
<1>. QED
  BY <1>2, <1>3, <1>4, <1>5, <1>6, <1>7, <1>8, <1>9, <1>10, <1>11
     DEF Next, NewRequestComes, Step, Kinds

LEMMA RowFromStripe ==
  ASSUME NEW r \in Requests, NEW q \in Row, NEW x \in StripeSub
  PROVE  /\ RowFrom(r, q, x).status = LocalStatus(x.status)
         /\ RowFrom(r, q, x).cancelAtPeriodEnd = x.cancelAtPeriodEnd
         /\ CanceledAt(x) => RowFrom(r, q, x).cancelledAt
<1> DEFINE at == q.cancelledAt \/ CanceledAt(x)
<1>1. RowFrom(r, q, x) =
        [q EXCEPT !.plan = PlanWritten(r, q.plan), !.status = LocalStatus(x.status),
                  !.cancelAtPeriodEnd = x.cancelAtPeriodEnd, !.cancelledAt = at]
  BY DEF RowFrom, Row
<1>2. CanceledAt(x) => at = TRUE
  OBVIOUS
<1> HIDE DEF at
<1>3. /\ RowFrom(r, q, x).status = LocalStatus(x.status)
      /\ RowFrom(r, q, x).cancelAtPeriodEnd = x.cancelAtPeriodEnd
      /\ RowFrom(r, q, x).cancelledAt = at
  BY <1>1 DEF Row
<1>. QED BY <1>2, <1>3

LEMMA SyncStep ==
  TypeInv /\ ChargeInv /\ NothingChargedUnseen /\ SyncInv /\ [Next]_vars => SyncInv'
<1> SUFFICES ASSUME TypeInv, ChargeInv, NothingChargedUnseen, SyncInv, [Next]_vars
             PROVE  SyncInv'
  OBVIOUS
<1>t. /\ request \in [Requests -> Request]
      /\ stripe \in [Requests -> StripeSub \cup {None}]
      /\ row \in [Requests -> Row \cup {None}]
      /\ unsynced \in SUBSET Requests
      /\ Known
  BY DEF TypeInv, TypeOK
<1>w. \A r \in Requests : InFlight(r) /\ Is(r, "create") /\ ~At(r, "event") => ~HasRow(r)
  BY DEF ChargeInv
<1>u. \A s \in Requests : \A r \in Writers(s, RowKinds) :
        /\ ~Is(r, "create") => HasRow(s)
        /\ Is(r, "create") => s = r /\ ~HasRow(r)
  BY <1>t, <1>w DEF Known, Knows, Writers, InFlight, Waiting, Is, At
<1> USE DEF SyncInv, Writers, At, Is, HasRow, Agrees, RowKinds
<1>1. ASSUME NEW r \in Requests,
             \A q \in Requests \ {r} : request'[q] = request[q],
             UNCHANGED <<row, stripe>>, unsynced \subseteq unsynced',
             request'[r].pc # "write",
             request'[r].pc = "stripe" =>
               request'[r].kind = "create" /\ request'[r].sub = r /\ ~HasRow(r),
             At(r, "write") /\ request[r].kind \in {"update", "cancel"}
               => request[r].sub \in unsynced'
      PROVE  SyncInv'
  BY <1>1, <1>t, <1>u
<1>2. ASSUME NEW r \in Requests, NEW u \in Users, NEW p \in Plans, Create(r, u, p)
      PROVE  SyncInv'
  <2>1. /\ \A q \in Requests \ {r} : request'[q] = request[q]
        /\ request'[r].pc \in {"findActive", "failed"} /\ request[r].pc = "new"
        /\ UNCHANGED <<stripe, row, unsynced>>
    BY <1>2, <1>t DEF Create, NewRequest, historyVars
  <2>. QED BY <1>1, <2>1
<1>3. ASSUME NEW r \in Requests,
             FindActive(r) \/ ListCustomers(r) \/ CreateCustomer(r)
      PROVE  SyncInv'
  <2>1. PICK l \in {"listCustomers", "createCustomer", "stripe", "failed"} :
          /\ request' = [request EXCEPT ![r].pc = l]
          /\ request[r].pc \in {"findActive", "listCustomers", "createCustomer"}
          /\ UNCHANGED <<stripe, row, unsynced>>
    BY <1>3 DEF FindActive, ListCustomers, CreateCustomer, Goto, historyVars
  <2>2. Is(r, "create") /\ request[r].sub = r /\ ~HasRow(r)
    BY <1>t, <1>w, <2>1 DEF Known, Knows, InFlight, Waiting
  <2>3. /\ \A q \in Requests \ {r} : request'[q] = request[q]
        /\ request'[r].pc = l /\ request'[r].kind = "create" /\ request'[r].sub = r
    BY <1>t, <2>1, <2>2
  <2>. QED BY <1>1, <2>1, <2>2, <2>3
<1>4. ASSUME NEW r \in Requests,
             StripeRefuses(r) \/ InsertUsage(r) \/ PublishEvent(r) \/ Fail(r)
      PROVE  SyncInv'
  <2>1. PICK l \in {"event", "ok", "failed"} :
          /\ request' = [request EXCEPT ![r].pc = l]
          /\ UNCHANGED <<stripe, row>>
          /\ unsynced \subseteq unsynced'
          /\ At(r, "write") /\ request[r].kind \in {"update", "cancel"}
               => request[r].sub \in unsynced'
    BY <1>4 DEF StripeRefuses, InsertUsage, PublishEvent, Fail, Goto, AfterError, historyVars
  <2>2. \A q \in Requests \ {r} : request'[q] = request[q]
    BY <1>t, <2>1
  <2>3. request'[r].pc = l
    BY <1>t, <2>1
  <2>. QED BY <1>1, <2>1, <2>2, <2>3
<1>5. ASSUME NEW r \in Requests, CreateAtStripe(r)
      PROVE  SyncInv'
  <2>1. /\ \A q \in Requests \ {r} : stripe'[q] = stripe[q] /\ request'[q] = request[q]
        /\ request'[r].kind = "create" /\ request'[r].sub = request[r].sub
        /\ request'[r].answer = stripe'[r]
        /\ Is(r, "create") /\ At(r, "stripe")
        /\ UNCHANGED <<row, unsynced>>
    BY <1>5, <1>t DEF CreateAtStripe, historyVars, Request
  <2>2. ~HasRow(r) /\ request[r].sub = r
    BY <1>t, <1>w, <2>1 DEF InFlight, Waiting, Known, Knows
  <2>. QED BY <1>t, <1>u, <2>1, <2>2
<1>6. ASSUME NEW r \in Requests, InsertRow(r)
      PROVE  SyncInv'
  <2> DEFINE x == request[r].answer
  <2>1. /\ \A q \in Requests \ {r} : row'[q] = row[q] /\ request'[q] = request[q]
        /\ row'[r].status = LocalStatus(x.status)
        /\ row'[r].cancelAtPeriodEnd = x.cancelAtPeriodEnd
        /\ CanceledAt(x) => row'[r].cancelledAt
        /\ request'[r].pc = "event" /\ Is(r, "create") /\ At(r, "write")
        /\ UNCHANGED <<stripe, unsynced>>
    BY <1>6, <1>t DEF InsertRow, Goto
  <2>2. ~HasRow(r)
    BY <1>w, <2>1 DEF InFlight, Waiting
  <2>3. \A q \in Requests \ {r} : request[q].pc \in {"stripe", "write"} /\ request[q].sub = r
          => request[q].kind \notin RowKinds
    BY <1>t, <1>u, <2>2
  <2>. QED BY <1>t, <2>1, <2>2, <2>3
<1>7. ASSUME NEW r \in Requests, NEW s \in Requests, NEW kind \in Kinds \ {"create"},
             NEW p \in Plans \cup {None}, NEW f \in BOOLEAN \cup {None}, Begin(r, kind, s, p, f)
      PROVE  SyncInv'
  <2>1. /\ UNCHANGED <<stripe, row>>
        /\ unsynced' = IF kind # "usage" /\ Writers(s, RowKinds) # {}
                         THEN unsynced \cup {s} ELSE unsynced
    BY <1>7 DEF Begin, Overlap
  <2>2. /\ At(r, "new") /\ HasRow(s)
        /\ \A q \in Requests \ {r} : Same(q)
        /\ kind # "usage" =>
             \A q \in Requests \ {r} : request[q].sub = s => ~request'[q].alone
        /\ request'[r].pc \in {"stripe", "failed"} /\ request'[r].kind = kind
        /\ request'[r].sub = s
        /\ request'[r].alone => Writers(s, RowKinds) = {}
    <3> HIDE DEF SyncInv, Writers, RowKinds
    <3>. QED BY <1>7, BeginRequests
  <2>3. \A q \in Requests : kind # "usage" /\ q \in Writers(s, RowKinds) => s \in unsynced'
    BY <2>1
  <2>. QED BY <1>t, <1>u, <2>1, <2>2, <2>3 DEF Same, Kinds
<1>8. ASSUME NEW r \in Requests, CallStripe(r)
      PROVE  SyncInv'
  <2> DEFINE s == request[r].sub
             x == Updated(r, stripe[s])
  <2>1. /\ At(r, "stripe") /\ ~Is(r, "create")
        /\ s \in Requests /\ HasRow(s) /\ stripe[s] \in StripeSub
    BY <1>8, <1>t DEF CallStripe, Known, Knows, InFlight, Waiting
  <2>2. /\ \A q \in Requests \ {r} : request'[q] = request[q]
        /\ \A q \in Requests \ {s} : stripe'[q] = stripe[q]
        /\ stripe'[s] = x /\ request'[r].answer = x
        /\ request'[r].pc = "write" /\ request'[r].kind = request[r].kind
        /\ request'[r].sub = s /\ request'[r].alone = request[r].alone
        /\ UNCHANGED <<row, unsynced>>
    BY <1>8, <1>t, <2>1 DEF CallStripe, historyVars, Request
  <2>3. ~Is(r, "update") /\ ~Is(r, "cancel") => x = stripe[s]
    BY DEF Updated
  <2>4. CASE request[r].kind \in {"update", "cancel", "sync"}
    <3>1. r \in Writers(s, RowKinds) /\ r \in Writers(s, {"update", "cancel", "sync"})
      BY <2>1, <2>4
    <3>2. s \notin unsynced => /\ Writers(s, RowKinds) \subseteq {r}
                               /\ Is(r, "sync") => Agrees(s)
      BY <2>1, <3>1
    <3>3. \A q \in Requests \ {r} : q \in Writers(s, {"update", "cancel", "sync"})
            => ~request[q].alone
      BY <2>1, <3>1
    <3>4. request[r].alone => Writers(s, RowKinds) \subseteq {r}
      BY <2>1, <3>1
    <3>5. /\ \A q \in Requests : /\ request'[q].kind = request[q].kind
                               /\ request'[q].sub = request[q].sub
                               /\ request'[q].alone = request[q].alone
          /\ \A q \in Requests : request'[q].pc \in {"stripe", "write"}
                               <=> request[q].pc \in {"stripe", "write"}
      BY <2>1, <2>2
    <3>6. \A z \in Requests : HasRow(z)' /\ z \notin unsynced' =>
            ((\A q \in Writers(z, {"update", "cancel"})' : ~At(q, "write")') => Agrees(z)')
      <4>1. ASSUME NEW z \in Requests \ {s}, HasRow(z), z \notin unsynced,
                   \A q \in Writers(z, {"update", "cancel"})' : ~At(q, "write")'
            PROVE  Agrees(z)'
        BY <2>1, <2>2, <3>5, <4>1
      <4>2. (\A q \in Writers(s, {"update", "cancel"})' : ~At(q, "write")') => Is(r, "sync")
        BY <2>1, <2>2, <2>4
      <4>. QED BY <2>2, <2>3, <3>2, <4>1, <4>2
    <3>7. \A z \in Requests : HasRow(z)' /\ z \notin unsynced' =>
            \A q \in Writers(z, RowKinds)' :
              /\ Writers(z, RowKinds)' \subseteq {q}
              /\ At(q, "write")' => request'[q].answer = stripe'[z]
      <4>1. ASSUME NEW z \in Requests \ {s}, HasRow(z), z \notin unsynced,
                   NEW q \in Writers(z, RowKinds)'
            PROVE  /\ Writers(z, RowKinds)' \subseteq {q}
                   /\ At(q, "write")' => request'[q].answer = stripe'[z]
        <5>1. q # r /\ q \in Writers(z, RowKinds)
          BY <3>5, <4>1
        <5>. QED BY <2>2, <3>5, <4>1, <5>1
      <4>2. ASSUME s \notin unsynced, NEW q \in Writers(s, RowKinds)'
            PROVE  q = r
        BY <2>2, <3>2, <3>5, <4>2
      <4>. QED BY <2>2, <4>1, <4>2
    <3>8. \A z \in Requests : \A q \in Writers(z, {"update", "cancel", "sync"})' :
            request'[q].alone =>
              /\ Writers(z, RowKinds)' \subseteq {q}
              /\ At(q, "write")' => request'[q].answer = stripe'[z]
      BY <2>1, <2>2, <3>3, <3>4, <3>5
    <3>9. \A q \in Requests : At(q, "write")' /\ Is(q, "create")' /\ q \notin unsynced'
            => request'[q].answer = stripe'[q]
      BY <1>w, <2>1, <2>2 DEF InFlight, Waiting
    <3>. QED BY <3>6, <3>7, <3>8, <3>9
  <2>5. CASE Is(r, "usage")
    BY <1>t, <2>1, <2>2, <2>3, <2>5
  <2>. QED BY <1>t, <2>1, <2>4, <2>5 DEF Request, Kinds
<1>9. ASSUME NEW r \in Requests, WriteRow(r)
      PROVE  SyncInv'
  <2> DEFINE s == request[r].sub
             x == request[r].answer
  <2>1. /\ At(r, "write") /\ request[r].kind \in {"update", "cancel", "sync"}
        /\ s \in Requests /\ HasRow(s) /\ row[s] \in Row /\ x \in StripeSub
    BY <1>9, <1>t DEF WriteRow, Known, Knows, InFlight, Waiting
  <2>2. /\ \A q \in Requests \ {r} : request'[q] = request[q]
        /\ \A q \in Requests \ {s} : row'[q] = row[q]
        /\ row'[s].status = LocalStatus(x.status)
        /\ row'[s].cancelAtPeriodEnd = x.cancelAtPeriodEnd
        /\ CanceledAt(x) => row'[s].cancelledAt
        /\ request'[r].pc \in {"ok", "event"} /\ request'[r].sub = s
        /\ unsynced' = IF request[r].alone THEN unsynced \ {s} ELSE unsynced
        /\ UNCHANGED stripe
    BY <1>9, <1>t, <2>1, RowFromStripe DEF WriteRow, Goto
  <2>3. r \in Writers(s, RowKinds) /\ r \in Writers(s, {"update", "cancel", "sync"})
    BY <2>1
  <2>4. s \notin unsynced' => x = stripe[s] /\ Writers(s, RowKinds) = {r}
    BY <1>t, <2>1, <2>2, <2>3
  <2>6. \A z \in Requests : /\ Writers(z, RowKinds)' = Writers(z, RowKinds) \ {r}
                            /\ Writers(z, {"update", "cancel"})'
                                 = Writers(z, {"update", "cancel"}) \ {r}
                            /\ Writers(z, {"update", "cancel", "sync"})'
                                 = Writers(z, {"update", "cancel", "sync"}) \ {r}
    BY <2>2
  <2>7. s \notin unsynced' => Agrees(s)' /\ Writers(s, RowKinds)' = {}
    BY <2>2, <2>4, <2>6
  <2>8. ASSUME NEW z \in Requests \ {s}, HasRow(z)', z \notin unsynced'
        PROVE  /\ (\A q \in Writers(z, {"update", "cancel"})' : ~At(q, "write")') => Agrees(z)'
               /\ \A q \in Writers(z, RowKinds)' :
                    /\ Writers(z, RowKinds)' \subseteq {q}
                    /\ At(q, "write")' => request'[q].answer = stripe'[z]
    <3>1. HasRow(z) /\ z \notin unsynced /\ r \notin Writers(z, RowKinds)
      BY <2>1, <2>2, <2>8
    <3>. QED BY <2>2, <2>6, <2>8, <3>1
  <2>9. ASSUME NEW z \in Requests, NEW q \in Writers(z, {"update", "cancel", "sync"})',
               request'[q].alone
        PROVE  /\ Writers(z, RowKinds)' \subseteq {q}
               /\ At(q, "write")' => request'[q].answer = stripe'[z]
    <3>1. q # r /\ request'[q] = request[q]
      BY <2>2, <2>6, <2>9
    <3>. QED BY <2>2, <2>6, <2>9, <3>1
  <2>10. ASSUME NEW q \in Requests, At(q, "write")', Is(q, "create")', q \notin unsynced'
         PROVE  request'[q].answer = stripe'[q]
    <3>1. q # r /\ q # s /\ request'[q] = request[q]
      BY <1>w, <2>1, <2>2, <2>10 DEF InFlight, Waiting
    <3>. QED BY <2>2, <2>10, <3>1
  <2>11. ASSUME NEW z \in Requests, HasRow(z)', z \notin unsynced'
         PROVE  /\ (\A q \in Writers(z, {"update", "cancel"})' : ~At(q, "write")') => Agrees(z)'
                /\ \A q \in Writers(z, RowKinds)' :
                     /\ Writers(z, RowKinds)' \subseteq {q}
                     /\ At(q, "write")' => request'[q].answer = stripe'[z]
    <3>1. CASE z = s
      <4>1. Agrees(z)' /\ Writers(z, RowKinds)' = {}
        BY <2>2, <2>7, <2>11, <3>1
      <4> HIDE DEF Agrees, Writers
      <4>. QED BY <4>1
    <3>. QED BY <2>8, <2>11, <3>1
  <2>. QED BY <2>9, <2>10, <2>11
<1>10. ASSUME NEW s \in Requests, StripeChanges(s)
       PROVE  SyncInv'
  <2>1. /\ request' = NotAlone(s) /\ UNCHANGED row
        /\ unsynced' = unsynced \cup {s}
        /\ \A q \in Requests \ {s} : stripe'[q] = stripe[q]
    BY <1>10, <1>t DEF StripeChanges
  <2>2. \A q \in Requests : Same(q) /\ (request[q].sub = s => ~request'[q].alone)
    <3> HIDE DEF SyncInv, Writers, RowKinds
    <3>. QED BY <2>1, NotAloneRequests
  <2>. QED BY <1>t, <2>1, <2>2 DEF Same
<1>11. CASE UNCHANGED vars
  BY <1>11 DEF vars, historyVars
<1>. QED
  BY <1>2, <1>3, <1>4, <1>5, <1>6, <1>7, <1>8, <1>9, <1>10, <1>11
     DEF Next, NewRequestComes, Step, Kinds

(* Once no request is at work on a subscription its row has the plan Stripe  *)
(* charges and the status Stripe gives it, unless requests overlapped or     *)
(* failed, or Stripe changed it, and nobody has written it alone since       *)
(* (updateSubscription, cancelSubscription, syncSubscriptionWithStripe).     *)
THEOREM SettledRowAgreesCorrect == Spec => []SettledRowAgrees
<1>1. Init => ChargeInv /\ NothingChargedUnseen /\ PlanInv /\ SyncInv
  BY DEF Init, ChargeInv, NothingChargedUnseen, PlanInv, SyncInv, At, Is, InFlight, HasRow,
         NewRequest, Writers
<1>2. PlanInv /\ SyncInv => SettledRowAgrees
  <2> SUFFICES ASSUME PlanInv, SyncInv, NEW s \in Requests, HasRow(s),
                      Writers(s, RowKinds) = {}
               PROVE  /\ s \notin disturbed => row[s].plan = stripe[s].plan
                      /\ s \notin unsynced => Agrees(s)
    BY DEF SettledRowAgrees, Agrees
  <2>1. Writers(s, {"update"}) = {} /\ Writers(s, {"update", "cancel"}) = {}
    BY DEF Writers, RowKinds
  <2>. QED BY <2>1 DEF PlanInv, SyncInv
<1>. QED BY <1>1, <1>2, TypeInvariant, ChargeStep, PlanStep, SyncStep, PTL DEF Spec
=============================================================================
