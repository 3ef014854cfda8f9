------------------------ MODULE ContentApprovalProofs ------------------------
(***************************************************************************)
(* Proofs about ContentApproval, for every set of requests and users, every  *)
(* number of stages, and any approvers and required approvals.               *)
(***************************************************************************)
EXTENDS ContentApproval, FiniteSetTheorems, TLAPS

-----------------------------------------------------------------------------
(* Type correctness.  A vote that waits to be written holds a workflow, a    *)
(* getItem that waits to fill the cache holds an item.                       *)
Holdings ==
  \A r \in Requests :
    /\ At(r, "write") => request[r].copy \in Workflow /\ request[r].vote \in Vote
    /\ At(r, "fill") => request[r].copy \in Item

TypeInv == TypeOK /\ Holdings

LEMMA DecidedTyped ==
  ASSUME NEW w \in Workflow, NEW v \in Vote
  PROVE  Decided(v, WithVote(v, w)) \in Workflow
<1> DEFINE x == WithVote(v, w)
<1>1. x \in Workflow
  BY DEF WithVote, Workflow
<1>2. v.verdict \in Verdicts
  BY DEF Vote
<1>3. CASE v.verdict # "approved"
  BY <1>1, <1>2, <1>3 DEF Decided, Workflow
<1>4. CASE v.verdict = "approved" /\ ~Completes(x)
  BY <1>1, <1>4 DEF Decided
<1>5. CASE v.verdict = "approved" /\ Completes(x) /\ HasNextStage(x)
  <2>1. x.stage + 1 \in Stages
    BY <1>1, <1>5, ApprovalAssumption DEF HasNextStage, Workflow, Stages
  <2>. QED BY <1>1, <1>5, <2>1 DEF Decided, Workflow
<1>6. CASE v.verdict = "approved" /\ Completes(x) /\ ~HasNextStage(x)
  BY <1>1, <1>6 DEF Decided, Workflow, Verdicts
<1>. QED BY <1>3, <1>4, <1>5, <1>6

LEMMA SubmitTyped ==
  ASSUME TypeInv, NEW r \in Requests, NEW a \in Users, NEW verdict \in Verdicts,
         Submit(r, a, verdict)
  PROVE  LET v == [request |-> r, stage |-> workflow.stage, approver |-> a, verdict |-> verdict]
         IN  v \in Vote /\ Decided(v, WithVote(v, workflow)) \in Workflow
<1> DEFINE v == [request |-> r, stage |-> workflow.stage, approver |-> a, verdict |-> verdict]
<1>1. workflow \in Workflow
  BY DEF TypeInv, TypeOK, Submit
<1>2. v \in Vote
  BY <1>1 DEF Workflow, Vote
<1>. QED BY <1>1, <1>2, DecidedTyped

LEMMA TypeStep == TypeInv /\ [Next]_vars => TypeInv'
<1> SUFFICES ASSUME TypeInv, [Next]_vars PROVE TypeInv'
  OBVIOUS
<1> USE DEF TypeInv, TypeOK, Request, Holdings, At, Is, Goto, Comes
<1>1. ASSUME NEW r \in Requests, NEW review \in BOOLEAN, Create(r, review) PROVE TypeInv'
  BY <1>1 DEF Create, Waiting, Kinds, Item
<1>2. ASSUME NEW r \in Requests, StartWorkflow(r) PROVE TypeInv'
  <2>1. NewWorkflow \in Workflow
    BY ApprovalAssumption DEF NewWorkflow, Workflow, Stages
  <2>. QED BY <1>2, <2>1 DEF StartWorkflow
<1>3. ASSUME NEW r \in Requests, AutoApprove(r) PROVE TypeInv'
  BY <1>3 DEF AutoApprove, SetStatus, Item
<1>4. ASSUME NEW r \in Requests, NEW a \in Users, NEW verdict \in Verdicts,
             Submit(r, a, verdict)
      PROVE TypeInv'
  <2> DEFINE v == [request |-> r, stage |-> workflow.stage, approver |-> a, verdict |-> verdict]
             d == Decided(v, WithVote(v, workflow))
  <2>1. v \in Vote /\ d \in Workflow
    BY <1>4, SubmitTyped
  <2>2. /\ request' = [request EXCEPT ![r].kind = "submit", ![r].pc = "write", ![r].vote = v,
                                      ![r].copy = d, ![r].seen = answered]
        /\ UNCHANGED <<item, workflow, cache, answered, lost, faults>>
    BY <1>4 DEF Submit
  <2> HIDE DEF v, d
  <2>3. request' \in [Requests -> Request]
    <3>1. request[r] \in Request
      OBVIOUS
    <3>2. [request[r] EXCEPT !.kind = "submit", !.pc = "write", !.vote = v, !.copy = d,
                             !.seen = answered] \in Request
      BY <2>1, <3>1 DEF Waiting, Kinds
    <3>3. request' = [request EXCEPT ![r] =
            [request[r] EXCEPT !.kind = "submit", !.pc = "write", !.vote = v, !.copy = d,
                               !.seen = answered]]
      BY <2>2
    <3>. QED BY <3>2, <3>3
  <2>4. Holdings'
    BY <2>1, <2>2
  <2>. QED BY <2>2, <2>3, <2>4
<1>5. ASSUME NEW r \in Requests, WriteVote(r) PROVE TypeInv'
  BY <1>5 DEF WriteVote
<1>6. ASSUME NEW r \in Requests, WriteNothing(r) PROVE TypeInv'
  BY <1>6 DEF WriteNothing
<1>7. ASSUME NEW r \in Requests, Cancel(r) PROVE TypeInv'
  BY <1>7 DEF Cancel, Workflow, Kinds
<1>8. ASSUME NEW r \in Requests, GetCached(r) PROVE TypeInv'
  BY <1>8 DEF GetCached, Waiting, Kinds
<1>9. ASSUME NEW r \in Requests, Find(r) PROVE TypeInv'
  <2>1. CASE item # None /\ item.status = "approved"
    <3>1. request' = [request EXCEPT ![r].pc = "fill", ![r].copy = item]
      BY <1>9, <2>1 DEF Find
    <3>2. item \in Item
      BY <2>1
    <3>3. [request[r] EXCEPT !.pc = "fill", !.copy = item] \in Request
      BY <3>2 DEF Waiting
    <3>4. request' = [request EXCEPT ![r] =
                        [request[r] EXCEPT !.pc = "fill", !.copy = item]]
      BY <3>1
    <3>5. UNCHANGED <<item, workflow, cache, answered, lost, faults>>
      BY <1>9 DEF Find
    <3>. QED BY <3>2, <3>3, <3>4, <3>5
  <2>2. CASE ~(item # None /\ item.status = "approved")
    BY <1>9, <2>2 DEF Find
  <2>. QED BY <2>1, <2>2
<1>10. ASSUME NEW r \in Requests, Fill(r) PROVE TypeInv'
  BY <1>10 DEF Fill
<1>11. ASSUME NEW r \in Requests, Update(r) PROVE TypeInv'
  BY <1>11 DEF Update, SetStatus, Item, Waiting, Kinds
<1>12. ASSUME NEW r \in Requests, DelKey(r) PROVE TypeInv'
  BY <1>12 DEF DelKey, KeyDeleted
<1>13. ASSUME NEW r \in Requests, NEW kind \in {"approve", "reject", "archive"},
              ChangeStatus(r, kind)
       PROVE TypeInv'
  BY <1>13 DEF ChangeStatus, SetStatus, StatusOf, Item, Kinds
<1>14. ASSUME NEW r \in Requests, Delete(r) PROVE TypeInv'
  BY <1>14 DEF Delete, Kinds
<1>15. CASE Expire
  BY <1>15 DEF Expire
<1>16. ASSUME NEW r \in Requests, Fail(r) PROVE TypeInv'
  BY <1>16, ApprovalAssumption DEF Fail
<1>17. CASE UNCHANGED vars
  BY <1>17 DEF vars
<1>. QED
  BY <1>1, <1>2, <1>3, <1>4, <1>5, <1>6, <1>7, <1>8, <1>9, <1>10, <1>11, <1>12, <1>13, <1>14,
     <1>15, <1>16, <1>17 DEF Next, WorkflowStep, ItemStep

LEMMA TypeInit == Init => TypeInv
  BY ApprovalAssumption DEF Init, TypeInv, TypeOK, Request, Holdings, NewRequest, At, Kinds, Waiting

LEMMA TypeInvariant == Spec => []TypeInv
  BY TypeInit, TypeStep, PTL DEF Spec

(* Every variable keeps its type: in particular the stage of a workflow is   *)
(* always the index of one of its stages (submitApproval).                   *)
THEOREM TypeCorrect == Spec => []TypeOK
<1>1. TypeInv => TypeOK
  BY DEF TypeInv
<1>. QED BY <1>1, TypeInvariant, PTL

-----------------------------------------------------------------------------
(* What a workflow amounts to.  Every workflow a vote will write back is as  *)
(* consistent as the row: it was the row once, with one more vote.           *)
CopiesConsistent == \A r \in Requests : At(r, "write") => Consistent(request[r].copy)

OutcomeInv == OutcomeFollowsVotes /\ CopiesConsistent

LEMMA PendingHasNoEnding ==
  ASSUME NEW w \in Workflow, Outcome(w) = "pending"
  PROVE  Ending(w.votes) = {} /\ \E s \in Stages : ~Complete(w, s)
<1>1. Ending(w.votes) = {}
  <2> SUFFICES ASSUME Ending(w.votes) # {} PROVE FALSE
    OBVIOUS
  <2> DEFINE v == CHOOSE x \in Ending(w.votes) : TRUE
  <2>1. v \in Ending(w.votes)
    OBVIOUS
  <2>2. v.verdict \in {"rejected", "revision_requested"}
    BY <2>1 DEF Ending, Workflow, Vote, Verdicts
  <2>3. Outcome(w) = v.verdict
    BY DEF Outcome
  <2>. QED BY <2>2, <2>3
<1>2. \E s \in Stages : ~Complete(w, s)
  <2> SUFFICES ASSUME \A s \in Stages : Complete(w, s) PROVE FALSE
    OBVIOUS
  <2>1. Outcome(w) = "approved"
    BY <1>1 DEF Outcome
  <2>. QED BY <2>1
<1>. QED BY <1>1, <1>2

(* A stage nobody has voted in is not complete.                              *)
LEMMA UntouchedIncomplete ==
  ASSUME NEW w \in Workflow, NEW s \in Stages, \A v \in w.votes : v.stage # s
  PROVE  ~Complete(w, s)
<1>1. Approvals(w, s) = {}
  BY DEF Approvals
<1>2. Required[s] \in Nat \ {0}
  BY ApprovalAssumption
<1>. QED BY <1>1, <1>2, FS_EmptySet DEF Complete

LEMMA DecidedConsistent ==
  ASSUME NEW w \in Workflow, Consistent(w), w.status = "pending",
         NEW v \in Vote, v.stage = w.stage, Authorized(v.approver, w),
         ~AlreadyVoted(v.approver, w)
  PROVE  Consistent(Decided(v, WithVote(v, w)))
<1> DEFINE x == WithVote(v, w)
           d == Decided(v, x)
<1>1. x \in Workflow /\ x.votes = w.votes \cup {v} /\ x.stage = w.stage
      /\ x.status = "pending"
  BY DEF WithVote, Workflow
<1>2. d \in Workflow
  BY DecidedTyped
<1>3. Outcome(w) = "pending"
  BY DEF Consistent
<1>4. Ending(w.votes) = {}
  BY <1>3, PendingHasNoEnding
<1>5. d.votes = x.votes
  BY <1>1 DEF Decided, Workflow
<1>6. w.stage \in Stages /\ v.verdict \in Verdicts
  BY DEF Workflow, Vote
<1>7. /\ \A u \in d.votes : u.stage <= w.stage /\ u.approver \in Approvers[u.stage]
      /\ \A u1, u2 \in d.votes : u1.stage = u2.stage /\ u1.approver = u2.approver => u1 = u2
  <2>1. v.stage <= w.stage /\ v.approver \in Approvers[v.stage]
    BY <1>6 DEF Authorized, Stages
  <2>. QED BY <1>1, <1>5, <2>1 DEF Consistent, AlreadyVoted
<1>8. Ending(d.votes) = IF v.verdict = "approved" THEN {} ELSE {v}
  BY <1>1, <1>4, <1>5 DEF Ending
<1>9. \A u1, u2 \in Ending(d.votes) : u1 = u2
  BY <1>8
<1>10. ASSUME NEW s \in Stages, s # w.stage
       PROVE  Complete(d, s) <=> Complete(w, s)
  <2>1. Approvals(d, s) = Approvals(w, s)
    BY <1>1, <1>5, <1>10 DEF Approvals
  <2>. QED BY <2>1 DEF Complete
<1>11. Complete(d, w.stage) <=> Completes(x)
  BY <1>1, <1>5 DEF Complete, Completes, Approvals
<1>12. \A s \in Stages : s < w.stage => Complete(d, s)
  BY <1>6, <1>10 DEF Consistent, Stages
<1> HIDE DEF x, d
<1>13. CASE v.verdict # "approved"
  <2>1. d.status = v.verdict /\ d.stage = w.stage
    BY <1>1, <1>13 DEF d, Decided, Workflow
  <2>2. Ending(d.votes) = {v}
    BY <1>8, <1>13
  <2>3. Outcome(d) = v.verdict
    BY <2>2 DEF Outcome
  <2>. QED BY <1>7, <1>9, <1>12, <2>1, <2>3 DEF Consistent, d, x
<1>14. CASE v.verdict = "approved" /\ ~Completes(x)
  <2>1. d = x
    BY <1>14 DEF d, Decided
  <2>2. Ending(d.votes) = {}
    BY <1>8, <1>14
  <2>3. Outcome(d) = "pending"
    BY <1>6, <1>11, <1>14, <2>2 DEF Outcome
  <2>. QED BY <1>1, <1>7, <1>9, <1>12, <2>1, <2>3 DEF Consistent, d, x
<1>15. CASE v.verdict = "approved" /\ Completes(x) /\ HasNextStage(x)
  <2>1. d = [x EXCEPT !.stage = @ + 1]
    BY <1>15 DEF d, Decided
  <2>2. d.stage = w.stage + 1 /\ d.status = "pending"
    BY <1>1, <2>1 DEF Workflow
  <2>3. w.stage \in Int /\ w.stage + 1 \in Stages
    BY <1>2, <1>6, <2>2 DEF Workflow, Stages
  <2>4. ~Complete(d, w.stage + 1)
    BY <1>2, <1>7, <2>3, UntouchedIncomplete DEF Stages
  <2>5. Outcome(d) = "pending"
    BY <1>8, <1>15, <2>3, <2>4 DEF Outcome
  <2>6. \A s \in Stages : s < d.stage => Complete(d, s)
    BY <1>6, <1>11, <1>12, <1>15, <2>2 DEF Stages
  <2>7. \A u \in d.votes : u.stage <= d.stage
    BY <1>2, <1>7, <2>2, <2>3 DEF Workflow, Vote, Stages
  <2>. QED BY <1>7, <1>9, <2>2, <2>5, <2>6, <2>7 DEF Consistent, d, x
<1>16. CASE v.verdict = "approved" /\ Completes(x) /\ ~HasNextStage(x)
  <2>1. d = [x EXCEPT !.status = "approved"]
    BY <1>16 DEF d, Decided
  <2>2. d.stage = w.stage /\ d.status = "approved"
    BY <1>1, <2>1 DEF Workflow
  <2>3. w.stage = NumStages - 1
    BY <1>1, <1>6, <1>16, ApprovalAssumption DEF HasNextStage, Stages
  <2>4. \A s \in Stages : Complete(d, s)
    BY <1>6, <1>11, <1>12, <1>16, <2>3, ApprovalAssumption DEF Stages
  <2>5. Outcome(d) = "approved"
    BY <1>8, <1>16, <2>4 DEF Outcome
  <2>. QED BY <1>7, <1>9, <1>12, <2>2, <2>5 DEF Consistent, d, x
<1>. QED BY <1>13, <1>14, <1>15, <1>16 DEF d, x

LEMMA NewWorkflowConsistent == NewWorkflow \in Workflow /\ Consistent(NewWorkflow)
<1>1. NewWorkflow \in Workflow
  BY ApprovalAssumption DEF NewWorkflow, Workflow, Stages
<1>2. 0 \in Stages /\ NewWorkflow.votes = {}
  BY ApprovalAssumption DEF NewWorkflow, Stages
<1>3. ~Complete(NewWorkflow, 0)
  BY <1>1, <1>2, UntouchedIncomplete
<1>4. Outcome(NewWorkflow) = "pending"
  BY <1>2, <1>3 DEF Outcome, Ending
<1>. QED BY <1>1, <1>2, <1>4 DEF Consistent, NewWorkflow, Ending, Stages

(* What decides whether a workflow is consistent: all but a cancellation.    *)
LEMMA CancelledConsistent ==
  ASSUME NEW w \in Workflow, Consistent(w), w.status = "pending"
  PROVE  Consistent([w EXCEPT !.status = "cancelled"])
<1> DEFINE c == [w EXCEPT !.status = "cancelled"]
<1>1. c.votes = w.votes /\ c.stage = w.stage /\ c.status = "cancelled"
  BY DEF Workflow
<1>2. \A s \in Stages : Complete(c, s) <=> Complete(w, s)
  BY <1>1 DEF Complete, Approvals
<1>3. Outcome(c) = Outcome(w)
  BY <1>1, <1>2 DEF Outcome
<1> HIDE DEF c
<1>4. Consistent(c)
  BY <1>1, <1>2, <1>3 DEF Consistent
<1>. QED BY <1>4 DEF c

LEMMA OutcomeStep == TypeInv /\ OutcomeInv /\ [Next]_vars => OutcomeInv'
<1> SUFFICES ASSUME TypeInv, OutcomeInv, [Next]_vars PROVE OutcomeInv'
  OBVIOUS
<1> USE DEF OutcomeInv, OutcomeFollowsVotes, CopiesConsistent, At
<1>t. request \in [Requests -> Request]
  BY DEF TypeInv, TypeOK
<1> USE DEF Request
<1>1. ASSUME NEW r \in Requests, StartWorkflow(r) PROVE OutcomeInv'
  BY <1>1, <1>t, NewWorkflowConsistent DEF StartWorkflow, Goto
<1>2. ASSUME NEW r \in Requests, NEW a \in Users, NEW verdict \in Verdicts,
             Submit(r, a, verdict)
      PROVE OutcomeInv'
  <2> DEFINE v == [request |-> r, stage |-> workflow.stage, approver |-> a, verdict |-> verdict]
             d == Decided(v, WithVote(v, workflow))
  <2>1. /\ request' = [request EXCEPT ![r].kind = "submit", ![r].pc = "write", ![r].vote = v,
                                      ![r].copy = d, ![r].seen = answered]
        /\ workflow' = workflow
    BY <1>2 DEF Submit
  <2>2. workflow \in Workflow /\ v \in Vote
    BY <1>2, SubmitTyped DEF TypeInv, TypeOK, Submit
  <2>3. Consistent(d)
    BY <1>2, <2>2, DecidedConsistent DEF Submit
  <2> HIDE DEF v, d
  <2>. QED BY <1>t, <2>1, <2>3
<1>3. ASSUME NEW r \in Requests, WriteVote(r) PROVE OutcomeInv'
  BY <1>3, <1>t DEF WriteVote, Goto
<1>4. ASSUME NEW r \in Requests, Cancel(r) PROVE OutcomeInv'
  <2>1. workflow \in Workflow
    BY <1>4 DEF Cancel, TypeInv, TypeOK
  <2>2. Consistent(workflow')
    BY <1>4, <2>1, CancelledConsistent DEF Cancel
  <2>. QED BY <1>4, <1>t, <2>2 DEF Cancel, Comes
<1>5. ASSUME NEW r \in Requests, Find(r) PROVE OutcomeInv'
  BY <1>5, <1>t DEF Find
<1>6. ASSUME NEW r \in Requests, DelKey(r) PROVE OutcomeInv'
  BY <1>6, <1>t DEF DelKey
<1>7. ASSUME NEW r \in Requests,
             \/ \E review \in BOOLEAN : Create(r, review)
             \/ AutoApprove(r) \/ WriteNothing(r) \/ GetCached(r) \/ Fill(r) \/ Update(r)
             \/ Delete(r) \/ Fail(r)
             \/ \E kind \in {"approve", "reject", "archive"} : ChangeStatus(r, kind)
      PROVE OutcomeInv'
  BY <1>7, <1>t DEF Create, AutoApprove, WriteNothing, GetCached, Fill, Update, Delete, Fail,
                    ChangeStatus, Comes, Goto
<1>8. CASE Expire \/ UNCHANGED vars
  BY <1>8 DEF Expire, vars
<1>. QED
  BY <1>1, <1>2, <1>3, <1>4, <1>5, <1>6, <1>7, <1>8 DEF Next, WorkflowStep, ItemStep

(* Whatever votes race, a workflow is what its votes make of it: approved    *)
(* means that every stage has its approvals by different users in charge and *)
(* that nobody objected (submitApproval).                                    *)
THEOREM OutcomeFollowsVotesCorrect == Spec => []OutcomeFollowsVotes
<1>1. Init => OutcomeInv
  BY DEF Init, OutcomeInv, OutcomeFollowsVotes, CopiesConsistent, NewRequest, At
<1>2. OutcomeInv => OutcomeFollowsVotes
  BY DEF OutcomeInv
<1>. QED BY <1>1, <1>2, TypeInvariant, OutcomeStep, PTL DEF Spec

-----------------------------------------------------------------------------
(* No vote is lost but by overlap.  One item is created, its workflow starts *)
(* before anyone can vote, and a vote that waits to be written carries every *)
(* vote that was answered before it read the workflow and is not lost.       *)
Creator(r) == Is(r, "create") /\ ~At(r, "new")
Unstarted == \A r \in Requests : Creator(r) => At(r, "start")

StartInv ==
  /\ \A r \in Requests : At(r, "start") => Is(r, "create")
  /\ \A q, r \in Requests : Creator(q) /\ Creator(r) => q = r
  /\ Unstarted => workflow = None /\ answered = {} /\ \A r \in Requests : ~At(r, "write")

CarryInv ==
  /\ workflow # None => answered \ lost \subseteq workflow.votes
  /\ \A r \in Requests : At(r, "write") =>
       request[r].seen \ lost \subseteq request[r].copy.votes
       /\ request[r].vote \in request[r].copy.votes

LEMMA StartStep == TypeInv /\ StartInv /\ [Next]_vars => StartInv'
<1> SUFFICES ASSUME TypeInv, StartInv, [Next]_vars PROVE StartInv'
  OBVIOUS
<1> USE DEF StartInv, Unstarted, Creator, At, Is
<1>t. request \in [Requests -> Request]
  BY DEF TypeInv, TypeOK
<1> USE DEF Request
<1>1. ASSUME NEW r \in Requests, NEW review \in BOOLEAN, Create(r, review) PROVE StartInv'
  BY <1>1, <1>t DEF Create
<1>2. ASSUME NEW r \in Requests, StartWorkflow(r) PROVE StartInv'
  BY <1>2, <1>t DEF StartWorkflow, Goto
<1>3. ASSUME NEW r \in Requests, AutoApprove(r) PROVE StartInv'
  BY <1>3, <1>t DEF AutoApprove, Goto
<1>4. ASSUME NEW r \in Requests, NEW a \in Users, NEW verdict \in Verdicts,
             Submit(r, a, verdict)
      PROVE StartInv'
  <2>1. /\ \A q \in Requests : q # r => request'[q] = request[q]
        /\ request'[r].kind = "submit" /\ request'[r].pc = "write"
        /\ request[r].pc = "new" /\ workflow # None
    BY <1>4, <1>t DEF Submit
  <2>. QED BY <2>1
<1>5. ASSUME NEW r \in Requests, WriteVote(r) \/ WriteNothing(r) PROVE StartInv'
  BY <1>5, <1>t DEF WriteVote, WriteNothing, Goto
<1>6. ASSUME NEW r \in Requests,
             Cancel(r) \/ GetCached(r) \/ Update(r) \/ Delete(r)
             \/ \E kind \in {"approve", "reject", "archive"} : ChangeStatus(r, kind)
      PROVE StartInv'
  <2>1. PICK kind \in Kinds \ {"create"}, l \in {"ok", "find", "del", "failed"} :
          Comes(r, kind, l) /\ answered' = answered /\ (workflow = None => workflow' = None)
    BY <1>6 DEF Cancel, GetCached, Update, Delete, ChangeStatus, Kinds, Comes
  <2>2. /\ \A q \in Requests : q # r => request'[q] = request[q]
        /\ request'[r].kind = kind /\ request'[r].pc = l /\ request[r].pc = "new"
    BY <2>1, <1>t DEF Comes
  <2>. QED BY <2>1, <2>2
<1>7. ASSUME NEW r \in Requests, Find(r) PROVE StartInv'
  BY <1>7, <1>t DEF Find
<1>8. ASSUME NEW r \in Requests, Fill(r) PROVE StartInv'
  BY <1>8, <1>t DEF Fill, Goto
<1>9. ASSUME NEW r \in Requests, DelKey(r) PROVE StartInv'
  BY <1>9, <1>t DEF DelKey
<1>10. ASSUME NEW r \in Requests, Fail(r) PROVE StartInv'
  BY <1>10, <1>t DEF Fail, Goto, InFlight, Waiting
<1>11. CASE Expire \/ UNCHANGED vars
  BY <1>11 DEF Expire, vars
<1>. QED
  BY <1>1, <1>2, <1>3, <1>4, <1>5, <1>6, <1>7, <1>8, <1>9, <1>10, <1>11
     DEF Next, WorkflowStep, ItemStep

LEMMA VoteCarried ==
  ASSUME NEW w \in Workflow, NEW v \in Vote
  PROVE  Decided(v, WithVote(v, w)).votes = w.votes \cup {v}
  BY DEF Decided, WithVote, Workflow

LEMMA CarryStep == TypeInv /\ StartInv /\ CarryInv /\ [Next]_vars => CarryInv'
<1> SUFFICES ASSUME TypeInv, StartInv, CarryInv, [Next]_vars PROVE CarryInv'
  OBVIOUS
<1> USE DEF CarryInv, At
<1>t. request \in [Requests -> Request]
  BY DEF TypeInv, TypeOK
<1> USE DEF Request
<1>1. ASSUME NEW r \in Requests, StartWorkflow(r) PROVE CarryInv'
  <2>1. Unstarted
    BY <1>1 DEF StartInv, StartWorkflow, Unstarted, Creator, Is
  <2>2. answered = {}
    BY <2>1 DEF StartInv
  <2>. QED BY <1>1, <1>t, <2>2 DEF StartWorkflow, Goto
<1>2. ASSUME NEW r \in Requests, NEW a \in Users, NEW verdict \in Verdicts,
             Submit(r, a, verdict)
      PROVE CarryInv'
  <2> DEFINE v == [request |-> r, stage |-> workflow.stage, approver |-> a, verdict |-> verdict]
             d == Decided(v, WithVote(v, workflow))
  <2>1. /\ request' = [request EXCEPT ![r].kind = "submit", ![r].pc = "write", ![r].vote = v,
                                      ![r].copy = d, ![r].seen = answered]
        /\ UNCHANGED <<workflow, answered, lost>> /\ workflow # None
    BY <1>2 DEF Submit
  <2>2. workflow \in Workflow /\ v \in Vote
    BY <1>2, SubmitTyped DEF TypeInv, TypeOK, Submit
  <2>3. d.votes = workflow.votes \cup {v}
    BY <2>2, VoteCarried
  <2> HIDE DEF v, d
  <2>4. /\ \A q \in Requests : q # r => request'[q] = request[q]
        /\ request'[r].copy = d /\ request'[r].vote = v /\ request'[r].seen = answered
    BY <1>t, <2>1
  <2>. QED BY <2>1, <2>3, <2>4
<1>3. ASSUME NEW r \in Requests, WriteVote(r) PROVE CarryInv'
  <2>1. /\ workflow' = request[r].copy /\ answered' = answered \cup {request[r].vote}
        /\ lost' = lost \cup (answered \ request[r].seen)
        /\ At(r, "write")
    BY <1>3 DEF WriteVote
  <2>2. answered' \ lost' \subseteq workflow'.votes
    BY <2>1
  <2>3. \A q \in Requests : At(q, "write")' => At(q, "write") /\ request'[q] = request[q]
    BY <1>3, <1>t DEF WriteVote, Goto
  <2>. QED BY <2>1, <2>2, <2>3
<1>4. ASSUME NEW r \in Requests, Cancel(r) PROVE CarryInv'
  <2>1. workflow \in Workflow
    BY <1>4 DEF Cancel, TypeInv, TypeOK
  <2>2. workflow'.votes = workflow.votes
    BY <1>4, <2>1 DEF Cancel, Workflow
  <2>. QED BY <1>4, <1>t, <2>2 DEF Cancel, Comes
<1>5. ASSUME NEW r \in Requests, Find(r) PROVE CarryInv'
  BY <1>5, <1>t DEF Find
<1>6. ASSUME NEW r \in Requests, DelKey(r) PROVE CarryInv'
  BY <1>6, <1>t DEF DelKey
<1>7. ASSUME NEW r \in Requests,
             \/ \E review \in BOOLEAN : Create(r, review)
             \/ AutoApprove(r) \/ WriteNothing(r) \/ GetCached(r) \/ Fill(r) \/ Update(r)
             \/ Delete(r) \/ Fail(r)
             \/ \E kind \in {"approve", "reject", "archive"} : ChangeStatus(r, kind)
      PROVE CarryInv'
  BY <1>7, <1>t DEF Create, AutoApprove, WriteNothing, GetCached, Fill, Update, Delete, Fail,
                    ChangeStatus, Comes, Goto
<1>8. CASE Expire \/ UNCHANGED vars
  BY <1>8 DEF Expire, vars
<1>. QED
  BY <1>1, <1>2, <1>3, <1>4, <1>5, <1>6, <1>7, <1>8 DEF Next, WorkflowStep, ItemStep

(* A vote that was answered is in the workflow, and an objection decides it, *)
(* unless a vote that read the row before and wrote it after wrote over it.  *)
THEOREM VotesLostOnlyByOverlapCorrect == Spec => []VotesLostOnlyByOverlap
<1>1. Init => OutcomeInv /\ StartInv /\ CarryInv
  BY DEF Init, OutcomeInv, OutcomeFollowsVotes, CopiesConsistent, StartInv, CarryInv, Unstarted,
         Creator, NewRequest, At, Is
<1>2. TypeInv /\ OutcomeInv /\ CarryInv => VotesLostOnlyByOverlap
  <2> SUFFICES ASSUME TypeInv, OutcomeInv, CarryInv, workflow # None,
                      NEW v \in answered \ lost, v.verdict # "approved"
               PROVE  workflow.status = v.verdict
    BY DEF VotesLostOnlyByOverlap, CarryInv
  <2>1. workflow \in Workflow /\ Consistent(workflow)
    BY DEF TypeInv, TypeOK, OutcomeInv, OutcomeFollowsVotes
  <2>2. v \in Ending(workflow.votes)
    BY DEF CarryInv, Ending
  <2>3. Outcome(workflow) = v.verdict
    <3>1. (CHOOSE x \in Ending(workflow.votes) : TRUE) = v
      BY <2>1, <2>2 DEF Consistent
    <3>. QED BY <2>2, <3>1 DEF Outcome
  <2>4. Outcome(workflow) # "pending"
    BY <2>1, <2>2, PendingHasNoEnding
  <2>. QED BY <2>1, <2>3, <2>4 DEF Consistent
<1>. QED BY <1>1, <1>2, TypeInvariant, OutcomeStep, StartStep, CarryStep, PTL DEF Spec

-----------------------------------------------------------------------------
(* The cached copy.  Readers that wait to fill the cache are to it what the  *)
(* cached copy is: older than an answered update only if they are late.      *)
Kinded ==
  \A r \in Requests :
    /\ At(r, "del") => Is(r, "update")
    /\ At(r, "write") => Is(r, "submit")
    /\ At(r, "start") => Is(r, "create")
    /\ At(r, "find") \/ At(r, "fill") => Is(r, "get")
    /\ At(r, "new") => ~Is(r, "update")

Updated == item # None /\ Is(item.by, "update") /\ At(item.by, "ok")

CopyInv ==
  Updated =>
    /\ cache # None /\ cache.copy # item => request[cache.filler].late
    /\ \A r \in Requests : At(r, "fill") /\ request[r].copy # item => request[r].late

LEMMA KindedStep == TypeInv /\ Kinded /\ [Next]_vars => Kinded'
<1> SUFFICES ASSUME TypeInv, Kinded, [Next]_vars PROVE Kinded'
  OBVIOUS
<1> USE DEF Kinded, At, Is
<1>t. request \in [Requests -> Request]
  BY DEF TypeInv, TypeOK
<1> USE DEF Request
<1>1. ASSUME NEW r \in Requests, NEW review \in BOOLEAN, Create(r, review) PROVE Kinded'
  BY <1>1, <1>t DEF Create
<1>2. ASSUME NEW r \in Requests, NEW a \in Users, NEW verdict \in Verdicts,
             Submit(r, a, verdict)
      PROVE Kinded'
  <2>1. /\ \A q \in Requests : q # r => request'[q] = request[q]
        /\ request'[r].kind = "submit" /\ request'[r].pc = "write"
    BY <1>2, <1>t DEF Submit
  <2>. QED BY <2>1
<1>3. ASSUME NEW r \in Requests,
             StartWorkflow(r) \/ AutoApprove(r) \/ WriteVote(r) \/ WriteNothing(r)
      PROVE Kinded'
  BY <1>3, <1>t DEF StartWorkflow, AutoApprove, WriteVote, WriteNothing, Goto
<1>4. ASSUME NEW r \in Requests, Cancel(r) \/ GetCached(r) PROVE Kinded'
  BY <1>4, <1>t DEF Cancel, GetCached, Comes
<1>5. ASSUME NEW r \in Requests, Update(r) \/ Delete(r) PROVE Kinded'
  BY <1>5, <1>t DEF Update, Delete, Comes
<1>6. ASSUME NEW r \in Requests, NEW kind \in {"approve", "reject", "archive"},
             ChangeStatus(r, kind)
      PROVE Kinded'
  BY <1>6, <1>t DEF ChangeStatus, Comes
<1>7. ASSUME NEW r \in Requests, Find(r) PROVE Kinded'
  BY <1>7, <1>t DEF Find
<1>8. ASSUME NEW r \in Requests, Fill(r) \/ Fail(r) PROVE Kinded'
  BY <1>8, <1>t DEF Fill, Fail, Goto
<1>9. ASSUME NEW r \in Requests, DelKey(r) PROVE Kinded'
  BY <1>9, <1>t DEF DelKey
<1>10. CASE Expire \/ UNCHANGED vars
  BY <1>10 DEF Expire, vars
<1>. QED
  BY <1>1, <1>2, <1>3, <1>4, <1>5, <1>6, <1>7, <1>8, <1>9, <1>10
     DEF Next, WorkflowStep, ItemStep

(* A step that leaves the item alone makes its last update answered only by  *)
(* answering it; the other requests that are answered are no updates.        *)
LEMMA CopyKept ==
  ASSUME TypeInv, Kinded, CopyInv, UNCHANGED <<item, cache>>,
         NEW r \in Requests, ~Is(r, "update"), ~Is(r, "update")',
         \A q \in Requests : q # r => request'[q] = request[q],
         request'[r].late = request[r].late,
         At(r, "fill")' => request'[r].copy = item
  PROVE  CopyInv'
<1> USE DEF CopyInv, Updated, At, Is
<1>1. SUFFICES ASSUME Updated' PROVE
         /\ cache # None /\ cache.copy # item => request'[cache.filler].late
         /\ \A q \in Requests : At(q, "fill")' /\ request'[q].copy # item => request'[q].late
  OBVIOUS
<1>2. item.by \in Requests /\ item.by # r
  BY <1>1 DEF TypeInv, TypeOK, Item
<1>3. Updated
  BY <1>1, <1>2
<1>4. cache # None => cache.filler \in Requests
  BY DEF TypeInv, TypeOK
<1>. QED BY <1>3, <1>4

LEMMA CopyStep == TypeInv /\ Kinded /\ CopyInv /\ [Next]_vars => CopyInv'
<1> SUFFICES ASSUME TypeInv, Kinded, CopyInv, [Next]_vars PROVE CopyInv'
  OBVIOUS
<1>t. request \in [Requests -> Request]
  BY DEF TypeInv, TypeOK
<1> USE DEF Request
<1>c. /\ item # None => item.by \in Requests
      /\ cache # None => cache.filler \in Requests
  BY DEF TypeInv, TypeOK, Item
<1>1. ASSUME NEW r \in Requests, NEW review \in BOOLEAN, Create(r, review) PROVE CopyInv'
  BY <1>1, <1>t DEF Create, CopyInv, Updated, At, Is
<1>2. ASSUME NEW r \in Requests, StartWorkflow(r) \/ WriteVote(r) \/ WriteNothing(r)
      PROVE CopyInv'
  <2>1. /\ UNCHANGED <<item, cache>> /\ ~Is(r, "update") /\ ~Is(r, "update")'
        /\ \A q \in Requests : q # r => request'[q] = request[q]
        /\ request'[r].late = request[r].late /\ ~At(r, "fill")'
    BY <1>2, <1>t DEF StartWorkflow, WriteVote, WriteNothing, Kinded, At, Is, Goto
  <2>. QED BY <2>1, CopyKept
<1>3. ASSUME NEW r \in Requests, AutoApprove(r) PROVE CopyInv'
  BY <1>3, <1>t DEF AutoApprove, SetStatus, Goto, CopyInv, Updated, At, Is, Kinded
<1>4. ASSUME NEW r \in Requests, NEW a \in Users, NEW verdict \in Verdicts,
             Submit(r, a, verdict)
      PROVE CopyInv'
  <2>1. /\ UNCHANGED <<item, cache>> /\ ~Is(r, "update") /\ ~Is(r, "update")'
        /\ \A q \in Requests : q # r => request'[q] = request[q]
        /\ request'[r].late = request[r].late /\ ~At(r, "fill")'
    BY <1>4, <1>t DEF Submit, Kinded, At, Is
  <2>. QED BY <2>1, CopyKept
<1>5. ASSUME NEW r \in Requests, Cancel(r) \/ GetCached(r) PROVE CopyInv'
  <2>1. /\ UNCHANGED <<item, cache>> /\ ~Is(r, "update") /\ ~Is(r, "update")'
        /\ \A q \in Requests : q # r => request'[q] = request[q]
        /\ request'[r].late = request[r].late /\ ~At(r, "fill")'
    BY <1>5, <1>t DEF Cancel, GetCached, Comes, Kinded, At, Is
  <2>. QED BY <2>1, CopyKept
<1>6. ASSUME NEW r \in Requests, Find(r) PROVE CopyInv'
  <2>1. /\ UNCHANGED <<item, cache>> /\ ~Is(r, "update") /\ ~Is(r, "update")'
        /\ \A q \in Requests : q # r => request'[q] = request[q]
        /\ request'[r].late = request[r].late
    BY <1>6, <1>t DEF Find, Kinded, At, Is
  <2>2. At(r, "fill")' => request'[r].copy = item
    BY <1>6, <1>t DEF Find, At
  <2>. QED BY <2>1, <2>2, CopyKept
<1>7. ASSUME NEW r \in Requests, Fill(r) PROVE CopyInv'
  <2>1. /\ item' = item /\ cache' = [copy |-> request[r].copy, filler |-> r]
        /\ At(r, "fill") /\ ~Is(r, "update")
        /\ \A q \in Requests : q # r => request'[q] = request[q]
        /\ request'[r].late = request[r].late /\ ~At(r, "fill")' /\ ~Is(r, "update")'
    BY <1>7, <1>t DEF Fill, Goto, Kinded, At, Is
  <2>2. Updated' => Updated
    BY <1>c, <2>1 DEF Updated, At, Is
  <2>. QED BY <2>1, <2>2 DEF CopyInv, At
<1>8. ASSUME NEW r \in Requests, Update(r) PROVE CopyInv'
  BY <1>8, <1>t DEF Update, SetStatus, Comes, CopyInv, Updated, At, Is
<1>9. ASSUME NEW r \in Requests, DelKey(r) PROVE CopyInv'
  <2>1. /\ item' = item /\ cache' = None
        /\ \A q \in Requests : q # r /\ At(q, "fill") /\ request[q].copy # item
                               => request'[q].late
        /\ ~At(r, "fill")'
        /\ \A q \in Requests : q # r => At(q, "fill")' = At(q, "fill")
                                       /\ request'[q].copy = request[q].copy
    BY <1>9, <1>t DEF DelKey, KeyDeleted, At
  <2>. QED BY <2>1 DEF CopyInv
<1>10. ASSUME NEW r \in Requests, NEW kind \in {"approve", "reject", "archive"},
              ChangeStatus(r, kind)
       PROVE CopyInv'
  BY <1>10, <1>t DEF ChangeStatus, SetStatus, Comes, CopyInv, Updated, At, Is
<1>11. ASSUME NEW r \in Requests, Delete(r) PROVE CopyInv'
  BY <1>11 DEF Delete, CopyInv, Updated
<1>12. ASSUME NEW r \in Requests, Fail(r) PROVE CopyInv'
  <2>1. /\ UNCHANGED <<item, cache>>
        /\ \A q \in Requests : q # r => request'[q] = request[q]
        /\ request'[r].late = request[r].late /\ request'[r].pc = "failed"
    BY <1>12, <1>t DEF Fail, Goto
  <2>2. Updated' => Updated
    BY <1>c, <2>1 DEF Updated, At, Is
  <2>. QED BY <1>c, <2>1, <2>2 DEF CopyInv, At
<1>13. CASE Expire
  BY <1>13 DEF Expire, CopyInv, Updated, At, Is
<1>14. CASE UNCHANGED vars
  BY <1>14 DEF vars, CopyInv, Updated, At, Is
<1>. QED
  BY <1>1, <1>2, <1>3, <1>4, <1>5, <1>6, <1>7, <1>8, <1>9, <1>10, <1>11, <1>12, <1>13, <1>14
     DEF Next, WorkflowStep, ItemStep

(* After an update was answered nobody reads an older copy from the cache,   *)
(* but one that a reader who came before it put there after it (updateItem,  *)
(* getItem).                                                                 *)
THEOREM NoOldCopyAfterUpdateCorrect == Spec => []NoOldCopyAfterUpdate
<1>1. Init => Kinded /\ CopyInv
  BY DEF Init, Kinded, CopyInv, Updated, NewRequest, At, Is
<1>2. CopyInv => NoOldCopyAfterUpdate
  BY DEF CopyInv, Updated, NoOldCopyAfterUpdate
<1>. QED BY <1>1, <1>2, TypeInvariant, KindedStep, CopyStep, PTL DEF Spec
=============================================================================
