--------------------------- MODULE ContentApproval ---------------------------
(***************************************************************************)
(* ContentLibraryService and ApprovalWorkflowService: an item of the content *)
(* library, the workflow in which approvers vote on it stage by stage, and   *)
(* the copy of the approved item that getItem keeps in Redis.                *)
(*                                                                           *)
(* A vote is a read of the whole workflow, its change in memory, and an      *)
(* UPDATE that writes the whole of it back, whatever the row holds by then.  *)
(* The status of the item is set by endpoints of its own, which do not look  *)
(* at the workflow; only an update of the item deletes the cached copy.      *)
(*                                                                           *)
(* A request runs until an await.  One item is modelled: no operation reads  *)
(* or writes two (duplicateItem creates another).                            *)
(***************************************************************************)
EXTENDS Integers, FiniteSets

CONSTANTS
  Requests,   \* requests to the newsletter service, each made once
  Users,
  NumStages,  \* stages of a workflow (getDefaultApprovalStages)
  Approvers,  \* stage -> the users who may vote in it
  Required,   \* stage -> approvals that complete it
  None,       \* null, or no such row or key
  MaxFaults   \* bound: requests that fail at an await

Stages == 0 .. NumStages - 1

ASSUME ApprovalAssumption ==
  /\ NumStages \in Nat \ {0}
  /\ Approvers \in [Stages -> SUBSET Users]
  /\ Required \in [Stages -> Nat \ {0}]
  /\ MaxFaults \in Nat

VARIABLES
  request,  \* the local variables of each request
  item,     \* the row of table content_library_items
  workflow, \* the row of table approval_workflows
  cache,    \* the key content_item:<id>
  answered, \* history: votes whose request was answered with success
  lost,     \* history: those another request wrote over that had not seen them
  faults

vars == <<request, item, workflow, cache, answered, lost, faults>>

-----------------------------------------------------------------------------
Verdicts == {"approved", "rejected", "revision_requested"}
Kinds == {"create", "submit", "cancel", "get", "update", "approve", "reject", "archive",
          "delete"}
Waiting == {"start", "write", "find", "fill", "del"}

(* by: the request that last wrote the row.                                  *)
Item == [status : {"draft", "approved", "archived"}, by : Requests]
Vote == [request : Requests, stage : Stages, approver : Users, verdict : Verdicts]
Workflow == [status : Verdicts \cup {"pending", "cancelled"}, stage : Stages,
             votes : SUBSET Vote]

(* vote, copy: what submitApproval adds, and the workflow it will write; for *)
(* getItem, copy is the item it found.  seen: history, the votes answered    *)
(* when the workflow was read.  late: history, an update was answered while  *)
(* getItem held an older copy.                                               *)
NewRequest ==
  [pc |-> "new", kind |-> "get", review |-> FALSE, vote |-> None, copy |-> None,
   seen |-> {}, late |-> FALSE]

At(r, l) == request[r].pc = l
InFlight(r) == request[r].pc \in Waiting
Is(r, kind) == request[r].kind = kind
Goto(r, l) == request' = [request EXCEPT ![r].pc = l]

(* A request that comes, and waits at l or is answered.                      *)
Comes(r, kind, l) ==
  At(r, "new") /\ request' = [request EXCEPT ![r].kind = kind, ![r].pc = l]

Init ==
  /\ request = [r \in Requests |-> NewRequest]
  /\ item = None /\ workflow = None /\ cache = None
  /\ answered = {} /\ lost = {}
  /\ faults = 0

-----------------------------------------------------------------------------
(* createItem: the row is a draft; an article or a template (review) gets a  *)
(* workflow, and anything else is approved at once.                          *)
Create(r, review) ==
  /\ At(r, "new") /\ \A q \in Requests : At(q, "new") \/ ~Is(q, "create")
  /\ item' = [status |-> "draft", by |-> r]
  /\ request' = [request EXCEPT ![r].kind = "create", ![r].pc = "start",
                                ![r].review = review]
  /\ UNCHANGED <<workflow, cache, answered, lost, faults>>

NewWorkflow == [status |-> "pending", stage |-> 0, votes |-> {}]

(* The workflow's content_id must exist.                                     *)
StartWorkflow(r) ==
  /\ At(r, "start") /\ request[r].review
  /\ workflow' = IF item = None THEN None ELSE NewWorkflow
  /\ Goto(r, IF item = None THEN "failed" ELSE "ok")
  /\ UNCHANGED <<item, cache, answered, lost, faults>>

(* repository.update: a row that is gone stays gone.                         *)
SetStatus(r, status) ==
  item' = IF item = None THEN None ELSE [status |-> status, by |-> r]

AutoApprove(r) ==
  /\ At(r, "start") /\ ~request[r].review
  /\ SetStatus(r, "approved")
  /\ Goto(r, "ok")
  /\ UNCHANGED <<workflow, cache, answered, lost, faults>>

-----------------------------------------------------------------------------
(* submitApproval.                                                           *)

(* Mutant: whoever approves some stage approves them all.                    *)
AuthorizedSomewhere(a, w) == \E s \in Stages : a \in Approvers[s]

Authorized(a, w) == a \in Approvers[w.stage]

AlreadyVoted(a, w) == \E v \in w.votes : v.stage = w.stage /\ v.approver = a

Approvals(w, s) == {v \in w.votes : v.stage = s /\ v.verdict = "approved"}
Completes(w) == Cardinality(Approvals(w, w.stage)) >= Required[w.stage]

(* Mutant: the index of the stage runs past the last one.                    *)
OneStageMore(w) == w.stage < NumStages

HasNextStage(w) == w.stage < NumStages - 1

(* Mutant: what ends the workflow is not recorded.                           *)
VoteUnlessFinal(v, w) ==
  IF v.verdict = "approved" THEN [w EXCEPT !.votes = @ \cup {v}] ELSE w

WithVote(v, w) == [w EXCEPT !.votes = @ \cup {v}]

(* A rejection or a request for a revision ends the workflow.                *)
Decided(v, w) ==
  CASE v.verdict # "approved"       -> [w EXCEPT !.status = v.verdict]
    [] v.verdict = "approved" /\ ~Completes(w) -> w
    [] v.verdict = "approved" /\ Completes(w) /\ HasNextStage(w) -> [w EXCEPT !.stage = @ + 1]
    [] OTHER                        -> [w EXCEPT !.status = "approved"]

Submit(r, a, verdict) ==
  LET v == [request |-> r, stage |-> workflow.stage, approver |-> a, verdict |-> verdict]
  IN /\ At(r, "new") /\ workflow # None
     /\ workflow.status = "pending" /\ Authorized(a, workflow) /\ ~AlreadyVoted(a, workflow)
     /\ request' = [request EXCEPT
          ![r].kind = "submit", ![r].pc = "write", ![r].vote = v,
          ![r].copy = Decided(v, WithVote(v, workflow)), ![r].seen = answered]
     /\ UNCHANGED <<item, workflow, cache, answered, lost, faults>>

(* UPDATE approval_workflows: nothing is compared with the row.              *)
WriteVote(r) ==
  /\ At(r, "write") /\ workflow # None
  /\ workflow' = request[r].copy
  /\ answered' = answered \cup {request[r].vote}
  /\ lost' = lost \cup (answered \ request[r].seen)
  /\ Goto(r, "ok")
  /\ UNCHANGED <<item, cache, faults>>

(* No row is returned when the item was deleted.                             *)
WriteNothing(r) ==
  /\ At(r, "write") /\ workflow = None
  /\ Goto(r, "failed")
  /\ UNCHANGED <<item, workflow, cache, answered, lost, faults>>

(* cancelWorkflow: WHERE status = 'pending'.                                 *)
Cancel(r) ==
  /\ workflow # None /\ workflow.status = "pending"
  /\ Comes(r, "cancel", "ok")
  /\ workflow' = [workflow EXCEPT !.status = "cancelled"]
  /\ UNCHANGED <<item, cache, answered, lost, faults>>

-----------------------------------------------------------------------------
(* The item and its copy.                                                    *)

(* getItem: the key, else the row, which is cached when it is approved.      *)
GetCached(r) ==
  /\ Comes(r, "get", IF cache = None THEN "find" ELSE "ok")
  /\ UNCHANGED <<item, workflow, cache, answered, lost, faults>>

Find(r) ==
  /\ At(r, "find")
  /\ request' = IF item # None /\ item.status = "approved"
                  THEN [request EXCEPT ![r].pc = "fill", ![r].copy = item]
                  ELSE [request EXCEPT ![r].pc = "ok"]
  /\ UNCHANGED <<item, workflow, cache, answered, lost, faults>>

Fill(r) ==
  /\ At(r, "fill")
  /\ cache' = [copy |-> request[r].copy, filler |-> r]
  /\ Goto(r, "ok")
  /\ UNCHANGED <<item, workflow, answered, lost, faults>>

(* updateItem writes the row, then deletes the key.  It sets no status.      *)
Update(r) ==
  /\ item # None
  /\ Comes(r, "update", "del")
  /\ SetStatus(r, item.status)
  /\ UNCHANGED <<workflow, cache, answered, lost, faults>>

(* Mutant: the key is not deleted.                                           *)
KeyKept == cache

(* redis.del                                                                 *)
KeyDeleted == None

DelKey(r) ==
  /\ At(r, "del")
  /\ cache' = KeyDeleted
  /\ request' = [q \in Requests |->
       IF q = r THEN [request[q] EXCEPT !.pc = "ok"]
       ELSE IF At(q, "fill") /\ request[q].copy # item
            THEN [request[q] EXCEPT !.late = TRUE]
            ELSE request[q]]
  /\ UNCHANGED <<item, workflow, answered, lost, faults>>

(* approveItem, rejectItem and archiveItem: the key stays as it is.          *)
StatusOf(kind) ==
  CASE kind = "approve" -> "approved"
    [] kind = "reject"  -> "draft"
    [] OTHER            -> "archived"

ChangeStatus(r, kind) ==
  /\ item # None
  /\ Comes(r, kind, "ok")
  /\ SetStatus(r, StatusOf(kind))
  /\ UNCHANGED <<workflow, cache, answered, lost, faults>>

(* deleteItem: the workflow goes with the row (ON DELETE CASCADE).  The query*)
(* returns no rows, so the service takes it that nothing was deleted: the    *)
(* key stays and the answer is 404.                                          *)
Delete(r) ==
  /\ item # None
  /\ Comes(r, "delete", "failed")
  /\ item' = None /\ workflow' = None
  /\ UNCHANGED <<cache, answered, lost, faults>>

(* The copy lives for an hour.                                               *)
Expire ==
  /\ cache # None
  /\ cache' = None
  /\ UNCHANGED <<request, item, workflow, answered, lost, faults>>

(* An await throws, or the process stops: what was done stays done.          *)
Fail(r) ==
  /\ InFlight(r)
  /\ faults < MaxFaults /\ faults' = faults + 1
  /\ Goto(r, "failed")
  /\ UNCHANGED <<item, workflow, cache, answered, lost>>

-----------------------------------------------------------------------------
WorkflowStep(r) ==
  \/ \E review \in BOOLEAN : Create(r, review)
  \/ StartWorkflow(r) \/ AutoApprove(r)
  \/ \E a \in Users, verdict \in Verdicts : Submit(r, a, verdict)
  \/ WriteVote(r) \/ WriteNothing(r) \/ Cancel(r)

ItemStep(r) ==
  \/ GetCached(r) \/ Find(r) \/ Fill(r)
  \/ Update(r) \/ DelKey(r) \/ Delete(r)
  \/ \E kind \in {"approve", "reject", "archive"} : ChangeStatus(r, kind)

Next == Expire \/ \E r \in Requests : WorkflowStep(r) \/ ItemStep(r) \/ Fail(r)

Spec == Init /\ [][Next]_vars

-----------------------------------------------------------------------------
Request ==
  [pc : Waiting \cup {"new", "ok", "failed"}, kind : Kinds, review : BOOLEAN,
   vote : Vote \cup {None}, copy : Workflow \cup Item \cup {None},
   seen : SUBSET Vote, late : BOOLEAN]

(* The variables keep their types (the tables' columns, the stage an index   *)
(* of the stages).                                                           *)
TypeOK ==
  /\ request \in [Requests -> Request]
  /\ item \in Item \cup {None}
  /\ workflow \in Workflow \cup {None}
  /\ cache \in [copy : Item, filler : Requests] \cup {None}
  /\ answered \in SUBSET Vote /\ lost \in SUBSET Vote
  /\ faults \in 0 .. MaxFaults

(* What a set of votes amounts to, whatever order they came in.              *)
Ending(votes) == {v \in votes : v.verdict # "approved"}
Complete(w, s) == Cardinality(Approvals(w, s)) >= Required[s]
Outcome(w) ==
  CASE Ending(w.votes) # {} -> (CHOOSE v \in Ending(w.votes) : TRUE).verdict
    [] Ending(w.votes) = {} /\ (\A s \in Stages : Complete(w, s)) -> "approved"
    [] OTHER -> "pending"

(* Each vote is by a user who may vote in that stage, and by one user once;  *)
(* at most one is against; the stages before the current one are complete,   *)
(* and those after it untouched.                                             *)
Consistent(w) ==
  /\ \A v \in w.votes : v.stage <= w.stage /\ v.approver \in Approvers[v.stage]
  /\ \A u, v \in w.votes : u.stage = v.stage /\ u.approver = v.approver => u = v
  /\ \A u, v \in Ending(w.votes) : u = v
  /\ \A s \in Stages : s < w.stage => Complete(w, s)
  /\ w.status = Outcome(w) \/ (w.status = "cancelled" /\ Outcome(w) = "pending")

(* However votes race, and whatever row they write over, a workflow is what  *)
(* its votes make of it (submitApproval): it is approved when every stage    *)
(* has its approvals by different users in charge, and nobody objected.      *)
OutcomeFollowsVotes == workflow # None => Consistent(workflow)

(* A vote that was answered with success is in the workflow, unless another  *)
(* vote, read before it and written after it, wrote over it; and a rejection *)
(* or a request for a revision that was not written over stands.             *)
VotesLostOnlyByOverlap ==
  workflow # None =>
    /\ answered \ lost \subseteq workflow.votes
    /\ \A v \in answered \ lost : v.verdict # "approved" => workflow.status = v.verdict

(* After an update of the item was answered, readers get no older copy,      *)
(* except from a getItem that had read the row before and filled the cache   *)
(* after (and until approve, reject, archive or delete changes the row).     *)
NoOldCopyAfterUpdate ==
  /\ cache # None /\ item # None /\ cache.copy # item
  /\ Is(item.by, "update") /\ At(item.by, "ok")
  => request[cache.filler].late
=============================================================================
