-------------------------- MODULE MCWorkflowEngine --------------------------
(* Instances of WorkflowEngine: the graphs of steps the runs use.            *)
EXTENDS WorkflowEngine, TLC

CONSTANTS a, b, c, d, e1, e2, c1, c2, none

(* A condition with two branches of its own, which join.                     *)
Branches ==
  [steps |-> <<a, b, c, d>>,
   type |-> a :> "condition" @@ b :> "webhook" @@ c :> "score" @@ d :> "segment",
   next |-> a :> <<b, c>> @@ b :> <<d>> @@ c :> <<d>> @@ d :> <<>>,
   services |-> {c, d}]

(* A fork, a join and what follows it.                                       *)
ForkJoin ==
  [steps |-> <<a, b, c, d>>,
   type |-> a :> "webhook" @@ b :> "webhook" @@ c :> "email" @@ d :> "tag",
   next |-> a :> <<b, c>> @@ b :> <<c>> @@ c :> <<d>> @@ d :> <<>>,
   services |-> {c, d}]

(* A straight line.                                                          *)
Chain ==
  [steps |-> <<a, b, c>>,
   type |-> a :> "webhook" @@ b :> "email" @@ c :> "condition" @@ d :> "tag",
   next |-> a :> <<b>> @@ b :> <<c>> @@ c :> <<>> @@ d :> <<>>,
   services |-> {b}]

(* The shortest workflow with a next step.                                   *)
Pair ==
  [steps |-> <<a, b>>,
   type |-> a :> "webhook" @@ b :> "email" @@ c :> "tag" @@ d :> "tag",
   next |-> a :> <<b>> @@ b :> <<>> @@ c :> <<>> @@ d :> <<>>,
   services |-> {b}]

(* A cycle: every step has an incoming edge, so there is no first step.       *)
Loop ==
  [steps |-> <<a, b>>,
   type |-> a :> "webhook" @@ b :> "webhook" @@ c :> "tag" @@ d :> "tag",
   next |-> a :> <<b>> @@ b :> <<a>> @@ c :> <<>> @@ d :> <<>>,
   services |-> {}]

(* A cycle behind the first step.                                            *)
Cycle ==
  [steps |-> <<a, b, c>>,
   type |-> a :> "webhook" @@ b :> "webhook" @@ c :> "webhook" @@ d :> "tag",
   next |-> a :> <<b>> @@ b :> <<c>> @@ c :> <<b>> @@ d :> <<>>,
   services |-> {}]

(* A wait and what it delays.                                                *)
Waiting ==
  [steps |-> <<a, b>>,
   type |-> a :> "wait" @@ b :> "email" @@ c :> "tag" @@ d :> "tag",
   next |-> a :> <<b>> @@ b :> <<>> @@ c :> <<>> @@ d :> <<>>,
   services |-> {b}]

Graphs == {Branches, ForkJoin, Loop, Cycle, Chain}
PairOnly == {Pair}
Edited == {Waiting, Pair}
(* Requests are interchangeable; used where only invariants are checked.     *)
CallerSymmetry == Permutations(Callers)

=============================================================================
