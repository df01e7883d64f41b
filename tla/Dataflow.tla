------------------------------ MODULE Dataflow ------------------------------
(***************************************************************************)
(* What a workflow run promises, with no waves, queues or counters: a node *)
(* may begin once the fate of all its predecessors is settled and an edge  *)
(* into it was taken, is skipped once all are settled and none was, and    *)
(* the run ends with the verdict its nodes call for.  Scheduler implements *)
(* it under the identity on these three variables.                         *)
(***************************************************************************)
EXTENDS WorkflowGraph

VARIABLES
    status,     \* the fate of each node
    branch,     \* the branch a settled node took
    outcome     \* the verdict on the run

vars == <<status, branch, outcome>>

EdgeTaken(e) == Takes(e, status[e.source], branch[e.source])

\* A failure that is not routed to an edge settles nothing: it ends the run.
Lost(n) == status[n] = "failed" /\ branch[n] = NoBranch
Settled(n) == status[n] \in {"completed", "failed", "skipped"} /\ ~Lost(n)

AllSettled(n) == \A e \in InEdges(n) : Settled(e.source)
SomeTaken(n) == \E e \in InEdges(n) : EdgeTaken(e)

Reached(n) == AllSettled(n) /\ (n \in Roots \/ SomeTaken(n))
CutOff(n) == AllSettled(n) /\ n \notin Roots /\ ~SomeTaken(n)

Undecided == {n \in Nodes : status[n] = "pending"}
Asking == {n \in Nodes : status[n] = "paused"}

Init ==
    /\ status = [n \in Nodes |-> "pending"]
    /\ branch = [n \in Nodes |-> NoBranch]
    /\ outcome = "running"

Begin(n) ==
    /\ outcome = "running"
    /\ status[n] = "pending"
    /\ Reached(n)
    /\ status' = [status EXCEPT ![n] = "running"]
    /\ UNCHANGED <<branch, outcome>>

\* The ways in which a node may end.
Ends(n, s, b) ==
    \/ s = "completed" /\ Kind[n] # "await" /\ b \in Choices(n)
    \/ s = "completed" /\ OnError[n] = "default" /\ b = NoBranch
    \/ s = "failed" /\ RoutesError(n) /\ b = ErrorBranch[n]
    \/ s = "failed" /\ OnError[n] # "default" /\ ~RoutesError(n) /\ b = NoBranch
    \/ s = "paused" /\ Kind[n] = "await" /\ b = NoBranch

End(n) ==
    /\ outcome = "running"
    /\ status[n] = "running"
    /\ \E s \in {"completed", "failed", "paused"}, b \in Branches :
          /\ Ends(n, s, b)
          /\ status' = [status EXCEPT ![n] = s]
          /\ branch' = [branch EXCEPT ![n] = b]
    /\ UNCHANGED outcome

\* Settling one node may cut off several others.
Skip ==
    /\ outcome = "running"
    /\ \E S \in SUBSET {n \in Undecided : CutOff(n)} :
          /\ S # {}
          /\ status' = [n \in Nodes |-> IF n \in S THEN "skipped" ELSE status[n]]
    /\ UNCHANGED <<branch, outcome>>

\* No node is running and none could begin or be skipped.
Quiet ==
    \A n \in Nodes : /\ status[n] # "running"
                     /\ status[n] = "pending" => ~Reached(n) /\ ~CutOff(n)

Conclude ==
    /\ outcome = "running"
    /\ \/ /\ \E n \in Nodes : Lost(n)
          /\ \A n \in Nodes : status[n] # "running"
          /\ outcome' = "failed"
       \/ /\ \A n \in Nodes : ~Lost(n)
          /\ Quiet
          /\ Asking # {}
          /\ outcome' = "paused"
       \/ /\ \A n \in Nodes : Settled(n)
          /\ outcome' = "completed"
    /\ UNCHANGED <<status, branch>>

\* Every question of a paused run is answered, and the run goes on.
Answer ==
    /\ outcome = "paused"
    /\ status' = [n \in Nodes |-> IF n \in Asking THEN "completed" ELSE status[n]]
    /\ outcome' = "running"
    /\ UNCHANGED branch

Proceed == (\E n \in Nodes : Begin(n) \/ End(n)) \/ Skip \/ Conclude

Next == Proceed \/ Answer

Spec == Init /\ [][Next]_vars

\* Until it concludes, a run goes on; nobody has to answer.
FairSpec == Spec /\ WF_vars(Proceed)

=============================================================================
