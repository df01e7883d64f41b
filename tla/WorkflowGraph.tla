--------------------------- MODULE WorkflowGraph ---------------------------
(***************************************************************************)
(* The validated workflow definition (flowforge/graph.py, retry.py): a     *)
(* finite DAG of nodes, labelled edges between them, and the failure       *)
(* policy each node carries.  Graph.__init__ refuses everything the        *)
(* assumptions below exclude, so every Graph the engine sees meets them.   *)
(***************************************************************************)
EXTENDS Integers, FiniteSets

CONSTANTS
    Nodes,          \* node ids
    Labels,         \* branch labels that may appear on an edge
    NoBranch,       \* Python's None: an unlabelled edge, no branch chosen
    Edges,          \* set of [source, target, branch] records
    Kind,           \* what the node's implementation may do, see Kinds
    OnError,        \* RetryPolicy.on_error, per node
    ErrorBranch,    \* RetryPolicy.error_branch, per node
    MaxAttempts     \* RetryPolicy.attempts, per node

\* "decision" chooses a label (DecisionNode), "await" asks a question
\* (AwaitInputNode), "work" is every node that returns outputs and no branch.
Kinds == {"work", "decision", "await"}
Strategies == {"fail", "default", "branch"}

Branches == Labels \cup {NoBranch}

EdgeShape == [source : Nodes, target : Nodes, branch : Branches]

ASSUME FiniteGraph == IsFiniteSet(Nodes) /\ IsFiniteSet(Edges)
ASSUME EdgesShape == Edges \subseteq EdgeShape
ASSUME NoBranchIsNoLabel == NoBranch \notin Labels
ASSUME PolicyShape ==
    /\ Kind \in [Nodes -> Kinds]
    /\ OnError \in [Nodes -> Strategies]
    /\ ErrorBranch \in [Nodes -> Labels]
    /\ MaxAttempts \in [Nodes -> Nat \ {0}]

InEdges(n) == {e \in Edges : e.target = n}
OutEdges(n) == {e \in Edges : e.source = n}

\* Two nodes may be joined by several edges with different labels; the
\* in-degree counts each of them.
EdgesBetween(m, n) == {e \in Edges : e.source = m /\ e.target = n}

Predecessors(n) == {e.source : e \in InEdges(n)}

Indegree == [n \in Nodes |-> Cardinality(InEdges(n))]

Roots == {n \in Nodes : InEdges(n) = {}}

BranchLabels(n) == {e.branch : e \in OutEdges(n)} \ {NoBranch}

\* on_error=branch works only if the graph offers the edge to route to.
RoutesError(n) == OnError[n] = "branch" /\ ErrorBranch[n] \in BranchLabels(n)

\* The failure label of a node is a label like any other unless the node
\* routes its failures.
ErrorLabel(n) == IF OnError[n] = "branch" THEN ErrorBranch[n] ELSE NoBranch

\* The labels _validated_branch lets through: a decision names one of its
\* outgoing labels, every other node type names none.
Choices(n) == IF Kind[n] = "decision" THEN BranchLabels(n) ELSE {NoBranch}

TakesEveryLabel(e, s, b) ==    \* (mutant) the chosen label is not compared
    \/ s = "failed" /\ e.branch = b
    \/ s = "completed" /\ (e.branch # NoBranch /\ b = NoBranch => e.branch # ErrorLabel(e.source))

\* Whether e lets its target run when its source settled with status s and
\* branch b: never if it was skipped; the failure edges and nothing else if it
\* failed; the chosen label and the unlabelled edges if it chose one; all but
\* the failure edges if it chose none.
Takes(e, s, b) ==
    \/ s = "failed" /\ e.branch = b
    \/ s = "completed" /\ b # NoBranch /\ e.branch \in {NoBranch, b}
    \/ /\ s = "completed" /\ b = NoBranch
       /\ e.branch = NoBranch \/ e.branch # ErrorLabel(e.source)

\* What topological_order establishes before any node runs.  Every nonempty
\* set of nodes has a member none of whose predecessors lie in the set, which
\* on a finite graph is the absence of cycles (self loops included).
ASSUME Acyclic ==
    \A S \in SUBSET Nodes :
        S # {} => \E n \in S : \A e \in InEdges(n) : e.source \notin S

=============================================================================
