------------------------------ MODULE GraphOrder ------------------------------
(***************************************************************************)
(* The two walks of Graph (flowforge/graph.py), one edge at a time: the    *)
(* constructor's topological_order over whatever edges the definition has, *)
(* and, once it has returned, waves.  Both count a node's edges off; they  *)
(* differ in where a node goes whose counter reaches zero.                 *)
(***************************************************************************)
EXTENDS Integers, Sequences, FiniteSets, Functions

CONSTANTS
    Nodes,          \* node ids, integers for the order sorted() puts them in
    Labels          \* what tells parallel edges apart

ASSUME NodesAreSorted == Nodes \subseteq Int /\ IsFiniteSet(Nodes)
ASSUME LabelsAreFinite == IsFiniteSet(Labels)

VARIABLES
    edges,          \* the accepted edges, <<source, target, branch>>
    walk,           \* "order" or "levels"
    pending,        \* the local of both walks
    ready,          \* the deque of topological_order, the rest of a frontier of waves
    order,          \* the nodes walked so far; topological_order returns it
    todo,           \* edges of the node at hand that are not counted off yet
    next,           \* nxt, and the first frontier before its level is entered
    levels, settled,    \* locals of waves
    verdict

vars == <<edges, walk, pending, ready, order, todo, next, levels, settled, verdict>>

Walks == {"order", "levels"}

\* __init__ refuses unknown endpoints, self loops and a second edge with the same label.
Edges == {e \in Nodes \X Nodes \X Labels : e[1] # e[2]}

-----------------------------------------------------------------------------

OutEdges(n) == {e \in edges : e[1] = n}
InEdges(n) == {e \in edges : e[2] = n}

\* predecessors has one entry per edge, for parallel ones too.
IndegreeOnce(given) ==               \* (mutant) parallel edges are one
    [n \in Nodes |-> Cardinality({e[1] : e \in {x \in given : x[2] = n}})]
Indegree(given) == [n \in Nodes |-> Cardinality({e \in given : e[2] = n})]

\* sorted() of a set and of a list.
Ascending(s) == \A i, j \in DOMAIN s : i < j => s[i] <= s[j]
Listings(set) == {s \in Bijection(1 .. Cardinality(set), set) : Ascending(s)}
Sorted(list) ==
    {s \in {[i \in DOMAIN list |-> list[p[i]]] : p \in Bijection(DOMAIN list, DOMAIN list)} : Ascending(s)}

Roots == {n \in Nodes : pending[n] = 0}

Init ==
    /\ edges \in SUBSET Edges
    /\ walk = "order"
    /\ pending = Indegree(edges)
    /\ ready \in Listings(Roots)
    /\ order = <<>>
    /\ todo = {}
    /\ next = <<>>
    /\ levels = <<>>
    /\ settled = 0
    /\ verdict = "walking"

\* popleft, or the next node of a frontier.
Visit ==
    /\ verdict = "walking"
    /\ todo = {}
    /\ ready # <<>>
    /\ order' = Append(order, Head(ready))
    /\ ready' = Tail(ready)
    /\ todo' = OutEdges(Head(ready))
    /\ UNCHANGED <<edges, walk, pending, next, levels, settled, verdict>>

\* topological_order goes through the targets sorted, waves in any order.
Turn(e) == walk = "order" => \A d \in todo : e[2] <= d[2]

ReleaseHere(n) == ready' = Append(ready, n) /\ next' = next    \* (mutant) one queue for both walks
Release(n) ==
    IF walk = "order" THEN ready' = Append(ready, n) /\ next' = next
    ELSE next' = Append(next, n) /\ ready' = ready

CountOff(e) ==
    /\ e \in todo
    /\ Turn(e)
    /\ todo' = todo \ {e}
    /\ pending' = [pending EXCEPT ![e[2]] = @ - 1]
    /\ IF pending'[e[2]] = 0 THEN Release(e[2]) ELSE UNCHANGED <<ready, next>>
    /\ UNCHANGED <<edges, walk, order, levels, settled, verdict>>

\* The end of one level and the start of the next, in waves only.
EnterLevel ==
    /\ verdict = "walking"
    /\ todo = {}
    /\ ready = <<>>
    /\ next # <<>>
    /\ ready' \in Sorted(next)
    /\ next' = <<>>
    /\ levels' = Append(levels, ready')
    /\ settled' = settled + Len(ready')
    /\ UNCHANGED <<edges, walk, pending, order, todo, verdict>>

Count == IF walk = "order" THEN Len(order) ELSE settled

Conclude ==
    /\ verdict = "walking"
    /\ todo = {}
    /\ ready = <<>>
    /\ next = <<>>
    /\ verdict' = IF Count < Cardinality(Nodes) THEN "raised" ELSE "returned"
    /\ UNCHANGED <<edges, walk, pending, ready, order, todo, next, levels, settled>>

\* The nodes a CycleError names.
Stuck == {n \in Nodes : pending[n] > 0}

\* waves is a method of a Graph, so the constructor has returned.
BeginLevels ==
    /\ verdict = "returned"
    /\ walk = "order"
    /\ walk' = "levels"
    /\ pending' = Indegree(edges)
    /\ next' \in Listings({n \in Nodes : pending'[n] = 0})
    /\ order' = <<>>
    /\ verdict' = "walking"
    /\ UNCHANGED <<edges, ready, todo, levels, settled>>

Over ==
    /\ verdict = "raised" \/ (verdict = "returned" /\ walk = "levels")
    /\ UNCHANGED vars

Next ==
    \/ Visit
    \/ \E e \in todo : CountOff(e)
    \/ EnterLevel
    \/ Conclude
    \/ BeginLevels
    \/ Over

Spec == Init /\ [][Next]_vars

-----------------------------------------------------------------------------

\* What the walks should find, said without counting.  A set of nodes of which
\* each has a predecessor in the set is what no order can begin.
NeverFirst(set) == \A n \in set : \E e \in InEdges(n) : e[1] \in set
IsCyclic == \E set \in (SUBSET Nodes) \ {{}} : NeverFirst(set)

\* A CycleError names exactly the nodes that are on a cycle or behind one:
\* they are the largest set that has no first node.
StuckIsExact ==
    verdict = "raised" => NeverFirst(Stuck) /\ \A set \in SUBSET Nodes : NeverFirst(set) => set \subseteq Stuck

\* The constructor accepts a graph exactly when it has no cycle, and names the
\* right nodes when it has one.  The order of a graph it accepts has every node
\* once, after all of its predecessors, whatever edges run in parallel
\* (topological_order).
OrderIsSound ==
    /\ StuckIsExact
    /\ walk = "order" =>
        /\ verdict = "raised" => IsCyclic
        /\ verdict = "returned" =>
            /\ ~IsCyclic
            /\ order \in Bijection(1 .. Cardinality(Nodes), Nodes)
            /\ \A i, j \in DOMAIN order : (\E e \in edges : e[1] = order[i] /\ e[2] = order[j]) => i < j

\* Every graph that was accepted has waves.  They have every node once, behind
\* its predecessors, and directly behind one of them: a node's level is the
\* length of the longest path that leads to it.
LevelsAreLongestPaths ==
    walk = "levels" /\ verdict # "walking" =>
        LET Level(k) == Range(levels[k])
        IN  /\ verdict = "returned"
            /\ \A n \in Nodes : \E k \in DOMAIN levels : n \in Level(k)
            /\ \A k, l \in DOMAIN levels : \A i \in DOMAIN levels[k], j \in DOMAIN levels[l] :
                   levels[k][i] = levels[l][j] => k = l /\ i = j
            /\ \A k \in DOMAIN levels : \A n \in Level(k) :
                   /\ \A e \in InEdges(n) : \E l \in 1 .. k - 1 : e[1] \in Level(l)
                   /\ k > 1 => \E e \in InEdges(n) : e[1] \in Level(k - 1)
=============================================================================
