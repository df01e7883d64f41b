---------------------------- MODULE MCDurability ----------------------------
(***************************************************************************)
(* Instances of Durability for TLC: a graph with a question in the first   *)
(* wave, ordinary work next to it, failure edges and joins, one of them    *)
(* reached by an edge that is drained two waves before its last one.       *)
(***************************************************************************)
EXTENDS Durability

E(s, t) == [source |-> s, target |-> t, branch |-> NoBranch]
L(s, b, t) == [source |-> s, target |-> t, branch |-> b]

MCLabels == {"error"}
MCErrorBranch == [n \in Nodes |-> "error"]

Assign(default, special) ==
    [n \in Nodes |-> IF n \in DOMAIN special THEN special[n] ELSE default]

\* ask -> join <- slow <- work -> note <-error- slow
\*          join <- cope <-error- work
MCNodes == {"ask", "work", "slow", "cope", "note", "join"}
MCEdges ==
    {E("ask", "join"), E("work", "slow"), E("slow", "join"),
     L("work", "error", "cope"), E("cope", "join"),
     E("work", "note"), L("slow", "error", "note")}
MCKind == Assign("work", [ask |-> "await"])
MCOnError == Assign("fail", [work |-> "branch", slow |-> "branch",
                             join |-> "default"])
MCAttempts == Assign(1, [slow |-> 2])

=============================================================================
