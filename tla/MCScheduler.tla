---------------------------- MODULE MCScheduler ----------------------------
(***************************************************************************)
(* The graph of Scheduler's runs.  It has two decisions, one of which      *)
(* defaults its failures and one of which routes them, two edges between   *)
(* the same nodes, failures that are routed, replaced by a default or lost,*)
(* retries, joins below branches that may be skipped, and three questions, *)
(* asked in up to three waves next to ordinary work.                       *)
(***************************************************************************)
EXTENDS Scheduler

E(s, t) == [source |-> s, target |-> t, branch |-> NoBranch]
L(s, b, t) == [source |-> s, target |-> t, branch |-> b]

MCLabels == {"left", "right", "error"}
MCErrorBranch == [n \in Nodes |-> "error"]

Assign(default, special) ==
    [n \in Nodes |-> IF n \in DOMAIN special THEN special[n] ELSE default]

\*   gate -left-> call -------> join ----> last
\*   gate -left-> log           ^          ^ ^
\*   gate -right-> log ---------|---------/  |      side -> log, a second root
\*   call -error-> mend? ------/             |
\*   gate -----> audit? ---------------------|      audit?, mend? and last? ask
\*   audit -error-> cope -left---------------/
\*                  cope -right, error-> note
MCNodes == {"gate", "side", "call", "mend", "log", "audit", "cope", "note", "join",
            "last"}
MCEdges ==
    {L("gate", "left", "call"), L("gate", "left", "log"), L("gate", "right", "log"),
     E("gate", "audit"), E("side", "log"), E("call", "join"),
     L("call", "error", "mend"), E("mend", "join"), E("log", "last"),
     E("join", "last"), E("audit", "last"), L("audit", "error", "cope"),
     L("cope", "left", "last"), L("cope", "right", "note"), L("cope", "error", "note")}
MCKind == Assign("work", [gate |-> "decision", cope |-> "decision",
                          audit |-> "await", mend |-> "await", last |-> "await"])
MCOnError == Assign("fail", [gate |-> "default", call |-> "branch", log |-> "default",
                             audit |-> "branch", cope |-> "branch"])
MCAttempts == Assign(1, [log |-> 2, side |-> 2])
=============================================================================
