--------------------------------- MODULE Mcp ---------------------------------
(***************************************************************************)
(* MCPGateway, its MCPClients and their StdioTransports (flowforge/mcp.py):*)
(* nodes call tools by name; the first calls ask every server for its      *)
(* tools and build the catalogue, each client greets its server once, and  *)
(* a transport restarts a server that has ended.                           *)
(*                                                                         *)
(* step[c][s] is what caller c is doing with server s: gather runs one     *)
(* task per server.  A request holds the transport's lock until its answer *)
(* is read; owed lists the callers whose answers come next.                *)
(***************************************************************************)
EXTENDS Integers, Sequences, FiniteSets, SequencesExt

CONSTANTS
    Callers,     \* mcp_tool nodes
    Servers,     \* the gateway's clients
    Names,       \* names of tools
    Nobody,
    Stale,       \* an answer whose request was given up
    AnyServer,   \* a tool named without its server
    MaxCalls,    \* bound on the calls made
    MaxFaults    \* bound on cancellations, errors and servers that end

ASSUME McpShape ==
    /\ {Nobody, Stale} \cap Callers = {} /\ AnyServer \notin Servers
    /\ IsFiniteSet(Servers) /\ Servers # {}
    /\ MaxCalls \in Nat /\ MaxFaults \in Nat

VARIABLES
    offers,      \* the tools of each server, never changed
    pc,          \* what each caller is doing
    want,        \* the tool it names: <<server or AnyServer, name>>
    target,      \* the server its name was resolved to
    discovered,  \* _discovered
    listed,      \* the servers whose tools are in the catalogue
    step,        \* what each task is doing
    greeter,     \* who holds a client's _handshake_lock
    initialized, \* _initialized
    lock,        \* who holds a transport's _lock
    process,     \* "none", "up", "ended" or, once noticed, "reaped"
    hello,       \* how far the process has been greeted: "new", "asked", "ready"
    respawned,   \* the process is not the first one
    owed,        \* the answers still to be read from it
    calls, faults

gateway == <<discovered, listed>>
clients == <<greeter, initialized>>
servers == <<process, hello, respawned>>
transport == <<lock, owed, servers>>
callers == <<pc, want, target>>
vars == <<offers, callers, gateway, step, clients, transport, calls, faults>>

Requests == {"initialize", "list", "call"}
Toolwork == {"list", "call"}
Ended == {"ok", "error"}

Init ==
    /\ offers \in [Servers -> SUBSET Names]
    /\ pc = [c \in Callers |-> "idle"]
    /\ want = [c \in Callers |-> <<>>]
    /\ target = [c \in Callers |-> Nobody]
    /\ discovered = FALSE
    /\ listed = {}
    /\ step = [c \in Callers |-> [s \in Servers |-> "none"]]
    /\ greeter = [s \in Servers |-> Nobody]
    /\ initialized = [s \in Servers |-> FALSE]
    /\ lock = [s \in Servers |-> Nobody]
    /\ process = [s \in Servers |-> "none"]
    /\ hello = [s \in Servers |-> "new"]
    /\ respawned = [s \in Servers |-> FALSE]
    /\ owed = [s \in Servers |-> <<>>]
    /\ calls = 0
    /\ faults = 0

Fault == faults < MaxFaults /\ faults' = faults + 1

-----------------------------------------------------------------------------
(* The gateway. *)

\* resolve(): the qualified name, or the bare one if a single server has it.
Owners(w, from) == {s \in from : w[2] \in offers[s] /\ w[1] \in {s, AnyServer}}
Resolves(w, from) == Cardinality(Owners(w, from)) = 1

AllAt(c, place) == [step EXCEPT ![c] = [s \in Servers |-> place]]

\* What call() does once the catalogue is there.
Direct(c, w, from) ==
    \/ /\ Resolves(w, from)
       /\ \E s \in Owners(w, from) :
             /\ target' = [target EXCEPT ![c] = s]
             /\ step' = [step EXCEPT ![c] = [r \in Servers |-> IF r = s THEN "greet" ELSE "none"]]
       /\ pc' = [pc EXCEPT ![c] = "calling"]
    \/ /\ ~Resolves(w, from)
       /\ pc' = [pc EXCEPT ![c] = "idle"]
       /\ step' = AllAt(c, "none")
       /\ UNCHANGED target

Call(c) ==
    /\ pc[c] = "idle" /\ calls < MaxCalls
    /\ calls' = calls + 1
    /\ \E w \in (Servers \cup {AnyServer}) \X Names :
          /\ want' = [want EXCEPT ![c] = w]
          /\ \/ discovered /\ Direct(c, w, listed)
             \/ /\ ~discovered
                /\ pc' = [pc EXCEPT ![c] = "gathering"]
                /\ step' = AllAt(c, "greet")
                /\ UNCHANGED target
    /\ UNCHANGED <<offers, gateway, clients, transport, faults>>

\* discover() after gather: servers that failed are left out.
Gathered(c) ==
    LET answered == {s \in Servers : step[c][s] = "ok"}
    IN  /\ pc[c] = "gathering"
        /\ \A s \in Servers : step[c][s] \in Ended
        /\ \/ /\ answered # Servers /\ \A s \in answered : offers[s] = {}
              /\ pc' = [pc EXCEPT ![c] = "idle"]
              /\ step' = AllAt(c, "none")
              /\ UNCHANGED <<target, gateway>>
           \/ /\ answered = Servers \/ \E s \in answered : offers[s] # {}
              /\ listed' = answered
              /\ discovered' = TRUE
              /\ Direct(c, want[c], answered)
        /\ UNCHANGED <<offers, want, clients, transport, calls, faults>>

\* The end of MCPToolNode.run, which resolves the name again for its report.
Return(c) ==
    /\ pc[c] = "calling" /\ step[c][target[c]] \in Ended
    /\ pc' = [pc EXCEPT ![c] = "idle"]
    /\ step' = [step EXCEPT ![c][target[c]] = "none"]
    /\ UNCHANGED <<offers, want, target, gateway, clients, transport, calls, faults>>

-----------------------------------------------------------------------------
(* A client: the handshake, then the request. *)

Goto(c, s, place) == step' = [step EXCEPT ![c][s] = place]
Free(holder, c) == [s \in Servers |-> IF holder[s] = c THEN Nobody ELSE holder[s]]
Work(c) == IF pc[c] = "gathering" THEN "list" ELSE "call"

GreetUnchecked(c, s) ==         \* (mutant) asks before it waits for the lock
    /\ step[c][s] = "greet"
    /\ \/ /\ initialized[s]
          /\ Goto(c, s, Work(c))
          /\ UNCHANGED greeter
       \/ /\ ~initialized[s]
          /\ Goto(c, s, "initialize")
          /\ greeter' = [greeter EXCEPT ![s] = c]
    /\ UNCHANGED <<offers, callers, gateway, initialized, transport, calls, faults>>

Greet(c, s) ==
    /\ step[c][s] = "greet" /\ greeter[s] = Nobody
    /\ \/ /\ initialized[s]
          /\ Goto(c, s, Work(c))
          /\ UNCHANGED greeter
       \/ /\ ~initialized[s]
          /\ Goto(c, s, "initialize")
          /\ greeter' = [greeter EXCEPT ![s] = c]
    /\ UNCHANGED <<offers, callers, gateway, initialized, transport, calls, faults>>

\* A request or a notification that fails leaves both locks.
Raise(c, s) ==
    /\ Goto(c, s, "error")
    /\ greeter' = [greeter EXCEPT ![s] = IF @ = c THEN Nobody ELSE @]
    /\ lock' = [lock EXCEPT ![s] = IF @ = c THEN Nobody ELSE @]

-----------------------------------------------------------------------------
(* A transport. *)

\* _ensure: a process that is known to have ended is replaced.
Spawns(s) == process[s] \in {"none", "reaped"}
Ensure(s, greeting, answers) ==
    /\ process' = [process EXCEPT ![s] = IF Spawns(s) THEN "up" ELSE @]
    /\ respawned' = [respawned EXCEPT ![s] = @ \/ process[s] = "reaped"]
    /\ hello' = [hello EXCEPT ![s] = greeting]
    /\ owed' = [owed EXCEPT ![s] = (IF Spawns(s) THEN <<>> ELSE @) \o answers]

\* What a message makes of the process that receives it.
Greeting(c, s) ==
    LET before == IF Spawns(s) THEN "new" ELSE hello[s]
    IN  CASE step[c][s] = "initialize" -> "asked"
          [] step[c][s] = "notify" /\ before = "asked" -> "ready"
          [] OTHER -> before

Request(c, s) ==
    /\ step[c][s] \in Requests /\ lock[s] = Nobody
    /\ lock' = [lock EXCEPT ![s] = c]
    /\ Ensure(s, Greeting(c, s), <<c>>)
    /\ UNCHANGED <<offers, callers, gateway, step, clients, calls, faults>>

NotifyFreesFirst(c, s) ==       \* (mutant) the client counts as greeted without the notification
    /\ step[c][s] = "notify" /\ lock[s] = Nobody
    /\ initialized' = [initialized EXCEPT ![s] = TRUE]
    /\ greeter' = [greeter EXCEPT ![s] = Nobody]
    /\ Goto(c, s, Work(c))
    /\ UNCHANGED <<offers, callers, gateway, lock, servers, owed, calls, faults>>

Notify(c, s) ==
    /\ step[c][s] = "notify" /\ lock[s] = Nobody
    /\ Ensure(s, Greeting(c, s), <<>>)
    /\ initialized' = [initialized EXCEPT ![s] = TRUE]
    /\ greeter' = [greeter EXCEPT ![s] = Nobody]
    /\ Goto(c, s, Work(c))
    /\ UNCHANGED <<offers, callers, gateway, lock, calls, faults>>

\* Writing to a process that has ended unnoticed.
BrokenPipe(c, s) ==
    /\ step[c][s] \in Requests \cup {"notify"}
    /\ lock[s] = Nobody /\ process[s] = "ended"
    /\ Raise(c, s)
    /\ UNCHANGED <<offers, callers, gateway, initialized, owed, servers, calls, faults>>

Answered(c, s) ==
    /\ lock[s] = c /\ owed[s] # <<>> /\ Head(owed[s]) = c
    /\ owed' = [owed EXCEPT ![s] = Tail(@)]
    /\ \/ /\ lock' = [lock EXCEPT ![s] = Nobody]
          /\ Goto(c, s, IF step[c][s] = "initialize" THEN "notify" ELSE "ok")
          /\ UNCHANGED <<greeter, faults>>
       \/ Fault /\ Raise(c, s)         \* a JSON-RPC error
    /\ UNCHANGED <<offers, callers, gateway, initialized, servers, calls>>

\* A line whose id is another request's.
Skip(c, s) ==
    /\ lock[s] = c /\ owed[s] # <<>> /\ Head(owed[s]) = Stale
    /\ owed' = [owed EXCEPT ![s] = Tail(@)]
    /\ UNCHANGED <<offers, callers, gateway, step, clients, lock, servers, calls, faults>>

EndOfOutput(c, s) ==
    /\ lock[s] = c /\ process[s] \in {"ended", "reaped"}
    /\ owed' = [owed EXCEPT ![s] = <<>>]
    /\ Raise(c, s)
    /\ UNCHANGED <<offers, callers, gateway, initialized, servers, calls, faults>>

ProcessEnds(s) ==
    /\ process[s] = "up" /\ Fault
    /\ process' = [process EXCEPT ![s] = "ended"]
    /\ UNCHANGED <<offers, callers, gateway, step, clients, lock, owed, hello, respawned, calls>>

Reap(s) ==
    /\ process[s] = "ended"
    /\ process' = [process EXCEPT ![s] = "reaped"]
    /\ UNCHANGED <<offers, callers, gateway, step, clients, lock, owed, hello, respawned, calls, faults>>

-----------------------------------------------------------------------------
Forsaken(c) == [s \in Servers |-> [i \in DOMAIN owed[s] |-> IF owed[s][i] = c THEN Stale ELSE owed[s][i]]]

CancelHolding(c) ==             \* (mutant) the transport's lock is not given back
    /\ pc[c] \in {"gathering", "calling"} /\ Fault
    /\ pc' = [pc EXCEPT ![c] = "idle"]
    /\ step' = AllAt(c, "none")
    /\ greeter' = Free(greeter, c)
    /\ owed' = Forsaken(c)
    /\ UNCHANGED <<offers, want, target, gateway, initialized, lock, servers, calls>>

\* The node's timeout, or a sibling's failure.
Cancel(c) ==
    /\ pc[c] \in {"gathering", "calling"} /\ Fault
    /\ pc' = [pc EXCEPT ![c] = "idle"]
    /\ step' = AllAt(c, "none")
    /\ greeter' = Free(greeter, c)
    /\ lock' = Free(lock, c)
    /\ owed' = Forsaken(c)
    /\ UNCHANGED <<offers, want, target, gateway, initialized, servers, calls>>

TaskStep(c, s) ==
    \/ Greet(c, s) \/ Request(c, s) \/ Notify(c, s) \/ BrokenPipe(c, s)
    \/ Answered(c, s) \/ Skip(c, s) \/ EndOfOutput(c, s)

Done == calls = MaxCalls /\ (\A c \in Callers : pc[c] = "idle") /\ UNCHANGED vars

Next ==
    \/ \E c \in Callers : Call(c) \/ Gathered(c) \/ Return(c) \/ Cancel(c)
    \/ \E c \in Callers, s \in Servers : TaskStep(c, s)
    \/ \E s \in Servers : ProcessEnds(s) \/ Reap(s)
    \/ Done

Spec == Init /\ [][Next]_vars

-----------------------------------------------------------------------------
\* "handshake once": at most one task greets a server, and none once that is done.
Greeting1(s) == {c \in Callers : step[c][s] \in {"initialize", "notify"}}
OneHandshake ==
    \A s \in Servers : /\ Cardinality(Greeting1(s)) <= 1
                       /\ initialized[s] => Greeting1(s) = {}

\* ... "then list and call its tools": a request for tools never reaches a
\* process that was not greeted, unless it took the place of one that was.
GreetedBeforeWork ==
    \A c \in Callers, s \in Servers :
        lock[s] = c /\ step[c][s] \in Toolwork => hello[s] = "ready" \/ respawned[s]

\* Whoever holds a transport's lock is a task that will leave it: its answer is
\* still to come, behind answers it skips, or the end of the output is.
LockIsServed ==
    \A s \in Servers, c \in Callers :
        lock[s] = c => /\ step[c][s] \in Requests
                       /\ c \in Range(owed[s]) \/ process[s] \in {"ended", "reaped"}
=============================================================================
