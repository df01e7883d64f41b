------------------------------ MODULE SqlStore -------------------------------
(***************************************************************************)
(* SQLRunStore (flowforge/sql.py) on one row: each call checks a connection*)
(* out, hands it to a thread for one transaction and gives it back.  A     *)
(* call that is cancelled leaves its thread behind.                        *)
(*                                                                         *)
(* A row is the number of the save that wrote it, and whether its time is  *)
(* up.  Connections are numbered as they are opened.                       *)
(***************************************************************************)
EXTENDS Integers, Sequences, FiniteSets

CONSTANTS
    Callers,
    MaxConnections,  \* max_connections
    MaxCalls,        \* bound on the calls
    MaxFaults        \* bound on driver errors and cancellations

Gone == 0            \* the caller of a thread that was left behind

ASSUME SqlShape ==
    /\ IsFiniteSet(Callers) /\ Gone \notin Callers
    /\ {MaxConnections, MaxCalls, MaxFaults} \subseteq Nat /\ MaxConnections > 0

VARIABLES
    row,       \* [by, lapsed]; by = 0 when there is none
    ready,     \* _ready: the table exists
    closed,    \* _closed
    idle,      \* _idle
    capacity,  \* _capacity
    at,        \* "idle", "waiting" for a permit, "opening", "using" or "closing" a connection
    todo,      \* the transactions of its call that are left, first the present one
    held,      \* the connection it has checked out, 0 when none
    threads,   \* the transactions under way: [conn, op, by, caller]
    number,    \* the number of its call
    seen,      \* the save whose row a load found lapsed
    opened, calls, faults,
    forgotten  \* permits that went with a call cancelled while it closed a connection

pool == <<closed, idle, capacity, opened>>
vars == <<row, ready, pool, at, todo, held, threads, number, seen, calls, faults, forgotten>>

Absent == [by |-> 0, lapsed |-> FALSE]
Fault == faults < MaxFaults /\ faults' = faults + 1
Goto(c, place) == at' = [at EXCEPT ![c] = place]

Init ==
    /\ row = Absent
    /\ ready \in BOOLEAN
    /\ closed = FALSE
    /\ idle = {}
    /\ capacity = MaxConnections
    /\ at = [c \in Callers |-> "idle"]
    /\ todo = [c \in Callers |-> <<>>]
    /\ held = [c \in Callers |-> 0]
    /\ threads = {}
    /\ number = [c \in Callers |-> 0]
    /\ seen = [c \in Callers |-> 0]
    /\ opened = 0 /\ calls = 0 /\ faults = 0 /\ forgotten = 0

-----------------------------------------------------------------------------
(* A call, and the transactions it consists of. *)

Call(c) ==
    /\ at[c] = "idle" /\ calls < MaxCalls
    /\ calls' = calls + 1
    /\ \E op \in {"save", "load", "delete", "purge"} :
          todo' = [todo EXCEPT ![c] = IF ready THEN <<op>> ELSE <<"table", op>>]
    /\ number' = [number EXCEPT ![c] = calls + 1]
    /\ Goto(c, IF closed THEN "idle" ELSE "waiting")
    /\ UNCHANGED <<row, ready, pool, held, threads, seen, faults, forgotten>>

\* to_thread(_in_transaction, ...) on connection n.
Start(c, n) ==
    LET op == Head(todo[c])
    IN  /\ held' = [held EXCEPT ![c] = n]
        /\ threads' = threads \cup
              {[conn |-> n, op |-> op, by |-> IF op = "sweep" THEN seen[c] ELSE number[c], caller |-> c]}
        /\ Goto(c, "using")

\* _checkout: an idle connection, or a new one, opened in a thread of its own.
Checkout(c) ==
    /\ at[c] = "waiting" /\ capacity > 0
    /\ capacity' = capacity - 1
    /\ \/ \E n \in idle : Start(c, n) /\ idle' = idle \ {n}
       \/ idle = {} /\ Goto(c, "opening") /\ UNCHANGED <<held, threads, idle>>
    /\ UNCHANGED <<row, ready, closed, opened, todo, number, seen, calls, faults, forgotten>>

Opened(c) ==
    /\ at[c] = "opening"
    /\ opened' = opened + 1
    /\ Start(c, opened + 1)
    /\ UNCHANGED <<row, ready, closed, idle, capacity, todo, number, seen, calls, faults, forgotten>>

ConnectFails(c) ==
    /\ at[c] = "opening" /\ Fault
    /\ capacity' = capacity + 1
    /\ Goto(c, "idle")
    /\ UNCHANGED <<row, ready, closed, idle, opened, todo, held, threads, number, seen, calls, forgotten>>

\* _release of a connection that can be used again: once the store is closed,
\* a thread closes it first.
GiveBack(c, next) ==
    \/ /\ closed
       /\ Goto(c, "closing")
       /\ UNCHANGED <<held, idle, capacity>>
    \/ /\ ~closed
       /\ Goto(c, next)
       /\ held' = [held EXCEPT ![c] = 0]
       /\ idle' = idle \cup {held[c]}
       /\ capacity' = capacity + 1

EffectPurgesAll(t) ==           \* (mutant) purge_expired without its condition
    CASE t.op = "save" -> [by |-> t.by, lapsed |-> FALSE]
      [] t.op \in {"delete", "sweep", "purge"} -> Absent
      [] OTHER -> row

\* What a transaction does to the row.
Effect(t) ==
    CASE t.op = "save" -> [by |-> t.by, lapsed |-> FALSE]
      [] t.op \in {"delete", "sweep"} -> Absent
      [] t.op = "purge" /\ row.lapsed -> Absent
      [] OTHER -> row

\* What is left of the call: a load that finds the row's time to be up deletes
\* it, in a transaction of its own.
Rest(t) == IF t.op = "load" /\ row.lapsed THEN <<"sweep">> ELSE Tail(todo[t.caller])

Commit(t) ==
    /\ row' = Effect(t)
    /\ threads' = threads \ {t}
    /\ \/ t.caller = Gone /\ UNCHANGED <<ready, at, todo, held, idle, capacity, seen>>
       \/ /\ t.caller # Gone
          /\ ready' = (ready \/ t.op = "table")
          /\ todo' = [todo EXCEPT ![t.caller] = Rest(t)]
          /\ seen' = [seen EXCEPT ![t.caller] = row.by]
          /\ GiveBack(t.caller, IF Rest(t) = <<>> THEN "idle" ELSE "waiting")
    /\ UNCHANGED <<closed, opened, number, calls, faults, forgotten>>

\* The driver raises: the transaction is rolled back, unless only the answer to
\* its commit was lost; _run gives the connection up, _create_table does not.
Raised(t) ==
    /\ Fault
    /\ row' \in {row, Effect(t)}
    /\ threads' = threads \ {t}
    /\ \/ t.caller = Gone /\ UNCHANGED <<at, held, idle, capacity>>
       \/ t.caller # Gone /\ t.op = "table" /\ GiveBack(t.caller, "idle")
       \/ t.caller # Gone /\ t.op # "table" /\ Goto(t.caller, "closing") /\ UNCHANGED <<held, idle, capacity>>
    /\ UNCHANGED <<ready, closed, todo, number, seen, opened, calls, forgotten>>

DiscardWithPermit(c) ==         \* (mutant) a failed connection keeps its permit
    /\ at[c] = "closing"
    /\ held' = [held EXCEPT ![c] = 0]
    /\ Goto(c, "idle")
    /\ UNCHANGED <<row, ready, pool, todo, threads, number, seen, calls, faults, forgotten>>

\* The thread that closes a connection is done.
Discard(c) ==
    /\ at[c] = "closing"
    /\ held' = [held EXCEPT ![c] = 0]
    /\ capacity' = capacity + 1
    /\ Goto(c, "idle")
    /\ UNCHANGED <<row, ready, closed, idle, opened, todo, threads, number, seen, calls, faults, forgotten>>

-----------------------------------------------------------------------------
(* Cancellation and close(). *)

Orphaned(c) == {IF t.caller = c THEN [t EXCEPT !.caller = Gone] ELSE t : t \in threads}

\* `except Exception` does not see a cancellation: reuse stays True, and the
\* connection goes back while its thread goes on.
Cancel(c) ==
    /\ at[c] # "idle" /\ Fault
    /\ threads' = Orphaned(c)
    /\ \/ /\ at[c] = "waiting"
          /\ Goto(c, "idle")
          /\ UNCHANGED <<held, idle, capacity, forgotten>>
       \/ /\ at[c] = "opening"
          /\ Goto(c, "idle")
          /\ capacity' = capacity + 1
          /\ UNCHANGED <<held, idle, forgotten>>
       \/ /\ at[c] = "using"
          /\ GiveBack(c, "idle")
          /\ UNCHANGED forgotten
       \/ /\ at[c] = "closing"
          /\ Goto(c, "idle")
          /\ held' = [held EXCEPT ![c] = 0]
          /\ forgotten' = forgotten + 1
          /\ UNCHANGED <<idle, capacity>>
    /\ UNCHANGED <<row, ready, closed, opened, todo, number, seen, calls>>

Close ==
    /\ ~closed
    /\ closed' = TRUE
    /\ idle' = {}
    /\ UNCHANGED <<row, ready, capacity, opened, at, todo, held, threads, number, seen, calls, faults, forgotten>>

Lapse ==
    /\ row.by # 0 /\ ~row.lapsed
    /\ row' = [row EXCEPT !.lapsed = TRUE]
    /\ UNCHANGED <<ready, pool, at, todo, held, threads, number, seen, calls, faults, forgotten>>

Done ==
    /\ calls = MaxCalls /\ \A c \in Callers : at[c] = "idle"
    /\ UNCHANGED vars

Next ==
    \/ \E c \in Callers :
          Call(c) \/ Checkout(c) \/ Opened(c) \/ ConnectFails(c) \/ Discard(c) \/ Cancel(c)
    \/ \E t \in threads : Commit(t) \/ Raised(t)
    \/ Close \/ Lapse \/ Done

Spec == Init /\ [][Next]_vars

-----------------------------------------------------------------------------
\* max_connections bounds the connections in use; what is out is out exactly
\* once, and only a call that is cancelled while it closes a connection takes
\* a permit with it.
Out == {c \in Callers : at[c] \in {"opening", "using", "closing"}}
Holders == {c \in Callers : held[c] # 0}
PermitsAreExact ==
    /\ capacity + Cardinality(Out) + forgotten = MaxConnections
    /\ Cardinality(idle) <= capacity + forgotten
    /\ \A c, d \in Holders : held[c] = held[d] => c = d
    /\ \A c \in Holders : held[c] \notin idle

\* A checkpoint whose time is not up disappears only by delete(): purging and
\* sweeping take lapsed rows.  The exception is the row that was saved again
\* between a load that found it lapsed and the deletion this load makes.
OnlyLapsedRowsVanish ==
    [][row.by # 0 /\ ~row.lapsed /\ row'.by = 0 =>
           \E t \in threads : t.op = "delete" \/ (t.op = "sweep" /\ t.by # row.by)]_vars

\* "The connection is handed to worker threads one at a time, never
\* concurrently" (sql.py:146).
ExclusiveCheckout == \A s, t \in threads : s.conn = t.conn => s = t
=============================================================================
