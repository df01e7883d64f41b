-------------------------------- MODULE Pool --------------------------------
(***************************************************************************)
(* ConnectionPool (flowforge/pool.py) and the three ways its callers use a *)
(* connection: one request and one answer (HTTPConnectionPool.request),    *)
(* a streamed body (stream_body) and a Redis command (RedisClient.execute).*)
(*                                                                         *)
(* A step is what a task does between two suspensions of the event loop.   *)
(* Entering the lock suspends only when it is taken, so the section under  *)
(* the lock belongs to the step that reaches it, unless somebody is ahead. *)
(* The order of the waiting tasks is left open (SF stands for FIFO).  The  *)
(* lock is seen taken by others only while its holder awaits a close.      *)
(***************************************************************************)
EXTENDS Integers, Sequences, FiniteSets

CONSTANTS
    Callers,     \* tasks that use the pool
    Sockets,     \* identities for connections, enough of them
    Nothing,     \* no socket, no task
    Kind,        \* how each caller uses a connection
    MaxSize,     \* max_size
    MinSize,     \* min_size
    MaxUses,     \* max_uses; 0 is unlimited
    MaxCancels   \* bound on the cancellations that hit a caller

ASSUME PoolShape ==
    /\ IsFiniteSet(Callers)
    /\ Nothing \notin Callers \union Sockets
    /\ Kind \in [Callers -> {"request", "stream", "command"}]
    /\ MaxSize \in Nat \ {0} /\ MinSize \in 0 .. MaxSize
    /\ MaxUses \in Nat /\ MaxCancels \in Nat

VARIABLES
    pc,       \* what each caller is suspended on
    conn,     \* the connection it has checked out
    permits,  \* _capacity
    lock,     \* who awaits a close under _lock
    idle,     \* _idle, the next to be popped first
    inUse,    \* _in_use
    sock,     \* what is true of each connection
    closer,   \* the task in close()
    cancels   \* cancellations so far

vars == <<pc, conn, permits, lock, idle, inUse, sock, closer, cancels>>

-----------------------------------------------------------------------------
(* Connections.  owed lists the callers whose answers are still unread.    *)

NoSocket == [state |-> "none", uses |-> 0, aged |-> FALSE, owed |-> <<>>]
Usable(s) == sock[s].state = "open"

Expired(s, others) ==
    \/ ~Usable(s)
    \/ (MaxUses # 0 /\ sock[s].uses >= MaxUses)
    \/ (Len(others) > MinSize /\ sock[s].aged)

UsedBy(c, r) ==
    [r EXCEPT !.uses = IF MaxUses = 0 THEN 0 ELSE @ + 1, !.owed = Append(@, c)]

(* The count never goes below zero. *)
Max0(n) == IF n > 0 THEN n ELSE 0

(* closed is set before close() waits for the lock. *)
Closed == closer # "open"

-----------------------------------------------------------------------------
(* The lock. *)

AtLock == {"checkout", "undo", "return", "discard"}
LockIsFree(c) ==
    /\ lock \in {Nothing, c} /\ closer # "waiting"
    /\ \A d \in Callers \ {c} : pc[d] \notin AtLock

Goto(c, place) == pc' = [pc EXCEPT ![c] = place]

(* acquire's section: pop until a connection is usable, else connect. *)
CheckOut(c) ==
    \/ /\ idle = <<>>
       /\ inUse' = inUse + 1
       /\ Goto(c, "connecting")
       /\ lock' = Nothing
       /\ UNCHANGED <<conn, idle, sock>>
    \/ /\ idle # <<>>
       /\ Expired(Head(idle), Tail(idle))
       /\ idle' = Tail(idle)
       /\ sock' = [sock EXCEPT ![Head(idle)] = NoSocket]
       /\ Goto(c, "reaping")
       /\ lock' = c
       /\ UNCHANGED <<conn, inUse>>
    \/ /\ idle # <<>>
       /\ ~Expired(Head(idle), Tail(idle))
       /\ idle' = Tail(idle)
       /\ inUse' = inUse + 1
       /\ sock' = [sock EXCEPT ![Head(idle)] = UsedBy(c, @)]
       /\ conn' = [conn EXCEPT ![c] = Head(idle)]
       /\ Goto(c, "using")
       /\ lock' = Nothing

(* Mutant: release does not look at _closed. *)
KeepsAnyway(c, reuse) == reuse /\ Usable(conn[c])

(* release's section: back to the pool, or closed under the lock.  after is *)
(* the connection as its caller leaves it.                                  *)
Keeps(c, reuse) == reuse /\ ~Closed /\ Usable(conn[c])
CheckIn(c, after, reuse) ==
    /\ inUse' = Max0(inUse - 1)
    /\ conn' = [conn EXCEPT ![c] = Nothing]
    /\ IF Keeps(c, reuse)
       THEN /\ idle' = <<conn[c]>> \o idle
            /\ sock' = [sock EXCEPT ![conn[c]] = [after EXCEPT !.aged = FALSE]]
            /\ permits' = permits + 1
            /\ Goto(c, "out")
            /\ lock' = Nothing
       ELSE /\ sock' = [sock EXCEPT ![conn[c]] = NoSocket]
            /\ Goto(c, "closing")
            /\ lock' = c
            /\ UNCHANGED <<idle, permits>>

(* Mutants: the handler forgets the permit; the count. *)
UndoKeepsPermit(c) ==
    /\ inUse' = Max0(inUse - 1)
    /\ Goto(c, "out")
    /\ lock' = Nothing
    /\ UNCHANGED <<conn, permits, idle, sock>>
UndoKeepsCount(c) ==
    /\ permits' = permits + 1
    /\ Goto(c, "out")
    /\ lock' = Nothing
    /\ UNCHANGED <<conn, inUse, idle, sock>>

(* acquire's except handler, once it has the lock. *)
Undo(c) ==
    /\ inUse' = Max0(inUse - 1)
    /\ permits' = permits + 1
    /\ Goto(c, "out")
    /\ lock' = Nothing
    /\ UNCHANGED <<conn, idle, sock>>

Handler(c) ==
    \/ LockIsFree(c) /\ Undo(c)
    \/ /\ ~LockIsFree(c)
       /\ Goto(c, "undo")
       /\ lock' = IF lock = c THEN Nothing ELSE lock
       /\ UNCHANGED <<conn, permits, idle, inUse, sock>>

GiveBack(c, after, reuse) ==
    IF LockIsFree(c) THEN CheckIn(c, after, reuse)
    ELSE /\ Goto(c, IF reuse THEN "return" ELSE "discard")
         /\ sock' = [sock EXCEPT ![conn[c]] = after]
         /\ UNCHANGED <<conn, permits, lock, idle, inUse>>

-----------------------------------------------------------------------------
(* acquire. *)

WaitForPermit(c) ==
    /\ pc[c] = "out" /\ ~Closed
    /\ permits = 0
    /\ Goto(c, "waiting")
    /\ UNCHANGED <<conn, permits, lock, idle, inUse, sock, closer, cancels>>

TakePermit(c) ==
    /\ pc[c] = "waiting" \/ (pc[c] = "out" /\ ~Closed)
    /\ permits > 0
    /\ permits' = permits - 1
    /\ IF LockIsFree(c) THEN CheckOut(c)
       ELSE Goto(c, "checkout") /\ UNCHANGED <<conn, lock, idle, inUse, sock>>
    /\ UNCHANGED <<closer, cancels>>

EnterCheckOut(c) ==
    /\ pc[c] = "checkout" /\ lock = Nothing
    /\ CheckOut(c)
    /\ UNCHANGED <<permits, closer, cancels>>

Reaped(c) ==
    /\ pc[c] = "reaping"
    /\ CheckOut(c)
    /\ UNCHANGED <<permits, closer, cancels>>

(* Which identity a new connection gets makes no difference. *)
Unused == {s \in Sockets : sock[s].state = "none"}
Connected(c) ==
    /\ pc[c] = "connecting"
    /\ Unused # {}
    /\ LET s == CHOOSE s \in Unused : TRUE
       IN  /\ sock' = [sock EXCEPT ![s] = UsedBy(c, [NoSocket EXCEPT !.state = "open"])]
           /\ conn' = [conn EXCEPT ![c] = s]
    /\ Goto(c, "using")
    /\ UNCHANGED <<permits, lock, idle, inUse, closer, cancels>>

ConnectFails(c) ==
    /\ pc[c] = "connecting"
    /\ Handler(c)
    /\ UNCHANGED <<closer, cancels>>

EnterUndo(c) ==
    /\ pc[c] = "undo" /\ lock = Nothing
    /\ Undo(c)
    /\ UNCHANGED <<closer, cancels>>

-----------------------------------------------------------------------------
(* The caller, and release. *)

(* It reads the next answer on the wire; HTTP may ask to close after it. *)
Answered(c) ==
    /\ pc[c] = "using"
    /\ \E reuse \in IF Kind[c] = "command" THEN {TRUE} ELSE BOOLEAN :
         GiveBack(c, [sock[conn[c]] EXCEPT !.owed = Tail(@)], reuse)
    /\ UNCHANGED <<closer, cancels>>

(* A timeout, a broken connection, an answer that cannot be parsed. *)
Fails(c) ==
    /\ pc[c] = "using"
    /\ GiveBack(c, sock[conn[c]], FALSE)
    /\ UNCHANGED <<closer, cancels>>

EnterCheckIn(c) ==
    /\ pc[c] \in {"return", "discard"} /\ lock = Nothing
    /\ CheckIn(c, sock[conn[c]], pc[c] = "return")
    /\ UNCHANGED <<closer, cancels>>

Discarded(c) ==
    /\ pc[c] = "closing"
    /\ permits' = permits + 1
    /\ lock' = Nothing
    /\ Goto(c, "out")
    /\ UNCHANGED <<conn, idle, inUse, sock, closer, cancels>>

-----------------------------------------------------------------------------
(* Cancellation: a node's timeout, a failing sibling, an abandoned run. It *)
(* is raised where the task is suspended.                                  *)

(* Mutants: no kind of call is careful; the semaphore is inside the try. *)
AllReuseAfterCancel(c) == TRUE
CancelReleasesAnyway(c) ==
    /\ pc[c] = "waiting"
    /\ permits' = permits + 1
    /\ Goto(c, "out")
    /\ UNCHANGED <<conn, lock, idle, inUse, sock>>

(* CancelledError is no Exception: request does not clear reusable. *)
ReusedAfterCancel(c) == Kind[c] = "request"

CancelOutsideTheTry(c) ==
    /\ pc[c] = "waiting"
    /\ Goto(c, "out")
    /\ UNCHANGED <<conn, permits, lock, idle, inUse, sock>>

CancelInAcquire(c) ==
    /\ pc[c] \in {"checkout", "reaping", "connecting"}
    /\ Handler(c)

CancelInHandler(c) ==
    /\ pc[c] = "undo"
    /\ Goto(c, "out")
    /\ UNCHANGED <<conn, permits, lock, idle, inUse, sock>>

CancelInUse(c) ==
    /\ pc[c] = "using"
    /\ GiveBack(c, sock[conn[c]], ReusedAfterCancel(c))

CancelBeforeRelease(c) ==
    /\ pc[c] \in {"return", "discard"}
    /\ conn' = [conn EXCEPT ![c] = Nothing]
    /\ Goto(c, "out")
    /\ UNCHANGED <<permits, lock, idle, inUse, sock>>

CancelInRelease(c) ==
    /\ pc[c] = "closing"
    /\ lock' = Nothing
    /\ Goto(c, "out")
    /\ UNCHANGED <<conn, permits, idle, inUse, sock>>

Cancel(c) ==
    /\ cancels < MaxCancels
    /\ cancels' = cancels + 1
    /\ \/ CancelOutsideTheTry(c) \/ CancelInAcquire(c) \/ CancelInHandler(c)
       \/ CancelInUse(c) \/ CancelBeforeRelease(c) \/ CancelInRelease(c)
    /\ UNCHANGED closer

-----------------------------------------------------------------------------
(* close, the far end, and time. *)

(* Mutant: the list is emptied and its connections are left open. *)
TakeIdleForgets == closer' = "done" /\ idle' = <<>> /\ UNCHANGED sock

TakeIdle ==
    /\ closer' = "done"
    /\ idle' = <<>>
    /\ sock' = [s \in Sockets |->
                   IF \E i \in DOMAIN idle : idle[i] = s THEN NoSocket ELSE sock[s]]

Close ==
    /\ ~Closed
    /\ IF LockIsFree(Nothing) THEN TakeIdle
       ELSE closer' = "waiting" /\ UNCHANGED <<idle, sock>>
    /\ UNCHANGED <<pc, conn, permits, lock, inUse, cancels>>

EnterClose ==
    /\ closer = "waiting" /\ lock = Nothing
    /\ TakeIdle
    /\ UNCHANGED <<pc, conn, permits, lock, inUse, cancels>>

(* During a call this is one of the ways in which it fails. *)
PeerCloses(s) ==
    /\ sock[s].state = "open"
    /\ \A c \in Callers : conn[c] = s => pc[c] = "return"
    /\ sock' = [sock EXCEPT ![s].state = "dead"]
    /\ UNCHANGED <<pc, conn, permits, lock, idle, inUse, closer, cancels>>

(* max_idle_s passes. *)
Ages(s) ==
    /\ \E i \in DOMAIN idle : idle[i] = s
    /\ ~sock[s].aged
    /\ sock' = [sock EXCEPT ![s].aged = TRUE]
    /\ UNCHANGED <<pc, conn, permits, lock, idle, inUse, closer, cancels>>

-----------------------------------------------------------------------------
Init ==
    /\ pc = [c \in Callers |-> "out"]
    /\ conn = [c \in Callers |-> Nothing]
    /\ permits = MaxSize
    /\ lock = Nothing
    /\ idle = <<>>
    /\ inUse = 0
    /\ sock = [s \in Sockets |-> NoSocket]
    /\ closer = "open"
    /\ cancels = 0

(* With the lock, by a caller that queued for it; and on its own. *)
EntersLock(c) == EnterCheckOut(c) \/ EnterUndo(c) \/ EnterCheckIn(c)
Proceeds(c) ==
    \/ Reaped(c) \/ Connected(c) \/ ConnectFails(c)
    \/ Answered(c) \/ Fails(c) \/ Discarded(c)

Next ==
    \/ \E c \in Callers :
         \/ WaitForPermit(c) \/ TakePermit(c)
         \/ EntersLock(c) \/ Proceeds(c) \/ Cancel(c)
    \/ Close \/ EnterClose
    \/ \E s \in Sockets : PeerCloses(s) \/ Ages(s)

Spec == Init /\ [][Next]_vars

(* Where a far end that falls silent holds a task for ever: drain() and     *)
(* wait_closed() have no timeout, and neither has anything RedisClient does *)
(* (store.py:137-158).  An HTTP connect has one; so has reading an HTTP     *)
(* answer, but to get there the far end must have taken the request.        *)
OnFarEnd(c) ==
    \/ pc[c] \in {"using", "reaping", "closing"}
    \/ pc[c] = "connecting" /\ Kind[c] = "command"

(* The semaphore and the lock serve their waiters in order, and an HTTP     *)
(* connect ends.  Nothing is asked of the far end.                          *)
Fairness ==
    /\ \A c \in Callers :
         /\ SF_vars(TakePermit(c) /\ pc[c] = "waiting")
         /\ SF_vars(EntersLock(c))
         /\ WF_vars(Proceeds(c) /\ ~OnFarEnd(c))
    /\ SF_vars(EnterClose)

FairSpec == Spec /\ Fairness
-----------------------------------------------------------------------------
(* Properties.                                                             *)

Places == {"out", "waiting", "checkout", "reaping", "connecting", "undo",
           "using", "return", "discard", "closing"}

At(p, places) == {c \in Callers : p[c] \in places}
PermitPlaces  == Places \ {"out", "waiting"}
OpenPlaces    == {"connecting", "using", "return", "discard"}
WithPermit    == At(pc, PermitPlaces)
Connections   == At(pc, OpenPlaces)
IsIdle(s)     == \E i \in DOMAIN idle : idle[i] = s

(* The pool is bounded: the idle connections, those checked out and those  *)
(* being opened are never more than max_size, although a caller holds its  *)
(* permit before it looks at the idle list and after it has given its      *)
(* connection back (pool.py:61-66).                                        *)
Bounded == Len(idle) + Cardinality(Connections) <= MaxSize

(* A permit is free or with a caller that will give it back.  None is lost *)
(* on a failed connect or a connection closed at release; a cancellation   *)
(* loses one at most.                                                      *)
PermitsAreConserved ==
    permits + Cardinality(WithPermit) \in MaxSize - cancels .. MaxSize

(* An open connection has one owner: the idle list, once, or one caller.   *)
(* None is ever handed to two callers, and none is forgotten but by a      *)
(* cancellation.                                                           *)
Owners(s) == Cardinality({i \in DOMAIN idle : idle[i] = s})
               + Cardinality({c \in Callers : conn[c] = s})
OneOwner ==
    /\ \A s \in Sockets : Owners(s) <= 1
    /\ Cardinality({s \in Sockets : sock[s].state # "none" /\ Owners(s) = 0}) <= cancels

(* _in_use counts the connections that are checked out or being opened,    *)
(* but for one per cancellation.                                           *)
InUseIsExact ==
    inUse - Cardinality(At(pc, OpenPlaces \union {"undo"})) \in -cancels .. cancels

(* Whatever fails or is closed under a caller, the permits and the count   *)
(* agree with who has what, up to the cancellations.                       *)
CountsAreExact == PermitsAreConserved /\ InUseIsExact

(* After close() nothing goes back to the idle list, whatever was checked  *)
(* out or waiting while it ran.                                            *)
ClosedPoolStaysEmpty == closer = "done" => idle = <<>>

(* The next answer on a connection in use is the answer to its caller's    *)
(* own request: no earlier caller left one unread.                         *)
ReadsItsOwnAnswer ==
    \A c \in Callers : pc[c] = "using" => Head(sock[conn[c]].owed) = c

(* The far end holds the pool: the lock, by way of a connection that is     *)
(* being closed under it, or every permit that no cancellation has lost.    *)
Held ==
    \/ lock # Nothing
    \/ Cardinality({c \in Callers : OnFarEnd(c)}) >= MaxSize - cancels

(* Whoever asks for a connection gets one or an error, however many wait    *)
(* for permits and for the lock behind slow closes, unless in the end the   *)
(* far end holds the pool for ever: nothing in it gives up by itself.       *)
IsServed(c) == (pc[c] = "waiting" ~> pc[c] \in {"using", "out"}) \/ <>[]Held
EveryCallerIsServed == \A c \in Callers : IsServed(c)
=============================================================================
