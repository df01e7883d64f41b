------------------------------ MODULE KafkaSink ------------------------------
(***************************************************************************)
(* KafkaEventSink over one KafkaClient (flowforge/kafka.py): the engine's  *)
(* tasks call the sink for every event, a flusher sends what they queue,   *)
(* and both (re)start the client when it is not ready.                     *)
(*                                                                         *)
(* A request holds the client's lock from its first byte to its answer,    *)
(* and has to get rid of its bytes before it reads.  The wire is the list  *)
(* of answers that are still to be read: a task that gives up, or is       *)
(* cancelled, leaves its answer on it.  The order in which the lock is     *)
(* given to waiting tasks is left open.                                    *)
(***************************************************************************)
EXTENDS Integers, Sequences, FiniteSets, SequencesExt

CONSTANTS
    Emitters,    \* the tasks of the engine that emit
    Flusher,     \* the task of _flush_forever
    Nobody,
    Stale,       \* an answer nobody waits for any more
    Modes,       \* values of `required` to consider
    MaxQueued,   \* max_queued
    BatchSize,   \* batch_size
    MaxEvents,   \* bound on the events emitted
    MaxFaults    \* bound on timeouts, refusals, cancellations, connections cut, stalls

ASSUME SinkShape ==
    /\ IsFiniteSet(Emitters) /\ Flusher \notin Emitters
    /\ {Nobody, Stale} \cap (Emitters \cup {Flusher}) = {}
    /\ Modes \subseteq BOOLEAN
    /\ {MaxQueued, BatchSize, MaxEvents} \subseteq Nat \ {0} /\ MaxFaults \in Nat

VARIABLES
    required,  \* the sink's mode, never changed
    ready,     \* _ready
    at,        \* what each task is doing
    batch,     \* the records a task is about to send or to queue
    queue,     \* _queue
    idle,      \* _idle, the event flush() waits for
    lock,      \* who holds the client's _lock
    draining,  \* it is still in drain(), behind its request
    conn,      \* the connection; "eof" is closed by the broker, writer still open
    owed,      \* whose answers are to be read next on it
    topic,     \* at the broker: "absent", "electing" a leader, "ready"
    log,       \* at the broker: the records of the topic
    stalled,   \* at the broker: it has stopped reading
    fate,      \* what became of each event
    closed,    \* close() has returned
    faults     \* faults so far

client == <<lock, draining, conn, owed>>
broker == <<topic, log>>
vars == <<required, ready, at, batch, queue, idle, client, broker, stalled,
          fate, closed, faults>>

Tasks == Emitters \cup {Flusher}
Events == 1 .. MaxEvents
Fates == {"new", "open", "published", "dropped", "raised", "lost", "cancelled"}
Requests == {"versions", "metadata", "create", "poll", "produce"}

Init ==
    /\ required \in Modes
    /\ ready = FALSE
    /\ at = [t \in Tasks |-> IF t = Flusher THEN "none" ELSE "idle"]
    /\ batch = [t \in Tasks |-> <<>>]
    /\ queue = <<>>
    /\ idle = TRUE
    /\ lock = Nobody
    /\ draining = FALSE
    /\ conn = "none"
    /\ owed = <<>>
    /\ topic \in {"absent", "ready"}
    /\ log = <<>>
    /\ stalled = FALSE
    /\ fate = [e \in Events |-> "new"]
    /\ closed = FALSE
    /\ faults = 0

Fault == faults < MaxFaults /\ faults' = faults + 1
Becomes(es, f) == [e \in Events |-> IF e \in Range(es) THEN f ELSE fate[e]]

\* Where start() and _ensure_ready begin: connect() keeps an open writer.
FirstStep == IF ready THEN "produce"
             ELSE IF conn \in {"open", "eof"} THEN "metadata" ELSE "connecting"

-----------------------------------------------------------------------------
(* The engine's side. *)

\* put_nowait; _note_drop when the queue is full.
Offer(e, others) ==
    \/ /\ Len(queue) < MaxQueued
       /\ queue' = Append(queue, e)
       /\ idle' = FALSE
       /\ ready' = others
       /\ fate' = [fate EXCEPT ![e] = "open"]
    \/ /\ Len(queue) >= MaxQueued
       /\ fate' = [fate EXCEPT ![e] = "dropped"]
       /\ ready' = FALSE
       /\ UNCHANGED <<queue, idle>>

\* The next event there is; events are numbered in the order they come.
Emit(p) ==
    /\ at[p] = "idle" /\ ~closed
    /\ \E e \in Events :
          /\ fate[e] = "new" /\ \A d \in 1 .. e - 1 : fate[d] # "new"
          /\ \/ /\ ready /\ ~required
                /\ Offer(e, ready)
                /\ UNCHANGED <<at, batch>>
             \/ /\ ~ready \/ required
                /\ at' = [at EXCEPT ![p] = FirstStep]
                /\ batch' = [batch EXCEPT ![p] = <<e>>]
                /\ fate' = [fate EXCEPT ![e] = "open"]
                /\ UNCHANGED <<ready, queue, idle>>
    /\ UNCHANGED <<required, client, broker, stalled, closed, faults>>

-----------------------------------------------------------------------------
(* How a task goes on. *)

Goto(t, place) == at' = [at EXCEPT ![t] = place]
Stay == UNCHANGED <<ready, batch, queue, idle, fate>>

IdleAlways(t) == IF t = Flusher THEN TRUE ELSE idle        \* (mutant)

\* The flusher is done with a batch: whoever flushes may go if nothing waits.
IdleAgain(t) == IF t = Flusher /\ queue = <<>> THEN TRUE ELSE idle

\* KafkaError, OSError and timeouts: counted, or raised if it is required.
Failed(t) ==
    /\ Goto(t, "idle")
    /\ batch' = [batch EXCEPT ![t] = <<>>]
    /\ fate' = Becomes(batch[t], IF required THEN "raised" ELSE "dropped")
    /\ ready' = (ready /\ required /\ at[t] # "produce")
    /\ idle' = IdleAgain(t)
    /\ UNCHANGED queue

BrokenKeepsBatch(t) ==          \* (mutant) the flusher dies with its batch in hand
    /\ Goto(t, IF t = Flusher THEN "died" ELSE "idle")
    /\ fate' = Becomes(batch[t], IF t = Flusher THEN "lost" ELSE "raised")
    /\ idle' = IdleAgain(t)
    /\ UNCHANGED <<ready, batch, queue>>

\* IncompleteReadError is none of those: it ends the flusher, or the run.
Broken(t) ==
    /\ Goto(t, IF t = Flusher THEN "died" ELSE "idle")
    /\ batch' = [batch EXCEPT ![t] = <<>>]
    /\ fate' = Becomes(batch[t], IF t = Flusher THEN "lost" ELSE "raised")
    /\ idle' = IdleAgain(t)
    /\ UNCHANGED <<ready, queue>>

Sent(t) ==
    /\ Goto(t, "idle")
    /\ batch' = [batch EXCEPT ![t] = <<>>]
    /\ fate' = Becomes(batch[t], "published")
    /\ idle' = IdleAgain(t)
    /\ UNCHANGED <<ready, queue>>

\* The end of start(): a flusher is running, and the caller goes on.
Started(t) ==
    LET waits == required \/ t = Flusher
        alive == [at EXCEPT ![Flusher] =
                     IF ~required /\ @ \in {"none", "died"} THEN "idle" ELSE @]
    IN  /\ at' = [alive EXCEPT ![t] = IF waits THEN "produce" ELSE "idle"]
        /\ \/ /\ waits
              /\ ready' = TRUE
              /\ UNCHANGED <<batch, queue, idle, fate>>
           \/ /\ ~waits
              /\ batch' = [batch EXCEPT ![t] = <<>>]
              /\ Offer(Head(batch[t]), TRUE)

-----------------------------------------------------------------------------
(* The client. *)

Connected(t) ==
    /\ at[t] = "connecting"
    /\ conn' = "open"
    /\ owed' = <<>>
    /\ Goto(t, "versions")
    /\ Stay
    /\ UNCHANGED <<required, lock, draining, broker, stalled, closed, faults>>

ConnectFails(t) ==
    /\ at[t] = "connecting"
    /\ Fault
    /\ Failed(t)
    /\ UNCHANGED <<required, client, broker, stalled, closed>>

\* _roundtrip takes the lock and writes, and is in drain() then; on a lost
\* connection that raises at once.
Send(t) ==
    /\ at[t] \in Requests
    /\ lock = Nobody
    /\ \/ /\ conn \in {"open", "eof"}
          /\ lock' = t
          /\ draining' = TRUE
          /\ owed' = Append(owed, t)
          /\ Stay
          /\ UNCHANGED at
       \/ /\ conn \notin {"open", "eof"}
          /\ Failed(t)
          /\ UNCHANGED <<lock, draining, owed>>
    /\ UNCHANGED <<required, conn, broker, stalled, closed, faults>>

\* There is room for what was written, now or once the broker has read some.
Drained(t) ==
    /\ lock = t /\ draining
    /\ draining' = FALSE
    /\ Stay
    /\ UNCHANGED <<required, at, lock, conn, owed, broker, stalled, closed, faults>>

Reading(t) == lock = t /\ ~draining

\* What the broker does with a request.
Performed(t) ==
    /\ topic' = IF at[t] = "create" /\ topic = "absent" THEN "electing" ELSE topic
    /\ log' = IF at[t] = "produce" THEN log \o batch[t] ELSE log

Forsaken(t) == [i \in DOMAIN owed |-> IF owed[i] = t THEN Stale ELSE owed[i]]

\* ensure_topic asks, creates, and asks again until there is a leader.
GoesOn(t) ==
    \/ at[t] = "versions" /\ Goto(t, "metadata") /\ Stay
    \/ at[t] \in {"metadata", "poll"} /\ topic = "ready" /\ Started(t)
    \/ at[t] = "metadata" /\ topic # "ready" /\ Goto(t, "create") /\ Stay
    \/ at[t] = "create" /\ Goto(t, "poll") /\ Stay
    \/ at[t] = "poll" /\ topic # "ready" /\ (Failed(t) \/ (UNCHANGED at /\ Stay))
    \/ at[t] = "produce" /\ Sent(t)

AnsweredByAnyone(t) ==          \* (mutant) the correlation id is not compared
    /\ Reading(t) /\ conn = "open" /\ owed # <<>>
    /\ Performed(t) \/ UNCHANGED broker
    /\ lock' = Nobody
    /\ owed' = Tail(owed)
    /\ GoesOn(t)
    /\ UNCHANGED <<required, draining, conn, stalled, closed, faults>>

Answered(t) ==
    /\ Reading(t) /\ conn = "open"
    /\ owed # <<>> /\ Head(owed) = t
    /\ Performed(t)
    /\ lock' = Nobody
    /\ owed' = Tail(owed)
    /\ GoesOn(t)
    /\ UNCHANGED <<required, draining, conn, stalled, closed, faults>>

\* The next answer carries the correlation id of an earlier request.
Mismatched(t) ==
    /\ Reading(t) /\ conn = "open"
    /\ owed # <<>> /\ Head(owed) = Stale
    /\ Performed(t) \/ UNCHANGED broker
    /\ lock' = Nobody
    /\ owed' = Tail(Forsaken(t))
    /\ Failed(t)
    /\ UNCHANGED <<required, draining, conn, stalled, closed, faults>>

Refused(t) ==
    /\ Reading(t) /\ conn = "open"
    /\ owed # <<>> /\ Head(owed) = t
    /\ Fault
    /\ lock' = Nobody
    /\ owed' = Tail(owed)
    /\ Failed(t)
    /\ UNCHANGED <<required, draining, conn, broker, stalled, closed>>

TimesOutHolding(t) ==           \* (mutant) the lock is not given back
    /\ Reading(t)
    /\ IF t \in Range(owed) THEN Fault
       ELSE conn = "open" /\ UNCHANGED faults
    /\ Performed(t) \/ UNCHANGED broker
    /\ owed' = Forsaken(t)
    /\ Failed(t)
    /\ UNCHANGED <<required, lock, draining, conn, stalled, closed>>

\* No answer in time; drain() has no such limit.  A request whose connection
\* another task has replaced always ends like this.
TimesOut(t) ==
    /\ Reading(t)
    /\ IF t \in Range(owed) THEN Fault
       ELSE conn = "open" /\ UNCHANGED faults
    /\ Performed(t) \/ UNCHANGED broker
    /\ lock' = Nobody
    /\ owed' = Forsaken(t)
    /\ Failed(t)
    /\ UNCHANGED <<required, draining, conn, stalled, closed>>

\* Reading meets the end of the stream; a lost connection wakes drain() as well,
\* also when another task has replaced it by now.
CutOff(t) ==
    /\ lock = t
    /\ \/ conn = "lost"
       \/ conn = "eof" /\ ~draining
       \/ draining /\ t \notin Range(owed)
    /\ Performed(t) \/ UNCHANGED broker
    /\ lock' = Nobody
    /\ draining' = FALSE
    /\ owed' = <<>>
    /\ IF conn = "eof" /\ ~draining THEN Broken(t) ELSE Failed(t)
    /\ UNCHANGED <<required, conn, stalled, closed, faults>>

\* An emitting task is cancelled, by its node's timeout or because the run is
\* abandoned.  The sink catches no CancelledError: the event is with nobody and in
\* no counter, the lock is freed, and an answer that was asked for will come.
Cancelled(p) ==
    /\ at[p] # "idle"
    /\ Fault
    /\ Goto(p, "idle")
    /\ batch' = [batch EXCEPT ![p] = <<>>]
    /\ fate' = Becomes(batch[p], "cancelled")
    /\ \/ /\ lock = p
          /\ (Performed(p) \/ UNCHANGED broker)
          /\ lock' = Nobody
          /\ draining' = FALSE
          /\ owed' = Forsaken(p)
       \/ /\ lock # p
          /\ UNCHANGED <<broker, lock, draining, owed>>
    /\ UNCHANGED <<required, ready, queue, idle, conn, stalled, closed>>

Elsewhere == UNCHANGED <<required, ready, at, batch, queue, idle, lock, draining, fate, closed>>

BrokerCloses ==
    /\ conn = "open"
    /\ Fault
    /\ conn' \in {"eof", "lost"}
    /\ Elsewhere
    /\ UNCHANGED <<owed, broker, stalled>>

\* Writing to a connection the broker has closed gets it reset.
Reset ==
    /\ conn = "eof" /\ lock # Nobody
    /\ conn' = "lost"
    /\ Elsewhere
    /\ UNCHANGED <<owed, broker, stalled, faults>>

\* The broker stops reading, for a while or for good.
BrokerStalls ==
    /\ ~stalled
    /\ Fault
    /\ stalled' = TRUE
    /\ Elsewhere
    /\ UNCHANGED <<conn, owed, broker>>

BrokerReads ==
    /\ stalled
    /\ stalled' = FALSE
    /\ Elsewhere
    /\ UNCHANGED <<conn, owed, broker, faults>>

Elected ==
    /\ topic = "electing"
    /\ topic' = "ready"
    /\ Elsewhere
    /\ UNCHANGED <<conn, owed, log, stalled, faults>>

-----------------------------------------------------------------------------
(* The flusher, and close(). *)

Take ==
    /\ \/ at[Flusher] = "idle"
       \/ at[Flusher] = "linger" /\ Len(batch[Flusher]) < BatchSize
    /\ queue # <<>>
    /\ Goto(Flusher, "linger")
    /\ batch' = [batch EXCEPT ![Flusher] = Append(@, Head(queue))]
    /\ queue' = Tail(queue)
    /\ UNCHANGED <<required, ready, idle, client, broker, stalled, fate, closed, faults>>

\* The batch is full or linger_ms has passed.
StopLingering ==
    /\ at[Flusher] = "linger"
    /\ Goto(Flusher, FirstStep)
    /\ Stay
    /\ UNCHANGED <<required, client, broker, stalled, closed, faults>>

\* flush() has returned, or timed out; the flusher is cancelled.  One that has
\* died raises out of close() before the client is closed.
Close ==
    /\ ~closed
    /\ \A p \in Emitters : at[p] = "idle"
    /\ closed' = TRUE
    /\ \/ at[Flusher] = "died" /\ UNCHANGED <<at, batch, fate, client>>
       \/ /\ at[Flusher] # "died"
          /\ Goto(Flusher, "none")
          /\ fate' = Becomes(batch[Flusher], "lost")
          /\ batch' = [batch EXCEPT ![Flusher] = <<>>]
          /\ lock' = Nobody /\ draining' = FALSE /\ conn' = "none" /\ owed' = <<>>
    /\ idle' = IF at[Flusher] \in Requests \cup {"connecting"} THEN IdleAgain(Flusher) ELSE idle
    /\ UNCHANGED <<required, ready, queue, broker, stalled, faults>>

Closed == closed /\ UNCHANGED vars

Request(t) ==
    \/ Connected(t) \/ ConnectFails(t) \/ Send(t)
    \/ Answered(t) \/ Mismatched(t) \/ Refused(t) \/ TimesOut(t) \/ CutOff(t)

Next ==
    \/ \E p \in Emitters : Emit(p) \/ Cancelled(p)
    \/ \E t \in Tasks : Request(t) \/ Drained(t)
    \/ Take \/ StopLingering
    \/ BrokerCloses \/ Reset \/ BrokerStalls \/ BrokerReads \/ Elected
    \/ Close \/ Closed

Spec == Init /\ [][Next]_vars

\* Connects and answers come or time out, and so do elections (10 polls); the
\* lock serves its waiters in order once it is free; the flusher's task runs.
\* drain() has no timeout: it returns if the broker reads, and nobody makes it.
FairSpec ==
    /\ Spec
    /\ \A t \in Tasks : SF_vars(Request(t)) /\ WF_vars(~stalled /\ Drained(t))
    /\ WF_vars(Take \/ StopLingering)
    /\ WF_vars(Elected)

-----------------------------------------------------------------------------
\* Every event the sink has accepted and not settled is in one place, the queue
\* or the hands of one task, and it is settled once.  stats() has the published
\* and the dropped ones; an error raised into the run tells of the "raised" ones;
\* nothing tells of those "lost" with the flusher (it died, or close() cancelled
\* it) or "cancelled" with the task that emitted them.
Places(e) == Cardinality({i \in DOMAIN queue : queue[i] = e})
    + Cardinality({x \in Tasks \X (1 .. BatchSize) :
                      x[2] \in DOMAIN batch[x[1]] /\ batch[x[1]][x[2]] = e})
EveryEventIsAccounted ==
    \A e \in Events : Places(e) = IF fate[e] = "open" THEN 1 ELSE 0

\* What is counted as published is in the topic, through timeouts, answers to
\* earlier requests and connections that are replaced under a request.
PublishedIsInTopic == \A e \in Events : fate[e] = "published" => e \in Range(log)

\* flush() returns only when nothing that was queued is still to be sent.
FlushMeansSent == idle => queue = <<>> /\ batch[Flusher] = <<>>

\* The holder of the lock waits for a broker that does not read.
Stuck == stalled /\ draining /\ lock \in Range(owed)

\* An emitting task gets on with its run, whatever the broker does to requests
\* and connections, unless in the end whoever has the lock is in drain() for ever,
\* before a broker that reads no more (_roundtrip).  With required=False that may
\* be the flusher, and the emitters wait for the lock behind it.
EmitterReturns == \A p \in Emitters : []<>(at[p] = "idle") \/ <>[]Stuck
=============================================================================
