---------------------------- MODULE EventStream ----------------------------
(***************************************************************************)
(* EventStream (flowforge/events.py) between WorkflowEngine._stream's      *)
(* driving task, the node tasks of a wave, and the consumer of the         *)
(* generator (flowforge/engine.py).                                        *)
(*                                                                         *)
(* The driver emits the opening event, gathers the nodes of a wave, emits  *)
(* the terminal event and closes the stream.  Several waves in a row put   *)
(* nothing new on the stream, so there is one.  A step is what a task does *)
(* between two suspensions of the event loop.  asyncio.Queue is modelled   *)
(* as the library implements it: a get wakes the task that has waited      *)
(* longest, but a woken task only looks at the queue when it runs, and     *)
(* another task may have filled the slot by then.                          *)
(*                                                                         *)
(* A node's first event (started) and its last (completed, failed, paused) *)
(* are emitted around its run(), those between them inside it, where a     *)
(* timeout or an error of the sink is the node's failure and not the       *)
(* run's.  A node emits one event at a time; iteration nodes do not.       *)
(***************************************************************************)
EXTENDS Integers, Sequences, FiniteSets, SequencesExt

CONSTANTS
    Emitters,       \* the node tasks of the wave
    Driver,         \* the task that runs drive()
    Setups          \* the streams that are looked at, one of which a behaviour is about

\* size: of the queue, 0 is unbounded; events: what each node emits (a bound of
\* the model); limits: whether nodes have a timeout_s; awaits: whether a sink
\* suspends the emitting task; fails: whether it may raise (KafkaEventSink
\* required=True); leaves: whether the consumer may close the generator early.
ASSUME StreamShape ==
    /\ IsFiniteSet(Emitters) /\ Driver \notin Emitters
    /\ Setups \subseteq [size : Nat, events : [Emitters -> Nat], limits : BOOLEAN,
                         awaits : BOOLEAN, fails : BOOLEAN, leaves : BOOLEAN]

VARIABLES
    setup,      \* how the stream was made
    stage,      \* what drive() is at
    gathered,   \* whether gather() has made the node tasks
    task,       \* what each task is suspended on
    held,       \* the item a task has still to put; 0 is _CLOSED
    left,       \* events each node has still to emit
    seq,        \* EventStream._seq
    closed,     \* EventStream._closed
    queue,      \* asyncio.Queue contents
    putters,    \* asyncio.Queue._putters
    cancelled,  \* tasks that were cancelled
    consumer,   \* where the consumer of the generator is
    received,   \* history: sequence numbers delivered, in order
    author,     \* history: the task that each number was given to
    dropped,    \* history: numbers that a node gave up while it went on
    cutShort    \* history: the consumer left early or the run ended by a sink's error

vars == <<stage, gathered, task, held, left, seq, closed, queue, putters, cancelled,
          consumer, received, author, dropped, cutShort, setup>>
stream == <<seq, closed, queue, putters>>

MaxSize == setup.size
SinkAwaits == setup.awaits
Tasks == Emitters \cup {Driver}
CLOSED == 0

\* stage: "opening" and "ending" emit the first and the last event, "wave" is
\* in gather, "closing" in stream.close().  task: "running", "sinking",
\* "waiting" for a slot, "woken", "ended".  consumer: "reading" in __anext__,
\* "holding" the event it was given, "unwinding" in the finally of _stream,
\* where it waits for the driving task, "done".
Init ==
    /\ setup \in Setups
    /\ stage = "opening"
    /\ gathered = FALSE
    /\ task = [t \in Tasks |-> "running"]
    /\ held = [t \in Tasks |-> 0]
    /\ left = setup.events
    /\ seq = 0
    /\ closed = FALSE
    /\ queue = <<>>
    /\ putters = <<>>
    /\ cancelled = {}
    /\ consumer = "reading"
    /\ received = <<>>
    /\ author = <<>>
    /\ dropped = {}
    /\ cutShort = FALSE

Full == MaxSize > 0 /\ Len(queue) >= MaxSize

\* The driver does not suspend between the terminal event, or an exception,
\* and its call of close().
MidStep == task[Driver] = "running" /\ stage = "closing"

\* Where the driver goes when its put is done.
StageAfter ==
    CASE stage = "opening" -> "wave"
      [] stage = "ending"  -> "closing"
      [] stage = "closing" -> "done"
      [] OTHER             -> stage

PutDrops(t, item) ==        \* (mutant) put_nowait with the overflow swallowed
    /\ queue' = IF Full THEN queue ELSE Append(queue, item)
    /\ task' = [task EXCEPT ![t] = IF t = Driver /\ stage = "closing"
                                   THEN "ended" ELSE "running"]
    /\ held' = [held EXCEPT ![t] = 0]
    /\ stage' = IF t = Driver THEN StageAfter ELSE stage
    /\ UNCHANGED putters

\* queue.put(item) by t, called or retried after a wakeup.
Put(t, item) ==
    \/ /\ Full
       /\ task' = [task EXCEPT ![t] = "waiting"]
       /\ held' = [held EXCEPT ![t] = item]
       /\ putters' = Append(putters, t)
       /\ UNCHANGED <<queue, stage>>
    \/ /\ ~Full
       /\ queue' = Append(queue, item)
       /\ task' = [task EXCEPT ![t] = IF t = Driver /\ stage = "closing"
                                      THEN "ended" ELSE "running"]
       /\ held' = [held EXCEPT ![t] = 0]
       /\ stage' = IF t = Driver THEN StageAfter ELSE stage
       /\ UNCHANGED putters

\* emit(): the event is numbered at once, shown to the sink, then queued.
Emit(t) ==
    /\ seq' = seq + 1
    /\ \/ /\ SinkAwaits
          /\ task' = [task EXCEPT ![t] = "sinking"]
          /\ held' = [held EXCEPT ![t] = seq + 1]
          /\ UNCHANGED <<queue, putters>>
       \/ ~SinkAwaits /\ Put(t, seq + 1)

NodeEmits(e) ==
    /\ ~MidStep
    /\ task[e] = "running" /\ e \notin cancelled
    /\ left[e] > 0
    /\ left' = [left EXCEPT ![e] = @ - 1]
    /\ \/ /\ ~closed
          /\ Emit(e)
          /\ SinkAwaits => UNCHANGED stage
       \/ /\ closed
          /\ UNCHANGED <<stage, task, held, seq, queue, putters>>
    /\ UNCHANGED <<closed, cancelled, consumer, received, dropped, cutShort>>

NodeEnds(e) ==
    /\ ~MidStep
    /\ task[e] = "running" /\ e \notin cancelled
    /\ left[e] = 0
    /\ task' = [task EXCEPT ![e] = "ended"]
    /\ UNCHANGED <<stage, held, left, stream, cancelled, consumer, received,
                   dropped, cutShort>>

\* The opening event of the run.
Open ==
    /\ stage = "opening"
    /\ task[Driver] = "running" /\ Driver \notin cancelled
    /\ Emit(Driver)
    /\ SinkAwaits => UNCHANGED stage
    /\ UNCHANGED <<left, closed, cancelled, consumer, received, dropped, cutShort>>

ConcludeWithFirst ==        \* (mutant) one ended node is enough for the verdict
    /\ stage = "wave"
    /\ Driver \notin cancelled
    /\ \E e \in Emitters : task[e] = "ended"
    /\ stage' = "ending"
    /\ task' = [task EXCEPT ![Driver] = "sinking"]
    /\ held' = [held EXCEPT ![Driver] = seq + 1]
    /\ seq' = seq + 1
    /\ UNCHANGED <<queue, putters, left, closed, cancelled, consumer, received,
                   dropped, cutShort>>

\* All nodes have ended; the terminal event is emitted in the same step.
Conclude ==
    /\ stage = "wave"
    /\ Driver \notin cancelled
    /\ \A e \in Emitters : task[e] = "ended"
    /\ seq' = seq + 1
    /\ \/ /\ SinkAwaits
          /\ stage' = "ending"
          /\ task' = [task EXCEPT ![Driver] = "sinking"]
          /\ held' = [held EXCEPT ![Driver] = seq + 1]
          /\ UNCHANGED <<queue, putters>>
       \/ /\ ~SinkAwaits /\ Full
          /\ stage' = "ending"
          /\ task' = [task EXCEPT ![Driver] = "waiting"]
          /\ held' = [held EXCEPT ![Driver] = seq + 1]
          /\ putters' = Append(putters, Driver)
          /\ UNCHANGED queue
       \/ /\ ~SinkAwaits /\ ~Full
          /\ stage' = "closing"
          /\ queue' = Append(queue, seq + 1)
          /\ UNCHANGED <<task, held, putters>>
    /\ UNCHANGED <<left, closed, cancelled, consumer, received, dropped, cutShort>>

Close ==
    /\ MidStep
    /\ closed' = TRUE
    /\ Put(Driver, CLOSED)
    /\ UNCHANGED <<left, seq, cancelled, consumer, received, dropped, cutShort>>

\* The sink is done with the event; emit() does not look at _closed again.
SinkReturns(t) ==
    /\ ~MidStep
    /\ task[t] = "sinking" /\ t \notin cancelled
    /\ Put(t, held[t])
    /\ UNCHANGED <<left, seq, closed, cancelled, consumer, received, dropped, cutShort>>

SinkRaisesNoClose(t) ==     \* (mutant) no finally around the run
    /\ setup.fails
    /\ ~MidStep
    /\ task[t] = "sinking" /\ t \notin cancelled
    /\ stage \in {"opening", "wave", "ending"}
    /\ stage' = "done"
    /\ task' = [task EXCEPT ![t] = "ended"]
    /\ held' = [held EXCEPT ![t] = 0]
    /\ cutShort' = TRUE
    /\ UNCHANGED <<left, stream, cancelled, consumer, received, dropped>>

\* Whether the event in t's hand was emitted inside the node's run(), or by its
\* on_retry: it is neither the node's first nor its last.
Inside(t) == t \in Emitters /\ 0 < left[t] /\ left[t] < setup.events[t] - 1

\* The exception leaves execute() and gather: the driver goes to its finally
\* while the other nodes of the wave keep running.
SinkRaises(t) ==
    /\ setup.fails
    /\ ~MidStep
    /\ task[t] = "sinking" /\ t \notin cancelled
    /\ ~Inside(t)
    /\ stage' = IF stage \in {"closing", "done"} THEN stage ELSE "closing"
    /\ task' = [task EXCEPT ![t] = IF t = Driver THEN "running" ELSE "ended"]
    /\ held' = [held EXCEPT ![t] = 0]
    /\ cutShort' = TRUE
    /\ UNCHANGED <<left, stream, cancelled, consumer, received, dropped>>

\* A woken put looks at the queue again and goes to the end of the line if
\* somebody else has taken the slot.
Proceed(t) ==
    /\ ~MidStep
    /\ task[t] = "woken" /\ t \notin cancelled
    /\ Put(t, held[t])
    /\ UNCHANGED <<left, seq, closed, cancelled, consumer, received, dropped, cutShort>>

WakeNobody(tasks) == tasks      \* (mutant) a get frees a slot silently

\* _wakeup_next: the first in line that was not cancelled in the meantime.
InLine == {i \in DOMAIN putters : putters[i] \notin cancelled}
WakeFirst(tasks) ==
    IF InLine = {} THEN tasks ELSE [tasks EXCEPT ![putters[Min(InLine)]] = "woken"]
OthersWaiting ==
    IF InLine = {} THEN <<>> ELSE SubSeq(putters, Min(InLine) + 1, Len(putters))

\* __anext__ takes an item; the sentinel ends the iteration.
Get ==
    /\ ~MidStep
    /\ consumer = "reading"
    /\ queue # <<>>
    /\ queue' = Tail(queue)
    /\ task' = WakeFirst(task)
    /\ putters' = OthersWaiting
    /\ \/ /\ Head(queue) = CLOSED
          /\ consumer' = "unwinding"
          /\ UNCHANGED received
       \/ /\ Head(queue) # CLOSED
          /\ consumer' = "holding"
          /\ received' = Append(received, Head(queue))
    /\ UNCHANGED <<stage, held, left, seq, closed, cancelled, dropped, cutShort>>

AskNext ==
    /\ ~MidStep
    /\ consumer = "holding"
    /\ consumer' = "reading"
    /\ UNCHANGED <<stage, task, held, left, stream, cancelled, received, dropped, cutShort>>

\* The consumer closes the generator, or is cancelled in it: the driving task
\* is cancelled, and with it the nodes it is gathering.
Abandon ==
    /\ setup.leaves
    /\ ~MidStep
    /\ consumer \in {"reading", "holding"}
    /\ consumer' = "unwinding"
    /\ cutShort' = TRUE
    /\ LET live == {e \in Emitters : task[e] # "ended"}
           hit == IF stage = "done" THEN {}
                  ELSE {Driver} \cup IF stage = "wave" THEN live ELSE {}
       IN  cancelled' = cancelled \cup hit
    /\ UNCHANGED <<stage, task, held, left, stream, received, dropped>>

\* A cancelled put leaves the line, or passes the wakeup on if it had one.
PassWakeup(t) == IF task[t] = "woken" /\ ~Full THEN WakeFirst(task) ELSE task
StillWaiting(t) ==
    IF task[t] = "woken" /\ ~Full THEN OthersWaiting ELSE RemoveFirst(putters, t)

CancelNode(e) ==
    /\ ~MidStep
    /\ e \in cancelled
    /\ task[e] # "ended"
    /\ task' = [PassWakeup(e) EXCEPT ![e] = "ended"]
    /\ putters' = StillWaiting(e)
    /\ UNCHANGED <<stage, held, left, seq, closed, queue, cancelled, consumer,
                   received, dropped, cutShort>>

\* timeout_s passes while the node is in the sink or waits for a slot, or the
\* sink raises inside the node: this attempt has failed, its event has a number
\* and is gone, and the node goes on, to another attempt or to its last event.
GivesUp(e) ==
    /\ ~MidStep
    /\ e \notin cancelled
    /\ Inside(e)
    /\ \/ setup.limits /\ task[e] \in {"sinking", "waiting", "woken"}
       \/ setup.fails /\ task[e] = "sinking"
    /\ dropped' = dropped \cup {held[e]}
    /\ held' = [held EXCEPT ![e] = 0]
    /\ left' \in {[left EXCEPT ![e] = n] : n \in 1 .. left[e]}
    /\ task' = [PassWakeup(e) EXCEPT ![e] = "running"]
    /\ putters' = StillWaiting(e)
    /\ UNCHANGED <<stage, seq, closed, queue, cancelled, consumer, received, cutShort>>

\* CancelledError reaches drive(): out of gather once a cancelled node is gone,
\* or out of the put or sink it is suspended on.  Before its first step there
\* is no finally to run; inside close() the finally is over.
CancelDriver ==
    /\ ~MidStep
    /\ Driver \in cancelled
    /\ stage # "done"
    /\ stage = "wave" => \/ cancelled = {Driver}
                         \/ \E e \in cancelled \ {Driver} : task[e] = "ended"
    /\ LET over == stage = "closing" \/ (stage = "opening" /\ task[Driver] = "running")
       IN  /\ stage' = IF over THEN "done" ELSE "closing"
           /\ task' = [PassWakeup(Driver) EXCEPT
                          ![Driver] = IF over THEN "ended" ELSE "running"]
    /\ putters' = StillWaiting(Driver)
    /\ cancelled' = cancelled \ {Driver}
    /\ UNCHANGED <<held, left, seq, closed, queue, consumer, received, dropped, cutShort>>

\* `await task` in the finally of _stream.
Join ==
    /\ consumer = "unwinding"
    /\ stage = "done"
    /\ consumer' = "done"
    /\ UNCHANGED <<stage, task, held, left, stream, cancelled, received, dropped, cutShort>>

\* The generator is finished; node tasks the driver left behind may linger.
Finished ==
    /\ consumer = "done"
    /\ UNCHANGED vars

TaskStep(t) == SinkReturns(t) \/ SinkRaises(t) \/ Proceed(t)

\* Every step of a task t: the nodes are made when the driver gets to its wave,
\* and a number that was given out is t's.
Step(t) ==
    /\ UNCHANGED setup
    /\ gathered' = (gathered \/ stage' = "wave")
    /\ author' = IF seq' = seq THEN author ELSE Append(author, t)

NodeStep(e) ==
    /\ gathered
    /\ NodeEmits(e) \/ NodeEnds(e) \/ CancelNode(e) \/ GivesUp(e) \/ TaskStep(e)
    /\ Step(e)
DriverStep ==
    /\ Open \/ Conclude \/ Close \/ CancelDriver \/ TaskStep(Driver)
    /\ Step(Driver)
UnnotedStep == UNCHANGED <<setup, gathered, author>>
ConsumerStep == UnnotedStep /\ (Get \/ AskNext \/ Join)

Next ==
    \/ \E e \in Emitters : NodeStep(e)
    \/ DriverStep
    \/ ConsumerStep
    \/ Abandon /\ UnnotedStep
    \/ Finished

Spec == Init /\ [][Next]_vars

\* The loop runs every task that can run, and a consumer that has not left
\* keeps reading.
FairSpec ==
    /\ Spec
    /\ \A e \in Emitters : WF_vars(NodeStep(e))
    /\ WF_vars(DriverStep)
    /\ WF_vars(ConsumerStep)

-----------------------------------------------------------------------------

\* A consumer that reads to the end has been given every event of the run
\* exactly once, and the verdict last, whatever the nodes of a wave did to
\* each other's place in the queue, but for events that a node gave up, to its
\* timeout or to an error of the sink: of that node it has had an event before
\* and gets one after.
AllButTheDropped ==
    consumer = "done" /\ ~cutShort =>
        /\ Range(received) = 1 .. seq \ dropped
        /\ \A i, j \in DOMAIN received : received[i] = received[j] => i = j
        /\ Last(received) = seq
        /\ \A d \in dropped : \E b, a \in Range(received) :
              /\ author[b] = author[d] /\ author[a] = author[d]
              /\ b < d /\ d < a

\* What one task emitted arrives in the order it did so, each event once, also
\* on a stream that is cut short.  Two tasks may overtake each other.
EachInItsOrder ==
    \A i, j \in DOMAIN received :
        i < j /\ author[received[i]] = author[received[j]] => received[i] < received[j]

\* Both, which is what the consumer relies on: all of the run unless it is cut
\* short, from the first event of every node to its last, and each task's part
\* of it as it happened.
DeliversTheRun == AllButTheDropped /\ EachInItsOrder

\* A full queue delays a node but never forgets it: a task that waits for a
\* slot is in line for one while the queue is full, or has been woken.
NobodyWaitsOnAnOpenQueue ==
    \A t \in Tasks \ cancelled :
        task[t] = "waiting" => /\ t \in Range(putters)
                               /\ Full \/ \E u \in Tasks : task[u] = "woken"

\* However the stream is left, the generator finishes: walking away mid-run
\* cancels the run and does not hang the one who walked away.
StreamEnds == <>(consumer = "done")

\* The stream keeps the promise of Channel: who waits for a slot, who is woken
\* and who is cancelled make no difference to what is delivered, but for what a
\* stream that is cut short drops and what a node gives up between two events.
Pending == {"sinking", "waiting", "woken"}
Asking == consumer \in {"reading", "holding"}
InHand == [t \in Tasks |-> IF task[t] \in Pending THEN held[t] ELSE 0]
State == IF ~closed THEN "open" ELSE IF stage = "closing" THEN "closing" ELSE "shut"
Promise == INSTANCE Channel WITH
    Writers <- Tasks, hand <- InHand, ahead <- queue, given <- received,
    state <- State, reading <- Asking, cut <- cutShort
KeepsToChannel == Promise!Spec

=============================================================================
