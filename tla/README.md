# FlowForge in TLA+

FlowForge (`flowforge/`) runs workflows: directed acyclic graphs of typed nodes,
executed by an asyncio engine in waves, with conditional branches, retries,
failure routing, questions that pause a run, checkpoints that continue it, and
an event stream that reports it.  Around the engine stand a service with an HTTP
surface, queue workers, stores in Redis and SQL, a connection pool, a Kafka
event sink, a gateway to MCP tool servers and a node that asks language models.
These modules model the parts of it where order, failure and concurrency decide
whether it is correct, check them with TLC on small instances, and prove the
central results with TLAPS for every value of the constants.

Paths below are relative to the repository; `engine.py` etc. are in
`flowforge/`.

1. Inventory - 2. Modules - 3. Runs - 4. Abstract specification - 5. Proofs -
6. Not modelled, and what comes next

## 1. Inventory

| Component | State it keeps | Operations | What is hard about it | What makes it correct |
|---|---|---|---|---|
| **Graph** (`graph.py`) | nodes, labelled edges, adjacency | validate, in-degrees, roots, topological order, waves | parallel edges with different labels; cycles | an order exists exactly when there is no cycle; a wave is the length of the longest path |
| **Failure policy** (`retry.py`) | attempts, timeout, backoff, `on_error` | `delay_before` | retries against errors that no retry helps | never more attempts than allowed |
| **Scheduler** (`engine.py`) | `_RunState`: node records, `pending` and `taken` counters, ready queue, failures, open questions, outputs | `run`, `resume`, `_drive`, `_drain_settles`, `_settle`, `_attempt`, `_apply_error_strategy` | nodes of a wave end in any order and in six ways; untaken branches must still count down joins; a failing wave is left half settled; resuming | every fate follows from the fates of the predecessors; completed means everything is decided; a pause leaves nothing undone; decided is final; a driven run returns |
| **Checkpoints** (`checkpoint.py`, `engine.py`) | the saved frontier | `_checkpoint`, `_state_from_checkpoint` | which moment is saved; what is not saved | the frontier can be continued from; nothing that is stored as done is done again |
| **Event stream** (`events.py`, `engine.py`) | sequence number, bounded queue, closed flag | emit, close, iterate; `_stream` and its driving task | back-pressure on concurrent emitters, sinks that suspend or raise, nodes that time out in an emit, a consumer that leaves | nothing is lost but what a node gives up between two of its own events; nobody is forgotten in the line; the generator ends |
| **Nodes** (`nodes.py`, `iteration.py`, `llm.py`) | none between calls | `run`, `select_branch` | an answer that arrives in pieces | a decision takes one label; what is emitted is what was sent |
| **Variables** (`variables.py`) | outputs by node | compile, render, resolve | a compiled plan that takes short cuts | rendering a plan is walking the value |
| **Service** (`service.py`, `server.py`, `api.py`) | workflows, store, sink | start, resume, stream, `remember`, `sse_frames` | two clients resume one run; bookkeeping after the last frame | a pause that was told can be resumed; an end that was told cannot |
| **Worker** (`worker.py`) | a Redis list, counters, a heartbeat key | take, handle, run_forever, stop | dies with a job in hand; failing bookkeeping | a job starts at most once; a take is counted once |
| **Connection pool** (`pool.py`) | idle list, count in use, semaphore | acquire, release, close | failure and cancellation at every await | bounded; one owner each; nobody reads another's answer |
| **Redis client** (`store.py`) | pooled connections | execute, save, load, delete | as the pool | as the pool |
| **SQL store** (`sql.py`) | idle list, semaphore, rows with an expiry | save, load, delete, purge | threads that outlive their call; expiry against renewal | permits are exact; only lapsed rows vanish |
| **Kafka sink** (`kafka.py`) | bounded queue, flusher, ready flag, one connection and its lock | `__call__`, flush, `_flush_forever`, close | outage, lost answers, a full queue, two kinds of tasks on one wire, cancelled emitters, a broker that stops reading | an event is in one place until it is settled; `flush()` means it; an emitter gets on |
| **MCP gateway** (`mcp.py`) | catalogue, one session and process per server | discover, call, initialize, request, notify | a process that ends between calls; callers that give up | a server is greeted once and before it works; a lock is always left |
| **LLM node** (`llm.py`, `providers.py`) | none between calls | stream a body, frame it, join its deltas | pieces split and cut anywhere | all pieces, in order; a cut is noticed |
| **Run history** (`services/history`) | events by run and number | consume, query | redelivery | a Java service in front of one SQL statement |
| **Artifacts, CLI, console** | none that outlives a call | | text and I/O | |

How they interact.  The engine calls nodes and awaits them together; nodes call
back to emit events.  `EventStream.emit` calls the sink, which may be Kafka's,
then waits for room in the queue that the consumer of the stream empties.  The
engine saves to a run store between waves; the service saves and deletes in the
same store from outside, after the engine has returned or a terminal frame has
passed.  The worker takes jobs from Redis and calls the service.  HTTP providers,
the Redis client and the HTTP transport of MCP draw on the connection pool.

Everything in Python runs on one event loop, so a step of a model is what one
task does between two suspensions; interleaving happens only at an `await`.
Threads occur in `SqlStore` alone, and there a thread is an actor of its own.

## 2. Modules

| Module | Models | Composes |
|---|---|---|
| `WorkflowGraph` | the graph and the policies as constants, what validation guarantees as assumptions, the rule by which an edge is taken (`Takes`) | |
| `Scheduler` | one run: the driving loop, the nodes of a wave, settling, verdict, resume | `WorkflowGraph` |
| `Dataflow` | what a run promises, without waves, queues and counters | `WorkflowGraph` |
| `Durability` | a run with its store, crashes and recoveries | `Scheduler` |
| `EventStream` | the stream between the driving task, the nodes of a wave with their timeouts, the sink and the consumer | |
| `Channel` | what a stream promises, without waiters, wakeups and cancellations | |
| `Pool` | the connection pool and the three kinds of calls made through it, cancelled at any `await` | |
| `KafkaSink` | the event sink, its flusher, the client's connection, the broker's topic | |
| `Mcp` | the gateway's callers, its clients, their stdio transports and the server processes | |
| `Service` | workers and HTTP clients over one queue and one checkpoint store | |
| `SqlStore` | calls over pooled connections, their threads, one row | |
| `Template` | lookup, walking, compiling and rendering of templates | |
| `GraphOrder` | `topological_order` and `waves`, one edge at a time, of every set of edges, and what they should find | |
| `Framing` | an answer read by read: the end of a body, SSE lines, binary frames, deltas, the LLM node; and what it should find in what was sent | |
| `Codec` | varints, records and record batches as bytes | |
| `Algorithms` | a behaviour that picks one task: a walk, an answer, a template or batches | `GraphOrder`, `Framing`, `Template`, `Codec` |
| `SchedulerProofs` | the inductive invariant, the properties of a run, that `Scheduler` implements `Dataflow`, and the stored frontier through crashes and recoveries | `Durability`, `Dataflow` |
| `AlgorithmProofs` | both walks, for every graph, and answers, for every body, split and end | `GraphOrder`, `Framing` |
| `EventStreamProofs` | the line of waiting tasks, what can be missing, that no node overtakes itself, that `EventStream` implements `Channel` | `EventStream`, `Channel` |
| `PoolProofs`, `KafkaSinkProofs`, `McpProofs`, `ServiceProofs`, `SqlStoreProofs` | the safety of each, for every value of its constants | the module each is named for |
| `MCScheduler`, `MCDurability`, `MCEventStream`, `MCPool`, `MCService` | instances for TLC | |

`Template` and `Codec` are operators of their inputs, `GraphOrder` and `Framing` state
machines of their own.  `Algorithms` puts the four next to each other: its `task` says
which is under way, and the others rest, so one run covers all inputs of small sets.

### GraphOrder and the code

`edges` is what `__init__` has accepted, any set of labelled edges without self
loops; parallel edges with different labels are several.  `walk` says which of the
two walks is under way, and `verdict` how it ended.  `pending`, `order`, `levels`,
`settled` and `next` (`nxt`) are the locals; `ready` is the deque of the one and the
rest of the frontier of the other, and `todo` what is left of the inner loop.
`Visit` and `CountOff` are the two loops, which the walks share but for where a
released node goes (`Release`) and in what order targets are met (`Turn`);
`EnterLevel` is the head of `while frontier`, `Conclude` the comparison at the end,
`BeginLevels` a call of `waves` on the graph that was built.  `sorted` is a choice
among the ascending arrangements.

### Framing and the code

`sent` is what has been read of `body`, `buffer` the local of `sse_data` and
`event_stream_payloads`, `texts` what `LLMNode.run` has emitted and collected.  The
generators pull one another, so the socket is read only when nothing complete is
buffered (`Idle`).  `Receive` is a read of any length, or a chunk; `Ends` is where
`stream_body` returns, and `mode` says when it may; `Breaks` is where it raises.
`Take` is one turn of the inner loops, with what `deltas` and the node make of a
payload (`Absorb`, `Reading`); `TakeTail` is what `sse_data` does after its loop, and
`Completes` the node's return.  A token stands for bytes that a property tells apart,
and a read may end between any two of them.

What an answer should be is said of `sent` as a whole, without a buffer: `Cuts` are
the places where a line or frame begins, `Units` what lies between, `Texts` those that
are pieces of text, up to the first that ends the answer.

### Scheduler, Durability and the code

| Variable | Code |
|---|---|
| `phase` | where the coroutine is: head of `while ready and not failures`, `asyncio.gather`, `_drain_settles` after a wave, `_drain_settles` in `resume`, returned |
| `status branch recovered attempts wave` | the fields of `NodeRun` |
| `pending taken ready failures awaiting waves` | the fields of `_RunState` |
| `outputs` | the keys of `_RunState.completed_outputs` |
| `batch settling` | the locals of `_drive` and the deque handed to `_drain_settles` |
| `upstream` | `NodeContext.upstream`, read when a node's coroutine begins |
| `outcome` | `RunResult.status` |

`Dispatch` is the head of the loop up to the gather; `Start`, `Retry`,
`Complete`, `Pause` and `Fail` are the ways through `execute` and `_attempt`,
with `_apply_error_strategy` and `_validated_branch` inside `Fail` and
`Complete`; `EndWave` is the loop over the gathered records; `Settle` is one turn
of `_drain_settles` with its call of `_settle`; `EndSettle` and `Finish` are the
ends of the two loops; `Resume` is `resume` on the checkpoint of a paused result.

Outputs are reduced to whether there are any, delays and templates to the fact
that an attempt may fail.  The deque and the list are sets, so the model settles
in every order, the code's sorted one among them.

`Durability` adds the store as one cell, `everyWave` for
`checkpoint_every_wave` (chosen once from `Knobs`), and a process that dies
between any two steps.  `Crash` loses everything but the store, and `Recover` is
load, then resume with an answer for every stored question; nothing in the code
prevents a second recovery from the same checkpoint, and the model does not
either.

### EventStream and the code

`asyncio.Queue` is modelled as the library has it: a `get` wakes the longest
waiting `put`, which then looks at the queue again and goes to the end of the
line if it is full.  A waiter that is cancelled stays in line until it runs, and
wakeups pass over it (`InLine`); one that was woken already hands its wakeup on
(`PassWakeup`).  `emit` takes its number before the sink and the queue.
The driver is `drive()` of `_stream`: it cannot be interrupted between an
exception or its terminal event and the call of `close()`.  Leaving the
generator cancels the driver and, through the gather, the nodes.  Nodes run once the
driver has got to its wave (`gathered`); `author` remembers whose each number is.

`execute` emits a node's first event and its last around the retry loop; what is
between them is emitted inside `node.run`, or by `on_retry`, which counts here as
inside.  There, `GivesUp` is `timeout_s` passing in the sink or in the put
(`engine.py:699`), or an error of the sink (`engine.py:703`): the attempt has failed,
its number is in `dropped`, and the node goes on to another attempt or to its last
event while the run goes on.  Around it, `SinkRaises` leaves `execute` and the gather,
and ends the run.  A put that times out while it is woken passes its wakeup on as a
cancelled one does.

### Pool and the code

| Variable | Code |
|---|---|
| `pc` | the `await` each caller is suspended on: the semaphore, `_lock` in `acquire`, in its handler or in `release`, the close of an expired or a returned connection, the connect, the call itself |
| `conn` | the connection the caller has checked out |
| `permits lock idle inUse` | `_capacity`, `_lock`, `_idle`, `_in_use` |
| `closer` | `_closed`, and whether `close` still waits for the lock |
| `sock` | of each connection: whether its far end is there, `uses`, whether `max_idle_s` has passed, and `owed`, the callers whose answers it has yet to deliver |

Taking a free `asyncio.Lock` does not suspend, so a section under the lock is one
step with what leads to it, and other tasks find the lock taken only while its
holder awaits a close inside.  In which order waiting tasks are served is left
open.  The three kinds of callers are `HTTPConnectionPool.request`,
`stream_body` and `RedisClient.execute`; they differ in what they say of a
connection when they are cancelled (`ReusedAfterCancel`), because
`except Exception` does not see a `CancelledError`, and in whether an answer may
ask for its connection to be closed.  `OnFarEnd` are the suspensions that have no
timeout, or are reached through one that has none.

### KafkaSink and the code

| Variable | Code |
|---|---|
| `required ready idle queue` | the sink's `required`, `_ready`, `_idle` (the event `flush()` waits for) and `_queue` |
| `at` | what each emitting task and the flusher is doing: connecting, one of the requests of `connect`, `ensure_topic` and `produce`, or lingering |
| `batch` | what the task is about to send or to queue |
| `lock draining conn owed` | the client's `_lock`, whether its holder is still in `drain()`, the writer, and the answers still to be read on the connection, by whose they are |
| `topic log stalled` | at the broker: the topic, its records, and whether it has stopped reading |
| `fate` | what became of each event: `open`, in one of the counters, raised to the caller, lost with the flusher, or cancelled with the task that emitted it |

`Emit` is `__call__`: in the common case it queues (`Offer`), else it starts the
client first or, in required mode, produces itself.  `Send` takes the lock and
writes, `Drained` is the return of `drain()`, which may be long in coming
(`BrokerStalls`).  `Answered`, `Mismatched`, `TimesOut` and `CutOff` are the ends of
`_roundtrip`: a timed-out request leaves its answer on the wire, the next reader gets a
wrong correlation id, an end of file is not among the exceptions `_flush_forever`
catches.  `Cancelled` hits an emitting task at any `await` of the sink: a node's
timeout, an abandoned stream.  No handler sees it, so the lock is freed, the answer
stays owed, and the event is with nobody.
`Take`, `StopLingering`, `Failed`, `Broken` and `IdleAgain` are the flusher,
`Close` its cancellation.

### Mcp and the code

| Variable | Code |
|---|---|
| `pc want target` | an `mcp_tool` node: resting, in the gather of `discover`, or in a call; the name it uses and the server that was found for it |
| `discovered listed` | `_discovered`, and whose tools are in the catalogue |
| `step` | where the task of a caller with a server is: waiting for `_handshake_lock`, in `initialize`, its notification, `tools/list`, `tools/call`, or done |
| `greeter initialized` | a client's `_handshake_lock` and `_initialized` |
| `lock` | a transport's `_lock`, held from the write of a request to its answer |
| `process hello respawned` | the server process: whether it runs, has ended, or is known to have ended; what it has heard of a greeting; whether it is a second one |
| `owed` | answers not read yet; a cancelled request leaves a `Stale` one, which `Skip` passes over |

`Ensure` is `_ensure`: it starts a process when there is none or `returncode` is
set, which happens only once the child watcher has run (`Reap`); before that a
write breaks (`BrokenPipe`) or the output ends (`EndOfOutput`).

### Service and the code

`queue` is the Redis list, `store` the checkpoints (a run's checkpoint is the
number of times it has paused), `at job from result mode` the locals of
`handle`, `resume` and `sse_frames`, `tally` the worker's counters.  `Take` is
`BRPOP` with `start`, `Open` a client's `start` or `stream`, `Drive` the engine's
return, `Yield` the terminal frame, which tells the client (`known`) before
`remember_event` saves; `Remember` and `RememberFails` are `remember`, which may take
effect without an answer; `File`, `Finish` the rest of `handle`; `Crash` a worker
process replaced by a new one; `Leaves` a client that closes its stream, on its
terminal frame or before it.  `handled`, `starts`, `known`, `overlapped` and `cutOff`,
the runs whose bookkeeping broke off behind a frame, are history.
How the engine gets from a checkpoint to a result is `Scheduler`'s business.

### SqlStore and the code

`capacity idle closed ready` are the fields of the store, `at todo held` the
locals of `_run`: a call is a list of transactions, `CREATE TABLE` before the first
one and a delete after a load that finds its row lapsed.  `threads` are the
transactions in worker threads, each on a connection; the caller of one may be
gone.  `Checkout`, `Opened` and `ConnectFails` are `_checkout`, `GiveBack` and
`Discard` are `_release`, `Commit` and `Raised` the two ends of
`_in_transaction`, `Cancel` what `finally` and `except BaseException` do when
`except Exception` does not see a cancellation.  A row is the number of the save
that wrote it and whether its time is up.

## 3. Runs

| Run | Instance | Shows |
|---|---|---|
| `whole_run` | ten nodes: a decision that defaults its failures and one that routes them, a target reached by two labels, a failure edge, defaults, retries, two roots, three questions in up to three waves, joins; at most two nodes at a time | types and attempts, exact counters, fates that follow the edges, increasing waves, what labels a decision takes, what a node is given, that a pause leaves nothing undone, that no fate is revised, that the run returns, and refinement of `Dataflow` under fairness |
| `crashing` | six nodes, a question next to a slow branch, failure edges, joins; with `checkpoint_every_wave` and without; two crashes, three resumes | the stored frontier is consistent and, with the knob, at most one wave old; stored work is not repeated |
| `streams` | `Wide`: three nodes with two events each on a queue of two; `Narrow`: a queue of one, two nodes with timeouts, one of which has something to tell from inside; `Left`: unbounded, with a sink that suspends and may raise and a consumer that may leave | nothing is missing under back-pressure but what a node gave up between two of its events, a node's events stay in order, no waiter is forgotten, the generator always finishes, and refinement of `Channel` |
| `pool` | three callers, at most two connections, one cancellation anywhere, far ends that close, connections that age, `close` at any time | never too many connections, no permit lost but by a cancellation, one owner per connection, exact counts, nothing idle after `close`, no caller reads another's answer, every caller is served unless the far end holds the pool for ever |
| `kafka` | two emitters and the flusher, a queue of two, batches of two, three events, two faults (timeouts, refusals, cancelled emitters, lost connections, a broker that stalls), `required` or not | every event is in one place until it is settled once, what is counted as published is in the topic, `flush()` means it, an emitter gets on unless the lock's holder is in `drain()` for ever |
| `mcp` | two callers, two servers that may or may not have the tool, two calls, two faults | one handshake per server, a greeting before work, a lock that is always left |
| `service` | two workers, two clients, two jobs, two pauses, two resumes, two faults, plain and streamed | a job starts at most once, the store agrees with what callers were told, by response or frame, unless the run was driven twice at a time or the bookkeeping behind a frame broke off; a take is counted once |
| `sql` | two callers, two connections, three calls, two faults, expiry and `close` at any time | permits add up, only lapsed rows vanish by themselves |
| `algorithms` | every set of edges with two labels between three nodes; every template of up to three pieces in containers of two; bodies of lines and frames, and of any three tokens, in every mode, split and ended anywhere; batches of two records | a graph is accepted exactly when it has no cycle, its order and its waves are right, an error names exactly what no order reaches; the compiled plan agrees with the walked one; splits do not matter, a cut of a stated length is noticed; batches come back |

`pool` takes about two minutes (63,488 states), `service` one (its workers, clients and
jobs are interchangeable: `MCService` declares them symmetric, and only invariants are
checked), `streams` (462,889) and `kafka` (200,645) half a one, `mcp` and `sql` less
than one, the others seconds.  Deadlock is checked everywhere except where noted: a
state that is meant to be final has an explicit stuttering action (`Returned`, `Over`,
`Finished`, `Closed`, `Done`).  It is not checked in the runs of `Pool`, since a closed
pool that nobody uses stops; of `Service`, where all jobs are done once the bounds are
used up; in `algorithms`, where some behaviours end with their output; and in
`abandoned_full`, where the system really stops.

Three further runs state what the documentation says and find the code doing
something else.

| Run | Documented | What happens |
|---|---|---|
| `abandoned_full` | leaving the stream cancels the run promptly (`engine.py:624`) | `close()` waits for a slot in a queue nobody reads |
| `pool_half_read` | an unfinished response closes the connection: "a half-read body poisons the next caller" (`pool.py:173`) | `request` cancelled while it reads returns the connection as reusable (`pool.py:242`), and the next caller reads the rest of the old answer |
| `sql_exclusive` | "handed to worker threads one at a time, never concurrently" (`sql.py:146`) | `_run` cancelled while its thread works returns the connection as reusable (`sql.py:225`), and the next call hands it to a second thread |

### Divergences without a run

These came up while modelling.  The models do what the code does; the properties
above are stated so that they hold of it, and name the exception where there is
one.

- `resume` rebuilds the outputs from completed records (`engine.py:595`), while the
  running engine also enters those of absorbed failures (`engine.py:428`): after a
  pause a node can get less upstream than it would have without it.  "The scheduler
  picks up exactly where it stopped" (`engine.py:260`).  `InputsAreWhole` names who
  can miss what, and that nothing else is missing.
- A node that is only behind a cycle is left over by the walk, and named by
  `CycleError`, too (`graph.py:205`); `README.md:444` says that whatever is left is in
  a cycle.  The message, "these nodes never reach in-degree 0" (`errors.py:20`), is
  what `StuckIsExact` in `OrderIsSound` says.
- A decision whose evaluation fails under `on_error: default` gets a default
  without a branch (`engine.py:794`), which `_settle` reads as every branch
  (`engine.py:748`); the node "picks one labelled outgoing edge"
  (`nodes.py:292`).  `DecisionTakesOneLabel` says that such a decision takes all its
  labels and every other settled one at most one; `gate` in the run's graph is one.
- A per-wave frontier carries the questions open at that moment
  (`engine.py:443`, `engine.py:568`), so recovering a crash demands answers;
  `tests/test_durability.py:152` says a crash checkpoint has nothing awaiting.
- Two nodes of a wave that wait on a full bounded stream are delivered out of
  sequence, since the number is taken before the wait (`events.py:116`).  A node that
  times out in the sink or in that wait, or whose sink raises inside its `run`, has
  taken a number that nobody gets, on a stream that is not cut short
  (`engine.py:699`, `engine.py:703`).  `README.md:712` promises "ordered SSE delivery",
  and `tests/test_streaming.py:173` compares the numbers with `1 .. n`.
  `DeliversTheRun` says that each number that is missing lies between two delivered
  events of its node, that no other is, and that each node's events are in order.
- `sse_frames` hands out the terminal frame before `remember_event` saves
  (`service.py:208`), so a client that leaves on it, or a store that then fails, leaves
  a pause that the client was told of and nobody stored.  `StoreTellsTheSame` excepts
  runs whose bookkeeping broke off there (`cutOff`), those two callers drove at once
  (`overlapped`), and no other.
- An emitting task that is cancelled in Kafka's sink leaves its event in neither
  counter of `stats()`, as does a flusher that dies of an end of file.  They are
  `cancelled` and `lost` in `EveryEventIsAccounted`.
- Several awaits have no timeout: `drain()` and `wait_closed()` of the pool
  (`pool.py:55`, `:233`, `:317`), everything `RedisClient` does (`store.py:137-158`) and
  Kafka's `drain()` (`kafka.py:429`).  A far end that falls silent keeps a permit, the
  pool's lock or the client's lock, and the emitters of a sink that is not even required
  wait behind its flusher.  `CallerIsServed` and `EmitterReturns` name this as their one
  exception.
- Kafka's `_ready = False  # force a reconnect` (`kafka.py:750`) does not close an
  open connection, and `connect` keeps an open writer (`kafka.py:373`): the late
  answer stays ahead of the next request, whose read then fails and disconnects.
- An MCP server that has ended is started again inside the next request
  (`mcp.py:89`), and the new process gets `tools/call` without a handshake.
  `GreetedBeforeWork` excepts processes that took the place of another.
- A chunked answer that is cut where a chunk's size is expected reads as size 0
  (`pool.py:334`), and one that is delimited by the close has no length to check:
  both end as complete.  `CutIsNoticed` is about answers with a length.
- A load that finds its row lapsed deletes it in a second transaction
  (`sql.py:281`), also when it has been saved again in between.
  `OnlyLapsedRowsVanish` names this as its one exception.
- A cancellation while `release` of either pool waits keeps its permit (`pool.py:147`,
  `sql.py:214`).  `PermitsAreConserved`, in `CountsAreExact`, and `PermitsAreExact`
  allow one per cancellation.

### Bounds

The graphs are fixed per run and small, but every feature the rules of settling
distinguish occurs in them next to every other it can meet: parallel edges into one
join, a label and no label into one target, skip chains of length two, a failure routed,
defaulted and fatal, several of them in one wave, a pause beside each.  `MaxAttempts` is
2 where a retry exists, which separates "one left" from "none left".  The theorems in
section 5 remove the bound on the graph. `MaxCrashes = 2` and `MaxResumes = 3` allow a
crash of a recovered run and a resume after it; the store is overwritten or emptied in
between, so more of them reach no new store.  In `EventStream` three emitters and a
queue of two suffice for a waiter to be overtaken, woken in vain and cancelled while
woken, and a queue of one with two nodes and the driver for it to time out in either
state; the events per node only have to fill the queue, and a third gives a node
something to tell from inside its `run`.

In `Pool` two connections and three callers are the least for a caller to wait for
a permit while another waits for the lock behind a third.  `MaxCancels = 1` puts
one cancellation at every suspension point.  `MaxUses = 0` is the code's default of
no limit, `MinSize = 0` lets every aged connection expire.  Three streams stand
for commands as well, whose steps are among theirs; `request` is the subject of
`pool_half_read`.  The callers are alike, so liveness is checked for one of them.

In `KafkaSink` three events fill a queue of two and the flusher's hand; a fault followed
by a second one is a timeout or a cancelled emitter whose late answer meets a lost
connection, a refusal or another, or a broker that stalls behind either.  In `Mcp` two
callers meet in a handshake of either server, and the second fault hits the repair of
the first; with two calls a caller can come back to a server that ended.  In `Service`
two clients answer the same pause while two workers share the queue; two pauses tell an
old checkpoint from a new one.  In `SqlStore` three calls are the least for a load, a
save and a third that would notice, and `sql_exclusive` needs one connection only.  In
`Algorithms` a second piece is what a first one can be confused with; templates nest two
deep, where the plan's static and moving items can be out of order.  In `GraphOrder`
three nodes with two labels have a cycle with something before and behind it, a long
path beside a short one, and parallel edges on either.  In `Framing` three tokens make a
whole line, a broken one, one without an end, and the same of frames; two pieces are
told apart by their texts.  The theorems of section 5 remove the bounds of every module
but `Template` and `Codec` for the safety properties.

### Fairness

`Scheduler!FairSpec` asks that the driving loop and the running nodes go on (weak
fairness of everything except `Resume`): the event loop runs every task that is ready,
and a node's `run` is assumed to end, which is what `timeout_s` is for.  Nobody is
obliged to answer a question.  `EventStream!FairSpec` gives weak fairness to each task
and to the consumer's reads; leaving, a timeout and an error of the sink are never
forced. `Pool!FairSpec` gives strong fairness to taking a permit and to entering the
lock, since asyncio's semaphore and lock serve their waiters in order, and weak fairness
to an HTTP connect, which has a timeout.  It asks nothing of the far end: in the places
`OnFarEnd` names (a call, the close of a connection, a connect of the Redis client) a
task may stay for ever.  So `CallerIsServed` says that a waiting caller is served, or
that in the end the far end holds the pool for ever (`Held`): the lock, or every permit.
`KafkaSink!FairSpec` gives each task's requests strong fairness (the order of the lock's
waiters, and `request_timeout_s` on every answer), and weak fairness to the flusher, to
the election of a leader, which `ensure_topic` polls for, and to the return of `drain()`
while the broker reads.  That it reads is not asked: `EmitterReturns` says that each
emitter gets on, or that in the end the lock's holder is in `drain()` for ever before a
broker that does not read (`Stuck`).  `Durability`, `Mcp`, `Service` and `SqlStore` have
no liveness property and no fairness.

## 4. The abstract specifications

`Dataflow` has a status and branch per node and one outcome.  A node may begin
when all predecessors are settled and an edge into it is taken, is skipped when
none is, ends in one of the ways its kind and policy allow, and the run concludes
with the verdict its nodes call for.  `Scheduler` implements it with these three
variables mapped to themselves.  TLC checks this with the fairness of both sides
(`KeepsPromise`); TLAPS proves the safety part.

`Channel` has an author per number, one item in each writer's hand, what is put, what is
given, and whether writers may still write and the reader still reads.  A writer numbers
an item when its hand is empty and puts it behind what is there, or gives it up if it
has had one accepted before and will have another (`GiveUp`, `MadeUpFor`); the mark goes
behind everything, unless the stream is cut short, which alone may drop an item without
another to follow.  `EventStream` maps a task's hand to what it holds while it is in the
sink or in line, asleep or woken; everything else about waiting disappears.  TLC checks
the refinement (`KeepsToChannel`) and TLAPS proves it (`StreamIsAChannel`).  `Channel`
has no fairness; that the stream ends is `StreamEnds`.

## 5. Proofs

Each module's assumptions are its named `ASSUME`: sets are finite where they are
counted, special values (`Nobody`, `Stale`, `NoJob`) are not members, bounds are
natural numbers.  For `WorkflowGraph` they are that the graph is finite, edges join
nodes, `NoBranch` is not a label, policies are well typed, and `Acyclic` (every
nonempty set of nodes has a member without predecessors in it), which is what
`Graph.__init__` establishes.

**Scheduler.**  `SchedulerProofs` proves the invariant

    IInv == TypeOK /\ PhaseInv /\ RecordInv /\ CountersAgree /\ PositionInv /\ WaveInv

`CountersAgree` alone is not inductive: that a target whose counter reaches zero has not
been in play before needs `PositionInv`, which reads the counters as sets (a node is in
the ready queue, in the batch or started exactly when all edges into it have been
drained and one was taken).  `PositionInv` in turn needs to know which queues are empty
in which phase (`PhaseInv`) and what the records say of their members (`RecordInv`).
The hard step is `Settle`.  Lemma `SettleEffect` puts what it does in terms of sets,
with two counting lemmas for the arithmetic of the counters; `SettleIInv` follows from
it.  Actions that leave the drained nodes alone share lemma `Frame`.  From the invariant
follow, for every graph and policy: `TypeCorrect`, `CountersAreExact`, `FatesFollow`,
`WavesAscend`, `NoNodeIsForgotten`, `PauseIsLast` and the action property
`FatesAreFinal`; the runs check the middle four in pairs (`RunMovesAlongEdges`,
`LoopRunsDry`). `NoNodeIsForgotten` is where acyclicity enters: if the loop ran dry with
some node undecided, a minimal undecided node would have all its predecessors drained,
and so would be in play.  `OneLabelRuns` adds `LabelInv` (a completed decision has
chosen one of its labels, unless a default took its place) and `ChoiceInv` (a failed
node was recovered exactly if it has a branch), and is proved of every graph, with
decisions that default or not.  The refinement uses `ChoiceInv` as well; `Refinement`,
`Spec => Promise!Spec`, follows action by action.

What a node is given is a statement about the outputs that are entered at the end of
a wave and rebuilt by `resume`.  `GivenInv` says which are there, and to whom a missing
one is missing: to nodes behind a question that has been answered.  At a `Resume` that
comes from lemma `QuestionsBlock`: of a paused run, whatever is not decided lies behind
a question, again by acyclicity.  `NodesGetWhatThereIs` follows, with its exception.

**Durability.**  `SchedulerProofs` proves for any graph, any number of crashes and
recoveries, and any choice of the knob

    DInv == IInv /\ StoreIsSound /\ Histories /\ WithinOneWave /\ KnowsTheStore

`StoreIsSound` is what `IInv` says of a run, said of the fields that are stored: the
counters are counts of edges from the nodes that are done in the store, what is in
play there has all of them done and one taken, what is not waits.  Lemma
`RestIsSound` gets it from `IInv` at the moments `_checkpoint` is called, when nothing
is in flight, and lemma `RecoverIInv` gets `IInv` back
from it when `resume` rebuilds a run; so the two carry each other around every
crash, and a recovered run is a run: `RecoveredRunsAreRuns` states the properties
of `Scheduler` that carry over.  `WithinOneWave` relates the store to the run that
is being driven, and `KnowsTheStore` says that a fate which is stored is the fate the
run has, from which `CrashIsCheap` and the action property `SavedWorkStays` follow.
The stored cell is typed by `Checkpoints`; that `NoCheckpoint` is none of them is
part of `DurabilityShape`.

**GraphOrder.**  `AlgorithmProofs` proves of both walks, for any nodes, labels and edges,

    Lines == Types /\ Counted /\ InLine /\ AtHand /\ Behind /\ Avoids /\ Stages

`Counted` says that a counter is the number of edges that are left, parallel ones each
for itself; `InLine`, that a node whose counter is zero is in one place, walked, ready
or next, and no other node is in any; `Behind`, that what was walked is behind its
predecessors; `Avoids`, that no set of nodes in which nobody is first is ever entered.
When a walk ends short of the count, the nodes that are left hold each other up, which
is such a set, and the largest by `Avoids` (`CycleErrorIsExact`); when it does not,
`Avoids` leaves no room for one (`ConstructorIsSound`).  So `waves` never raises.
`Layers` adds of its levels that they have each node once, behind all its predecessors
and directly behind one (`WavesAreLongestPaths`); the last needs that what comes next
was released by the level at hand (`LayersEnter`).

**Framing.**  For every set of bodies, of both formats and in every mode, the same module
proves

    AInv == FTypes /\ InPlace /\ AtCut /\ Said /\ NotStopped /\ Stopped

`Said` is the first half of `PiecesSurviveSplits`: the list has the texts of the units
that end by `Taken`, the place up to which the buffer has been emptied.  It is not
inductive without `AtCut`: that `Taken` is a cut, and that what begins at any cut
before it ends by it (`Chain`).  Three facts about cuts carry the proof.  Reading more
moves none (`CutsStay`), because whether n tokens are a line or frame does not depend
on what follows them (`UnitIsLocal`); so a read, of whatever size, changes nothing
that was to be said.  Between a cut and the end of what is complete there is no other
(`NoCutBetween`), so `Take` adds one unit, behind all others (`UnitTaken`).  And where
nothing is complete, only a last line without its end can follow (`NothingFollows`),
so a node that completes has said all.  `Cuts` is a least set, an intersection: each of
these facts is proved by giving a set that is linked, without an induction.
`NodeSaysWhatWasSent` and `CutsAreNoticed` follow.

**EventStream.**  `LineInv == Types /\ Line /\ Slots /\ DriverRests` is about who
waits.  `Line` says that whoever is in line waits, once, and that whoever waits and was not
cancelled is in line; `Slots`, that while such a task waits, the queue's items and the
tasks that were woken and have not looked at it yet fill it.  The second is not
inductive without the first, and would fail if a task that was woken and is cancelled
did not pass its wakeup on.  `NobodyIsForgotten` follows.
`Accounted` is about events, as long as the stream is not cut short: what was received
and what is queued, as one sequence, holds numbers that no task has in hand; those in
hand, those put and those given up are together exactly `1 .. seq`, each once
(`Kept`); a task is where the stage lets it be (`InStep`, `Hands`); and the verdict and
the sentinel come last.  A put adds to the sequence, a get moves the border within it, giving up moves a number from a hand to `dropped`.
`Bracketed` says where those lie: a node that is past its first event has had one
accepted, and when it has none left to emit, one after whatever it gave up.  It holds
because a timeout or an error of the sink is a node's own only inside its `run`, which
its first and last events are outside of; it needs that a task emits its numbers in
ascending order (`GivenUpBetween`).  `StreamIsComplete` follows from both.
`Course` holds on streams that are cut short as well: how far the driver has come says
what its task does, whether the nodes are made and whether the stream is closed, and a
suspended task holds a number unless it is the driver with the sentinel
(`CourseIsKept`).  With it each step is one of `Channel`, or leaves its state alone:
a put that finds no room changes no hand, a wakeup none either, a cancellation drops
one, a timeout is `GiveUp`, which `Bracketed` allows.  `StreamIsAChannel` follows, and
order is then a matter of `Channel`'s few steps:
`Ordered` says that of one author's numbers those given are below those put, and these
below the one in hand (`ChannelStep`, `NobodyOvertakesItself`).  All hold for every
queue size, number of events, and kind of sink.

**Pool.**  `PoolProofs` proves `Bounded` and `ClosedPoolStaysEmpty` for any
callers, sockets, sizes and number of cancellations, from

    PInv == Types /\ PermitsAreBounded /\ Bounded /\ ClosedPoolStaysEmpty

`PermitsAreBounded` says that free permits and callers holding one together
never exceed `max_size`: permits are lost, never made.  `Bounded` follows not from
it but beside it: a new connection is opened only when the idle list is empty, so
then only callers with permits count; every other step moves a connection between
the list and a caller, or drops it.  Lemma `MoveCount` says what the change of one
caller's place does to the two sums.

`Counts` is the other direction: permits, and `_in_use` against the callers that are
counted in it, are off by at most the number of cancellations (`PermitsConserved`,
`InUseIsCounted`, together `CountersCanBeReliedOn`).  Its hard case is `max(0, _in_use -
1)`, which hides a decrement too many.

    Own == Ownership /\ Lost /\ Answers

follows the connections: each that exists is once in the idle list, with exactly one
caller, or `Lost`, which takes a cancellation.  Every step that passes one on is a
`Handover` of one caller, and lemma `Transfer` proves once that a handover keeps
`Own`; the steps then only say what they hand over.  `ConnectionsHaveOneOwner`
follows by counting.  `Answers` says what is unread on a connection, and needs
`Careful`: no caller is of the kind `request`.  That is so of the Redis client's
pool, whose calls are all `execute`, and of a pool used for streams; of a pool with a
`request` in it the property is false, which is what `pool_half_read` shows, and
`AnswersAreOwn` says that nothing else makes it false.  What does not need `Careful`
is proved without it.

**KafkaSink.**  `KInv == Types /\ EventInHand /\ PublishedIsInTopic /\ FlushMeansSent`:
`EventInHand` says that an emitter that is not at rest has its event in hand, and
the two properties follow through the answers owed on the wire, because an answer
is only believed by the task whose request it is and by then the record is in the
log; an emitter that is cancelled turns its answer into a stale one, which nobody believes.
For `EveryEventIsAccounted` the invariant, `AInv == KInv /\ Hands /\ OnePlace`,
is stronger than the count: `Hands` bounds what each task can hold (nothing when it
rests, at most `BatchSize` events, one for an emitter), and `OnePlace` says that the
queue and the batches have no repetitions, are disjoint and hold exactly the open
events, so that the sum of the property counts each of them once.

**Mcp.**  `MInv == Types /\ TasksFollowCaller /\ Handshake /\ Heard /\ LockIsServed`.
`Handshake` names the holder: whoever is in a handshake holds its lock, so there is
one, and works only once `initialized` is set.  `Heard` follows the greeting into
the process: between `initialize` and the notification the process has been asked,
or is a second one.  Without it `GreetedBeforeWork` breaks at `Ensure`, which may
replace the process between the two.  All paths that raise share lemma `Raising`,
both messages lemma `Ensuring`, all steps of a caller at rest `Rearranging`.

**Service.**  `StartedOnce` is proved from
`HistoryInv == QueuedOnce /\ BusyWithStarted /\ NothingBeforeStart /\ StartedOnce`: the
places a job can be in (not yet queued, queued once, taken) exclude each other, and
nothing happens to a run before it is started.  `EachTakeCountsOnce` is inductive with
types.  `StoreTellsTheSame` needs `StoreFollows`: of a run that is not overlapped, at
most one actor is busy with it, and the store agrees with what was told unless a client
has the terminal frame and the bookkeeping behind it is yet to be done (`Telling`) or
broke off (`cutOff`).

**SqlStore.**  `QInv == Types /\ Following /\ PermitsAreExact`: a caller holds a
connection exactly while it uses or closes one, and a thread that was not left
behind is the one thread of a caller that uses its connection.  Lemma `OneMoves`
says what one caller's move does to the number of those that are out, `GivingBack`
is `_release`.  `RowsAreKept` is about the numbers of saves: a number is given out
once (`Numbered`), a call saves in one transaction (`SavesOnce`), so a save whose row
was seen is over (`SeenIsPast`), and its row, once lapsed, can only be replaced by one
with another number.  Hence a sweep that is under way or ahead is of a lapsed row, or
of another row than the one that is there (`SweepsLapsed`), which also holds for the
threads that were left behind.

Only model-checked: all liveness (`RunReturns`, `StreamEnds`, `CallerIsServed`,
`EmitterReturns`, the fairness part of the refinement: liveness under fairness is beyond
the prover); and `TemplateAgrees` and `BatchesSurvive`, about functions that are
recursive, so that what they compute for every input would be proved by an induction
that is not available to the provers.  Every other property of a passing run is a
theorem, one of them under an assumption the code needs for it: `Careful`.

## 6. Not modelled, and what comes next

Not modelled:

- *Iteration node*: a semaphore and a gather around whole sub-runs; each sub-run is
  a run of `Scheduler`.  Its items emit on the node's stream at the same time
  (`iteration.py:124`, `:134`), and one that is left behind when another fails may do
  so after the node's last event; `EventStream` lets a node emit one event at a time.
- *Run history*: a Java service whose deduplication is one SQL statement.
- *Text*: regular expressions, JSON, HTTP and RESP framing, the bodies of Kafka's
  other requests, vendor request bodies, signing, profiles, routing, the command
  line, the console.
- *Worker heartbeat and drain*, statistics, durations, backoff delays.
- *MCP over HTTP* (a pooled request, which is `Pool`'s) and `validate_arguments`.

Limits of what is modelled:

- In `EventStream` a timeout may also hit what `on_retry` emits, which in the code is
  outside `wait_for`: the model does more than the code there.
- In `Service` a store call that is given up takes effect at once or never, not
  later.
- `Mcp` has no liveness property: a stdio request has a timeout, but a server that
  answers neither it nor the next one is within its rights.  A server that cannot be
  started at all (`create_subprocess_exec`, `mcp.py:90`) is not modelled.
- `Framing` splits bodies between tokens, not within the line that holds a chunk's
  size; a checksum stands for the bytes it covers.  A body with a length of 0 ends at
  once, while the code reads it to the end of the file (`pool.py:345`).
- `SqlStore` has one row, and a connection that is lost while it is being opened for
  a cancelled call is forgotten, as the code forgets it.  Two transactions on one
  connection, which `sql_exclusive` reaches, commit independently of each other here.
- Sets stand for the queues of `Scheduler` and for waiting tasks everywhere but in
  `EventStream`.

Next: the iteration node over `Scheduler`'s outcomes; an abstract specification of
the pool and its refinement; the deduplication by `(run_id, seq)` against redelivery.
