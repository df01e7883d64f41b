----------------------------- MODULE Scheduler -----------------------------
(***************************************************************************)
(* WorkflowEngine._drive, resume, _settle and _attempt (flowforge/         *)
(* engine.py): one run of one workflow.                                    *)
(*                                                                         *)
(* The driving loop takes the whole ready queue as a wave, runs its nodes  *)
(* concurrently under asyncio.gather, waits for all of them, then settles  *)
(* them: each settled node counts down its successors, a successor whose   *)
(* count reaches zero becomes ready if some edge into it was taken and is  *)
(* skipped (and settled in turn) if none was.  A run ends when nothing is  *)
(* ready; it is paused if a node asked a question, and resume answers all  *)
(* questions at once and goes on.                                          *)
(*                                                                         *)
(* What is abstracted: outputs are reduced to whether a node has an entry  *)
(* in completed_outputs; the FIFO deque `settling` and the list `ready`    *)
(* are sets, so settling is explored in every order and not only in the    *)
(* sorted one; nodes unlocked while draining join `ready` at once, which   *)
(* nothing reads before the drain is over.                                 *)
(***************************************************************************)
EXTENDS WorkflowGraph

CONSTANT MaxConcurrency     \* cap on running nodes; 0 is Python's None

ASSUME MaxConcurrencyShape == MaxConcurrency \in Nat

VARIABLES
    phase,      \* where the driving coroutine is, see Phases
    outcome,    \* RunResult.status; "running" until there is one
    waves,      \* _RunState.waves
    status,     \* NodeRun.status
    branch,     \* NodeRun.branch
    recovered,  \* NodeRun.recovered
    attempts,   \* NodeRun.attempts
    wave,       \* NodeRun.wave; 0 is None
    pending,    \* _RunState.pending: incoming edges not yet counted down
    taken,      \* _RunState.taken: incoming edges that were taken
    ready,      \* _RunState.ready
    batch,      \* the wave being gathered
    settling,   \* nodes whose successors are still to be counted down
    failures,   \* _RunState.failures
    awaiting,   \* _RunState.awaiting: nodes with an unanswered question
    outputs,    \* keys of _RunState.completed_outputs
    upstream    \* NodeContext.upstream: predecessors whose outputs n was given

records == <<status, branch, recovered, attempts, wave>>
counters == <<pending, taken>>
vars == <<phase, outcome, waves, records, counters, ready, batch, settling,
          failures, awaiting, outputs, upstream>>

\* "loop" is the head of `while ready and not failures`, "gather" the await of
\* the wave, "settle" the drain after a wave, "answers" the drain that resume
\* does before it enters the loop, "done" the return of the result.
Phases == {"loop", "gather", "settle", "answers", "done"}
Statuses == {"pending", "running", "completed", "failed", "paused", "skipped"}
Outcomes == {"running", "completed", "failed", "paused"}

-----------------------------------------------------------------------------

\* A node whose fate is known: it will not run (again) in this run.
Decided(n) == status[n] \in {"completed", "failed", "skipped"}
Started(n) == status[n] \in {"running", "completed", "failed", "paused"}

\* Nodes holding a semaphore slot.
RunningForever == {n \in batch : status[n] # "pending"}     \* (mutant) never released
Running == {n \in batch : status[n] = "running"}

EdgeTaken(e) == Takes(e, status[e.source], branch[e.source])

-----------------------------------------------------------------------------

Init ==
    /\ phase = "loop"
    /\ outcome = "running"
    /\ waves = 0
    /\ status = [n \in Nodes |-> "pending"]
    /\ branch = [n \in Nodes |-> NoBranch]
    /\ recovered = [n \in Nodes |-> FALSE]
    /\ attempts = [n \in Nodes |-> 0]
    /\ wave = [n \in Nodes |-> 0]
    /\ pending = Indegree
    /\ taken = [n \in Nodes |-> 0]
    /\ ready = Roots
    /\ batch = {}
    /\ settling = {}
    /\ failures = {}
    /\ awaiting = {}
    /\ outputs = {}
    /\ upstream = [n \in Nodes |-> {}]

\* The loop takes everything that is ready; each execute() coroutine reads the
\* outputs of its predecessors before its first await.
Dispatch ==
    /\ phase = "loop"
    /\ ready # {}
    /\ failures = {}
    /\ waves' = waves + 1
    /\ batch' = ready
    /\ ready' = {}
    /\ wave' = [n \in Nodes |-> IF n \in ready THEN waves + 1 ELSE wave[n]]
    /\ upstream' = [n \in Nodes |-> IF n \in ready
                                    THEN Predecessors(n) \cap outputs
                                    ELSE upstream[n]]
    /\ phase' = "gather"
    /\ UNCHANGED <<outcome, status, branch, recovered, attempts, counters,
                   settling, failures, awaiting, outputs>>

Executing(n) ==
    /\ phase = "gather"
    /\ n \in batch
    /\ status[n] = "running"

UnchangedByNode ==
    UNCHANGED <<phase, outcome, waves, wave, counters, ready, batch, settling,
                failures, outputs, upstream>>

\* The node gets the semaphore and begins its first attempt.
Start(n) ==
    /\ phase = "gather"
    /\ n \in batch
    /\ status[n] = "pending"
    /\ MaxConcurrency = 0 \/ Cardinality(Running) < MaxConcurrency
    /\ status' = [status EXCEPT ![n] = "running"]
    /\ attempts' = [attempts EXCEPT ![n] = 1]
    /\ UNCHANGED <<branch, recovered, awaiting>>
    /\ UnchangedByNode

RetryOnceMore(n) ==     \* (mutant) off by one
    /\ Executing(n)
    /\ Kind[n] # "await"
    /\ attempts[n] <= MaxAttempts[n]
    /\ attempts' = [attempts EXCEPT ![n] = @ + 1]
    /\ UNCHANGED <<status, branch, recovered, awaiting>>
    /\ UnchangedByNode

\* An attempt raised or timed out and the policy allows another.  The node
\* keeps its semaphore slot through the backoff.
Retry(n) ==
    /\ Executing(n)
    /\ Kind[n] # "await"
    /\ attempts[n] < MaxAttempts[n]
    /\ attempts' = [attempts EXCEPT ![n] = @ + 1]
    /\ UNCHANGED <<status, branch, recovered, awaiting>>
    /\ UnchangedByNode

Complete(n) ==
    /\ Executing(n)
    /\ Kind[n] # "await"
    /\ \E b \in Choices(n) : branch' = [branch EXCEPT ![n] = b]
    /\ status' = [status EXCEPT ![n] = "completed"]
    /\ UNCHANGED <<recovered, attempts, awaiting>>
    /\ UnchangedByNode

\* NodePaused is never retried and is not a failure.
Pause(n) ==
    /\ Executing(n)
    /\ Kind[n] = "await"
    /\ status' = [status EXCEPT ![n] = "paused"]
    /\ awaiting' = awaiting \cup {n}
    /\ UNCHANGED <<branch, recovered, attempts>>
    /\ UnchangedByNode

\* The last attempt raised, or an error arose outside the retry loop: a
\* template that does not resolve, a branch the graph does not offer.  Those
\* fail the node whatever attempts are left.  _apply_error_strategy absorbs
\* the failure or leaves it to stop the run.
Fail(n) ==
    /\ Executing(n)
    /\ \/ /\ OnError[n] = "default"
          /\ status' = [status EXCEPT ![n] = "completed"]
          /\ recovered' = [recovered EXCEPT ![n] = TRUE]
          /\ UNCHANGED branch
       \/ /\ RoutesError(n)
          /\ status' = [status EXCEPT ![n] = "failed"]
          /\ recovered' = [recovered EXCEPT ![n] = TRUE]
          /\ branch' = [branch EXCEPT ![n] = ErrorBranch[n]]
       \/ /\ OnError[n] # "default"
          /\ ~RoutesError(n)
          /\ status' = [status EXCEPT ![n] = "failed"]
          /\ UNCHANGED <<recovered, branch>>
    /\ UNCHANGED <<attempts, awaiting>>
    /\ UnchangedByNode

Lost(n) == status[n] = "failed" /\ ~recovered[n]

EndWaveCompletedOnly ==     \* (mutant) an absorbed failure has no outputs
    /\ phase = "gather"
    /\ \A n \in batch : status[n] \notin {"pending", "running"}
    /\ LET lost == {n \in batch : Lost(n)}
           settled == {n \in batch : ~Lost(n) /\ status[n] # "paused"}
       IN  /\ failures' = failures \cup lost
           /\ outputs' = outputs \cup {n \in settled : status[n] = "completed"}
           /\ settling' = settled
           /\ phase' = IF lost = {} THEN "settle" ELSE "loop"
    /\ batch' = {}
    /\ UNCHANGED <<outcome, waves, records, counters, ready, awaiting, upstream>>

EndWavePausedSettles ==     \* (mutant) a paused node unblocks its successors
    /\ phase = "gather"
    /\ \A n \in batch : status[n] \notin {"pending", "running"}
    /\ LET lost == {n \in batch : Lost(n)}
       IN  /\ failures' = failures \cup lost
           /\ outputs' = outputs \cup (batch \ lost)
           /\ settling' = batch \ lost
           /\ phase' = IF lost = {} THEN "settle" ELSE "loop"
    /\ batch' = {}
    /\ UNCHANGED <<outcome, waves, records, counters, ready, awaiting, upstream>>

\* gather returns when every node of the wave has ended.  One unrecovered
\* failure breaks out of the loop with the wave's other nodes unsettled.
EndWave ==
    /\ phase = "gather"
    /\ \A n \in batch : status[n] \notin {"pending", "running"}
    /\ LET lost == {n \in batch : Lost(n)}
           settled == {n \in batch : ~Lost(n) /\ status[n] # "paused"}
       IN  /\ failures' = failures \cup lost
           /\ outputs' = outputs \cup settled
           /\ settling' = settled
           /\ phase' = IF lost = {} THEN "settle" ELSE "loop"
    /\ batch' = {}
    /\ UNCHANGED <<outcome, waves, records, counters, ready, awaiting, upstream>>

\* (mutants) Settling n with the given change of the counters, the targets in
\* `cut` skipped with wave number w and the nodes in `queued` settled in turn.
SettleWith(n, down, up, cut, w, queued) ==
    /\ phase \in {"settle", "answers"}
    /\ n \in settling
    /\ pending' = [t \in Nodes |-> pending[t] - Cardinality(down[t])]
    /\ taken' = [t \in Nodes |-> taken[t] + Cardinality(up[t])]
    /\ ready' = ready \cup {t \in Nodes \ cut : down[t] # {} /\ pending'[t] = 0}
    /\ settling' = (settling \ {n}) \cup queued
    /\ status' = [t \in Nodes |-> IF t \in cut THEN "skipped" ELSE status[t]]
    /\ wave' = [t \in Nodes |-> IF t \in cut THEN w ELSE wave[t]]
    /\ UNCHANGED <<phase, outcome, waves, branch, recovered, attempts, batch,
                   failures, awaiting, outputs, upstream>>

All(n) == [t \in Nodes |-> EdgesBetween(n, t)]
Some(n) == [t \in Nodes |-> {e \in EdgesBetween(n, t) : EdgeTaken(e)}]
CutBy(n) == {t \in Nodes : /\ All(n)[t] # {}
                           /\ pending[t] = Cardinality(All(n)[t])
                           /\ taken[t] + Cardinality(Some(n)[t]) = 0}

SettleTakenOnly(n) == SettleWith(n, Some(n), Some(n), {}, waves, {})
SettleSkipStops(n) == SettleWith(n, All(n), Some(n), CutBy(n), waves, {})

\* One popleft of _drain_settles with its call of _settle.
Settle(n) ==
    /\ phase \in {"settle", "answers"}
    /\ n \in settling
    /\ pending' = [t \in Nodes |-> pending[t] - Cardinality(EdgesBetween(n, t))]
    /\ taken' = [t \in Nodes |->
                    taken[t] + Cardinality({e \in EdgesBetween(n, t) : EdgeTaken(e)})]
    /\ LET zeroed == {t \in Nodes : EdgesBetween(n, t) # {} /\ pending'[t] = 0}
           skipped == {t \in zeroed : taken'[t] = 0}
       IN  /\ ready' = ready \cup (zeroed \ skipped)
           /\ settling' = (settling \ {n}) \cup skipped
           /\ status' = [t \in Nodes |->
                            IF t \in skipped THEN "skipped" ELSE status[t]]
           /\ wave' = [t \in Nodes |-> IF t \in skipped THEN waves ELSE wave[t]]
    /\ UNCHANGED <<phase, outcome, waves, branch, recovered, attempts, batch,
                   failures, awaiting, outputs, upstream>>

EndSettle ==
    /\ phase \in {"settle", "answers"}
    /\ settling = {}
    /\ phase' = "loop"
    /\ UNCHANGED <<outcome, waves, records, counters, ready, batch, settling,
                   failures, awaiting, outputs, upstream>>

VerdictPausedFirst ==       \* (mutant) swapped order
    IF awaiting # {} THEN "paused"
    ELSE IF failures # {} THEN "failed" ELSE "completed"
Verdict ==
    IF failures # {} THEN "failed"
    ELSE IF awaiting # {} THEN "paused" ELSE "completed"

Finish ==
    /\ phase = "loop"
    /\ ready = {} \/ failures # {}
    /\ outcome' = Verdict
    /\ phase' = "done"
    /\ UNCHANGED <<waves, records, counters, ready, batch, settling, failures,
                   awaiting, outputs, upstream>>

ResumeCompletedOnly ==      \* (mutant) skips and recovered failures are not restored
    /\ phase = "done"
    /\ outcome = "paused"
    /\ status' = [n \in Nodes |-> IF n \in awaiting \/ status[n] = "completed"
                                  THEN "completed" ELSE "pending"]
    /\ outputs' = {n \in Nodes : status'[n] = "completed"}
    /\ settling' = awaiting
    /\ awaiting' = {}
    /\ outcome' = "running"
    /\ phase' = "answers"
    /\ UNCHANGED <<waves, branch, recovered, attempts, wave, counters, ready,
                   batch, failures, upstream>>

\* resume() with an answer for every question, from the checkpoint the paused
\* result carries.  The checkpoint holds everything but completed_outputs,
\* which is rebuilt from the records that say completed.
Resume ==
    /\ phase = "done"
    /\ outcome = "paused"
    /\ status' = [n \in Nodes |->
                    IF n \in awaiting THEN "completed" ELSE status[n]]
    /\ outputs' = {n \in Nodes : status'[n] = "completed"}
    /\ settling' = awaiting
    /\ awaiting' = {}
    /\ outcome' = "running"
    /\ phase' = "answers"
    /\ UNCHANGED <<waves, branch, recovered, attempts, wave, counters, ready,
                   batch, failures, upstream>>

\* The run has returned and there is nothing to resume.
Returned ==
    /\ phase = "done"
    /\ outcome \in {"completed", "failed"}
    /\ UNCHANGED vars

NodeStep(n) ==
    \/ Start(n)
    \/ Retry(n)
    \/ Complete(n)
    \/ Pause(n)
    \/ Fail(n)

Next ==
    \/ Dispatch
    \/ \E n \in Nodes : NodeStep(n)
    \/ EndWave
    \/ \E n \in Nodes : Settle(n)
    \/ EndSettle
    \/ Finish
    \/ Resume
    \/ Returned

Spec == Init /\ [][Next]_vars

\* The event loop runs whatever can run, and a node's run() returns or raises
\* in the end.  Nobody is obliged to answer a question.
DriveStep ==
    \/ Dispatch
    \/ \E n \in Nodes : NodeStep(n) \/ Settle(n)
    \/ EndWave
    \/ EndSettle
    \/ Finish

FairSpec == Spec /\ WF_vars(DriveStep)

-----------------------------------------------------------------------------
(***************************************************************************)
(* What a run must satisfy.                                                *)
(***************************************************************************)

TypeOK ==
    /\ phase \in Phases
    /\ outcome \in Outcomes
    /\ waves \in Nat
    /\ status \in [Nodes -> Statuses]
    /\ branch \in [Nodes -> Branches]
    /\ recovered \in [Nodes -> BOOLEAN]
    /\ attempts \in [Nodes -> Nat]
    /\ \A n \in Nodes : attempts[n] <= MaxAttempts[n]
    /\ wave \in [Nodes -> Nat]
    /\ pending \in [Nodes -> Int]
    /\ taken \in [Nodes -> Int]
    /\ ready \subseteq Nodes
    /\ batch \subseteq Nodes
    /\ settling \subseteq Nodes
    /\ failures \subseteq Nodes
    /\ awaiting \subseteq Nodes
    /\ outputs \subseteq Nodes
    /\ upstream \in [Nodes -> SUBSET Nodes]

\* Nodes whose successors have been counted down.
Drained == {n \in Nodes : Decided(n)} \ (batch \cup settling \cup failures)

\* The in-degree table and the taken table of engine.py are counts of edges,
\* kept by decrementing: at every point of a run, through skips, multi-edges,
\* failures and resumes, they agree with the fates decided so far.  A node
\* counted down twice or not at all hangs the join below it or fires it early.
CountersAgree ==
    \A t \in Nodes :
        /\ pending[t] = Cardinality({e \in InEdges(t) : e.source \notin Drained})
        /\ taken[t] = Cardinality({e \in InEdges(t) : /\ e.source \in Drained
                                                     /\ EdgeTaken(e)})

\* A node that has started did so after the fate of every predecessor was
\* decided, and because at least one edge into it was taken; a skipped node
\* had every predecessor decided and no edge taken (_settle, _drain_settles).
FateFollowsEdges ==
    \A n \in Nodes :
        /\ Started(n) => /\ \A e \in InEdges(n) : Decided(e.source)
                         /\ InEdges(n) = {} \/ \E e \in InEdges(n) : EdgeTaken(e)
        /\ status[n] = "skipped" =>
              /\ InEdges(n) # {}
              /\ \A e \in InEdges(n) : Decided(e.source) /\ ~EdgeTaken(e)

\* A run that reports completed has decided every node of the graph: no join
\* is left waiting for a branch that was not taken.
CompletedRunDecidesAll ==
    outcome = "completed" => \A n \in Nodes : Decided(n)

\* A paused run stopped only because of its questions: a node neither decided
\* nor asking has an undecided predecessor, so nothing that could have run was
\* left behind when the ready queue emptied.
PausedRunIsQuiescent ==
    outcome = "paused" =>
        /\ awaiting # {}
        /\ \A n \in Nodes : \/ Decided(n)
                            \/ n \in awaiting
                            \/ \E e \in InEdges(n) : ~Decided(e.source)

\* A run ends without a failure only when there is nothing it could still run
\* (the `while ready` loop of _drive): completed with every node decided, or
\* paused with all that is left behind a question.
EndsWhenNothingCanRun == CompletedRunDecidesAll /\ PausedRunIsQuiescent

\* A node runs in a later wave than every predecessor, the skipped ones
\* included, also across a pause (the numbers go into records and events).
WavesFollowEdges ==
    \A e \in Edges : Started(e.target) => wave[e.source] < wave[e.target]

\* The run moves along the edges: who runs, who is skipped and in which wave
\* depends on the predecessors, all of them and nothing else.
RunFollowsEdges == FateFollowsEdges /\ WavesFollowEdges

\* A failure that on_error=default replaced by an output, and by no branch.
Defaulted(n) == status[n] = "completed" /\ recovered[n]

LabelsTaken(n) == {e.branch : e \in {d \in OutEdges(n) : EdgeTaken(d)}} \ {NoBranch}

\* All that leads to t are edges of n with one of these labels.
HangsOn(t, n, labels) ==
    /\ InEdges(t) # {}
    /\ \A e \in InEdges(t) : e.source = n /\ e.branch \in labels

\* A settled decision takes one label: the one its case named if it completed,
\* that of its failure edge if it failed and the graph routes the failure, none
\* if it was skipped or lost.  What hangs on its other labels does not run.  The
\* exception is a decision that failed under on_error=default: a default names
\* no branch, and _settle reads no branch as every branch.
DecisionTakesOneLabel ==
    \A n \in Nodes :
        Kind[n] = "decision" /\ Decided(n) =>
            /\ ~Defaulted(n) => LabelsTaken(n) = {branch[n]} \ {NoBranch}
            /\ status[n] = "completed" /\ ~Defaulted(n) => branch[n] \in BranchLabels(n)
            /\ Defaulted(n) => LabelsTaken(n) = BranchLabels(n)
            /\ \A t \in Nodes :
                   HangsOn(t, n, BranchLabels(n) \ LabelsTaken(n)) => ~Started(t)

\* The nodes that lie behind n: the least set that has the targets of n's edges
\* and of its own.
Behind ==
    [n \in Nodes |-> {m \in Nodes : \A S \in SUBSET Nodes :
        (\A e \in Edges : e.source \in S \cup {n} => e.target \in S) => m \in S}]

Answered(n) == Kind[n] = "await" /\ status[n] = "completed" /\ ~recovered[n]
HasOutputs(n) == status[n] = "completed" \/ (status[n] = "failed" /\ recovered[n])

\* A node is given the outputs of its predecessors that completed, in whatever
\* wave and before whatever pause, and of the failures among them that were
\* absorbed.  Only a node that lies behind a question can miss one of the
\* latter, since resume rebuilds completed_outputs without them (execute,
\* _state_from_checkpoint).
InputsAreWhole ==
    \A n \in batch :
        /\ \A p \in upstream[n] : p \in Predecessors(n) /\ HasOutputs(p)
        /\ \A p \in Predecessors(n) \ upstream[n] :
               /\ status[p] # "completed"
               /\ HasOutputs(p) => \E q \in Nodes : Answered(q) /\ n \in Behind[q]

FateStays(n) ==
    Decided(n) => /\ status'[n] = status[n]
                  /\ branch'[n] = branch[n]
                  /\ attempts'[n] = attempts[n]
                  /\ wave'[n] = wave[n]

\* A decided fate is final: no later wave, settle or resume runs the node
\* again, changes its branch, or turns a skip into a run.
FateIsFinal == [][\A n \in Nodes : FateStays(n)]_vars

\* Every run that is being driven returns a result, however its nodes end and
\* in whatever order, provided that each node's run() ends.
RunReturns == phase # "done" ~> phase = "done"

-----------------------------------------------------------------------------
(***************************************************************************)
(* The inductive invariant behind the properties above, in named parts.    *)
(***************************************************************************)

\* Where the queues of the driving loop may be nonempty.
PhaseInv ==
    /\ batch # {} => phase = "gather"
    /\ settling # {} => phase \in {"settle", "answers"} \/ failures # {}
    /\ failures # {} => phase \in {"loop", "done"}
    /\ phase = "gather" => ready = {}
    /\ outcome = "running" <=> phase # "done"
    /\ phase = "done" => outcome = Verdict /\ (ready = {} \/ failures # {})

\* What the records say of the nodes in each queue.
RecordInv ==
    /\ awaiting = {n \in Nodes : status[n] = "paused"}
    /\ \A n \in Nodes :
          /\ n \in ready => status[n] = "pending"
          /\ status[n] = "running" => n \in batch
          /\ n \in batch => status[n] # "skipped"
          /\ n \in settling => Decided(n) /\ ~Lost(n)
          /\ n \in failures => Lost(n)
          /\ Lost(n) => n \in batch \cup failures

\* Counters read as sets: a node is released when every edge into it has been
\* counted down and one was taken, cut off when none was, and not yet due while
\* some edge has not been counted down.
AllDrained(n) == \A e \in InEdges(n) : e.source \in Drained
SomeTaken(n) == \E e \in InEdges(n) : EdgeTaken(e)
InPlay(n) == n \in ready \cup batch \/ Started(n)

PositionInv ==
    \A n \in Nodes :
        /\ InPlay(n) => AllDrained(n) /\ (InEdges(n) = {} \/ SomeTaken(n))
        /\ status[n] = "skipped" => InEdges(n) # {} /\ AllDrained(n) /\ ~SomeTaken(n)
        /\ ~InPlay(n) /\ status[n] # "skipped" => ~AllDrained(n)

\* No record is stamped with a wave that has not begun.
WaveInv ==
    /\ \A n \in Nodes : wave[n] <= waves
    /\ \A e \in Edges : Started(e.target) \/ e.target \in batch
                          => wave[e.source] < wave[e.target]

IInv == TypeOK /\ PhaseInv /\ RecordInv /\ CountersAgree /\ PositionInv /\ WaveInv

\* A run keeps the promise of Dataflow: waves, queues and counters are an
\* implementation of "decide a node once its predecessors are decided".
Promise == INSTANCE Dataflow WITH status <- status, branch <- branch, outcome <- outcome
KeepsPromise == Promise!FairSpec

=============================================================================
