----------------------------- MODULE Durability -----------------------------
(***************************************************************************)
(* A run of Scheduler together with the RunStore it saves checkpoints to,  *)
(* process crashes, and recovery by store.load + WorkflowEngine.resume     *)
(* (flowforge/engine.py, checkpoint.py, store.py).                         *)
(*                                                                         *)
(* A crash loses everything but the store.  It also stands for every other *)
(* way in which a driven run ends without a result: the task is cancelled, *)
(* or the store raises.  One driver is active at a time.                   *)
(***************************************************************************)
EXTENDS Scheduler

CONSTANTS
    Knobs,          \* the values of checkpoint_every_wave to consider
    NoCheckpoint,   \* the store has nothing under this run id
    MaxCrashes,     \* bound of the model on crashes
    MaxResumes      \* bound of the model on resumes

\* What a store can hold under a run's id.
Checkpoints ==
    [status : [Nodes -> Statuses], branch : [Nodes -> Branches],
     recovered : [Nodes -> BOOLEAN], attempts : [Nodes -> Nat],
     wave : [Nodes -> Nat], pending : [Nodes -> Int], taken : [Nodes -> Int],
     ready : SUBSET Nodes, awaiting : SUBSET Nodes, waves : Nat]

ASSUME DurabilityShape ==
    /\ NoCheckpoint \notin Checkpoints
    /\ Knobs \subseteq BOOLEAN
    /\ MaxCrashes \in Nat
    /\ MaxResumes \in Nat

VARIABLES
    everyWave,      \* WorkflowEngine.checkpoint_every_wave, set once
    alive,          \* whether a process holds the run
    store,          \* the checkpoint saved under the run's id
    executions,     \* history: how often each node was started
    crashes,        \* history: crashes so far
    resumes         \* history: resumes so far

dvars == <<vars, everyWave, alive, store, executions, crashes, resumes>>

\* What _checkpoint writes: everything but completed_outputs, failures and
\* what the driving coroutine holds in its locals.
Checkpoint ==
    [status |-> status, branch |-> branch, recovered |-> recovered,
     attempts |-> attempts, wave |-> wave, pending |-> pending,
     taken |-> taken, ready |-> ready, awaiting |-> awaiting, waves |-> waves]

-----------------------------------------------------------------------------

DInit ==
    /\ Init
    /\ everyWave \in Knobs
    /\ alive = TRUE
    /\ store = NoCheckpoint
    /\ executions = [n \in Nodes |-> 0]
    /\ crashes = 0
    /\ resumes = 0

\* Steps of the run that do not touch the store.
StartCounted(n) ==
    /\ Start(n)
    /\ executions' = [executions EXCEPT ![n] = @ + 1]

Volatile ==
    /\ alive
    /\ \/ \E n \in Nodes : StartCounted(n)
       \/ /\ \/ Dispatch
             \/ \E n \in Nodes : Retry(n) \/ Complete(n) \/ Pause(n) \/ Fail(n)
             \/ EndWave
             \/ \E n \in Nodes : Settle(n)
          /\ UNCHANGED executions
    /\ UNCHANGED <<everyWave, alive, store, crashes, resumes>>

SaveMidDrain ==         \* (mutant) a save does not wait for the drain to end
    /\ alive
    /\ \/ EndSettle
       \/ phase = "settle" /\ settling # {} /\ UNCHANGED vars
    /\ store' = IF everyWave /\ phase = "settle" THEN Checkpoint ELSE store
    /\ UNCHANGED <<everyWave, alive, executions, crashes, resumes>>
SaveUnlessAsking ==     \* (mutant) no save while a question is open
    /\ alive
    /\ EndSettle
    /\ store' = IF everyWave /\ phase = "settle" /\ awaiting = {}
                THEN Checkpoint ELSE store
    /\ UNCHANGED <<everyWave, alive, executions, crashes, resumes>>

\* The drain of a wave is over: with the durability knob on, the frontier is
\* saved before the loop goes on.  The drain of resume saves nothing.
SaveFrontier ==
    /\ alive
    /\ EndSettle
    /\ store' = IF everyWave /\ phase = "settle" THEN Checkpoint ELSE store
    /\ UNCHANGED <<everyWave, alive, executions, crashes, resumes>>

\* The result: a pause is always saved, the end of the run deletes what the
\* per-wave saves left and nothing else.
Conclude ==
    /\ alive
    /\ Finish
    /\ store' = IF outcome' = "paused" THEN Checkpoint
                ELSE IF everyWave THEN NoCheckpoint ELSE store
    /\ UNCHANGED <<everyWave, alive, executions, crashes, resumes>>

\* The process dies in the middle of a run; what is left is the store.
Crash ==
    /\ alive
    /\ phase # "done"
    /\ crashes < MaxCrashes
    /\ alive' = FALSE
    /\ crashes' = crashes + 1
    /\ phase' = "loop" /\ outcome' = "running" /\ waves' = 0
    /\ status' = [n \in Nodes |-> "pending"]
    /\ branch' = [n \in Nodes |-> NoBranch]
    /\ recovered' = [n \in Nodes |-> FALSE]
    /\ attempts' = [n \in Nodes |-> 0]
    /\ wave' = [n \in Nodes |-> 0]
    /\ pending' = Indegree
    /\ taken' = [n \in Nodes |-> 0]
    /\ ready' = Roots
    /\ batch' = {} /\ settling' = {} /\ failures' = {}
    /\ awaiting' = {} /\ outputs' = {}
    /\ upstream' = [n \in Nodes |-> {}]
    /\ UNCHANGED <<everyWave, store, executions, resumes>>

RecoverFromScratch ==   \* (mutant) the run is restarted instead of resumed
    /\ ~alive \/ phase = "done"
    /\ store # NoCheckpoint
    /\ resumes < MaxResumes
    /\ resumes' = resumes + 1
    /\ alive' = TRUE
    /\ phase' = "loop" /\ outcome' = "running" /\ waves' = 0
    /\ status' = [n \in Nodes |-> "pending"]
    /\ pending' = Indegree /\ taken' = [n \in Nodes |-> 0]
    /\ ready' = Roots
    /\ batch' = {} /\ settling' = {} /\ failures' = {}
    /\ awaiting' = {} /\ outputs' = {}
    /\ upstream' = [n \in Nodes |-> {}]
    /\ UNCHANGED <<branch, recovered, attempts, wave, everyWave, store,
                   executions, crashes>>

\* store.load and resume with an answer to every question of the checkpoint.
\* Nothing stops a second resume of a checkpoint that is still in the store.
Recover ==
    /\ ~alive \/ phase = "done"
    /\ store # NoCheckpoint
    /\ resumes < MaxResumes
    /\ resumes' = resumes + 1
    /\ alive' = TRUE
    /\ phase' = "answers" /\ outcome' = "running"
    /\ waves' = store.waves
    /\ status' = [n \in Nodes |-> IF n \in store.awaiting THEN "completed"
                                  ELSE store.status[n]]
    /\ branch' = store.branch
    /\ recovered' = store.recovered
    /\ attempts' = store.attempts
    /\ wave' = store.wave
    /\ pending' = store.pending
    /\ taken' = store.taken
    /\ ready' = store.ready
    /\ batch' = {}
    /\ settling' = store.awaiting
    /\ failures' = {}
    /\ awaiting' = {}
    /\ outputs' = {n \in Nodes : status'[n] = "completed"}
    /\ upstream' = [n \in Nodes |-> {}]
    /\ UNCHANGED <<everyWave, store, executions, crashes>>

\* Nothing is left to do: the run was lost, or it returned and is not resumed.
Over ==
    /\ \/ ~alive /\ (store = NoCheckpoint \/ resumes = MaxResumes)
       \/ alive /\ phase = "done"
    /\ UNCHANGED dvars

DNext ==
    \/ Volatile
    \/ SaveFrontier
    \/ Conclude
    \/ Crash
    \/ Recover
    \/ Over

DSpec == DInit /\ [][DNext]_dvars

-----------------------------------------------------------------------------

Fixed(n) == store.status[n] \in {"completed", "failed", "skipped"}

\* What the store holds can be continued from, whenever it was written: no
\* node is recorded as running or as an unabsorbed failure, the questions are
\* the paused nodes, the counters agree with the recorded fates (nothing that
\* is done is still to be counted down, nothing was counted that is not done),
\* and the ready queue is exactly the reached nodes that have not run.
StoredFrontierIsConsistent ==
    store # NoCheckpoint =>
        /\ \A n \in Nodes :
              /\ store.status[n] # "running"
              /\ store.status[n] = "failed" => store.recovered[n]
        /\ store.awaiting = {n \in Nodes : store.status[n] = "paused"}
        /\ \A t \in Nodes :
              /\ store.pending[t] = Cardinality({e \in InEdges(t) : ~Fixed(e.source)})
              /\ store.taken[t] = Cardinality({e \in InEdges(t) :
                     Takes(e, store.status[e.source], store.branch[e.source])})
        /\ store.ready = {n \in Nodes : /\ store.status[n] = "pending"
                                        /\ store.pending[n] = 0}

\* No crash, recovery or repeated resume runs a node again that the stored
\* frontier records as done (README, Surviving a crash).
SavedWorkIsNotRepeated ==
    [][\A n \in Nodes :
          store # NoCheckpoint /\ Fixed(n) => executions'[n] = executions[n]]_dvars

\* With the knob on, the run is never more than one wave ahead of the store,
\* so a crash costs at most the wave in flight.
CrashCostsOneWave ==
    everyWave /\ alive /\ phase # "done" =>
        waves <= 1 + (IF store = NoCheckpoint THEN 0 ELSE store.waves)

=============================================================================
