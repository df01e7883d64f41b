------------------------------- MODULE Service -------------------------------
(***************************************************************************)
(* The workflow service with its two users over one store and one queue:   *)
(* workers (flowforge/worker.py) take jobs, run them and file the results; *)
(* clients start runs and answer paused ones through the HTTP surface      *)
(* (service.py, server.py), with a plain response or a stream of frames.   *)
(*                                                                         *)
(* A job and the run it starts have one name here.  A run's checkpoint is  *)
(* the number of times it has paused; how the engine drives a run from     *)
(* there is Scheduler's business, this module only takes its result.       *)
(***************************************************************************)
EXTENDS Integers, Sequences

CONSTANTS
    Workers, Clients,
    Jobs,        \* what enqueue is called with; some may be malformed
    NoJob,
    Modes,       \* ways a client may ask: "plain", "stream"
    MaxPauses,   \* bound on the pauses of a run
    MaxResumes,  \* bound on the resumes asked for
    MaxFaults    \* bound on crashes, lost replies, failed calls, clients gone

ASSUME ServiceShape ==
    /\ Workers \cap Clients = {} /\ NoJob \notin Jobs
    /\ Modes \subseteq {"plain", "stream"}
    /\ {MaxPauses, MaxResumes, MaxFaults} \subseteq Nat

VARIABLES
    queue,       \* the Redis list, oldest job first
    store,       \* the checkpoint of each run; 0 when there is none
    filed,       \* runs whose result is among the artifacts
    at,          \* what each worker or client is doing
    job,         \* the run it is doing it to
    from,        \* the checkpoint it drives the run from
    result,      \* what the engine returned
    mode,        \* how a client asked
    tally,       \* a worker's counters, since it started
    handled,     \* the takes that came to an end with it, since it started
    starts,      \* how often each job was started
    known,       \* what its callers were last told of each run: "paused", "over"
    overlapped,  \* runs that two callers have driven at the same time
    cutOff,      \* runs whose end a client has on a frame, and nobody remembered
    resumes, faults

actors == <<at, job, from, result, mode>>
counters == <<tally, handled>>
ghosts == <<starts, known, overlapped, cutOff>>
vars == <<queue, store, filed, actors, counters, ghosts, resumes, faults>>

Actors == Workers \cup Clients
Results == {"paused", "completed", "failed"}

Init ==
    /\ queue = <<>>
    /\ store = [j \in Jobs |-> 0]
    /\ filed = {}
    /\ at = [a \in Actors |-> "idle"]
    /\ job = [a \in Actors |-> NoJob]
    /\ from = [a \in Actors |-> 0]
    /\ result = [a \in Actors |-> "paused"]
    /\ mode = [a \in Actors |-> "plain"]
    /\ tally = [w \in Workers |-> [completed |-> 0, failed |-> 0]]
    /\ handled = [w \in Workers |-> [ended |-> 0, paused |-> 0]]
    /\ starts = [j \in Jobs |-> 0]
    /\ known = [j \in Jobs |-> "new"]
    /\ overlapped = {}
    /\ cutOff = {}
    /\ resumes = 0
    /\ faults = 0

Fault == faults < MaxFaults /\ faults' = faults + 1
Busy(j) == {a \in Actors : at[a] \in {"driving", "yielding", "remembering"} /\ job[a] = j}
Count(w, counter) == tally' = [tally EXCEPT ![w][counter] = @ + 1]
Handled(w, how) == handled' = [handled EXCEPT ![w][how] = @ + 1]
Told(j, what) == known' = [known EXCEPT ![j] = what]
Goto(a, place) == at' = [at EXCEPT ![a] = place]

-----------------------------------------------------------------------------
(* The queue. *)

Enqueue(j) ==
    /\ starts[j] = 0 /\ known[j] = "new"
    /\ queue' = Append(queue, j)
    /\ Told(j, "asked")
    /\ UNCHANGED <<store, filed, actors, counters, starts, overlapped, cutOff, resumes, faults>>

TakePeeks(w) ==                 \* (mutant) the job is removed only when it is done
    /\ at[w] = "idle" /\ queue # <<>>
    /\ at' = [at EXCEPT ![w] = "driving"]
    /\ job' = [job EXCEPT ![w] = Head(queue)]
    /\ from' = [from EXCEPT ![w] = 0]
    /\ starts' = [starts EXCEPT ![Head(queue)] = @ + 1]
    /\ UNCHANGED <<queue, store, filed, result, mode, counters, known, overlapped, cutOff, resumes, faults>>

\* BRPOP, then service.start; the worker first looks whether it is to stop.
Take(w) ==
    /\ at[w] = "idle" /\ queue # <<>>
    /\ queue' = Tail(queue)
    /\ at' = [at EXCEPT ![w] = "driving"]
    /\ job' = [job EXCEPT ![w] = Head(queue)]
    /\ from' = [from EXCEPT ![w] = 0]
    /\ starts' = [starts EXCEPT ![Head(queue)] = @ + 1]
    /\ UNCHANGED <<store, filed, result, mode, counters, known, overlapped, cutOff, resumes, faults>>

\* A job that is malformed, or names no workflow, or whose reply is lost with
\* the connection, or a BRPOP that fails: the loop counts it and goes on.
TakeFails(w) ==
    /\ at[w] = "idle" /\ Fault
    /\ \/ UNCHANGED queue
       \/ queue # <<>> /\ queue' = Tail(queue)
    /\ Count(w, "failed")
    /\ Handled(w, "ended")
    /\ UNCHANGED <<store, filed, actors, ghosts, resumes>>

-----------------------------------------------------------------------------
(* The HTTP surface. *)

\* start and stream.
Open(c) ==
    /\ at[c] = "idle"
    /\ \E j \in Jobs, m \in Modes :
          /\ starts[j] = 0 /\ known[j] = "new"
          /\ job' = [job EXCEPT ![c] = j]
          /\ mode' = [mode EXCEPT ![c] = m]
          /\ starts' = [starts EXCEPT ![j] = @ + 1]
          /\ Told(j, "asked")
    /\ from' = [from EXCEPT ![c] = 0]
    /\ Goto(c, "driving")
    /\ UNCHANGED <<queue, store, filed, result, counters, overlapped, cutOff, resumes, faults>>

\* resume and resume_stream start by loading the checkpoint, or answer 404.
Resume(c) ==
    /\ at[c] = "idle" /\ resumes < MaxResumes
    /\ resumes' = resumes + 1
    /\ \E j \in Jobs, m \in Modes :
          /\ store[j] # 0
          /\ job' = [job EXCEPT ![c] = j]
          /\ from' = [from EXCEPT ![c] = store[j]]
          /\ mode' = [mode EXCEPT ![c] = m]
          /\ overlapped' = IF Busy(j) = {} THEN overlapped ELSE overlapped \cup {j}
    /\ Goto(c, "driving")
    /\ UNCHANGED <<queue, store, filed, result, counters, starts, known, cutOff, faults>>

\* The answers do not fit (CheckpointError), or the engine raises something.
Raises(a) ==
    /\ at[a] = "driving" /\ Fault
    /\ Goto(a, "idle")
    /\ \/ a \in Workers /\ Count(a, "failed") /\ Handled(a, "ended")
       \/ a \in Clients /\ UNCHANGED counters
    /\ UNCHANGED <<queue, store, filed, job, from, result, mode, ghosts, resumes>>

\* The engine returns; a stream hands its terminal frame out first.
Drive(a) ==
    /\ at[a] = "driving"
    /\ \E r \in Results : /\ r = "paused" => from[a] < MaxPauses
                          /\ result' = [result EXCEPT ![a] = r]
    /\ Goto(a, IF mode[a] = "stream" THEN "yielding" ELSE "remembering")
    /\ UNCHANGED <<queue, store, filed, job, from, mode, counters, ghosts, resumes, faults>>

Paused(a) == result[a] = "paused"
TellsEnd(a) == Told(job[a], IF Paused(a) THEN "paused" ELSE "over")

\* The terminal frame is what tells the client; the save comes after it.
Yield(c) ==
    /\ at[c] = "yielding"
    /\ TellsEnd(c)
    /\ Goto(c, "remembering")
    /\ UNCHANGED <<queue, store, filed, job, from, result, mode, counters, starts, overlapped, cutOff, resumes, faults>>

-----------------------------------------------------------------------------
(* Bookkeeping: remember and remember_event. *)

RememberPausesOnly(a) ==        \* (mutant) nothing is cleared
    IF Paused(a) THEN [store EXCEPT ![job[a]] = from[a] + 1] ELSE store

Remembered(a) == [store EXCEPT ![job[a]] = IF Paused(a) THEN from[a] + 1 ELSE 0]

NextOf(a) == IF a \in Clients THEN "idle" ELSE IF Paused(a) THEN "counting" ELSE "filing"

\* A plain response is sent once this has been done.
Remember(a) ==
    /\ at[a] = "remembering"
    /\ store' = Remembered(a)
    /\ TellsEnd(a)
    /\ cutOff' = cutOff \ {job[a]}
    /\ Goto(a, NextOf(a))
    /\ UNCHANGED <<queue, filed, job, from, result, mode, counters, starts, overlapped, resumes, faults>>

\* What is left when remembering breaks off: the store may have been reached or
\* not, and a client that has the terminal frame keeps what it was told.
BrokenOff(a) ==
    /\ store' \in {store, Remembered(a)}
    /\ \/ mode[a] = "stream" /\ cutOff' = cutOff \cup {job[a]} /\ UNCHANGED known
       \/ mode[a] = "plain" /\ Told(job[a], "unknown") /\ UNCHANGED cutOff

\* The store does not answer, before or after doing what it was asked: the
\* worker counts a failure, a client gets an error or the end of its stream.
RememberFails(a) ==
    /\ at[a] = "remembering" /\ Fault
    /\ BrokenOff(a)
    /\ Goto(a, "idle")
    /\ \/ a \in Workers /\ Count(a, "failed") /\ Handled(a, "ended")
       \/ a \in Clients /\ UNCHANGED counters
    /\ UNCHANGED <<queue, filed, job, from, result, mode, starts, overlapped, resumes>>

-----------------------------------------------------------------------------
(* The rest of handle. *)

File(w) ==
    /\ at[w] = "filing"
    /\ filed' = filed \cup {job[w]}
    /\ Goto(w, "counting")
    /\ UNCHANGED <<queue, store, job, from, result, mode, counters, ghosts, resumes, faults>>

FileFailsCounted(w) ==          \* (mutant) counted when the run ends and when filing fails
    /\ at[w] = "filing" /\ Fault
    /\ tally' = [tally EXCEPT ![w] = [completed |-> @.completed + 1, failed |-> @.failed + 1]]
    /\ Handled(w, "ended")
    /\ Goto(w, "idle")
    /\ UNCHANGED <<queue, store, filed, job, from, result, mode, ghosts, resumes>>

FileFails(w) ==
    /\ at[w] = "filing" /\ Fault
    /\ filed' \in {filed, filed \cup {job[w]}}
    /\ Count(w, "failed")
    /\ Handled(w, "ended")
    /\ Goto(w, "idle")
    /\ UNCHANGED <<queue, store, job, from, result, mode, ghosts, resumes>>

Finish(w) ==
    /\ at[w] = "counting"
    /\ \/ Paused(w) /\ Handled(w, "paused") /\ UNCHANGED tally
       \/ ~Paused(w) /\ Handled(w, "ended") /\ Count(w, result[w])
    /\ Goto(w, "idle")
    /\ UNCHANGED <<queue, store, filed, job, from, result, mode, ghosts, resumes, faults>>

-----------------------------------------------------------------------------
(* Faults. *)

\* What somebody was doing is over, whatever it was.
Dropped(a) ==
    \/ at[a] = "remembering" /\ BrokenOff(a)
    \/ at[a] # "remembering" /\ UNCHANGED <<store, known, cutOff>>

\* The job in hand goes with the worker; another worker process starts.
Crash(w) ==
    /\ Fault
    /\ Dropped(w)
    /\ Goto(w, "idle")
    /\ tally' = [tally EXCEPT ![w] = [completed |-> 0, failed |-> 0]]
    /\ handled' = [handled EXCEPT ![w] = [ended |-> 0, paused |-> 0]]
    /\ UNCHANGED <<queue, filed, job, from, result, mode, starts, overlapped, resumes>>

\* A streaming client goes away, on its terminal frame or before it: the run is
\* cancelled, or its end is not remembered, or not for certain.
Leaves(c) ==
    /\ at[c] # "idle" /\ mode[c] = "stream" /\ Fault
    /\ Dropped(c)
    /\ Goto(c, "idle")
    /\ UNCHANGED <<queue, filed, job, from, result, mode, counters, starts, overlapped, resumes>>

Next ==
    \/ \E j \in Jobs : Enqueue(j)
    \/ \E w \in Workers : Take(w) \/ TakeFails(w) \/ File(w) \/ FileFails(w) \/ Finish(w) \/ Crash(w)
    \/ \E c \in Clients : Open(c) \/ Resume(c) \/ Yield(c) \/ Leaves(c)
    \/ \E a \in Actors : Raises(a) \/ Drive(a) \/ Remember(a) \/ RememberFails(a)

Spec == Init /\ [][Next]_vars

-----------------------------------------------------------------------------
\* A job is run at most once, through crashes, lost replies and several workers
\* on one queue: what BRPOP has handed out nobody else gets.
StartedOnce == \A j \in Jobs : starts[j] <= 1

\* When nobody is at a run, and its callers were last told that it is paused, its
\* checkpoint is there for the answer ("its checkpoint is already in the store");
\* when they were told that it is over, there is none to resume it from.  This
\* fails of two kinds of run and of no other: those that two callers drove at the
\* same time (the later save or delete wins), and those whose terminal frame a
\* client had when the bookkeeping behind it broke off (the client left on it, or
\* the store did not answer), until somebody else brings them to an end.
StoreTellsTheSame ==
    \A j \in Jobs \ (overlapped \cup cutOff) :
        Busy(j) = {} => /\ known[j] = "paused" => store[j] # 0
                        /\ known[j] = "over" => store[j] = 0

\* completed and failed of a worker add up to the takes that ended with it, each
\* counted once, failing calls and failing bookkeeping included; paused ones and
\* what is in its hands count nowhere.
EachTakeCountsOnce ==
    \A w \in Workers : tally[w].completed + tally[w].failed = handled[w].ended
=============================================================================
