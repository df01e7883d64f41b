---------------------------- MODULE ServiceProofs ----------------------------
(***************************************************************************)
(* For any number of workers, clients, jobs and faults: a job starts at    *)
(* most once, a worker's counters add up, and the store agrees with what   *)
(* the callers were told of every run that no two of them drove at once    *)
(* and whose end was remembered.                                           *)
(***************************************************************************)
EXTENDS Service, TLAPS

Places == {"idle", "driving", "yielding", "remembering", "filing", "counting"}
BusyPlaces == {"driving", "yielding", "remembering"}
Knowledge == {"new", "asked", "paused", "over", "unknown"}

(* What the arguments need of the types. *)
Types ==
    /\ queue \in Seq(Jobs)
    /\ store \in [Jobs -> Nat]
    /\ at \in [Actors -> Places]
    /\ job \in [Actors -> Jobs \cup {NoJob}]
    /\ from \in [Actors -> Nat]
    /\ result \in [Actors -> Results]
    /\ mode \in [Actors -> {"plain", "stream"}]
    /\ \A a \in Actors : at[a] = "yielding" => mode[a] = "stream"
    /\ tally \in [Workers -> [completed : Nat, failed : Nat]]
    /\ handled \in [Workers -> [ended : Nat, paused : Nat]]
    /\ starts \in [Jobs -> Nat]
    /\ known \in [Jobs -> Knowledge]

(* A job in the queue is there once and was never taken; one that was never *)
(* enqueued is not there.                                                    *)
QueuedOnce ==
    /\ \A i, k \in 1 .. Len(queue) : queue[i] = queue[k] => i = k
    /\ \A i \in 1 .. Len(queue) : starts[queue[i]] = 0 /\ known[queue[i]] # "new"

(* Whoever is at a run is at a job that was started. *)
BusyWithStarted ==
    \A a \in Actors : at[a] # "idle" => job[a] \in Jobs /\ starts[job[a]] # 0

NothingBeforeStart ==
    \A j \in Jobs : starts[j] = 0 => store[j] = 0 /\ known[j] \in {"new", "asked"}

(* The store agrees with what the callers were told. *)
Agrees(j) == /\ known[j] = "paused" => store[j] # 0
             /\ known[j] = "over" => store[j] = 0

(* A client has the terminal frame, and what is behind it is yet to be done. *)
Telling(j) == \E a \in Busy(j) : at[a] = "remembering" /\ mode[a] = "stream"

(* What StoreTellsTheSame needs while somebody is at the run. *)
StoreFollows ==
    \A j \in Jobs \ overlapped :
        /\ \A a, b \in Busy(j) : a = b
        /\ j \notin cutOff /\ ~Telling(j) => Agrees(j)

-----------------------------------------------------------------------------
(* The types. *)

(* What the counting helpers, remember and the queue leave is of its type. *)
LEMMA CountType ==
  ASSUME Types, NEW w \in Workers, NEW c \in {"completed", "failed"}, Count(w, c)
  PROVE  tally' \in [Workers -> [completed : Nat, failed : Nat]]
<1>1. tally[w] \in [completed : Nat, failed : Nat]  BY DEF Types
<1>2. [tally[w] EXCEPT ![c] = @ + 1] \in [completed : Nat, failed : Nat]  BY <1>1
<1>3. tally' = [tally EXCEPT ![w] = [tally[w] EXCEPT ![c] = @ + 1]]  BY DEF Count, Types
<1> QED  BY <1>2, <1>3 DEF Types

(* The same for the takes that are counted beside. *)
LEMMA HandledType ==
  ASSUME Types, NEW w \in Workers, NEW h \in {"ended", "paused"}, Handled(w, h)
  PROVE  handled' \in [Workers -> [ended : Nat, paused : Nat]]
<1>1. handled[w] \in [ended : Nat, paused : Nat]  BY DEF Types
<1>2. [handled[w] EXCEPT ![h] = @ + 1] \in [ended : Nat, paused : Nat]  BY <1>1
<1>3. handled' = [handled EXCEPT ![w] = [handled[w] EXCEPT ![h] = @ + 1]]  BY DEF Handled, Types
<1> QED  BY <1>2, <1>3 DEF Types

(* What remember leaves in the store is a store. *)
LEMMA RememberedType ==
  ASSUME Types, NEW a \in Actors, job[a] \in Jobs
  PROVE  Remembered(a) \in [Jobs -> Nat]
<1>1. from[a] + 1 \in Nat  BY DEF Types
<1> QED  BY <1>1 DEF Types, Remembered

(* What callers are told leaves a record of what they know. *)
LEMMA ToldType ==
  ASSUME Types, NEW j, NEW what \in Knowledge, Told(j, what)
  PROVE  known' \in [Jobs -> Knowledge]
BY DEF Types, Told

(* What breaks off leaves a store and such a record. *)
LEMMA BrokenOffType ==
  ASSUME Types, NEW a \in Actors, job[a] \in Jobs, BrokenOff(a)
  PROVE  store' \in [Jobs -> Nat] /\ known' \in [Jobs -> Knowledge]
<1>1. store' \in [Jobs -> Nat]
  BY RememberedType DEF BrokenOff, Types
<1>2. known' \in [Jobs -> Knowledge]
  BY ToldType DEF BrokenOff, Types, Knowledge
<1> QED
  BY <1>1, <1>2

(* Taking from the queue. *)
LEMMA QueueType ==
  ASSUME Types, queue # <<>>
  PROVE  Tail(queue) \in Seq(Jobs) /\ Head(queue) \in Jobs
BY DEF Types

(* A queue without its head, position by position. *)
LEMMA TailFacts ==
  ASSUME NEW q \in Seq(Jobs), q # <<>>
  PROVE  /\ Len(q) \in Nat \ {0} /\ Head(q) = q[1] /\ q[1] \in Jobs
         /\ Len(Tail(q)) = Len(q) - 1
         /\ \A i \in 1 .. Len(Tail(q)) :
               Tail(q)[i] = q[i + 1] /\ i + 1 \in 2 .. Len(q) /\ q[i + 1] \in Jobs
<1>1. Len(q) \in Nat \ {0}  OBVIOUS
<1> QED  BY <1>1

(* Every step keeps the types. *)
LEMMA TypesHold == ASSUME Types, BusyWithStarted, [Next]_vars PROVE Types'
<1> USE DEF Actors
<1>1. ASSUME NEW j \in Jobs, Enqueue(j) PROVE Types'
  <2>1. queue' \in Seq(Jobs)
    BY <1>1 DEF Enqueue, Types
  <2>2. known' \in [Jobs -> Knowledge]
    BY <1>1, ToldType DEF Enqueue, Knowledge
  <2> QED
    BY <1>1, <2>1, <2>2 DEF Enqueue, actors, counters, Types
<1>2. ASSUME NEW w \in Workers, Take(w) PROVE Types'
  <2>1. Tail(queue) \in Seq(Jobs) /\ Head(queue) \in Jobs
    BY <1>2, QueueType DEF Take
  <2> QED
    BY <1>2, <2>1 DEF Take, counters, Types, Places
<1>3. ASSUME NEW w \in Workers, TakeFails(w) PROVE Types'
  <2>1. queue' \in Seq(Jobs)
    BY <1>3, QueueType DEF TakeFails, Types
  <2>2. /\ tally' \in [Workers -> [completed : Nat, failed : Nat]]
        /\ handled' \in [Workers -> [ended : Nat, paused : Nat]]
    BY <1>3, CountType, HandledType DEF TakeFails
  <2> QED
    BY <1>3, <2>1, <2>2 DEF TakeFails, Types, actors, ghosts
<1>4. ASSUME NEW w \in Workers, File(w) PROVE Types'
  BY <1>4 DEF File, Goto, counters, ghosts, Types, Places
<1>5. ASSUME NEW w \in Workers, FileFails(w) PROVE Types'
  <2>1. /\ tally' \in [Workers -> [completed : Nat, failed : Nat]]
        /\ handled' \in [Workers -> [ended : Nat, paused : Nat]]
    BY <1>5, CountType, HandledType DEF FileFails
  <2> QED
    BY <1>5, <2>1 DEF FileFails, Goto, ghosts, Types, Places
<1>6. ASSUME NEW w \in Workers, Finish(w) PROVE Types'
  <2>1. /\ tally' \in [Workers -> [completed : Nat, failed : Nat]]
        /\ handled' \in [Workers -> [ended : Nat, paused : Nat]]
    <3>1. CASE Paused(w)
      BY <1>6, <3>1, HandledType DEF Finish, Types
    <3>2. CASE ~Paused(w)
      <4>1. result[w] \in {"completed", "failed"}
        BY <3>2 DEF Paused, Types, Results
      <4> QED
        BY <1>6, <3>2, <4>1, CountType, HandledType DEF Finish
    <3> QED
      BY <3>1, <3>2
  <2> QED
    BY <1>6, <2>1 DEF Finish, Goto, ghosts, Types, Places
<1>7. ASSUME NEW w \in Workers, Crash(w) PROVE Types'
  <2>1. store' \in [Jobs -> Nat] /\ known' \in [Jobs -> Knowledge]
    BY <1>7, BrokenOffType DEF Crash, Dropped, Types, BusyWithStarted
  <2> QED
    BY <1>7, <2>1 DEF Crash, Goto, Types, Places
<1>8. ASSUME NEW c \in Clients, Resume(c) PROVE Types'
  BY <1>8, ServiceShape DEF Resume, Goto, counters, Types, Places
<1>9. ASSUME NEW c \in Clients, Yield(c) PROVE Types'
  <2>1. known' \in [Jobs -> Knowledge]
    BY <1>9, ToldType DEF Yield, TellsEnd, Knowledge
  <2> QED
    BY <1>9, <2>1 DEF Yield, Goto, counters, Types, Places
<1>10. ASSUME NEW c \in Clients, Leaves(c) PROVE Types'
  <2>1. store' \in [Jobs -> Nat] /\ known' \in [Jobs -> Knowledge]
    BY <1>10, BrokenOffType DEF Leaves, Dropped, Types, BusyWithStarted
  <2> QED
    BY <1>10, <2>1 DEF Leaves, Goto, Types, Places, counters
<1>11. ASSUME NEW a \in Actors, Raises(a) PROVE Types'
  <2>1. /\ tally' \in [Workers -> [completed : Nat, failed : Nat]]
        /\ handled' \in [Workers -> [ended : Nat, paused : Nat]]
    BY <1>11, CountType, HandledType DEF Raises, counters, Types
  <2> QED
    BY <1>11, <2>1 DEF Raises, Goto, ghosts, Types, Places
<1>12. ASSUME NEW a \in Actors, Drive(a) PROVE Types'
  BY <1>12 DEF Drive, Goto, counters, ghosts, Types, Places
<1>13. ASSUME NEW a \in Actors, Remember(a) PROVE Types'
  <2>1. store' \in [Jobs -> Nat]
    BY <1>13, RememberedType DEF Remember, Types, BusyWithStarted
  <2>2. known' \in [Jobs -> Knowledge]
    BY <1>13, ToldType DEF Remember, TellsEnd, Knowledge
  <2>3. NextOf(a) \in Places \ {"yielding"}
    BY DEF NextOf, Places
  <2>4. at' \in [Actors -> Places] /\ \A b \in Actors : at'[b] = "yielding" => at[b] = "yielding"
    BY <1>13, <2>3 DEF Remember, Goto, Types
  <2> QED
    BY <1>13, <2>1, <2>2, <2>4 DEF Remember, counters, Types
<1>14. ASSUME NEW a \in Actors, RememberFails(a) PROVE Types'
  <2>1. store' \in [Jobs -> Nat] /\ known' \in [Jobs -> Knowledge]
    BY <1>14, BrokenOffType DEF RememberFails, BusyWithStarted
  <2>2. /\ tally' \in [Workers -> [completed : Nat, failed : Nat]]
        /\ handled' \in [Workers -> [ended : Nat, paused : Nat]]
    BY <1>14, CountType, HandledType DEF RememberFails, counters, Types
  <2> QED
    BY <1>14, <2>1, <2>2 DEF RememberFails, Goto, Types, Places
<1>15. ASSUME NEW c \in Clients, Open(c) PROVE Types'
  <2>1. known' \in [Jobs -> Knowledge]
    BY <1>15, ToldType DEF Open, Knowledge
  <2>2. PICK j \in Jobs, m \in Modes :
           /\ job' = [job EXCEPT ![c] = j] /\ mode' = [mode EXCEPT ![c] = m]
           /\ starts' = [starts EXCEPT ![j] = @ + 1]
    BY <1>15 DEF Open
  <2>3. m \in {"plain", "stream"}
    BY ServiceShape
  <2>4. /\ at' \in [Actors -> Places] /\ job' \in [Actors -> Jobs \cup {NoJob}]
        /\ mode' \in [Actors -> {"plain", "stream"}] /\ from' \in [Actors -> Nat]
    BY <1>15, <2>2, <2>3 DEF Open, Goto, Types, Places
  <2>5. \A b \in Actors : at'[b] = "yielding" => mode'[b] = "stream"
    BY <1>15, <2>2 DEF Open, Goto, Types
  <2>6. starts' \in [Jobs -> Nat]
    BY <2>2 DEF Types
  <2> QED
    BY <1>15, <2>1, <2>4, <2>5, <2>6 DEF Open, counters, Types
<1>16. CASE UNCHANGED vars
  BY <1>16 DEF vars, actors, counters, ghosts, Types
<1> QED
  BY <1>1, <1>2, <1>3, <1>4, <1>5, <1>6, <1>7, <1>8, <1>9, <1>10, <1>11, <1>12,
     <1>13, <1>14, <1>15, <1>16 DEF Next

-----------------------------------------------------------------------------
(* The history of a job: queued, taken once, and only then at work. *)

HistoryInv == QueuedOnce /\ BusyWithStarted /\ NothingBeforeStart /\ StartedOnce

(* An actor at work that moves on keeps the history, whatever it saves and says
   of its run. *)
LEMMA HistoryKept ==
  ASSUME Types, Types', HistoryInv, NEW a \in Actors, at[a] # "idle",
         UNCHANGED <<queue, starts, job>>,
         NEW place \in Places, at' = [at EXCEPT ![a] = place],
         store' = store \/ store' = Remembered(a),
         NEW what \in {"paused", "over", "unknown"},
         known' = known \/ Told(job[a], what)
  PROVE  HistoryInv'
<1>1. job[a] \in Jobs /\ starts[job[a]] # 0
  BY DEF HistoryInv, BusyWithStarted
<1>2. \A j \in Jobs : j # job[a] => store'[j] = store[j]
  BY <1>1 DEF Remembered, Types
<1>3. \A j \in Jobs : j # job[a] => known'[j] = known[j]
  BY <1>1 DEF Told, Types
<1>4. known'[job[a]] # "new" \/ known'[job[a]] = known[job[a]]
  BY <1>1 DEF Told, Types
<1>5. QueuedOnce'
  <2>1. \A i \in 1 .. Len(queue) : queue[i] \in Jobs
    BY DEF Types
  <2> QED
    BY <2>1, <1>3, <1>4 DEF HistoryInv, QueuedOnce
<1>6. BusyWithStarted'
  BY <1>1 DEF HistoryInv, BusyWithStarted, Types
<1>7. NothingBeforeStart'
  BY <1>1, <1>2, <1>3 DEF HistoryInv, NothingBeforeStart
<1>8. StartedOnce'
  BY DEF HistoryInv, StartedOnce
<1> QED
  BY <1>5, <1>6, <1>7, <1>8 DEF HistoryInv

(* Every step keeps the history. *)
LEMMA HistoryHolds == ASSUME Types, Types', HistoryInv, [Next]_vars PROVE HistoryInv'
<1> USE DEF Actors
<1>1. ASSUME NEW j \in Jobs, Enqueue(j) PROVE HistoryInv'
  <2>1. /\ queue' = Append(queue, j) /\ known[j] = "new" /\ starts[j] = 0
        /\ known' = [known EXCEPT ![j] = "asked"]
        /\ UNCHANGED <<store, at, job, starts>>
    BY <1>1 DEF Enqueue, actors, Told
  <2>2. /\ Len(queue') = Len(queue) + 1 /\ Len(queue) \in Nat
        /\ queue'[Len(queue) + 1] = j
        /\ \A i \in 1 .. Len(queue) : queue'[i] = queue[i] /\ queue[i] \in Jobs
    BY <2>1 DEF Types
  <2>3. \A i \in 1 .. Len(queue) : queue[i] # j
    BY <2>1 DEF HistoryInv, QueuedOnce
  <2>4. QueuedOnce'
    <3>1. \A i, k \in 1 .. Len(queue') : queue'[i] = queue'[k] => i = k
      BY <2>2, <2>3 DEF HistoryInv, QueuedOnce
    <3>2. \A i \in 1 .. Len(queue) : starts[queue[i]] = 0 /\ known'[queue[i]] # "new"
      BY <2>1, <2>2, <2>3 DEF HistoryInv, QueuedOnce, Types
    <3>3. starts[j] = 0 /\ known'[j] # "new"
      BY <2>1 DEF Types
    <3> QED
      BY <2>1, <2>2, <3>1, <3>2, <3>3 DEF QueuedOnce
  <2>5. NothingBeforeStart'
    BY <2>1 DEF HistoryInv, NothingBeforeStart, Types
  <2> QED
    BY <2>1, <2>4, <2>5 DEF HistoryInv, BusyWithStarted, StartedOnce
<1>2. ASSUME NEW w \in Workers, Take(w) PROVE HistoryInv'
  <2> DEFINE h == Head(queue)
  <2>1. /\ queue # <<>> /\ queue' = Tail(queue)
        /\ at' = [at EXCEPT ![w] = "driving"] /\ job' = [job EXCEPT ![w] = h]
        /\ starts' = [starts EXCEPT ![h] = @ + 1]
        /\ UNCHANGED <<store, known>>
    BY <1>2 DEF Take
  <2>2. /\ Len(queue) \in Nat \ {0} /\ h = queue[1] /\ h \in Jobs
        /\ Len(queue') = Len(queue) - 1
        /\ \A i \in 1 .. Len(queue') :
              queue'[i] = queue[i + 1] /\ i + 1 \in 2 .. Len(queue) /\ queue'[i] \in Jobs
    BY <2>1, TailFacts DEF Types
  <2>3. starts[h] = 0 /\ known[h] # "new"
    BY <2>2 DEF HistoryInv, QueuedOnce
  <2>4. \A i \in 1 .. Len(queue') : queue'[i] # h /\ queue'[i] \in Jobs
    BY <2>2 DEF HistoryInv, QueuedOnce
  <2>5. QueuedOnce'
    <3>1. \A i, k \in 1 .. Len(queue') : queue'[i] = queue'[k] => i = k
      BY <2>2 DEF HistoryInv, QueuedOnce
    <3>2. \A i \in 1 .. Len(queue') : starts'[queue'[i]] = 0 /\ known'[queue'[i]] # "new"
      BY <2>1, <2>2, <2>4 DEF HistoryInv, QueuedOnce, Types
    <3> QED
      BY <3>1, <3>2 DEF QueuedOnce
  <2>6. starts'[h] = 1 /\ \A j \in Jobs : j # h => starts'[j] = starts[j]
    BY <2>1, <2>2, <2>3 DEF Types
  <2>7. BusyWithStarted'
    <3>1. job'[w] = h /\ h \in Jobs /\ starts'[h] # 0
      BY <2>1, <2>2, <2>6 DEF Types
    <3>2. ASSUME NEW a \in Actors, at'[a] # "idle", a # w
          PROVE  job'[a] \in Jobs /\ starts'[job'[a]] # 0
      <4>1. at'[a] = at[a] /\ job'[a] = job[a]
        BY <2>1, <3>2 DEF Types
      <4>2. job[a] \in Jobs /\ starts[job[a]] # 0
        BY <3>2, <4>1 DEF HistoryInv, BusyWithStarted
      <4> QED
        BY <2>6, <4>1, <4>2
    <3> QED
      BY <3>1, <3>2 DEF BusyWithStarted
  <2>8. NothingBeforeStart'
    BY <2>1, <2>6 DEF HistoryInv, NothingBeforeStart
  <2>9. StartedOnce'
    BY <2>6 DEF HistoryInv, StartedOnce
  <2> QED
    BY <2>5, <2>7, <2>8, <2>9 DEF HistoryInv
<1>3. ASSUME NEW w \in Workers, TakeFails(w) PROVE HistoryInv'
  <2>1. UNCHANGED <<store, at, job, starts, known>>
    BY <1>3 DEF TakeFails, actors, ghosts
  <2>2. queue' = queue \/ (queue # <<>> /\ queue' = Tail(queue))
    BY <1>3 DEF TakeFails
  <2>3. QueuedOnce'
    <3>1. CASE queue' = queue
      BY <2>1, <3>1 DEF HistoryInv, QueuedOnce
    <3>2. CASE queue # <<>> /\ queue' = Tail(queue)
      <4>1. /\ Len(queue) \in Nat \ {0} /\ Len(queue') = Len(queue) - 1
            /\ \A i \in 1 .. Len(queue') : queue'[i] = queue[i + 1] /\ i + 1 \in 2 .. Len(queue)
        BY <3>2, TailFacts DEF Types
      <4> QED
        BY <2>1, <4>1 DEF HistoryInv, QueuedOnce
    <3> QED
      BY <2>2, <3>1, <3>2
  <2> QED
    BY <2>1, <2>3 DEF HistoryInv, BusyWithStarted, NothingBeforeStart, StartedOnce
<1>4. ASSUME NEW w \in Workers, File(w) PROVE HistoryInv'
  BY <1>4, HistoryKept DEF File, Goto, ghosts, Places
<1>5. ASSUME NEW w \in Workers, FileFails(w) PROVE HistoryInv'
  BY <1>5, HistoryKept DEF FileFails, Goto, ghosts, Places
<1>6. ASSUME NEW w \in Workers, Finish(w) PROVE HistoryInv'
  BY <1>6, HistoryKept DEF Finish, Goto, ghosts, Places
<1>7. ASSUME NEW w \in Workers, Crash(w) PROVE HistoryInv'
  <2>1. CASE at[w] = "idle"
    <3>1. UNCHANGED <<queue, store, at, job, starts, known>>
      BY <1>7, <2>1 DEF Crash, Dropped, Goto, Types
    <3> QED
      BY <3>1 DEF HistoryInv, QueuedOnce, BusyWithStarted, NothingBeforeStart, StartedOnce
  <2>2. CASE at[w] # "idle"
    <3>1. /\ UNCHANGED <<queue, job, starts>>
          /\ at' = [at EXCEPT ![w] = "idle"]
          /\ store' = store \/ store' = Remembered(w)
          /\ known' = known \/ Told(job[w], "unknown")
      BY <1>7 DEF Crash, Goto, Dropped, BrokenOff
    <3> QED
      BY <2>2, <3>1, HistoryKept DEF Places
  <2> QED
    BY <2>1, <2>2
<1>8. ASSUME NEW c \in Clients, Resume(c) PROVE HistoryInv'
  <2>1. PICK j \in Jobs : store[j] # 0 /\ job' = [job EXCEPT ![c] = j]
    BY <1>8 DEF Resume
  <2>2. UNCHANGED <<queue, store, starts, known>> /\ at' = [at EXCEPT ![c] = "driving"]
    BY <1>8 DEF Resume, Goto
  <2>3. starts[j] # 0
    BY <2>1 DEF HistoryInv, NothingBeforeStart
  <2>4. BusyWithStarted'
    BY <2>1, <2>2, <2>3 DEF HistoryInv, BusyWithStarted, Types
  <2> QED
    BY <2>2, <2>4 DEF HistoryInv, QueuedOnce, NothingBeforeStart, StartedOnce
<1>9. ASSUME NEW c \in Clients, Yield(c) PROVE HistoryInv'
  <2>1. PICK what \in {"paused", "over"} : Told(job[c], what)
    BY <1>9 DEF Yield, TellsEnd
  <2> QED
    BY <1>9, <2>1, HistoryKept DEF Yield, Goto, Places
<1>10. ASSUME NEW c \in Clients, Leaves(c) PROVE HistoryInv'
  <2>1. /\ UNCHANGED <<queue, job, starts>> /\ at[c] # "idle"
        /\ at' = [at EXCEPT ![c] = "idle"]
        /\ store' = store \/ store' = Remembered(c)
        /\ known' = known \/ Told(job[c], "unknown")
    BY <1>10 DEF Leaves, Goto, Dropped, BrokenOff
  <2> QED
    BY <2>1, HistoryKept DEF Places
<1>11. ASSUME NEW a \in Actors, Raises(a) PROVE HistoryInv'
  BY <1>11, HistoryKept DEF Raises, Goto, ghosts, Places
<1>12. ASSUME NEW a \in Actors, Drive(a) PROVE HistoryInv'
  <2>1. PICK place \in {"yielding", "remembering"} : at' = [at EXCEPT ![a] = place]
    BY <1>12 DEF Drive, Goto
  <2> QED
    BY <1>12, <2>1, HistoryKept DEF Drive, ghosts, Places
<1>13. ASSUME NEW a \in Actors, Remember(a) PROVE HistoryInv'
  <2>1. NextOf(a) \in Places
    BY DEF NextOf, Places
  <2>2. PICK what \in {"paused", "over"} : Told(job[a], what)
    BY <1>13 DEF Remember, TellsEnd
  <2> QED
    BY <1>13, <2>1, <2>2, HistoryKept DEF Remember, Goto
<1>14. ASSUME NEW a \in Actors, RememberFails(a) PROVE HistoryInv'
  <2>1. /\ UNCHANGED <<queue, job, starts>> /\ at[a] # "idle"
        /\ at' = [at EXCEPT ![a] = "idle"]
        /\ store' = store \/ store' = Remembered(a)
        /\ known' = known \/ Told(job[a], "unknown")
    BY <1>14 DEF RememberFails, Goto, BrokenOff
  <2> QED
    BY <2>1, HistoryKept DEF Places
<1>15. ASSUME NEW c \in Clients, Open(c) PROVE HistoryInv'
  <2>1. PICK j \in Jobs :
           /\ starts[j] = 0 /\ known[j] = "new" /\ job' = [job EXCEPT ![c] = j]
           /\ starts' = [starts EXCEPT ![j] = @ + 1]
           /\ known' = [known EXCEPT ![j] = "asked"]
    BY <1>15 DEF Open, Told
  <2>2. UNCHANGED <<queue, store>> /\ at' = [at EXCEPT ![c] = "driving"]
    BY <1>15 DEF Open, Goto
  <2>3. /\ starts'[j] = 1 /\ \A k \in Jobs : k # j => starts'[k] = starts[k]
        /\ known'[j] = "asked" /\ \A k \in Jobs : k # j => known'[k] = known[k]
    BY <2>1 DEF Types
  <2>4. \A i \in 1 .. Len(queue) : queue[i] \in Jobs /\ queue[i] # j
    BY <2>1 DEF HistoryInv, QueuedOnce, Types
  <2>5. QueuedOnce'
    BY <2>2, <2>3, <2>4 DEF HistoryInv, QueuedOnce
  <2>6. BusyWithStarted'
    BY <2>1, <2>2, <2>3 DEF HistoryInv, BusyWithStarted, Types
  <2>7. NothingBeforeStart'
    BY <2>2, <2>3 DEF HistoryInv, NothingBeforeStart
  <2>8. StartedOnce'
    BY <2>3 DEF HistoryInv, StartedOnce
  <2> QED
    BY <2>5, <2>6, <2>7, <2>8 DEF HistoryInv
<1>16. CASE UNCHANGED vars
  BY <1>16 DEF vars, actors, ghosts, HistoryInv, QueuedOnce, BusyWithStarted,
               NothingBeforeStart, StartedOnce
<1> QED
  BY <1>1, <1>2, <1>3, <1>4, <1>5, <1>6, <1>7, <1>8, <1>9, <1>10, <1>11, <1>12,
     <1>13, <1>14, <1>15, <1>16 DEF Next

-----------------------------------------------------------------------------
(* The counters. *)

(* One count together with one take that ended keeps the sums. *)
LEMMA OnceCounted ==
  ASSUME Types, EachTakeCountsOnce, NEW w \in Workers,
         NEW c \in {"completed", "failed"}, Count(w, c), Handled(w, "ended")
  PROVE  EachTakeCountsOnce'
<1> SUFFICES ASSUME NEW v \in Workers
             PROVE  tally'[v].completed + tally'[v].failed = handled'[v].ended
  BY DEF EachTakeCountsOnce
<1>1. /\ tally[v] \in [completed : Nat, failed : Nat]
      /\ handled[v] \in [ended : Nat, paused : Nat]
      /\ tally[v].completed + tally[v].failed = handled[v].ended
  BY DEF Types, EachTakeCountsOnce
<1>2. CASE v = w
  <2>1. tally'[v] = [tally[v] EXCEPT ![c] = @ + 1]
    BY <1>2 DEF Count, Types
  <2>2. handled'[v] = [handled[v] EXCEPT !["ended"] = @ + 1]
    BY <1>2 DEF Handled, Types
  <2>3. handled'[v].ended = handled[v].ended + 1
    BY <1>1, <2>2
  <2>4. CASE c = "completed"
    BY <1>1, <2>1, <2>3, <2>4
  <2>5. CASE c = "failed"
    BY <1>1, <2>1, <2>3, <2>5
  <2> QED
    BY <2>4, <2>5
<1>3. CASE v # w
  BY <1>1, <1>3 DEF Count, Handled, Types
<1> QED
  BY <1>2, <1>3

(* Every step keeps the sums. *)
LEMMA CountsHold == ASSUME Types, EachTakeCountsOnce, [Next]_vars PROVE EachTakeCountsOnce'
<1>1. CASE UNCHANGED counters
  BY <1>1 DEF counters, EachTakeCountsOnce
<1>2. ASSUME NEW w \in Workers, NEW c \in {"completed", "failed"},
             Count(w, c), Handled(w, "ended")
      PROVE  EachTakeCountsOnce'
  BY <1>2, OnceCounted
<1>3. ASSUME NEW w \in Workers, Finish(w) PROVE EachTakeCountsOnce'
  <2>1. CASE Paused(w)
    <3>1. tally' = tally /\ Handled(w, "paused")
      BY <1>3, <2>1 DEF Finish
    <3>2. \A v \in Workers : handled'[v].ended = handled[v].ended
      <4> TAKE v \in Workers
      <4>1. handled[v] \in [ended : Nat, paused : Nat]
        BY DEF Types
      <4>2. handled'[v] = handled[v] \/ handled'[v] = [handled[v] EXCEPT !["paused"] = @ + 1]
        BY <3>1 DEF Handled, Types
      <4> QED
        BY <4>1, <4>2
    <3> QED
      BY <3>1, <3>2 DEF EachTakeCountsOnce
  <2>2. CASE ~Paused(w)
    <3>1. result[w] \in {"completed", "failed"}
      BY <2>2 DEF Paused, Types, Results, Actors
    <3> QED
      BY <1>3, <2>2, <3>1, OnceCounted DEF Finish
  <2> QED
    BY <2>1, <2>2
<1>4. ASSUME NEW w \in Workers, Crash(w) PROVE EachTakeCountsOnce'
  <2>1. /\ tally' = [tally EXCEPT ![w] = [completed |-> 0, failed |-> 0]]
        /\ handled' = [handled EXCEPT ![w] = [ended |-> 0, paused |-> 0]]
    BY <1>4 DEF Crash
  <2>2. tally'[w].completed + tally'[w].failed = handled'[w].ended
    BY <2>1 DEF Types
  <2>3. \A v \in Workers : v # w => tally'[v] = tally[v] /\ handled'[v] = handled[v]
    BY <2>1 DEF Types
  <2> QED
    BY <2>2, <2>3 DEF EachTakeCountsOnce
<1>5. ASSUME NEW j \in Jobs, Enqueue(j) PROVE UNCHANGED counters
  BY <1>5 DEF Enqueue
<1>6. ASSUME NEW w \in Workers, Take(w) \/ File(w) PROVE UNCHANGED counters
  BY <1>6 DEF Take, File
<1>7. ASSUME NEW c \in Clients, Open(c) \/ Resume(c) \/ Yield(c) \/ Leaves(c)
      PROVE  UNCHANGED counters
  BY <1>7 DEF Open, Resume, Yield, Leaves
<1>8. ASSUME NEW a \in Actors, Drive(a) \/ Remember(a) PROVE UNCHANGED counters
  BY <1>8 DEF Drive, Remember
<1>9. ASSUME NEW w \in Workers, TakeFails(w) \/ FileFails(w) PROVE EachTakeCountsOnce'
  BY <1>2, <1>9 DEF TakeFails, FileFails
<1>10. ASSUME NEW a \in Actors, Raises(a) \/ RememberFails(a) PROVE EachTakeCountsOnce'
  BY <1>1, <1>2, <1>10 DEF Raises, RememberFails
<1>11. CASE UNCHANGED vars
  BY <1>1, <1>11 DEF vars
<1> QED
  BY <1>1, <1>3, <1>4, <1>5, <1>6, <1>7, <1>8, <1>9, <1>10, <1>11 DEF Next

-----------------------------------------------------------------------------
(* The store and what the callers know. *)

(* Nothing is said or saved, nobody begins to drive, and nobody turns from    *)
(* telling to something else.                                                *)
LEMMA Leaving ==
  ASSUME StoreFollows, UNCHANGED <<store, known, overlapped, cutOff>>,
         \A j \in Jobs : Busy(j)' \subseteq Busy(j) /\ (Telling(j) => Telling(j)')
  PROVE  StoreFollows'
BY DEF StoreFollows, Agrees

(* One that is not telling moves on, without a word. *)
LEMMA MovingOn ==
  ASSUME Types, StoreFollows, UNCHANGED <<store, known, overlapped, cutOff, job, mode>>,
         NEW a \in Actors, at[a] \notin BusyPlaces \/ at[a] = "driving" \/ at[a] = "yielding",
         NEW place, at' = [at EXCEPT ![a] = place],
         place \in BusyPlaces => at[a] \in BusyPlaces
  PROVE  StoreFollows'
<1>1. ASSUME NEW j \in Jobs PROVE Busy(j)' \subseteq Busy(j)
  BY DEF Busy, Types, BusyPlaces
<1>2. ASSUME NEW j \in Jobs, Telling(j) PROVE Telling(j)'
  <2>1. PICK b \in Busy(j) : at[b] = "remembering" /\ mode[b] = "stream"
    BY <1>2 DEF Telling
  <2>2. b # a /\ b \in Actors
    BY <2>1 DEF BusyPlaces, Busy
  <2>3. b \in Busy(j)' /\ at'[b] = "remembering" /\ mode'[b] = "stream"
    BY <2>1, <2>2 DEF Busy, Types
  <2> QED
    BY <2>3 DEF Telling
<1> QED
  BY <1>1, <1>2, Leaving

(* Whoever is at a run that is not overlapped is alone with it, so that when *)
(* it turns to something else nobody is left, and nobody else is telling.    *)
LEMMA NobodyLeft ==
  ASSUME Types, StoreFollows, NEW a \in Actors, at[a] \in BusyPlaces, job[a] \in Jobs,
         UNCHANGED <<job, mode>>,
         NEW place, place \notin BusyPlaces, at' = [at EXCEPT ![a] = place]
  PROVE  /\ \A j \in Jobs : Busy(j)' \subseteq Busy(j)
         /\ \A j \in Jobs : j # job[a] /\ Telling(j) => Telling(j)'
         /\ job[a] \notin overlapped => Busy(job[a])' = {}
<1>1. \A j \in Jobs : Busy(j)' \subseteq Busy(j) /\ a \notin Busy(j)'
  BY DEF Busy, Types, BusyPlaces
<1>2. a \in Busy(job[a])
  BY DEF Busy, BusyPlaces
<1>3. job[a] \notin overlapped => \A x, y \in Busy(job[a]) : x = y
  BY DEF StoreFollows
<1>4. ASSUME NEW j \in Jobs, j # job[a], Telling(j) PROVE Telling(j)'
  <2>1. PICK b \in Busy(j) : at[b] = "remembering" /\ mode[b] = "stream"
    BY <1>4 DEF Telling
  <2>2. b # a /\ b \in Actors
    BY <1>4, <2>1 DEF Busy
  <2>3. b \in Busy(j)' /\ at'[b] = "remembering" /\ mode'[b] = "stream"
    BY <2>1, <2>2 DEF Busy, Types
  <2> QED
    BY <2>3 DEF Telling
<1> QED
  BY <1>1, <1>2, <1>3, <1>4

(* One leaves its run while the end is being remembered: nobody learns what   *)
(* became of it, or a client knows more than the store may.                  *)
LEMMA LeavingInDoubt ==
  ASSUME Types, StoreFollows, NEW a \in Actors, at[a] = "remembering", job[a] \in Jobs,
         UNCHANGED <<job, mode, overlapped>>, at' = [at EXCEPT ![a] = "idle"],
         BrokenOff(a)
  PROVE  StoreFollows'
<1>1. /\ \A j \in Jobs : Busy(j)' \subseteq Busy(j)
      /\ \A j \in Jobs : j # job[a] /\ Telling(j) => Telling(j)'
  BY NobodyLeft DEF BusyPlaces
<1>2. \A j \in Jobs : j # job[a] => /\ store'[j] = store[j] /\ known'[j] = known[j]
                                    /\ j \in cutOff' <=> j \in cutOff
  BY DEF BrokenOff, Remembered, Told, Types
<1>3. job[a] \in cutOff' \/ known'[job[a]] = "unknown"
  BY DEF BrokenOff, Told, Types
<1>4. ASSUME NEW j \in Jobs \ overlapped' PROVE \A x, y \in Busy(j)' : x = y
  BY <1>1 DEF StoreFollows
<1>5. ASSUME NEW j \in Jobs \ overlapped', j \notin cutOff', ~Telling(j)' PROVE Agrees(j)'
  <2>1. CASE j = job[a]
    BY <1>3, <1>5, <2>1 DEF Agrees
  <2>2. CASE j # job[a]
    BY <1>1, <1>2, <1>5, <2>2 DEF StoreFollows, Agrees
  <2> QED
    BY <2>1, <2>2
<1> QED
  BY <1>4, <1>5 DEF StoreFollows

(* What somebody drops leaves the store and the callers as they are, unless it *)
(* was remembering.                                                           *)
LEMMA Dropping ==
  ASSUME Types, StoreFollows, NEW a \in Actors, at[a] # "idle" => job[a] \in Jobs,
         UNCHANGED <<job, mode, overlapped>>, at' = [at EXCEPT ![a] = "idle"],
         Dropped(a)
  PROVE  StoreFollows'
<1>1. CASE at[a] = "remembering"
  BY <1>1, LeavingInDoubt DEF Dropped
<1>2. CASE at[a] # "remembering"
  <2>1. UNCHANGED <<store, known, cutOff>>
    BY <1>2 DEF Dropped
  <2> QED
    BY <1>2, <2>1, MovingOn DEF BusyPlaces
<1> QED
  BY <1>1, <1>2

(* A caller that has not been at anything begins a run that nobody is at, and *)
(* of which nothing disagrees.                                               *)
LEMMA Beginning ==
  ASSUME Types, StoreFollows, NEW a \in Actors, at[a] = "idle", NEW j \in Jobs,
         at' = [at EXCEPT ![a] = "driving"], job' = [job EXCEPT ![a] = j],
         \A b \in Actors : b # a => mode'[b] = mode[b],
         UNCHANGED <<store, cutOff>>,
         \A k \in Jobs : known'[k] = known[k] \/ (k = j /\ Busy(j) = {} /\ known'[k] = "asked"),
         overlapped \subseteq overlapped', j \notin overlapped' => Busy(j) = {}
  PROVE  StoreFollows'
<1>1. \A b \in Actors : b # a => at'[b] = at[b] /\ job'[b] = job[b]
  BY DEF Types
<1>2. at'[a] = "driving" /\ job'[a] = j
  BY DEF Types
<1>3. \A k \in Jobs : k # j => Busy(k)' \subseteq Busy(k)
  BY <1>1, <1>2 DEF Busy
<1>4. Busy(j) = {} => Busy(j)' \subseteq {a}
  BY <1>1 DEF Busy
<1>5. ASSUME NEW k \in Jobs, Telling(k) PROVE Telling(k)'
  <2>1. PICK b \in Busy(k) : at[b] = "remembering" /\ mode[b] = "stream"
    BY <1>5 DEF Telling
  <2>2. b # a /\ b \in Actors
    BY <2>1 DEF Busy
  <2>3. b \in Busy(k)' /\ at'[b] = "remembering" /\ mode'[b] = "stream"
    BY <1>1, <2>1, <2>2 DEF Busy
  <2> QED
    BY <2>3 DEF Telling
<1>6. ASSUME NEW k \in Jobs \ overlapped' PROVE \A x, y \in Busy(k)' : x = y
  BY <1>3, <1>4 DEF StoreFollows
<1>7. ASSUME NEW k \in Jobs \ overlapped', k \notin cutOff', ~Telling(k)' PROVE Agrees(k)'
  <2>1. k \in Jobs \ overlapped /\ k \notin cutOff /\ ~Telling(k)
    BY <1>5, <1>7
  <2>2. Agrees(k)
    BY <2>1 DEF StoreFollows
  <2> QED
    BY <2>2 DEF Agrees
<1> QED
  BY <1>6, <1>7 DEF StoreFollows

(* A client is told by its frame, and the store comes after. *)
LEMMA TellingFirst ==
  ASSUME Types, StoreFollows, NEW a \in Actors, at[a] = "yielding", job[a] \in Jobs,
         mode[a] = "stream",
         UNCHANGED <<job, mode, store, overlapped, cutOff>>,
         at' = [at EXCEPT ![a] = "remembering"], TellsEnd(a)
  PROVE  StoreFollows'
<1>1. \A j \in Jobs : Busy(j)' \subseteq Busy(j)
  BY DEF Busy, Types
<1>2. at'[a] = "remembering" /\ mode'[a] = "stream" /\ a \in Busy(job[a])'
  BY DEF Busy, Types
<1>3. Telling(job[a])'
  BY <1>2 DEF Telling
<1>4. ASSUME NEW j \in Jobs, Telling(j) PROVE Telling(j)'
  <2>1. PICK b \in Busy(j) : at[b] = "remembering" /\ mode[b] = "stream"
    BY <1>4 DEF Telling
  <2>2. b # a /\ b \in Actors
    BY <2>1 DEF Busy
  <2>3. b \in Busy(j)' /\ at'[b] = "remembering" /\ mode'[b] = "stream"
    BY <2>1, <2>2 DEF Busy, Types
  <2> QED
    BY <2>3 DEF Telling
<1>5. \A j \in Jobs : j # job[a] => known'[j] = known[j]
  BY DEF TellsEnd, Told, Types
<1>6. ASSUME NEW j \in Jobs \ overlapped', j \notin cutOff', ~Telling(j)' PROVE Agrees(j)'
  BY <1>3, <1>4, <1>5, <1>6 DEF StoreFollows, Agrees
<1>7. ASSUME NEW j \in Jobs \ overlapped' PROVE \A x, y \in Busy(j)' : x = y
  BY <1>1 DEF StoreFollows
<1> QED
  BY <1>6, <1>7 DEF StoreFollows

(* Every step keeps store and knowledge together. *)
LEMMA StoreHolds ==
  ASSUME Types, Types', HistoryInv, StoreFollows, [Next]_vars
  PROVE  StoreFollows'
<1> USE DEF Actors
<1>0. \A a \in Actors : at[a] # "idle" => job[a] \in Jobs
  BY DEF HistoryInv, BusyWithStarted
<1>1. ASSUME NEW j \in Jobs, Enqueue(j) PROVE StoreFollows'
  <2>1. /\ UNCHANGED <<store, at, job, mode, overlapped, cutOff>>
        /\ known' = [known EXCEPT ![j] = "asked"]
    BY <1>1 DEF Enqueue, actors, Told
  <2>2. \A k \in Jobs : Busy(k)' = Busy(k) /\ (Telling(k)' <=> Telling(k))
    BY <2>1 DEF Busy, Telling
  <2>3. \A k \in Jobs : Agrees(k) => Agrees(k)'
    BY <2>1 DEF Agrees, Types
  <2> QED
    BY <2>1, <2>2, <2>3 DEF StoreFollows
<1>2. ASSUME NEW w \in Workers, Take(w) PROVE StoreFollows'
  <2>1. /\ at[w] = "idle" /\ queue # <<>> /\ UNCHANGED <<store, known, mode, overlapped, cutOff>>
        /\ at' = [at EXCEPT ![w] = "driving"] /\ job' = [job EXCEPT ![w] = Head(queue)]
    BY <1>2 DEF Take
  <2>2. PICK h \in Jobs : h = Head(queue) /\ h = queue[1] /\ Len(queue) \in Nat \ {0}
    BY <2>1, TailFacts DEF Types
  <2>3. starts[h] = 0
    BY <2>2 DEF HistoryInv, QueuedOnce
  <2>4. Busy(h) = {}
    BY <2>3 DEF HistoryInv, BusyWithStarted, Busy
  <2> QED
    BY <2>1, <2>2, <2>4, Beginning
<1>3. ASSUME NEW w \in Workers, TakeFails(w) PROVE StoreFollows'
  BY <1>3, Leaving DEF TakeFails, actors, ghosts, Busy, Telling
<1>4. ASSUME NEW w \in Workers, File(w) PROVE StoreFollows'
  BY <1>4, MovingOn DEF File, Goto, ghosts, BusyPlaces
<1>5. ASSUME NEW w \in Workers, FileFails(w) PROVE StoreFollows'
  BY <1>5, MovingOn DEF FileFails, Goto, ghosts, BusyPlaces
<1>6. ASSUME NEW w \in Workers, Finish(w) PROVE StoreFollows'
  BY <1>6, MovingOn DEF Finish, Goto, ghosts, BusyPlaces
<1>7. ASSUME NEW w \in Workers, Crash(w) PROVE StoreFollows'
  BY <1>0, <1>7, Dropping DEF Crash, Goto
<1>8. ASSUME NEW c \in Clients, Resume(c) PROVE StoreFollows'
  <2>1. PICK j \in Jobs, m \in Modes :
           /\ job' = [job EXCEPT ![c] = j] /\ mode' = [mode EXCEPT ![c] = m]
           /\ overlapped' = IF Busy(j) = {} THEN overlapped ELSE overlapped \cup {j}
    BY <1>8 DEF Resume
  <2>2. /\ at[c] = "idle" /\ at' = [at EXCEPT ![c] = "driving"]
        /\ UNCHANGED <<store, known, cutOff>>
    BY <1>8 DEF Resume, Goto
  <2>3. \A b \in Actors : b # c => mode'[b] = mode[b]
    BY <2>1 DEF Types
  <2> QED
    BY <2>1, <2>2, <2>3, Beginning
<1>9. ASSUME NEW c \in Clients, Open(c) PROVE StoreFollows'
  <2>1. PICK j \in Jobs, m \in Modes :
           /\ starts[j] = 0
           /\ job' = [job EXCEPT ![c] = j] /\ mode' = [mode EXCEPT ![c] = m]
           /\ known' = [known EXCEPT ![j] = "asked"]
    BY <1>9 DEF Open, Told
  <2>2. /\ at[c] = "idle" /\ at' = [at EXCEPT ![c] = "driving"]
        /\ UNCHANGED <<store, overlapped, cutOff>>
    BY <1>9 DEF Open, Goto
  <2>3. \A b \in Actors : b # c => mode'[b] = mode[b]
    BY <2>1 DEF Types
  <2>4. Busy(j) = {}
    BY <2>1 DEF HistoryInv, BusyWithStarted, Busy
  <2>5. known'[j] = "asked" /\ \A k \in Jobs : k # j => known'[k] = known[k]
    BY <2>1 DEF Types
  <2> QED
    BY <2>1, <2>2, <2>3, <2>4, <2>5, Beginning
<1>10. ASSUME NEW c \in Clients, Yield(c) PROVE StoreFollows'
  <2>1. /\ at[c] = "yielding" /\ at' = [at EXCEPT ![c] = "remembering"]
        /\ UNCHANGED <<job, mode, store, overlapped, cutOff>> /\ TellsEnd(c)
    BY <1>10 DEF Yield, Goto
  <2>2. mode[c] = "stream" /\ job[c] \in Jobs
    BY <1>0, <2>1 DEF Types
  <2> QED
    BY <2>1, <2>2, TellingFirst
<1>11. ASSUME NEW c \in Clients, Leaves(c) PROVE StoreFollows'
  BY <1>0, <1>11, Dropping DEF Leaves, Goto
<1>12. ASSUME NEW a \in Actors, Raises(a) PROVE StoreFollows'
  BY <1>12, MovingOn DEF Raises, Goto, ghosts, BusyPlaces
<1>13. ASSUME NEW a \in Actors, Drive(a) PROVE StoreFollows'
  BY <1>13, MovingOn DEF Drive, Goto, ghosts, BusyPlaces
<1>14. ASSUME NEW a \in Actors, Remember(a) PROVE StoreFollows'
  <2>1. /\ at[a] = "remembering" /\ at' = [at EXCEPT ![a] = NextOf(a)]
        /\ UNCHANGED <<job, mode, overlapped>> /\ store' = Remembered(a)
        /\ known' = [known EXCEPT ![job[a]] = IF Paused(a) THEN "paused" ELSE "over"]
        /\ cutOff' = cutOff \ {job[a]}
    BY <1>14 DEF Remember, Goto, TellsEnd, Told
  <2>2. job[a] \in Jobs
    BY <1>0, <2>1
  <2>3. NextOf(a) \notin BusyPlaces
    BY DEF NextOf, BusyPlaces
  <2>4. /\ \A j \in Jobs : Busy(j)' \subseteq Busy(j)
        /\ \A j \in Jobs : j # job[a] /\ Telling(j) => Telling(j)'
    BY <2>1, <2>2, <2>3, NobodyLeft DEF BusyPlaces
  <2>5. \A j \in Jobs : j # job[a] => store'[j] = store[j] /\ known'[j] = known[j]
    BY <2>1, <2>2 DEF Remembered, Types
  <2>6. /\ known'[job[a]] = IF Paused(a) THEN "paused" ELSE "over"
        /\ store'[job[a]] = IF Paused(a) THEN from[a] + 1 ELSE 0
    BY <2>1, <2>2 DEF Remembered, Types
  <2>7. from[a] + 1 # 0
    BY DEF Types
  <2>8. ASSUME NEW j \in Jobs, j = job[a] PROVE Agrees(j)'
    BY <2>6, <2>7, <2>8 DEF Agrees
  <2>9. ASSUME NEW j \in Jobs \ overlapped', j \notin cutOff', ~Telling(j)' PROVE Agrees(j)'
    BY <2>1, <2>4, <2>5, <2>8, <2>9 DEF StoreFollows, Agrees
  <2>10. ASSUME NEW j \in Jobs \ overlapped' PROVE \A x, y \in Busy(j)' : x = y
    BY <2>1, <2>4 DEF StoreFollows
  <2> QED
    BY <2>9, <2>10 DEF StoreFollows
<1>15. ASSUME NEW a \in Actors, RememberFails(a) PROVE StoreFollows'
  <2>1. /\ at[a] = "remembering" /\ at' = [at EXCEPT ![a] = "idle"]
        /\ UNCHANGED <<job, mode, overlapped>> /\ BrokenOff(a)
    BY <1>15 DEF RememberFails, Goto
  <2> QED
    BY <1>0, <2>1, LeavingInDoubt
<1>16. CASE UNCHANGED vars
  BY <1>16, Leaving DEF vars, actors, ghosts, Busy, Telling
<1> QED
  BY <1>1, <1>2, <1>3, <1>4, <1>5, <1>6, <1>7, <1>8, <1>9, <1>10, <1>11, <1>12,
     <1>13, <1>14, <1>15, <1>16 DEF Next

-----------------------------------------------------------------------------
(* The theorems. *)

SInv == Types /\ HistoryInv /\ EachTakeCountsOnce /\ StoreFollows

(* The invariant holds at first. *)
LEMMA SInvInit == Init => SInv
<1> SUFFICES ASSUME Init PROVE SInv
  OBVIOUS
<1>1. Types
  BY DEF Init, Types, Places, Results, Knowledge
<1>2. HistoryInv
  BY DEF Init, HistoryInv, QueuedOnce, BusyWithStarted, NothingBeforeStart, StartedOnce
<1>3. EachTakeCountsOnce
  <2> SUFFICES ASSUME NEW w \in Workers
               PROVE  tally[w].completed + tally[w].failed = handled[w].ended
    BY DEF EachTakeCountsOnce
  <2>1. tally[w] = [completed |-> 0, failed |-> 0] /\ handled[w] = [ended |-> 0, paused |-> 0]
    BY DEF Init
  <2> QED
    BY <2>1
<1>4. StoreFollows
  BY DEF Init, StoreFollows, Busy, Agrees
<1> QED
  BY <1>1, <1>2, <1>3, <1>4 DEF SInv

(* Every step keeps the invariant. *)
LEMMA SInvStep == SInv /\ [Next]_vars => SInv'
<1> SUFFICES ASSUME SInv, [Next]_vars PROVE SInv'
  OBVIOUS
<1>1. Types'
  BY TypesHold DEF SInv, HistoryInv
<1> QED
  BY <1>1, HistoryHolds, CountsHold, StoreHolds DEF SInv

(* The invariant of the service. *)
LEMMA SInvAlways == Spec => []SInv
BY SInvInit, SInvStep, PTL DEF Spec

\* A job is started at most once, whatever crashes, and however many workers take
\* from the queue (worker.py, WorkflowWorker.run_forever).
THEOREM JobsStartOnce == Spec => []StartedOnce
<1>1. SInv => StartedOnce
  BY DEF SInv, HistoryInv
<1> QED
  BY <1>1, SInvAlways, PTL

\* The counters of every worker account for the takes that ended with it, each
\* of them once (worker.py, WorkflowWorker.handle and run_forever).
THEOREM CountersAddUp == Spec => []EachTakeCountsOnce
<1>1. SInv => EachTakeCountsOnce
  BY DEF SInv
<1> QED
  BY <1>1, SInvAlways, PTL

\* Of every run that no two callers drove at once, the store holds a checkpoint
\* when they were last told, by response or by frame, that it is paused, and none
\* when they were told that it is over, unless the bookkeeping behind the frame
\* broke off (service.py, remember, remember_event and sse_frames).
THEOREM StoreAgrees == Spec => []StoreTellsTheSame
<1>1. SInv => StoreTellsTheSame
  BY DEF SInv, StoreFollows, StoreTellsTheSame, Telling, Agrees
<1> QED
  BY <1>1, SInvAlways, PTL
=============================================================================
