------------------------- MODULE EventStreamProofs -------------------------
(***************************************************************************)
(* Proofs about EventStream, for any number of node tasks, of events and   *)
(* of slots in the queue, with nodes that run into their timeout, sinks    *)
(* that suspend or raise and a consumer that may leave.                    *)
(***************************************************************************)
EXTENDS EventStream, FiniteSetTheorems, TLAPS

Stages == {"opening", "wave", "ending", "closing", "done"}
Suspensions == {"running", "sinking", "waiting", "woken", "ended"}

\* What the arguments need of the types.
Types ==
    /\ setup \in Setups
    /\ stage \in Stages
    /\ task \in [Tasks -> Suspensions]
    /\ held \in [Tasks -> Nat]
    /\ left \in [Emitters -> Nat]
    /\ seq \in Nat
    /\ queue \in Seq(Nat)
    /\ putters \in Seq(Tasks)
    /\ cancelled \subseteq Tasks
    /\ received \in Seq(Nat)
    /\ cutShort \in BOOLEAN

-----------------------------------------------------------------------------
(* Least elements, and the line of waiting tasks.                          *)

\* Min finds the least element.
LEMMA LeastElement ==
    ASSUME NEW S \in SUBSET Nat, S # {}
    PROVE  Min(S) \in S /\ \A y \in S : Min(S) <= y
<1> DEFINE R == OpToRel(<, Nat)
<1>1. R = {p \in Nat \X Nat : p[1] < p[2]}
  BY DEF OpToRel
<1>2. IsWellFoundedOn(R, Nat)
  BY NatLessThanWellFounded
<1> HIDE DEF R
<1>3. \E x \in S : \A y \in S : <<y, x>> \notin R
  BY <1>2, WFMin
<1>4. \E x \in S : \A y \in S : x <= y
  <2>1. PICK x \in S : \A y \in S : <<y, x>> \notin R
    BY <1>3
  <2>2. ASSUME NEW y \in S PROVE x <= y
    <3>1. <<y, x>> \in R <=> y < x
      BY <1>1
    <3> QED BY <2>1, <3>1
  <2> QED BY <2>2
<1> QED BY <1>4 DEF Min

\* A line without repetitions, with an element taken out of its middle or with
\* everything up to an element cut off.
Distinct(s) == \A i, j \in DOMAIN s : s[i] = s[j] => i = j

\* What follows a member of a line has the members behind it, and no others.
LEMMA CutAfter ==
    ASSUME NEW S, NEW s \in Seq(S), NEW m \in DOMAIN s, Distinct(s)
    PROVE  LET r == SubSeq(s, m + 1, Len(s))
           IN  /\ r \in Seq(S) /\ Distinct(r)
               /\ \A i \in DOMAIN r : r[i] \in Range(s) /\ r[i] # s[m]
               /\ \A i \in DOMAIN s : i > m => s[i] \in Range(r)
<1> DEFINE r == SubSeq(s, m + 1, Len(s))
<1>1. /\ m \in 1 .. Len(s) /\ Len(s) \in Nat /\ DOMAIN s = 1 .. Len(s)
      /\ r \in Seq(S) /\ Len(r) = Len(s) - m /\ DOMAIN r = 1 .. Len(s) - m
      /\ \A i \in 1 .. Len(s) - m : r[i] = s[m + i]
  OBVIOUS
<1> HIDE DEF r
<1>2. \A i \in DOMAIN r : m + i \in DOMAIN s /\ m + i # m /\ r[i] = s[m + i]
  BY <1>1
<1>3. \A i \in DOMAIN s : i > m => i - m \in DOMAIN r /\ r[i - m] = s[i]
  BY <1>1
<1>4. Distinct(r)
  BY <1>1, <1>2 DEF Distinct
<1>5. \A i \in DOMAIN r : r[i] \in Range(s) /\ r[i] # s[m]
  BY <1>2 DEF Range, Distinct
<1>6. \A i \in DOMAIN s : i > m => s[i] \in Range(r)
  BY <1>3 DEF Range
<1> QED BY <1>1, <1>4, <1>5, <1>6 DEF r

\* RemoveFirst takes one member out of a line.
LEMMA TakeOut ==
    ASSUME NEW S, NEW s \in Seq(S), NEW x, Distinct(s)
    PROVE  /\ RemoveFirst(s, x) \in Seq(S)
           /\ Distinct(RemoveFirst(s, x))
           /\ Range(RemoveFirst(s, x)) = Range(s) \ {x}
<1>1. ASSUME \A i \in 1 .. Len(s) : s[i] # x
      PROVE  RemoveFirst(s, x) = s /\ Range(s) = Range(s) \ {x}
  BY <1>1 DEF RemoveFirst, Range
<1>2. ASSUME NEW m \in 1 .. Len(s), s[m] = x, NEW r, r = RemoveFirst(s, x)
      PROVE  r \in Seq(S) /\ Distinct(r) /\ Range(r) = Range(s) \ {x}
  <2>1. {i \in 1 .. Len(s) : s[i] = x} = {m}
    BY <1>2 DEF Distinct
  <2>2. Min({m}) = m
    BY DEF Min
  <2> DEFINE a == SubSeq(s, 1, m - 1)
             b == SubSeq(s, m + 1, Len(s))
  <2>3. r = a \o b
    BY <1>2, <2>1, <2>2 DEF RemoveFirst, RemoveAt, SelectInSeq
  <2>4. /\ a \in Seq(S) /\ Len(a) = m - 1 /\ \A i \in 1 .. m - 1 : a[i] = s[i]
        /\ b \in Seq(S) /\ Len(b) = Len(s) - m
        /\ \A i \in 1 .. Len(s) - m : b[i] = s[m + i]
        /\ m \in Nat /\ Len(s) \in Nat /\ m <= Len(s) /\ DOMAIN s = 1 .. Len(s)
    OBVIOUS
  <2> HIDE DEF a, b
  <2>5. /\ r \in Seq(S) /\ DOMAIN r = 1 .. Len(s) - 1
        /\ \A i \in 1 .. Len(s) - 1 : r[i] = IF i <= m - 1 THEN a[i] ELSE b[i - (m - 1)]
    BY <2>3, <2>4
  <2>6. \A i \in 1 .. Len(s) - 1 : r[i] = IF i < m THEN s[i] ELSE s[i + 1]
    <3> SUFFICES ASSUME NEW i \in 1 .. Len(s) - 1
                 PROVE  r[i] = IF i < m THEN s[i] ELSE s[i + 1]
      OBVIOUS
    <3>1. CASE i < m
      BY <2>4, <2>5, <3>1
    <3>2. CASE i >= m
      <4>1. i - (m - 1) \in 1 .. Len(s) - m /\ m + (i - (m - 1)) = i + 1
        BY <2>4, <3>2
      <4>2. b[i - (m - 1)] = s[i + 1]
        BY <2>4, <4>1
      <4> QED BY <2>4, <2>5, <3>2, <4>2
    <3> QED BY <2>4, <3>1, <3>2
  <2> DEFINE at(i) == IF i < m THEN i ELSE i + 1
  <2>10. \A i \in DOMAIN r : at(i) \in DOMAIN s /\ at(i) # m /\ r[i] = s[at(i)]
    BY <2>4, <2>5, <2>6
  <2>11. \A i, j \in DOMAIN r : at(i) = at(j) => i = j
    BY <2>4, <2>5
  <2> HIDE DEF at
  <2>7. Distinct(r)
    BY <2>10, <2>11 DEF Distinct
  <2>8. Range(r) \subseteq Range(s) \ {x}
    BY <1>2, <2>4, <2>10 DEF Distinct, Range
  <2>9. Range(s) \ {x} \subseteq Range(r)
    <3> SUFFICES ASSUME NEW i \in DOMAIN s, i # m PROVE s[i] \in Range(r)
      BY <1>2 DEF Range
    <3>1. CASE i < m
      <4>1. i \in DOMAIN r /\ r[i] = s[i]
        BY <2>4, <2>5, <2>6, <3>1
      <4> QED BY <4>1 DEF Range
    <3>2. CASE i > m
      <4>1. i - 1 \in DOMAIN r /\ r[i - 1] = s[i]
        BY <2>4, <2>5, <2>6, <3>2
      <4> QED BY <4>1 DEF Range
    <3>3. i < m \/ i > m
      BY <2>4
    <3> QED BY <3>1, <3>2, <3>3
  <2> QED BY <2>5, <2>7, <2>8, <2>9
<1> QED BY <1>1, <1>2

\* What a wakeup takes out of the line, and what is left of it.
LEMMA LineMoves ==
    ASSUME Types, Distinct(putters)
    PROVE  /\ OthersWaiting \in Seq(Tasks) /\ Distinct(OthersWaiting)
           /\ Range(OthersWaiting) \subseteq Range(putters)
           /\ InLine = {} =>
                 /\ WakeFirst(task) = task
                 /\ \A t \in Range(putters) : t \in cancelled
           /\ InLine # {} => \E u \in Range(putters) \cap Tasks :
                  /\ WakeFirst(task) = [task EXCEPT ![u] = "woken"]
                  /\ u \notin Range(OthersWaiting)
                  /\ \A t \in Range(putters) \ (cancelled \cup {u}) :
                        t \in Range(OthersWaiting)
<1>1. CASE InLine = {}
  <2>1. OthersWaiting = <<>> /\ WakeFirst(task) = task
    BY <1>1 DEF OthersWaiting, WakeFirst
  <2>2. \A t \in Range(putters) : t \in cancelled
    BY <1>1 DEF InLine, Range
  <2>3. <<>> \in Seq(Tasks) /\ Distinct(<<>>) /\ Range(<<>>) = {}
    BY DEF Distinct, Range
  <2> QED BY <1>1, <2>1, <2>2, <2>3
<1>2. CASE InLine # {}
  <2> DEFINE m == Min(InLine)
             u == putters[m]
  <2>1. putters \in Seq(Tasks) /\ DOMAIN putters = 1 .. Len(putters)
    BY DEF Types
  <2>2. m \in InLine /\ \A y \in InLine : m <= y
    <3>1. InLine \in SUBSET Nat
      BY <2>1 DEF InLine
    <3> QED BY <1>2, <3>1, LeastElement
  <2>3. m \in DOMAIN putters /\ u \notin cancelled
    BY <2>2 DEF InLine
  <2>4. OthersWaiting = SubSeq(putters, m + 1, Len(putters))
    BY <1>2 DEF OthersWaiting
  <2>5. WakeFirst(task) = [task EXCEPT ![u] = "woken"]
    BY <1>2 DEF WakeFirst
  <2> HIDE DEF m
  <2>6. /\ OthersWaiting \in Seq(Tasks) /\ Distinct(OthersWaiting)
        /\ \A i \in DOMAIN OthersWaiting :
              OthersWaiting[i] \in Range(putters) /\ OthersWaiting[i] # putters[m]
        /\ \A i \in DOMAIN putters : i > m => putters[i] \in Range(OthersWaiting)
    BY <2>1, <2>3, <2>4, CutAfter
  <2>7. u \in Range(putters) \cap Tasks
    BY <2>1, <2>3 DEF Range
  <2>8. u \notin Range(OthersWaiting) /\ Range(OthersWaiting) \subseteq Range(putters)
    BY <2>6 DEF Range
  <2>9. ASSUME NEW t \in Range(putters) \ (cancelled \cup {u})
        PROVE  t \in Range(OthersWaiting)
    <3>1. PICK i \in DOMAIN putters : putters[i] = t
      BY DEF Range
    <3>2. i \in InLine /\ i # m
      BY <2>9, <3>1 DEF InLine
    <3>3. i > m
      BY <2>1, <2>2, <2>3, <3>1, <3>2
    <3> QED BY <2>6, <3>1, <3>3
  <2> QED BY <1>2, <2>5, <2>6, <2>7, <2>8, <2>9
<1> QED BY <1>1, <1>2

\* A task joins the line at its end.
LEMMA OneMoreWaits ==
    ASSUME NEW S, NEW s \in Seq(S), NEW x \in S, Distinct(s), x \notin Range(s)
    PROVE  /\ Append(s, x) \in Seq(S) /\ Distinct(Append(s, x))
           /\ Range(Append(s, x)) = Range(s) \cup {x}
<1> DEFINE r == Append(s, x)
<1>1. /\ r \in Seq(S) /\ DOMAIN r = 1 .. Len(s) + 1 /\ Len(s) \in Nat
      /\ DOMAIN s = 1 .. Len(s) /\ r[Len(s) + 1] = x
      /\ \A i \in 1 .. Len(s) : r[i] = s[i]
  OBVIOUS
<1> HIDE DEF r
<1>2. \A i \in DOMAIN r : i \in DOMAIN s \/ i = Len(s) + 1
  BY <1>1
<1>3. \A i \in DOMAIN s : s[i] # x
  BY DEF Range
<1>4. Distinct(r)
  BY <1>1, <1>2, <1>3 DEF Distinct
<1>5. Range(r) = Range(s) \cup {x}
  BY <1>1, <1>2 DEF Range
<1> QED BY <1>1, <1>4, <1>5 DEF r

-----------------------------------------------------------------------------
(* Types.                                                                  *)

\* A put leaves the state well typed, whether it finds room, waits or raises.
LEMMA TypesOfPut ==
    ASSUME Types, NEW t \in Tasks, NEW item \in Nat, Put(t, item)
    PROVE  /\ stage' \in Stages /\ task' \in [Tasks -> Suspensions]
           /\ held' \in [Tasks -> Nat] /\ queue' \in Seq(Nat)
           /\ putters' \in Seq(Tasks)
<1>1. ASSUME NEW s \in Suspensions PROVE [task EXCEPT ![t] = s] \in [Tasks -> Suspensions]
  BY DEF Types
<1>2. ASSUME NEW n \in Nat PROVE [held EXCEPT ![t] = n] \in [Tasks -> Nat]
  BY DEF Types
<1>3. StageAfter \in Stages
  BY DEF Types, StageAfter, Stages
<1>4. Append(queue, item) \in Seq(Nat) /\ Append(putters, t) \in Seq(Tasks)
  BY DEF Types
<1>5. CASE Full
  BY <1>1, <1>2, <1>4, <1>5 DEF Put, Types, Suspensions
<1>6. CASE ~Full
  <2>1. \E s \in Suspensions : task' = [task EXCEPT ![t] = s]
    BY <1>6 DEF Put, Suspensions
  <2>2. /\ task' \in [Tasks -> Suspensions] /\ queue' \in Seq(Nat)
        /\ held' \in [Tasks -> Nat] /\ stage' \in Stages
    <3>1. held' = [held EXCEPT ![t] = 0] /\ queue' = Append(queue, item)
          /\ (stage' = StageAfter \/ stage' = stage)
      BY <1>6 DEF Put
    <3> QED BY <1>1, <1>2, <1>3, <1>4, <2>1, <3>1 DEF Types
  <2> QED BY <1>6, <2>2 DEF Put, Types
<1> QED BY <1>5, <1>6

\* So does emit, which may suspend in the sink first,
LEMMA TypesOfEmit ==
    ASSUME Types, NEW t \in Tasks, Emit(t), SinkAwaits => UNCHANGED stage
    PROVE  /\ stage' \in Stages /\ task' \in [Tasks -> Suspensions]
           /\ held' \in [Tasks -> Nat] /\ queue' \in Seq(Nat)
           /\ putters' \in Seq(Tasks) /\ seq' \in Nat
<1>1. seq + 1 \in Nat
  BY DEF Types
<1>2. CASE ~SinkAwaits /\ Put(t, seq + 1)
  BY <1>1, <1>2, TypesOfPut DEF Emit
<1>3. CASE SinkAwaits
  BY <1>1, <1>3 DEF Emit, Types, Stages, Suspensions
<1> QED BY <1>2, <1>3 DEF Emit

\* and a task that is cancelled.
LEMMA TypesOfCancel ==
    ASSUME Types, Distinct(putters), NEW t \in Tasks
    PROVE  /\ PassWakeup(t) \in [Tasks -> Suspensions]
           /\ StillWaiting(t) \in Seq(Tasks)
<1>1. WakeFirst(task) \in [Tasks -> Suspensions]
  BY LineMoves DEF Types, Suspensions
<1>2. RemoveFirst(putters, t) \in Seq(Tasks)
  BY TakeOut DEF Types
<1> QED BY <1>1, <1>2, LineMoves DEF PassWakeup, StillWaiting, Types

\* Who is in line, and how many slots are on their way to those who are.
Woken == {u \in Tasks : task[u] = "woken"}
Line ==
    /\ Distinct(putters)
    /\ \A t \in Range(putters) : task[t] = "waiting"
    /\ \A t \in Tasks \ cancelled : task[t] = "waiting" => t \in Range(putters)
Slots ==
    \A t \in Tasks : task[t] = "waiting" =>
        /\ MaxSize > 0
        /\ t \notin cancelled => MaxSize <= Len(queue) + Cardinality(Woken)
DriverRests == stage = "wave" => task[Driver] = "running"

\* No step leaves the types.
LEMMA TypesStep ==
    ASSUME StreamShape, Types, Distinct(putters), [Next]_vars
    PROVE  Types'
<1>1. setup' = setup /\ setup \in Setups
  BY DEF Next, NodeStep, DriverStep, ConsumerStep, Step, UnnotedStep, Finished, vars, Types
<1>2. ASSUME NEW e \in Emitters, NodeEmits(e) PROVE Types'
  <2>1. e \in Tasks BY DEF Tasks
  <2>2. CASE ~closed /\ Emit(e) /\ (SinkAwaits => UNCHANGED stage)
    BY <1>1, <1>2, <2>1, <2>2, TypesOfEmit DEF NodeEmits, Types
  <2>3. CASE UNCHANGED <<stage, task, held, seq, queue, putters>>
    BY <1>1, <1>2, <2>3 DEF NodeEmits, Types
  <2> QED BY <1>2, <2>2, <2>3 DEF NodeEmits
<1>3. ASSUME NEW e \in Emitters, NodeEnds(e) PROVE Types'
  BY <1>1, <1>3 DEF NodeEnds, Types, Tasks, Suspensions, stream
<1>4. ASSUME NEW e \in Emitters, CancelNode(e) PROVE Types'
  <2>1. e \in Tasks BY DEF Tasks
  <2> QED BY <1>1, <1>4, <2>1, TypesOfCancel DEF CancelNode, Types, Suspensions
<1>15. ASSUME NEW e \in Emitters, GivesUp(e) PROVE Types'
  <2>1. e \in Tasks BY DEF Tasks
  <2>2. PICK n \in 1 .. left[e] : left' = [left EXCEPT ![e] = n]
    BY <1>15 DEF GivesUp
  <2>3. n \in Nat /\ left' \in [Emitters -> Nat]
    BY <2>2 DEF Types
  <2>4. held' \in [Tasks -> Nat]
    BY <1>15 DEF GivesUp, Types
  <2> QED BY <1>1, <1>15, <2>1, <2>3, <2>4, TypesOfCancel DEF GivesUp, Types, Suspensions
<1>5. ASSUME NEW t \in Tasks, TaskStep(t) PROVE Types'
  <2>1. held[t] \in Nat BY DEF Types
  <2>2. ASSUME SinkReturns(t) \/ Proceed(t) PROVE Types'
    BY <1>1, <2>1, <2>2, TypesOfPut DEF SinkReturns, Proceed, Types
  <2>3. ASSUME SinkRaises(t) PROVE Types'
    BY <1>1, <2>3 DEF SinkRaises, Types, Stages, Suspensions, stream
  <2> QED BY <1>5, <2>2, <2>3 DEF TaskStep
<1>6. ASSUME Open PROVE Types'
  <2>1. Driver \in Tasks BY DEF Tasks
  <2> QED BY <1>1, <1>6, <2>1, TypesOfEmit DEF Open, Types
<1>7. ASSUME Conclude PROVE Types'
  <2>1. Driver \in Tasks BY DEF Tasks
  <2>2. seq + 1 \in Nat /\ Append(queue, seq + 1) \in Seq(Nat)
        /\ Append(putters, Driver) \in Seq(Tasks)
    BY <2>1 DEF Types
  <2>3. /\ [held EXCEPT ![Driver] = seq + 1] \in [Tasks -> Nat]
        /\ [task EXCEPT ![Driver] = "sinking"] \in [Tasks -> Suspensions]
        /\ [task EXCEPT ![Driver] = "waiting"] \in [Tasks -> Suspensions]
    BY <2>2 DEF Types, Suspensions
  <2>4. /\ seq' \in Nat /\ held' \in [Tasks -> Nat] /\ task' \in [Tasks -> Suspensions]
        /\ queue' \in Seq(Nat) /\ putters' \in Seq(Tasks) /\ stage' \in Stages
    BY <1>7, <2>2, <2>3 DEF Conclude, Types, Stages
  <2> QED BY <1>1, <1>7, <2>4 DEF Conclude, Types
<1>8. ASSUME Close PROVE Types'
  <2>1. Driver \in Tasks /\ CLOSED \in Nat BY DEF Tasks, CLOSED
  <2> QED BY <1>1, <1>8, <2>1, TypesOfPut DEF Close, Types
<1>9. ASSUME CancelDriver PROVE Types'
  <2>1. Driver \in Tasks BY DEF Tasks
  <2> QED BY <1>1, <1>9, <2>1, TypesOfCancel DEF CancelDriver, Types, Stages, Suspensions
<1>10. ASSUME Get PROVE Types'
  <2>1. WakeFirst(task) \in [Tasks -> Suspensions] /\ OthersWaiting \in Seq(Tasks)
    BY LineMoves DEF Types, Suspensions
  <2>2. Tail(queue) \in Seq(Nat) /\ Head(queue) \in Nat
    BY <1>10 DEF Get, Types
  <2>3. received' = received \/ received' = Append(received, Head(queue))
    BY <1>10 DEF Get
  <2>5. received \in Seq(Nat) /\ \A n \in Nat : Append(received, n) \in Seq(Nat)
    BY DEF Types
  <2>4. received' \in Seq(Nat)
    BY <2>2, <2>3, <2>5
  <2> QED BY <1>1, <1>10, <2>1, <2>2, <2>4 DEF Get, Types
<1>11. ASSUME AskNext \/ Join \/ Finished \/ UNCHANGED vars PROVE Types'
  BY <1>1, <1>11 DEF AskNext, Join, Finished, vars, stream, Types
<1>12. ASSUME Abandon PROVE Types'
  BY <1>1, <1>12 DEF Abandon, stream, Types, Tasks
<1>13. \A e \in Emitters : e \in Tasks
  BY DEF Tasks
<1>14. Driver \in Tasks
  BY DEF Tasks
<1> QED BY <1>2, <1>3, <1>4, <1>5, <1>6, <1>7, <1>8, <1>9, <1>10, <1>11, <1>12, <1>13, <1>14,
          <1>15
        DEF Next, NodeStep, DriverStep, ConsumerStep

-----------------------------------------------------------------------------
(* Nobody waits on an open queue.                                          *)

\* The driver is a task of its own.
LEMMA DriverIsTask == StreamShape => Driver \in Tasks /\ Driver \notin Emitters
BY DEF StreamShape, Tasks

\* Counting the woken tasks.
LEMMA Counting ==
    ASSUME NEW A, NEW B, IsFiniteSet(A), IsFiniteSet(B)
    PROVE  /\ Cardinality(A) \in Nat /\ Cardinality(B) \in Nat
           /\ A \subseteq B => Cardinality(A) <= Cardinality(B)
           /\ \A t : A \subseteq B \cup {t} => Cardinality(A) <= Cardinality(B) + 1
           /\ \A t : t \in B /\ t \notin A /\ A \subseteq B =>
                 Cardinality(A) + 1 <= Cardinality(B)
           /\ \A t, u : u \in B /\ u \notin A /\ A \subseteq B \cup {t} =>
                 Cardinality(A) <= Cardinality(B)
<1>1. Cardinality(A) \in Nat /\ Cardinality(B) \in Nat
  BY FS_CardinalityType
<1>2. A \subseteq B => Cardinality(A) <= Cardinality(B)
  BY FS_Subset
<1>3. ASSUME NEW t, A \subseteq B \cup {t}
      PROVE  Cardinality(A) <= Cardinality(B) + 1
  <2>1. IsFiniteSet(B \cup {t}) /\ Cardinality(B \cup {t}) <= Cardinality(B) + 1
    BY <1>1, FS_AddElement
  <2>2. Cardinality(A) <= Cardinality(B \cup {t})
    BY <1>3, <2>1, FS_Subset
  <2> QED BY <1>1, <2>1, <2>2, FS_CardinalityType
<1>4. ASSUME NEW t, t \in B, t \notin A, A \subseteq B
      PROVE  Cardinality(A) + 1 <= Cardinality(B)
  <2>1. IsFiniteSet(A \cup {t}) /\ Cardinality(A \cup {t}) = Cardinality(A) + 1
    BY <1>4, FS_AddElement
  <2>2. Cardinality(A \cup {t}) <= Cardinality(B)
    BY <1>4, FS_Subset
  <2> QED BY <2>1, <2>2
<1>5. ASSUME NEW t, NEW u, u \in B, u \notin A, A \subseteq B \cup {t}
      PROVE  Cardinality(A) <= Cardinality(B)
  <2>1. IsFiniteSet(A \cup {u}) /\ Cardinality(A \cup {u}) = Cardinality(A) + 1
    BY <1>5, FS_AddElement
  <2>2. IsFiniteSet(B \cup {t}) /\ Cardinality(B \cup {t}) <= Cardinality(B) + 1
    BY <1>1, FS_AddElement
  <2>3. Cardinality(A \cup {u}) <= Cardinality(B \cup {t})
    BY <1>5, <2>2, FS_Subset
  <2> QED BY <1>1, <2>1, <2>2, <2>3, FS_CardinalityType
<1> QED BY <1>1, <1>2, <1>3, <1>4, <1>5

\* The tasks that were woken can be counted.
LEMMA WokenIsFinite == ASSUME StreamShape PROVE IsFiniteSet(Woken) /\ IsFiniteSet(Woken')
<1>1. IsFiniteSet(Tasks)
  BY FS_AddElement DEF StreamShape, Tasks
<1>2. Woken \subseteq Tasks /\ Woken' \subseteq Tasks
  BY DEF Woken
<1> QED BY <1>1, <1>2, FS_Subset

\* A task that neither waits nor was woken goes on.
LEMMA MovesKeepLine ==
    ASSUME StreamShape, Types, Line, Slots, NEW t \in Tasks, NEW s \in Suspensions,
           s \notin {"waiting", "woken"}, task[t] \notin {"waiting", "woken"},
           task' = [task EXCEPT ![t] = s],
           UNCHANGED <<setup, queue, putters, cancelled>>
    PROVE  Line' /\ Slots'
<1>1. \A u \in Tasks : task'[u] = IF u = t THEN s ELSE task[u]
  BY DEF Types
<1>2. Woken' = Woken
  BY <1>1 DEF Woken
<1>3. Range(putters) \subseteq Tasks
  BY DEF Types, Range
<1>4. Line'
  BY <1>1, <1>3 DEF Line, Distinct, Range
<1>5. Slots'
  BY <1>1, <1>2 DEF Slots, MaxSize
<1> QED BY <1>4, <1>5

\* A put waits only when the queue is full, at the end of the line.
LEMMA PutKeepsLine ==
    ASSUME StreamShape, Types, Line, Slots, NEW t \in Tasks, NEW item \in Nat,
           task[t] # "waiting", Put(t, item), UNCHANGED <<setup, cancelled>>
    PROVE  Line' /\ Slots'
<1>1. Range(putters) \subseteq Tasks /\ t \notin Range(putters)
  BY DEF Types, Range, Line
<1>2. Len(queue) \in Nat /\ MaxSize \in Nat
  BY DEF StreamShape, Types, MaxSize
<1>3. Cardinality(Woken) \in Nat /\ Cardinality(Woken') \in Nat
  BY WokenIsFinite, Counting
<1>4. CASE Full
  <2>1. /\ task' = [task EXCEPT ![t] = "waiting"]
        /\ putters' = Append(putters, t) /\ queue' = queue
    BY <1>4 DEF Put
  <2>2. \A u \in Tasks : task'[u] = IF u = t THEN "waiting" ELSE task[u]
    BY <2>1 DEF Types
  <2>3. Distinct(putters') /\ Range(putters') = Range(putters) \cup {t}
    BY <1>1, <2>1, OneMoreWaits DEF Types, Line
  <2>4. Line'
    BY <1>1, <2>2, <2>3 DEF Line
  <2>5. Slots'
    BY <1>2, <1>3, <1>4, <2>1 DEF Slots, MaxSize, Full
  <2> QED BY <2>4, <2>5
<1>5. CASE ~Full
  <2>1. PICK s \in {"running", "ended"} : task' = [task EXCEPT ![t] = s]
    BY <1>5 DEF Put
  <2>2. queue' = Append(queue, item) /\ putters' = putters
    BY <1>5 DEF Put
  <2>3. \A u \in Tasks : task'[u] = IF u = t THEN s ELSE task[u]
    BY <2>1 DEF Types
  <2>4. Line'
    BY <1>1, <2>2, <2>3 DEF Line, Distinct, Range
  <2>5. Woken \subseteq Woken' \cup {t}
    BY <2>3 DEF Woken
  <2>6. Cardinality(Woken) <= Cardinality(Woken') + 1
    BY <2>5, WokenIsFinite, Counting
  <2>7. Len(queue') = Len(queue) + 1
    BY <2>2 DEF Types
  <2>8. Slots'
    BY <1>2, <1>3, <2>3, <2>6, <2>7 DEF Slots, MaxSize
  <2> QED BY <2>4, <2>8
<1> QED BY <1>4, <1>5

\* A cancelled task goes; a slot it had been given goes to the next in line.
LEMMA CancelKeepsLine ==
    ASSUME StreamShape, Types, Line, Slots, NEW t \in Tasks, NEW s \in Suspensions,
           s \notin {"waiting", "woken"},
           task' = [PassWakeup(t) EXCEPT ![t] = s],
           putters' = StillWaiting(t), UNCHANGED <<setup, queue>>,
           \A u \in Tasks \ {t} : u \in cancelled => u \in cancelled'
    PROVE  Line' /\ Slots'
<1>0. Range(putters) \subseteq Tasks /\ Len(queue) \in Nat /\ MaxSize \in Nat
  BY DEF StreamShape, Types, Range, MaxSize
<1>1. Cardinality(Woken) \in Nat /\ Cardinality(Woken') \in Nat
  BY WokenIsFinite, Counting
<1>2. CASE task[t] = "woken" /\ ~Full /\ InLine = {}
  <2>1. putters' = <<>> /\ PassWakeup(t) = task
    BY <1>2 DEF StillWaiting, PassWakeup, OthersWaiting, WakeFirst
  <2>2. \A u \in Tasks : task'[u] = IF u = t THEN s ELSE task[u]
    BY <2>1 DEF Types
  <2>3. \A u \in Tasks \ cancelled' : task'[u] # "waiting"
    BY <1>2, <2>2, LineMoves DEF Line
  <2>4. Line'
    BY <2>1, <2>3 DEF Line, Distinct, Range
  <2>5. Slots'
    BY <2>2, <2>3 DEF Slots, MaxSize
  <2> QED BY <2>4, <2>5
<1>3. CASE task[t] = "woken" /\ ~Full /\ InLine # {}
  <2>1. putters' = OthersWaiting /\ PassWakeup(t) = WakeFirst(task)
    BY <1>3 DEF StillWaiting, PassWakeup
  <2>2. PICK u \in Range(putters) \cap Tasks :
            /\ WakeFirst(task) = [task EXCEPT ![u] = "woken"]
            /\ u \notin Range(OthersWaiting)
            /\ \A v \in Range(putters) \ (cancelled \cup {u}) : v \in Range(OthersWaiting)
    BY <1>3, LineMoves DEF Line
  <2>3. task[u] = "waiting" /\ u # t
    BY <1>3 DEF Line
  <2>4. \A v \in Tasks : task'[v] = IF v = t THEN s ELSE IF v = u THEN "woken" ELSE task[v]
    BY <2>1, <2>2 DEF Types
  <2>5. Distinct(putters') /\ Range(putters') \subseteq Range(putters)
    BY <2>1, LineMoves DEF Line
  <2>6. Line'
    BY <1>0, <1>3, <2>1, <2>2, <2>3, <2>4, <2>5 DEF Line
  <2>7. u \in Woken' /\ u \notin Woken /\ Woken \subseteq Woken' \cup {t}
    BY <2>3, <2>4 DEF Woken
  <2>8. Cardinality(Woken) <= Cardinality(Woken')
    BY <2>7, WokenIsFinite, Counting
  <2>9. Slots'
    BY <1>0, <1>1, <2>4, <2>8 DEF Slots, MaxSize
  <2> QED BY <2>6, <2>9
<1>4. CASE ~(task[t] = "woken" /\ ~Full)
  <2>1. putters' = RemoveFirst(putters, t) /\ PassWakeup(t) = task
    BY <1>4 DEF StillWaiting, PassWakeup
  <2>2. \A u \in Tasks : task'[u] = IF u = t THEN s ELSE task[u]
    BY <2>1 DEF Types
  <2>3. Distinct(putters') /\ Range(putters') = Range(putters) \ {t}
    BY <2>1, TakeOut DEF Types, Line
  <2>4. Line'
    BY <1>0, <2>2, <2>3 DEF Line
  <2>5. CASE Full
    BY <1>0, <1>1, <2>2, <2>4, <2>5 DEF Slots, MaxSize, Full
  <2>6. CASE task[t] # "woken"
    <3>1. Woken' = Woken
      BY <2>2, <2>6 DEF Woken
    <3> QED BY <2>2, <2>4, <3>1 DEF Slots, MaxSize
  <2> QED BY <1>4, <2>4, <2>5, <2>6
<1> QED BY <1>2, <1>3, <1>4

\* A get makes room and wakes the first in line who is still waiting.
LEMMA GetKeepsLine ==
    ASSUME StreamShape, Types, Line, Slots, Get, UNCHANGED setup
    PROVE  Line' /\ Slots'
<1>0. /\ Range(putters) \subseteq Tasks /\ Len(queue) \in Nat /\ MaxSize \in Nat
      /\ Len(queue') = Len(queue) - 1
  BY DEF StreamShape, Types, Range, MaxSize, Get
<1>1. Cardinality(Woken) \in Nat /\ Cardinality(Woken') \in Nat
  BY WokenIsFinite, Counting
<1>2. putters' = OthersWaiting /\ task' = WakeFirst(task) /\ cancelled' = cancelled
  BY DEF Get
<1>3. CASE InLine = {}
  <2>1. putters' = <<>> /\ task' = task
    BY <1>2, <1>3 DEF OthersWaiting, WakeFirst
  <2>2. \A u \in Tasks \ cancelled' : task'[u] # "waiting"
    BY <1>2, <1>3, <2>1, LineMoves DEF Line
  <2>3. Line'
    BY <2>1, <2>2 DEF Line, Distinct, Range
  <2>4. Slots'
    BY <2>1, <2>2 DEF Slots, MaxSize
  <2> QED BY <2>3, <2>4
<1>4. CASE InLine # {}
  <2>1. PICK u \in Range(putters) \cap Tasks :
            /\ WakeFirst(task) = [task EXCEPT ![u] = "woken"]
            /\ u \notin Range(OthersWaiting)
            /\ \A v \in Range(putters) \ (cancelled \cup {u}) : v \in Range(OthersWaiting)
    BY <1>4, LineMoves DEF Line
  <2>2. task[u] = "waiting"
    BY DEF Line
  <2>3. \A v \in Tasks : task'[v] = IF v = u THEN "woken" ELSE task[v]
    BY <1>2, <2>1 DEF Types
  <2>4. Distinct(putters') /\ Range(putters') \subseteq Range(putters)
    BY <1>2, LineMoves DEF Line
  <2>5. Line'
    BY <1>0, <1>2, <2>1, <2>2, <2>3, <2>4 DEF Line
  <2>6. u \in Woken' /\ u \notin Woken /\ Woken \subseteq Woken'
    BY <2>2, <2>3 DEF Woken
  <2>7. Cardinality(Woken) + 1 <= Cardinality(Woken')
    BY <2>6, WokenIsFinite, Counting
  <2>8. Slots'
    BY <1>0, <1>1, <1>2, <2>3, <2>7 DEF Slots, MaxSize
  <2> QED BY <2>5, <2>8
<1> QED BY <1>3, <1>4

\* No step leaves the line without as many woken as there are free slots.
LEMMA LineStep ==
    ASSUME StreamShape, Types, Line, Slots, DriverRests, [Next]_vars
    PROVE  Line' /\ Slots' /\ DriverRests'
<1>0. /\ Driver \in Tasks /\ Driver \notin Emitters /\ \A e \in Emitters : e \in Tasks
      /\ setup' = setup
  BY DriverIsTask DEF Tasks, Next, NodeStep, DriverStep, ConsumerStep, Step, UnnotedStep,
                      Finished, vars
<1>1. ASSUME NEW t \in Tasks, Emit(t), SinkAwaits => UNCHANGED stage,
             task[t] = "running", UNCHANGED cancelled, stage = "wave" => t # Driver
      PROVE  Line' /\ Slots' /\ DriverRests'
  <2>1. CASE SinkAwaits
    <3>1. task' = [task EXCEPT ![t] = "sinking"] /\ UNCHANGED <<queue, putters, stage>>
      BY <1>1, <2>1 DEF Emit
    <3>2. Line' /\ Slots'
      BY <1>0, <1>1, <3>1, MovesKeepLine DEF Suspensions
    <3>3. DriverRests'
      BY <1>0, <1>1, <3>1 DEF DriverRests, Types
    <3> QED BY <3>2, <3>3
  <2>2. CASE ~SinkAwaits /\ Put(t, seq + 1)
    <3>1. seq + 1 \in Nat
      BY DEF Types
    <3>2. Line' /\ Slots'
      BY <1>0, <1>1, <2>2, <3>1, PutKeepsLine
    <3>3. DriverRests'
      BY <1>0, <1>1, <2>2 DEF DriverRests, Types, Put, StageAfter
    <3> QED BY <3>2, <3>3
  <2> QED BY <1>1, <2>1, <2>2 DEF Emit
<1>2. ASSUME NEW e \in Emitters, NodeEmits(e) PROVE Line' /\ Slots' /\ DriverRests'
  <2>1. CASE ~closed /\ Emit(e) /\ (SinkAwaits => UNCHANGED stage)
    BY <1>0, <1>1, <1>2, <2>1 DEF NodeEmits
  <2>2. CASE UNCHANGED <<stage, task, held, seq, queue, putters>>
    BY <1>0, <1>2, <2>2 DEF NodeEmits, Line, Slots, DriverRests, Woken, MaxSize
  <2> QED BY <1>2, <2>1, <2>2 DEF NodeEmits
<1>3. ASSUME NEW e \in Emitters, NodeEnds(e) PROVE Line' /\ Slots' /\ DriverRests'
  <2>1. Line' /\ Slots'
    BY <1>0, <1>3, MovesKeepLine DEF NodeEnds, Suspensions, stream
  <2>2. DriverRests'
    BY <1>0, <1>3 DEF NodeEnds, DriverRests, Types
  <2> QED BY <2>1, <2>2
<1>4. ASSUME NEW t \in Tasks, SinkReturns(t) \/ Proceed(t)
      PROVE  Line' /\ Slots' /\ DriverRests'
  <2>1. held[t] \in Nat /\ task[t] # "waiting" /\ task[t] # "running"
        /\ Put(t, held[t]) /\ UNCHANGED cancelled
    BY <1>4 DEF Types, SinkReturns, Proceed
  <2>2. Line' /\ Slots'
    BY <1>0, <2>1, PutKeepsLine
  <2>3. DriverRests'
    BY <1>0, <2>1 DEF DriverRests, Types, Put, StageAfter
  <2> QED BY <2>2, <2>3
<1>5. ASSUME NEW t \in Tasks, SinkRaises(t) PROVE Line' /\ Slots' /\ DriverRests'
  <2>1. PICK s \in {"running", "ended"} : task' = [task EXCEPT ![t] = s]
    BY <1>5 DEF SinkRaises
  <2>2. Line' /\ Slots'
    BY <1>0, <1>5, <2>1, MovesKeepLine DEF SinkRaises, Suspensions, stream
  <2>3. DriverRests'
    <3>1. stage' # "wave"
      BY <1>5 DEF SinkRaises
    <3> QED BY <3>1 DEF DriverRests
  <2> QED BY <2>2, <2>3
<1>6. ASSUME Open PROVE Line' /\ Slots' /\ DriverRests'
  BY <1>0, <1>1, <1>6 DEF Open
<1>7. ASSUME Conclude PROVE Line' /\ Slots' /\ DriverRests'
  <2>1. task[Driver] = "running" /\ DriverRests'
    BY <1>7 DEF Conclude, DriverRests
  <2>2. CASE task' = [task EXCEPT ![Driver] = "sinking"] /\ UNCHANGED <<queue, putters>>
    BY <1>0, <1>7, <2>1, <2>2, MovesKeepLine DEF Conclude, Suspensions
  <2>3. CASE /\ Full /\ task' = [task EXCEPT ![Driver] = "waiting"]
             /\ putters' = Append(putters, Driver) /\ UNCHANGED queue
    <3>1. Driver \notin Range(putters)
      BY <2>1 DEF Line
    <3>2. \A u \in Tasks : task'[u] = IF u = Driver THEN "waiting" ELSE task[u]
      BY <1>0, <2>3 DEF Types
    <3>3. Distinct(putters') /\ Range(putters') = Range(putters) \cup {Driver}
      BY <1>0, <2>3, <3>1, OneMoreWaits DEF Types, Line
    <3>4. Range(putters) \subseteq Tasks
      BY DEF Types, Range
    <3>5. Line'
      BY <1>0, <1>7, <3>1, <3>2, <3>3, <3>4 DEF Line, Conclude
    <3>6. Cardinality(Woken') \in Nat /\ Len(queue) \in Nat /\ MaxSize \in Nat
      BY WokenIsFinite, Counting DEF Types, StreamShape, MaxSize
    <3>7. Slots'
      BY <1>0, <2>3, <3>6 DEF Slots, MaxSize, Full
    <3> QED BY <2>1, <3>5, <3>7
  <2>4. CASE queue' = Append(queue, seq + 1) /\ UNCHANGED <<task, putters>>
    <3>1. Len(queue') = Len(queue) + 1 /\ Len(queue) \in Nat
      BY <2>4 DEF Types
    <3>2. Cardinality(Woken) \in Nat /\ MaxSize \in Nat /\ Woken' = Woken
      BY <2>4, WokenIsFinite, Counting DEF Types, StreamShape, MaxSize, Woken
    <3>3. Slots'
      BY <1>0, <1>7, <2>4, <3>1, <3>2 DEF Slots, Conclude, MaxSize
    <3> QED BY <1>7, <2>1, <2>4, <3>3 DEF Line, Conclude
  <2> QED BY <1>7, <2>2, <2>3, <2>4 DEF Conclude
<1>8. ASSUME Close PROVE Line' /\ Slots' /\ DriverRests'
  <2>1. Put(Driver, CLOSED) /\ task[Driver] = "running" /\ stage = "closing"
        /\ UNCHANGED cancelled /\ CLOSED \in Nat
    BY <1>8 DEF Close, MidStep, CLOSED
  <2>2. Line' /\ Slots'
    BY <1>0, <2>1, PutKeepsLine
  <2>3. DriverRests'
    BY <2>1 DEF DriverRests, Put, StageAfter
  <2> QED BY <2>2, <2>3
<1>9. ASSUME Get PROVE Line' /\ Slots' /\ DriverRests'
  <2>1. DriverRests'
    <3>1. InLine = {} => task' = task
      BY <1>9, LineMoves DEF Get, Line
    <3>2. InLine # {} => \E u \in Range(putters) : task' = [task EXCEPT ![u] = "woken"]
      BY <1>9, LineMoves DEF Get, Line
    <3>3. stage = "wave" => Driver \notin Range(putters)
      BY DEF Line, DriverRests
    <3> QED BY <1>0, <1>9, <3>1, <3>2, <3>3 DEF DriverRests, Get, Types
  <2> QED BY <1>0, <1>9, <2>1, GetKeepsLine
<1>10. ASSUME NEW e \in Emitters, CancelNode(e) PROVE Line' /\ Slots' /\ DriverRests'
  <2>1. Line' /\ Slots'
    BY <1>0, <1>10, CancelKeepsLine DEF CancelNode, Suspensions
  <2>2. DriverRests'
    <3>1. PassWakeup(e) = task \/ \E u \in Range(putters) :
              PassWakeup(e) = [task EXCEPT ![u] = "woken"]
      BY LineMoves DEF PassWakeup, Line
    <3>2. stage = "wave" => Driver \notin Range(putters)
      BY DEF Line, DriverRests
    <3> QED BY <1>0, <1>10, <3>1, <3>2 DEF DriverRests, CancelNode, Types
  <2> QED BY <2>1, <2>2
<1>14. ASSUME NEW e \in Emitters, GivesUp(e) PROVE Line' /\ Slots' /\ DriverRests'
  <2>1. Line' /\ Slots'
    BY <1>0, <1>14, CancelKeepsLine DEF GivesUp, Suspensions
  <2>2. DriverRests'
    <3>1. PassWakeup(e) = task \/ \E u \in Range(putters) :
              PassWakeup(e) = [task EXCEPT ![u] = "woken"]
      BY LineMoves DEF PassWakeup, Line
    <3>2. stage = "wave" => Driver \notin Range(putters)
      BY DEF Line, DriverRests
    <3> QED BY <1>0, <1>14, <3>1, <3>2 DEF DriverRests, GivesUp, Types
  <2> QED BY <2>1, <2>2
<1>11. ASSUME CancelDriver PROVE Line' /\ Slots' /\ DriverRests'
  <2>1. \E s \in {"running", "ended"} : task' = [PassWakeup(Driver) EXCEPT ![Driver] = s]
    BY <1>11 DEF CancelDriver
  <2>2. Line' /\ Slots'
    BY <1>0, <1>11, <2>1, CancelKeepsLine DEF CancelDriver, Suspensions
  <2>3. DriverRests'
    BY <1>11 DEF CancelDriver, DriverRests
  <2> QED BY <2>2, <2>3
<1>12. ASSUME Abandon PROVE Line' /\ Slots' /\ DriverRests'
  <2>1. cancelled \subseteq cancelled'
    BY <1>12 DEF Abandon
  <2> QED BY <1>0, <1>12, <2>1 DEF Abandon, stream, Line, Slots, DriverRests, Woken, MaxSize
<1>13. ASSUME AskNext \/ Join \/ Finished \/ UNCHANGED vars
       PROVE  Line' /\ Slots' /\ DriverRests'
  BY <1>0, <1>13
     DEF AskNext, Join, Finished, vars, stream, Line, Slots, DriverRests, Woken, MaxSize
<1> QED BY <1>0, <1>2, <1>3, <1>4, <1>5, <1>6, <1>7, <1>8, <1>9, <1>10, <1>11, <1>12, <1>13,
          <1>14
        DEF Next, NodeStep, DriverStep, ConsumerStep, TaskStep

LineInv == Types /\ Line /\ Slots /\ DriverRests

\* Every queue, however small, and every way its waiters are cancelled: the
\* tasks in line are those that wait, and a free slot is always on its way to
\* one of them.
THEOREM LineIsServed == Spec => []LineInv
<1>1. Init => LineInv
  <2> SUFFICES ASSUME Init PROVE LineInv
    OBVIOUS
  <2>1. setup.events \in [Emitters -> Nat]
    BY StreamShape DEF Init, StreamShape
  <2>2. Types
    <3>1. /\ [u \in Tasks |-> "running"] \in [Tasks -> Suspensions]
          /\ [u \in Tasks |-> 0] \in [Tasks -> Nat]
      BY DEF Suspensions
    <3>2. <<>> \in Seq(Nat) /\ <<>> \in Seq(Tasks)
      OBVIOUS
    <3> QED BY <2>1, <3>1, <3>2 DEF Init, Types, Stages
  <2>3. \A t \in Tasks : task[t] = "running"
    BY DEF Init
  <2>4. Line
    BY <2>3 DEF Init, Line, Distinct, Range
  <2> QED BY <2>2, <2>3, <2>4 DEF LineInv, Slots, DriverRests, Init
<1>2. LineInv /\ [Next]_vars => LineInv'
  BY StreamShape, TypesStep, LineStep DEF LineInv, Line
<1> QED BY <1>1, <1>2, PTL DEF Spec

\* No task sleeps on a queue with a free slot that nobody was woken for.
THEOREM NobodyIsForgotten == Spec => []NobodyWaitsOnAnOpenQueue
<1>1. LineInv => NobodyWaitsOnAnOpenQueue
  <2> SUFFICES ASSUME LineInv, NEW t \in Tasks \ cancelled, task[t] = "waiting"
               PROVE  /\ t \in Range(putters)
                      /\ Full \/ \E u \in Tasks : task[u] = "woken"
    BY DEF NobodyWaitsOnAnOpenQueue
  <2>1. t \in Range(putters) /\ MaxSize > 0 /\ MaxSize <= Len(queue) + Cardinality(Woken)
    BY DEF LineInv, Line, Slots
  <2>2. ASSUME \A u \in Tasks : task[u] # "woken" PROVE Full
    <3>1. Woken = {}
      BY <2>2 DEF Woken
    <3>2. Len(queue) \in Nat /\ MaxSize \in Nat
      BY StreamShape DEF LineInv, Types, StreamShape, MaxSize
    <3> QED BY <2>1, <3>1, <3>2, FS_EmptySet DEF Full
  <2> QED BY <2>1, <2>2
<1> QED BY <1>1, LineIsServed, PTL

-----------------------------------------------------------------------------
(* The course of drive(), also of a stream that is cut short.              *)

Course ==
    /\ closed \in BOOLEAN /\ gathered \in BOOLEAN
    /\ ~gathered => \A e \in Emitters : task[e] = "running"
    /\ stage = "opening" => ~gathered
    /\ stage = "ending" => \A e \in Emitters : task[e] = "ended"
    /\ stage = "closing" => (closed <=> task[Driver] # "running")
    /\ task[Driver] = "sinking" => stage \in {"opening", "ending"}
    /\ closed => stage \in {"closing", "done"}
    /\ cancelled # {} => cutShort
    /\ \A t \in Tasks : task[t] \in Pending => (held[t] = 0 <=> t = Driver /\ stage = "closing")

\* A put that has to wait, or has room.
LEMMA CourseOfPut ==
    ASSUME StreamShape, Types, Course, DriverRests, NEW t \in Tasks, NEW item \in Nat,
           Put(t, item), item = 0 <=> t = Driver /\ stage = "closing",
           t # Driver => gathered,
           t = Driver => stage # "wave" /\ task[Driver] # "ended",
           stage = "ending" => t = Driver,
           UNCHANGED <<cancelled, cutShort>>, gathered' = (gathered \/ stage' = "wave"),
           closed' = (closed \/ (t = Driver /\ stage = "closing"))
    PROVE  Course'
<1>0. Driver \in Tasks /\ Driver \notin Emitters /\ (t \in Emitters \/ t = Driver)
  BY DriverIsTask DEF Tasks
<1>1. task \in [Tasks -> Suspensions] /\ held \in [Tasks -> Nat] /\ stage \in Stages
  BY DEF Types
<1>2. CASE Full
  <2>1. /\ task' = [task EXCEPT ![t] = "waiting"] /\ held' = [held EXCEPT ![t] = item]
        /\ stage' = stage
    BY <1>2 DEF Put
  <2>2. \A u \in Tasks : /\ task'[u] = IF u = t THEN "waiting" ELSE task[u]
                         /\ held'[u] = IF u = t THEN item ELSE held[u]
    BY <1>1, <2>1
  <2>3. \A u \in Tasks : task'[u] \in Pending => (held'[u] = 0 <=> u = Driver /\ stage' = "closing")
    BY <2>1, <2>2 DEF Course
  <2>. QED  BY <1>0, <1>1, <2>1, <2>2, <2>3 DEF Course, Tasks
<1>3. CASE ~Full
  <2>1. /\ task' = [task EXCEPT ![t] = IF t = Driver /\ stage = "closing" THEN "ended" ELSE "running"]
        /\ held' = [held EXCEPT ![t] = 0]
        /\ stage' = IF t = Driver THEN StageAfter ELSE stage
    BY <1>3 DEF Put
  <2>2. \A u \in Tasks : /\ u # t => task'[u] = task[u] /\ held'[u] = held[u]
                         /\ task'[t] = IF t = Driver /\ stage = "closing" THEN "ended" ELSE "running"
    BY <1>1, <2>1
  <2>3. stage' = IF t # Driver THEN stage
                 ELSE IF stage = "opening" THEN "wave"
                 ELSE IF stage = "ending" THEN "closing"
                 ELSE IF stage = "closing" THEN "done" ELSE stage
    BY <2>1 DEF StageAfter
  <2>4. \A u \in Tasks : task'[u] \in Pending => (held'[u] = 0 <=> u = Driver /\ stage' = "closing")
    BY <1>0, <2>2, <2>3 DEF Course, Pending
  <2>5. ~gathered' => \A e \in Emitters : task'[e] = "running"
    BY <1>0, <2>2 DEF Course, Tasks
  <2>6. /\ stage' = "opening" => ~gathered'
        /\ stage' = "ending" => \A e \in Emitters : task'[e] = "ended"
        /\ stage' = "closing" => (closed' <=> task'[Driver] # "running")
        /\ closed' => stage' \in {"closing", "done"}
        /\ task'[Driver] = "sinking" => stage' \in {"opening", "ending"}
    <3>1. t = Driver => stage' # "opening" /\ stage' # "ending"
      BY <1>1, <2>3 DEF Stages
    <3>. QED  BY <1>0, <1>1, <2>2, <2>3, <3>1 DEF Course, Stages
  <2>. QED  BY <2>4, <2>5, <2>6 DEF Course
<1>. QED  BY <1>2, <1>3

\* Who is woken for a slot was waiting for one.
LEMMA OnlyWakes ==
    ASSUME Types, Line, NEW t \in Tasks
    PROVE  /\ WakeFirst(task) \in [Tasks -> Suspensions]
           /\ PassWakeup(t) \in [Tasks -> Suspensions]
           /\ \A u \in Tasks : WakeFirst(task)[u] # task[u] =>
                 task[u] = "waiting" /\ WakeFirst(task)[u] = "woken"
           /\ \A u \in Tasks : PassWakeup(t)[u] # task[u] =>
                 task[u] = "waiting" /\ PassWakeup(t)[u] = "woken"
<1>1. /\ WakeFirst(task) \in [Tasks -> Suspensions]
      /\ \A u \in Tasks : WakeFirst(task)[u] # task[u] =>
            task[u] = "waiting" /\ WakeFirst(task)[u] = "woken"
  <2>1. CASE InLine = {}
    BY <2>1 DEF WakeFirst, Types
  <2>2. CASE InLine # {}
    <3>1. PICK u \in Range(putters) \cap Tasks : WakeFirst(task) = [task EXCEPT ![u] = "woken"]
      BY <2>2, LineMoves DEF Line
    <3>2. task[u] = "waiting"
      BY DEF Line
    <3>. QED  BY <3>1, <3>2 DEF Types, Suspensions
  <2>. QED  BY <2>1, <2>2
<1>. QED  BY <1>1 DEF PassWakeup, Types

\* No step leaves the course.
LEMMA CourseStep ==
    ASSUME StreamShape, Types, Line, DriverRests, Course, [Next]_vars
    PROVE  Course'
<1>0. /\ Driver \in Tasks /\ Driver \notin Emitters /\ \A e \in Emitters : e \in Tasks
      /\ task \in [Tasks -> Suspensions] /\ held \in [Tasks -> Nat] /\ stage \in Stages
      /\ seq \in Nat
  BY DriverIsTask DEF Tasks, Types
<1>1. ASSUME NEW t \in Tasks, Emit(t), SinkAwaits => UNCHANGED stage, task[t] = "running",
             t # Driver => gathered, stage \in {"opening", "wave", "closing", "done"},
             t = Driver => stage = "opening", ~closed,
             UNCHANGED <<closed, cancelled, cutShort>>, Step(t)
      PROVE  Course'
  <2>1. CASE SinkAwaits
    <3>1. /\ task' = [task EXCEPT ![t] = "sinking"] /\ held' = [held EXCEPT ![t] = seq + 1]
          /\ stage' = stage
      BY <1>1, <2>1 DEF Emit
    <3>2. \A u \in Tasks : /\ task'[u] = IF u = t THEN "sinking" ELSE task[u]
                           /\ held'[u] = IF u = t THEN seq + 1 ELSE held[u]
      BY <1>0, <3>1
    <3>3. gathered' = (gathered \/ stage = "wave")
      BY <3>1, <1>1 DEF Step
    <3>4. \A u \in Tasks : task'[u] \in Pending => (held'[u] = 0 <=> u = Driver /\ stage' = "closing")
      BY <1>0, <1>1, <3>1, <3>2 DEF Course
    <3>5. ~gathered' => \A e \in Emitters : task'[e] = "running"
      BY <1>0, <1>1, <3>2, <3>3 DEF Course
    <3>. QED  BY <1>0, <1>1, <3>1, <3>2, <3>3, <3>4, <3>5 DEF Course
  <2>2. CASE ~SinkAwaits /\ Put(t, seq + 1)
    <3>1. seq + 1 \in Nat /\ seq + 1 # 0
      BY <1>0
    <3>2. ~(t = Driver /\ stage = "closing") /\ (t = Driver => stage # "wave" /\ task[Driver] # "ended")
          /\ stage # "ending"
      BY <1>1
    <3>3. closed' = (closed \/ (t = Driver /\ stage = "closing")) /\ gathered' = (gathered \/ stage' = "wave")
      BY <1>1, <3>2 DEF Course, Step
    <3>. QED  BY <1>1, <2>2, <3>1, <3>2, <3>3, CourseOfPut
  <2>. QED  BY <1>1, <2>1, <2>2 DEF Emit
<1>2. ASSUME NEW e \in Emitters, gathered, NodeEmits(e), Step(e) PROVE Course'
  <2>1. e \in Tasks /\ task[e] = "running"
    BY <1>0, <1>2 DEF NodeEmits
  <2>2. CASE ~closed /\ Emit(e) /\ (SinkAwaits => UNCHANGED stage)
    BY <1>0, <1>1, <1>2, <2>1, <2>2 DEF NodeEmits, Course, Stages
  <2>3. CASE UNCHANGED <<stage, task, held, seq, queue, putters>>
    BY <1>2, <2>3 DEF NodeEmits, Course, Step
  <2>. QED  BY <1>2, <2>2, <2>3 DEF NodeEmits
<1>3. ASSUME NEW e \in Emitters, gathered, NodeEnds(e), Step(e) PROVE Course'
  <2>1. \A u \in Tasks : task'[u] = IF u = e THEN "ended" ELSE task[u]
    BY <1>0, <1>3 DEF NodeEnds
  <2>. QED  BY <1>0, <1>3, <2>1 DEF NodeEnds, stream, Course, Step, Pending
<1>4. ASSUME NEW e \in Emitters, gathered, CancelNode(e), Step(e) PROVE Course'
  <2>1. \A u \in Tasks : \/ task'[u] = task[u]
                         \/ u = e /\ task'[u] = "ended"
                         \/ task[u] = "waiting" /\ task'[u] = "woken"
    BY <1>0, <1>4, OnlyWakes DEF CancelNode
  <2>2. UNCHANGED <<stage, held, closed, cancelled, cutShort>> /\ gathered'
    BY <1>4 DEF CancelNode, Step
  <2>. QED  BY <1>0, <2>1, <2>2, <1>4 DEF Course, Pending
<1>5. ASSUME NEW t \in Tasks, t # Driver => gathered, SinkReturns(t) \/ Proceed(t), Step(t)
      PROVE  Course'
  <2>1. /\ task[t] \in {"sinking", "woken"} /\ Put(t, held[t]) /\ held[t] \in Nat
        /\ UNCHANGED <<closed, cancelled, cutShort>> /\ ~MidStep
    BY <1>0, <1>5 DEF SinkReturns, Proceed
  <2>2. held[t] = 0 <=> t = Driver /\ stage = "closing"
    BY <2>1 DEF Course, Pending
  <2>3. stage = "ending" => t = Driver
    BY <2>1 DEF Course, Tasks
  <2>4. closed' = (closed \/ (t = Driver /\ stage = "closing"))
    BY <2>1 DEF Course
  <2>. QED  BY <1>5, <2>1, <2>2, <2>3, <2>4, CourseOfPut DEF Step, DriverRests
<1>6. ASSUME NEW t \in Tasks, t # Driver => gathered, SinkRaises(t), Step(t),
             stage \notin {"closing", "done"}
      PROVE  Course'
  <2>1. /\ task[t] = "sinking" /\ stage' = "closing"
        /\ UNCHANGED <<closed, cancelled>> /\ cutShort' = TRUE
        /\ \A u \in Tasks : task'[u] = IF u = t THEN IF t = Driver THEN "running" ELSE "ended"
                                       ELSE task[u]
        /\ \A u \in Tasks : held'[u] = IF u = t THEN 0 ELSE held[u]
    BY <1>0, <1>6 DEF SinkRaises, stream
  <2>2. t # Driver => stage = "wave"
    BY <1>0, <1>6, <2>1 DEF Course, Tasks, Stages
  <2>3. task'[Driver] = "running" /\ closed' = FALSE
    BY <1>0, <2>1, <2>2 DEF Course, DriverRests
  <2>4. gathered' = gathered
    BY <1>6, <2>1 DEF Step, Course
  <2>5. ~gathered' => \A e \in Emitters : task'[e] = "running"
    BY <1>0, <1>6, <2>1, <2>4 DEF Course
  <2>6. \A u \in Tasks : task'[u] \in Pending => held'[u] # 0 /\ u # Driver
    BY <2>1, <2>3 DEF Course, Pending
  <2>. QED  BY <2>1, <2>3, <2>4, <2>5, <2>6 DEF Course
<1>14. ASSUME NEW t \in Tasks, t # Driver => gathered, SinkRaises(t), Step(t),
              stage \in {"closing", "done"}
       PROVE  Course'
  <2>1. /\ task[t] = "sinking" /\ stage' = stage
        /\ UNCHANGED <<closed, cancelled>> /\ cutShort' = TRUE
    BY <1>14 DEF SinkRaises, stream
  <2>2. t # Driver /\ gathered /\ gathered'
    BY <1>14, <2>1 DEF Course, Step
  <2>3. \A u \in Tasks : /\ task'[u] = IF u = t THEN "ended" ELSE task[u]
                         /\ held'[u] = IF u = t THEN 0 ELSE held[u]
    BY <1>0, <1>14, <2>2 DEF SinkRaises
  <2>4. \A u \in Tasks : task'[u] \in Pending => (held'[u] = 0 <=> u = Driver /\ stage' = "closing")
    BY <2>1, <2>3 DEF Course, Pending
  <2>. QED  BY <1>0, <1>14, <2>1, <2>2, <2>3, <2>4 DEF Course
<1>15. ASSUME NEW e \in Emitters, gathered, GivesUp(e), Step(e) PROVE Course'
  <2>1. /\ task[e] \in Pending
        /\ \A u \in Tasks : \/ u # e /\ task'[u] = task[u]
                            \/ u = e /\ task'[u] = "running"
                            \/ u # e /\ task[u] = "waiting" /\ task'[u] = "woken"
        /\ \A u \in Tasks : u # e => held'[u] = held[u]
    BY <1>0, <1>15, OnlyWakes DEF GivesUp, Pending
  <2>2. UNCHANGED <<stage, closed, cancelled, cutShort>> /\ gathered'
    BY <1>15 DEF GivesUp, Step
  <2>. QED  BY <1>0, <1>15, <2>1, <2>2 DEF Course, Pending
<1>7. ASSUME Open, Step(Driver) PROVE Course'
  BY <1>0, <1>1, <1>7 DEF Open, Course
<1>8. ASSUME Conclude, Step(Driver) PROVE Course'
  <2>1. /\ stage = "wave" /\ ~closed /\ task[Driver] = "running"
        /\ \A e \in Emitters : task[e] = "ended"
        /\ UNCHANGED <<closed, cancelled, cutShort>>
        /\ gathered' = (gathered \/ stage' = "wave")
    BY <1>8 DEF Conclude, Course, DriverRests, Step
  <2>2. CASE stage' = "closing" /\ UNCHANGED <<task, held>>
    BY <1>0, <2>1, <2>2 DEF Course, Pending
  <2>3. CASE /\ stage' = "ending"
             /\ \E s \in {"sinking", "waiting"} : task' = [task EXCEPT ![Driver] = s]
             /\ held' = [held EXCEPT ![Driver] = seq + 1]
    <3>1. /\ \A u \in Tasks : u # Driver => task'[u] = task[u] /\ held'[u] = held[u]
          /\ held'[Driver] = seq + 1 /\ seq + 1 # 0
      BY <1>0, <2>3
    <3>. QED  BY <1>0, <2>1, <2>3, <3>1 DEF Course
  <2>. QED  BY <1>8, <2>2, <2>3 DEF Conclude
<1>9. ASSUME Close, Step(Driver) PROVE Course'
  <2>1. /\ stage = "closing" /\ task[Driver] = "running" /\ Put(Driver, CLOSED) /\ closed' = TRUE
        /\ UNCHANGED <<cancelled, cutShort>> /\ CLOSED = 0 /\ CLOSED \in Nat
    BY <1>9 DEF Close, MidStep, CLOSED
  <2>. QED  BY <1>0, <1>9, <2>1, CourseOfPut DEF Step
<1>10. ASSUME CancelDriver, Step(Driver) PROVE Course'
  <2>1. /\ \A u \in Tasks : \/ u # Driver /\ task'[u] = task[u]
                            \/ u # Driver /\ task[u] = "waiting" /\ task'[u] = "woken"
                            \/ u = Driver /\ task'[u] = (IF stage' = "done" THEN "ended" ELSE "running")
        /\ UNCHANGED <<held, closed, cutShort>> /\ cutShort
        /\ cancelled' \subseteq cancelled
        /\ stage' \in {"closing", "done"} /\ (stage = "closing" => stage' = "done")
    BY <1>0, <1>10, OnlyWakes DEF CancelDriver, Course
  <2>2. gathered' = gathered
    BY <1>10, <2>1 DEF Step, Course
  <2>3. stage' = "closing" => ~closed'
    BY <1>10, <2>1 DEF CancelDriver, Course
  <2>4. ~gathered' => \A e \in Emitters : task'[e] = "running"
    BY <1>0, <2>1, <2>2 DEF Course
  <2>5. \A u \in Tasks : task'[u] \in Pending => (held'[u] = 0 <=> u = Driver /\ stage' = "closing")
    BY <2>1 DEF Course, Pending
  <2>. QED  BY <1>0, <2>1, <2>2, <2>3, <2>4, <2>5 DEF Course
<1>11. ASSUME Get, UnnotedStep PROVE Course'
  <2>1. /\ \A u \in Tasks : \/ task'[u] = task[u]
                            \/ task[u] = "waiting" /\ task'[u] = "woken"
        /\ UNCHANGED <<stage, held, closed, cancelled, cutShort, gathered>>
    BY <1>0, <1>11, OnlyWakes DEF Get, UnnotedStep
  <2>. QED  BY <1>0, <2>1 DEF Course, Pending
<1>12. ASSUME Abandon, UnnotedStep PROVE Course'
  BY <1>12 DEF Abandon, UnnotedStep, stream, Course
<1>13. ASSUME (AskNext /\ UnnotedStep) \/ (Join /\ UnnotedStep) \/ Finished \/ UNCHANGED vars
       PROVE  Course'
  BY <1>13 DEF AskNext, Join, Finished, UnnotedStep, vars, stream, Course
<1>. QED  BY <1>0, <1>2, <1>3, <1>4, <1>5, <1>6, <1>7, <1>8, <1>9, <1>10, <1>11, <1>12, <1>13,
             <1>14, <1>15
          DEF Next, NodeStep, DriverStep, ConsumerStep, TaskStep

\* Who waits, how far drive() has come, and what is in whose hand, on every
\* stream, cut short or not.
THEOREM CourseIsKept == Spec => []Course
<1>1. Init => Course
  BY StreamShape DEF Init, Course, Pending, Tasks
<1>2. LineInv /\ Course /\ [Next]_vars => Course'
  BY StreamShape, CourseStep DEF LineInv
<1>. QED  BY <1>1, <1>2, LineIsServed, PTL DEF Spec

-----------------------------------------------------------------------------
(* Nothing is lost but what a node gave up.  Everything that was put is    *)
(* the consumer's or in the queue; a get moves it from one to the other    *)
(* and leaves the whole alone.                                             *)

All == received \o queue

\* The sentinel is the last thing put, until the consumer has taken it.
EventsPut == IF stage = "done" /\ Asking THEN Len(All) - 1 ELSE Len(All)

\* Of n events, those in hand (H), the first k of the sequence a and those given
\* up (D) are all, and none is in two places.
Kept(H, a, k, n, D) ==
    /\ D \subseteq 1 .. n
    /\ \A t \in Tasks : H[t] \notin D
    /\ \A i \in 1 .. k : a[i] \notin D
    /\ \A t \in Tasks : H[t] \in 0 .. n
    /\ \A i \in 1 .. k : a[i] \in 1 .. n
    /\ \A i, j \in 1 .. k : a[i] = a[j] => i = j
    /\ \A t, u \in Tasks : H[t] = H[u] /\ H[t] # 0 => t = u
    /\ \A t \in Tasks, i \in 1 .. k : H[t] # a[i]
    /\ \A m \in 1 .. n \ D : (\E t \in Tasks : H[t] = m) \/ (\E i \in 1 .. k : a[i] = m)

\* How far the tasks are when drive() is at its stage.
InStep ==
    /\ stage = "opening" =>
          /\ \A e \in Emitters : task[e] = "running"
          /\ task[Driver] # "ended"
    /\ stage = "wave" => task[Driver] = "running"
    /\ stage \in {"ending", "closing", "done"} => \A e \in Emitters : task[e] = "ended"
    /\ stage = "ending" => task[Driver] \in Pending
    /\ stage = "closing" => task[Driver] \in {"running", "waiting", "woken"}
    /\ stage = "done" => task[Driver] = "ended"

Hands ==
    \A t \in Tasks :
        /\ held[t] # 0 => task[t] \in Pending /\ ~(t = Driver /\ stage = "closing")
        /\ task[t] \in Pending /\ held[t] = 0 => t = Driver /\ stage = "closing"

Verdict ==
    /\ stage = "ending" => held[Driver] = seq
    /\ stage \in {"closing", "done"} => EventsPut > 0 /\ All[EventsPut] = seq

Sentinel ==
    /\ stage = "done" /\ Asking => Len(All) > 0 /\ All[Len(All)] = CLOSED
    /\ \A i \in DOMAIN received : received[i] # CLOSED
    /\ ~Asking => stage = "done" /\ queue = <<>>

Accounted ==
    ~cutShort =>
        /\ cancelled = {}
        /\ InStep /\ Hands /\ Verdict /\ Sentinel
        /\ Kept(held, All, EventsPut, seq, dropped)

\* The event with the next number is in the hand of its emitter.
LEMMA NewInHand ==
    ASSUME NEW H \in [Tasks -> Nat], NEW a, NEW k \in Nat, NEW n \in Nat,
           NEW D, Kept(H, a, k, n, D), NEW t \in Tasks, H[t] = 0
    PROVE  Kept([H EXCEPT ![t] = n + 1], a, k, n + 1, D)
<1> DEFINE G == [H EXCEPT ![t] = n + 1]
<1>1. \A u \in Tasks : G[u] = IF u = t THEN n + 1 ELSE H[u]
  OBVIOUS
<1> HIDE DEF G
<1>2. \A u \in Tasks : H[u] \in 0 .. n
  BY DEF Kept
<1>3. \A i \in 1 .. k : a[i] \in 1 .. n
  BY DEF Kept
<1>4. \A u \in Tasks : G[u] \in 0 .. n + 1
  BY <1>1, <1>2
<1>5. \A i \in 1 .. k : a[i] \in 1 .. n + 1
  BY <1>3
<1>6. \A u, v \in Tasks : G[u] = G[v] /\ G[u] # 0 => u = v
  BY <1>1, <1>2 DEF Kept
<1>7. \A u \in Tasks, i \in 1 .. k : G[u] # a[i]
  BY <1>1, <1>3 DEF Kept
<1>9. D \subseteq 1 .. n + 1 /\ n + 1 \notin D
  BY DEF Kept
<1>10. (\A u \in Tasks : G[u] \notin D) /\ \A i \in 1 .. k : a[i] \notin D
  BY <1>1, <1>9 DEF Kept
<1>8. ASSUME NEW m \in 1 .. n + 1 \ D
      PROVE  (\E u \in Tasks : G[u] = m) \/ (\E i \in 1 .. k : a[i] = m)
  <2>1. CASE m = n + 1
    BY <1>1, <2>1
  <2>2. CASE m \in 1 .. n \ D
    <3>1. (\E u \in Tasks : H[u] = m) \/ (\E i \in 1 .. k : a[i] = m)
      BY <2>2 DEF Kept
    <3>2. \A u \in Tasks : H[u] = m => G[u] = m
      BY <1>1, <2>2
    <3> QED BY <3>1, <3>2
  <2>3. m = n + 1 \/ m \in 1 .. n \ D
    OBVIOUS
  <2> QED BY <2>1, <2>2, <2>3
<1> QED BY <1>4, <1>5, <1>6, <1>7, <1>8, <1>9, <1>10 DEF Kept, G

\* An event that leaves a task's hand for the end of the queue.
LEMMA FromHand ==
    ASSUME NEW H \in [Tasks -> Nat], NEW a \in Seq(Nat), NEW n \in Nat,
           NEW D, Kept(H, a, Len(a), n, D), NEW t \in Tasks, H[t] # 0
    PROVE  Kept([H EXCEPT ![t] = 0], Append(a, H[t]), Len(Append(a, H[t])), n, D)
<1> DEFINE G == [H EXCEPT ![t] = 0]
           b == Append(a, H[t])
<1>1. \A u \in Tasks : G[u] = IF u = t THEN 0 ELSE H[u]
  OBVIOUS
<1>2. /\ Len(a) \in Nat /\ Len(b) = Len(a) + 1 /\ b[Len(a) + 1] = H[t]
      /\ \A i \in 1 .. Len(a) : b[i] = a[i]
  OBVIOUS
<1> HIDE DEF G, b
<1>3. \A i \in 1 .. Len(b) : i \in 1 .. Len(a) \/ i = Len(a) + 1
  BY <1>2
<1>4. \A u \in Tasks : H[u] \in 0 .. n
  BY DEF Kept
<1>5. \A u \in Tasks : G[u] \in 0 .. n
  BY <1>1, <1>4
<1>6. \A i \in 1 .. Len(b) : b[i] \in 1 .. n
  <2>1. H[t] \in 1 .. n
    BY <1>4
  <2> QED BY <1>2, <1>3, <2>1 DEF Kept
<1>7. \A i, j \in 1 .. Len(b) : b[i] = b[j] => i = j
  <2>1. /\ \A i, j \in 1 .. Len(a) : a[i] = a[j] => i = j
        /\ \A i \in 1 .. Len(a) : a[i] # H[t]
    BY DEF Kept
  <2> QED BY <1>2, <1>3, <2>1
<1>8. \A u, v \in Tasks : G[u] = G[v] /\ G[u] # 0 => u = v
  BY <1>1 DEF Kept
<1>9. \A u \in Tasks, i \in 1 .. Len(b) : G[u] # b[i]
  <2> SUFFICES ASSUME NEW u \in Tasks, NEW i \in 1 .. Len(b), G[u] = b[i] PROVE FALSE
    OBVIOUS
  <2>1. b[i] # 0
    BY <1>6
  <2>2. u # t /\ H[u] = b[i] /\ H[u] # 0
    BY <1>1, <2>1
  <2> QED BY <1>2, <1>3, <2>2 DEF Kept
<1>11. /\ D \subseteq 1 .. n
       /\ \A u \in Tasks : G[u] \notin D
       /\ \A i \in 1 .. Len(b) : b[i] \notin D
  <2>1. 0 \notin D
    BY DEF Kept
  <2> QED BY <1>1, <1>2, <1>3, <2>1 DEF Kept
<1>10. ASSUME NEW m \in 1 .. n \ D
       PROVE  (\E u \in Tasks : G[u] = m) \/ (\E i \in 1 .. Len(b) : b[i] = m)
  <2>1. CASE \E u \in Tasks : H[u] = m
    <3>1. PICK u \in Tasks : H[u] = m
      BY <2>1
    <3>2. CASE u = t
      <4>1. Len(a) + 1 \in 1 .. Len(b)
        BY <1>2
      <4> QED BY <1>2, <3>1, <3>2, <4>1
    <3>3. CASE u # t
      BY <1>1, <3>1, <3>3
    <3> QED BY <3>2, <3>3
  <2>2. CASE \E i \in 1 .. Len(a) : a[i] = m
    <3>1. \A i \in 1 .. Len(a) : i \in 1 .. Len(b)
      BY <1>2
    <3> QED BY <1>2, <2>2, <3>1
  <2> QED BY <2>1, <2>2 DEF Kept
<1> QED BY <1>5, <1>6, <1>7, <1>8, <1>9, <1>10, <1>11 DEF Kept, G, b

\* An event that leaves a task's hand for good.
LEMMA GivenUp ==
    ASSUME NEW H \in [Tasks -> Nat], NEW a, NEW k \in Nat, NEW n \in Nat,
           NEW D, Kept(H, a, k, n, D), NEW t \in Tasks, H[t] # 0
    PROVE  Kept([H EXCEPT ![t] = 0], a, k, n, D \cup {H[t]})
<1> DEFINE G == [H EXCEPT ![t] = 0]
           E == D \cup {H[t]}
<1>1. \A u \in Tasks : G[u] = IF u = t THEN 0 ELSE H[u]
  OBVIOUS
<1> HIDE DEF G
<1>2. H[t] \in 1 .. n /\ \A u \in Tasks : H[u] \in 0 .. n
  BY DEF Kept
<1>3. E \subseteq 1 .. n /\ 0 \notin E
  <2>1. D \subseteq 1 .. n
    BY DEF Kept
  <2>2. E \subseteq 1 .. n
    BY <1>2, <2>1
  <2>3. 0 \notin 1 .. n
    OBVIOUS
  <2> QED BY <2>2, <2>3
<1>4. \A u \in Tasks : G[u] \in 0 .. n /\ G[u] \notin E
  BY <1>1, <1>2, <1>3 DEF Kept
<1>5. \A i \in 1 .. k : a[i] \notin E
  BY DEF Kept
<1>6. /\ \A u, v \in Tasks : G[u] = G[v] /\ G[u] # 0 => u = v
      /\ \A u \in Tasks, i \in 1 .. k : G[u] # a[i]
  <2>1. \A i \in 1 .. k : a[i] # 0
    BY DEF Kept
  <2> QED BY <1>1, <2>1 DEF Kept
<1>7. \A m \in 1 .. n \ E : (\E u \in Tasks : G[u] = m) \/ (\E i \in 1 .. k : a[i] = m)
  BY <1>1 DEF Kept
<1> QED BY <1>3, <1>4, <1>5, <1>6, <1>7 DEF Kept, G

\* An event that goes on the queue as soon as it has its number.
LEMMA AtOnce ==
    ASSUME NEW H \in [Tasks -> Nat], NEW a \in Seq(Nat), NEW n \in Nat,
           NEW D, Kept(H, a, Len(a), n, D), NEW t \in Tasks, H[t] = 0
    PROVE  Kept(H, Append(a, n + 1), Len(Append(a, n + 1)), n + 1, D)
<1> DEFINE G == [H EXCEPT ![t] = n + 1]
<1>0. Len(a) \in Nat
  OBVIOUS
<1>1. Kept(G, a, Len(a), n + 1, D)
  BY <1>0, NewInHand
<1>2. G \in [Tasks -> Nat] /\ G[t] = n + 1 /\ n + 1 # 0 /\ n + 1 \in Nat
  OBVIOUS
<1>3. [G EXCEPT ![t] = 0] = H
  OBVIOUS
<1> HIDE DEF G
<1>4. Kept([G EXCEPT ![t] = 0], Append(a, G[t]), Len(Append(a, G[t])), n + 1, D)
  BY <1>1, <1>2, FromHand
<1> QED BY <1>2, <1>3, <1>4

\* What lies after the first k does not matter.
LEMMA SameStart ==
    ASSUME NEW H, NEW a, NEW b, NEW k \in Nat, NEW n \in Nat,
           NEW D, Kept(H, a, k, n, D), \A i \in 1 .. k : b[i] = a[i]
    PROVE  Kept(H, b, k, n, D)
<1>1. \A m : (\E i \in 1 .. k : a[i] = m) => (\E i \in 1 .. k : b[i] = m)
  OBVIOUS
<1> QED BY <1>1 DEF Kept

\* What was received and what is queued, as one sequence.
LEMMA AllTypes ==
    ASSUME Types
    PROVE  /\ All \in Seq(Nat) /\ Len(All) = Len(received) + Len(queue)
           /\ Len(received) \in Nat /\ Len(queue) \in Nat
           /\ \A i \in 1 .. Len(received) : All[i] = received[i]
           /\ \A i \in 1 .. Len(queue) : All[Len(received) + i] = queue[i]
<1>1. received \in Seq(Nat) /\ queue \in Seq(Nat)
  BY DEF Types
<1> QED BY <1>1 DEF All

\* A put that finds room adds to its end,
LEMMA AllGrows ==
    ASSUME Types, NEW item \in Nat, queue' = Append(queue, item), received' = received
    PROVE  All' = Append(All, item)
<1>1. received \in Seq(Nat) /\ queue \in Seq(Nat)
  BY DEF Types
<1>2. received \o Append(queue, item) = Append(received \o queue, item)
  BY <1>1
<1> QED BY <1>2 DEF All

\* and a get moves the border between its parts.
LEMMA AllStays ==
    ASSUME Types, queue # <<>>, queue' = Tail(queue),
           received' = Append(received, Head(queue))
    PROVE  All' = All
<1>1. received \in Seq(Nat) /\ queue \in Seq(Nat)
  BY DEF Types
<1>2. Append(received, Head(queue)) \o Tail(queue) = received \o queue
  BY <1>1
<1> QED BY <1>2 DEF All

\* An event that has a number and is still in its task's hand.
LEMMA TakenInHand ==
    ASSUME StreamShape, Types, Accounted, ~cutShort,
           NEW t \in Tasks, NEW s \in Pending, task[t] = "running",
           \/ stage = "opening" /\ t = Driver
           \/ stage = "wave" /\ t \in Emitters,
           task' = [task EXCEPT ![t] = s], held' = [held EXCEPT ![t] = seq + 1],
           seq' = seq + 1,
           UNCHANGED <<stage, queue, received, consumer, cancelled, dropped, cutShort>>
    PROVE  Accounted'
<1>0. Driver \in Tasks /\ Driver \notin Emitters /\ \A e \in Emitters : e \in Tasks
  BY DriverIsTask DEF Tasks
<1>1. \A u \in Tasks : task'[u] = IF u = t THEN s ELSE task[u]
  BY DEF Types
<1>2. \A u \in Tasks : held'[u] = IF u = t THEN seq + 1 ELSE held[u]
  BY DEF Types
<1>3. All' = All /\ EventsPut' = EventsPut /\ EventsPut = Len(All) /\ Asking' = Asking
  BY DEF All, EventsPut, Asking
<1>4. held[t] = 0 /\ seq \in Nat /\ held \in [Tasks -> Nat]
  BY DEF Accounted, Hands, Types, Pending
<1>5. Kept(held', All', EventsPut', seq', dropped')
  <2>1. Kept(held, All, Len(All), seq, dropped) /\ Len(All) \in Nat
    BY <1>3, AllTypes DEF Accounted
  <2>2. Kept([held EXCEPT ![t] = seq + 1], All, Len(All), seq + 1, dropped)
    BY <1>4, <2>1, NewInHand
  <2> QED BY <1>3, <2>2
<1>6. InStep'
  BY <1>0, <1>1 DEF Accounted, InStep, Pending
<1>7. Hands'
  BY <1>1, <1>2, <1>4 DEF Accounted, Hands
<1>8. Verdict' /\ Sentinel'
  BY <1>3 DEF Accounted, Verdict, Sentinel
<1> QED BY <1>5, <1>6, <1>7, <1>8 DEF Accounted

\* An event that is put in the step that numbers it.
LEMMA PutAtOnce ==
    ASSUME StreamShape, Types, Accounted, ~cutShort,
           NEW t \in Tasks, task[t] = "running",
           \/ stage = "opening" /\ t = Driver /\ stage' = "wave"
           \/ stage = "wave" /\ t \in Emitters /\ stage' = "wave"
           \/ /\ stage = "wave" /\ t = Driver /\ stage' = "closing"
              /\ \A e \in Emitters : task[e] = "ended",
           task' = task, held' = held, seq' = seq + 1,
           queue' = Append(queue, seq + 1),
           UNCHANGED <<received, consumer, cancelled, dropped, cutShort>>
    PROVE  Accounted'
<1>1. All' = Append(All, seq + 1) /\ seq \in Nat /\ held \in [Tasks -> Nat]
      /\ seq + 1 \in Nat
  BY AllGrows DEF Types
<1>2. EventsPut = Len(All) /\ EventsPut' = Len(All') /\ Asking' = Asking
  BY DEF EventsPut, Asking
<1>3. held[t] = 0
  BY DEF Accounted, Hands, Pending
<1>4. Kept(held', All', EventsPut', seq', dropped')
  <2>1. Kept(held, All, Len(All), seq, dropped) /\ All \in Seq(Nat)
    BY <1>2, AllTypes DEF Accounted
  <2>2. Kept(held, Append(All, seq + 1), Len(Append(All, seq + 1)), seq + 1, dropped)
    BY <1>1, <1>3, <2>1, AtOnce
  <2> QED BY <1>1, <1>2, <2>2
<1>5. Len(All') = Len(All) + 1 /\ All'[Len(All')] = seq + 1 /\ Len(All) \in Nat
  BY <1>1, AllTypes
<1>6. InStep'
  BY DriverIsTask DEF Accounted, InStep
<1>7. Hands'
  <2>1. t = Driver => held[Driver] = 0 /\ task[Driver] = "running"
    BY <1>3
  <2> QED BY <2>1 DEF Accounted, Hands, InStep, Pending
<1>8. Verdict'
  BY <1>2, <1>5 DEF Verdict
<1>9. Sentinel'
  BY <1>2 DEF Accounted, Sentinel
<1> QED BY <1>4, <1>6, <1>7, <1>8, <1>9 DEF Accounted

\* The number that emit takes is in its hand until the event is put.
LEMMA EmitAccounted ==
    ASSUME StreamShape, Types, Accounted, ~cutShort,
           NEW t \in Tasks, task[t] = "running", Emit(t), SinkAwaits => UNCHANGED stage,
           \/ stage = "opening" /\ t = Driver
           \/ stage = "wave" /\ t \in Emitters,
           UNCHANGED <<received, consumer, cancelled, dropped, cutShort>>
    PROVE  Accounted'
<1>0. Driver \in Tasks /\ Driver \notin Emitters
  BY DriverIsTask
<1>1. held[t] = 0 /\ seq' = seq + 1
  BY DEF Emit, Accounted, Hands, Pending
<1>2. CASE SinkAwaits
  BY <1>2, TakenInHand DEF Emit, Pending
<1>3. CASE ~SinkAwaits /\ Full
  BY <1>3, TakenInHand DEF Emit, Put, Pending
<1>4. CASE ~SinkAwaits /\ ~Full
  <2>1. Put(t, seq + 1)
    BY <1>4 DEF Emit
  <2>2. task' = task /\ held' = held
    BY <1>1, <1>4, <2>1 DEF Put, Types
  <2>3. stage' = "wave"
    BY <1>0, <1>4, <2>1 DEF Put, StageAfter
  <2>4. queue' = Append(queue, seq + 1)
    BY <1>4, <2>1 DEF Put
  <2> QED BY <1>1, <2>2, <2>3, <2>4, PutAtOnce
<1> QED BY <1>2, <1>3, <1>4

\* The sentinel goes behind the last event.
LEMMA SentinelPut ==
    ASSUME StreamShape, Types, Accounted, ~cutShort,
           stage = "closing", stage' = "done",
           task' = [task EXCEPT ![Driver] = "ended"], held' = held, held[Driver] = 0,
           queue' = Append(queue, CLOSED),
           UNCHANGED <<seq, received, consumer, cancelled, dropped, cutShort>>
    PROVE  Accounted'
<1>0. Driver \in Tasks /\ Driver \notin Emitters /\ CLOSED \in Nat
  BY DriverIsTask DEF CLOSED
<1>1. All' = Append(All, CLOSED)
  BY <1>0, AllGrows
<1>2. /\ Len(All) \in Nat /\ Len(All') = Len(All) + 1 /\ All'[Len(All')] = CLOSED
      /\ \A i \in 1 .. Len(All) : All'[i] = All[i]
  BY <1>0, <1>1, AllTypes
<1>3. Asking /\ Asking'
  BY DEF Accounted, Sentinel, Asking
<1>4. EventsPut = Len(All) /\ EventsPut' = Len(All)
  BY <1>2, <1>3 DEF EventsPut
<1>5. Kept(held', All', EventsPut', seq', dropped')
  BY <1>2, <1>4, SameStart DEF Accounted, Types
<1>6. InStep'
  BY <1>0 DEF Accounted, InStep, Types
<1>7. \A u \in Tasks : task'[u] = IF u = Driver THEN "ended" ELSE task[u]
  BY DEF Types
<1>8. Hands'
  BY <1>0, <1>7 DEF Accounted, Hands, Pending
<1>9. Verdict'
  BY <1>2, <1>4 DEF Accounted, Verdict
<1>10. Sentinel'
  BY <1>2, <1>3 DEF Accounted, Sentinel
<1> QED BY <1>5, <1>6, <1>8, <1>9, <1>10 DEF Accounted

\* A put after the sink, or by a task that was woken, puts what is in hand.
LEMMA RetriedPut ==
    ASSUME StreamShape, Types, Accounted, ~cutShort,
           NEW t \in Tasks, task[t] \in {"sinking", "woken"}, Put(t, held[t]),
           UNCHANGED <<seq, received, consumer, cancelled, dropped, cutShort>>
    PROVE  Accounted'
<1>0. Driver \in Tasks /\ Driver \notin Emitters /\ \A e \in Emitters : e \in Tasks
  BY DriverIsTask DEF Tasks
<1>1. held \in [Tasks -> Nat] /\ task \in [Tasks -> Suspensions] /\ seq \in Nat
      /\ stage \in Stages
  BY DEF Types
<1>2. t \in Emitters => stage = "wave"
  BY <1>1 DEF Accounted, InStep, Stages
<1>3. t \in Emitters \/ t = Driver
  BY DEF Tasks
<1>4. t = Driver => stage \in {"opening", "ending", "closing"}
  BY <1>1 DEF Accounted, InStep, Stages
<1>5. CASE Full
  <2>1. task' = [task EXCEPT ![t] = "waiting"] /\ held' = held
        /\ UNCHANGED <<stage, queue>>
    BY <1>1, <1>5 DEF Put
  <2>2. \A u \in Tasks : task'[u] = IF u = t THEN "waiting" ELSE task[u]
    BY <1>1, <2>1
  <2>3. UNCHANGED <<All, EventsPut, Asking>>
    BY <2>1 DEF All, EventsPut, Asking
  <2>4. InStep'
    BY <1>0, <1>2, <1>3, <1>4, <2>1, <2>2 DEF Accounted, InStep, Pending
  <2>5. Hands'
    BY <2>1, <2>2 DEF Accounted, Hands, Pending
  <2> QED BY <2>1, <2>3, <2>4, <2>5 DEF Accounted, Verdict, Sentinel
<1>6. CASE ~Full /\ t = Driver /\ stage = "closing"
  <2>1. held[t] = 0
    BY <1>6 DEF Accounted, Hands
  <2>2. held' = held /\ task' = [task EXCEPT ![Driver] = "ended"]
        /\ stage' = "done" /\ queue' = Append(queue, CLOSED)
    BY <1>1, <1>6, <2>1 DEF Put, StageAfter, CLOSED
  <2> QED BY <1>6, <2>1, <2>2, SentinelPut
<1>7. CASE ~Full /\ ~(t = Driver /\ stage = "closing")
  <2>1. held[t] # 0
    BY <1>7 DEF Accounted, Hands, Pending
  <2>2. /\ queue' = Append(queue, held[t]) /\ task' = [task EXCEPT ![t] = "running"]
        /\ held' = [held EXCEPT ![t] = 0]
        /\ stage' = IF t = Driver THEN StageAfter ELSE stage
    BY <1>7 DEF Put
  <2>3. stage' = IF t \in Emitters THEN "wave"
                 ELSE IF stage = "opening" THEN "wave" ELSE "closing"
    BY <1>0, <1>2, <1>3, <1>4, <1>7, <2>2 DEF StageAfter
  <2>4. All' = Append(All, held[t])
    BY <1>1, <2>2, AllGrows
  <2>5. EventsPut = Len(All) /\ EventsPut' = Len(All') /\ Asking' = Asking
    BY <1>2, <1>3, <1>4, <2>3 DEF EventsPut, Asking
  <2>6. Kept(held', All', EventsPut', seq', dropped')
    BY <1>1, <2>1, <2>2, <2>4, <2>5, AllTypes, FromHand DEF Accounted
  <2>7. \A u \in Tasks : /\ task'[u] = IF u = t THEN "running" ELSE task[u]
                         /\ held'[u] = IF u = t THEN 0 ELSE held[u]
    BY <1>1, <2>2
  <2>8. InStep'
    BY <1>0, <1>2, <1>3, <1>4, <1>7, <2>3, <2>7 DEF Accounted, InStep
  <2>9. Hands'
    BY <1>2, <1>3, <1>4, <1>7, <2>3, <2>7 DEF Accounted, Hands, Pending
  <2>10. Len(All') = Len(All) + 1 /\ All'[Len(All')] = held[t] /\ Len(All) \in Nat
    BY <1>1, <2>4, AllTypes
  <2>11. Verdict'
    BY <1>0, <1>2, <1>3, <1>4, <1>7, <2>3, <2>5, <2>10 DEF Accounted, Verdict
  <2>12. Sentinel'
    BY <1>2, <1>3, <1>4, <2>3, <2>5 DEF Accounted, Sentinel
  <2> QED BY <2>6, <2>8, <2>9, <2>11, <2>12 DEF Accounted
<1> QED BY <1>5, <1>6, <1>7

\* A get hands on what was put, in that order.
LEMMA GetAccounted ==
    ASSUME StreamShape, Types, Line, Accounted, ~cutShort, Get
    PROVE  Accounted'
<1>0. Driver \in Tasks /\ Driver \notin Emitters /\ \A e \in Emitters : e \in Tasks
  BY DriverIsTask DEF Tasks
<1>1. \A u \in Tasks :
        task'[u] # task[u] => task[u] = "waiting" /\ task'[u] = "woken"
  <2>1. CASE InLine = {}
    BY <2>1 DEF Get, WakeFirst
  <2>2. CASE InLine # {}
    <3>1. PICK u \in Range(putters) \cap Tasks : WakeFirst(task) = [task EXCEPT ![u] = "woken"]
      BY <2>2, LineMoves DEF Line
    <3>2. task[u] = "waiting"
      BY DEF Line
    <3> QED BY <3>1, <3>2 DEF Get, Types
  <2> QED BY <2>1, <2>2
<1>2. /\ UNCHANGED <<stage, held, seq, cancelled, dropped, cutShort>>
      /\ queue # <<>> /\ queue' = Tail(queue) /\ consumer = "reading"
  BY DEF Get
<1>3. InStep'
  BY <1>0, <1>1, <1>2 DEF Accounted, InStep, Pending
<1>4. Hands'
  BY <1>1, <1>2 DEF Accounted, Hands, Pending
<1>5. /\ Len(queue) > 0 /\ queue[1] = Head(queue) /\ Len(queue') = Len(queue) - 1
      /\ queue \in Seq(Nat) /\ received \in Seq(Nat) /\ Head(queue) \in Nat
  BY <1>2 DEF Types
<1>6. All[Len(received) + 1] = Head(queue) /\ Len(All) \in Nat
  BY <1>5, AllTypes
<1>7. CASE Head(queue) # CLOSED
  <2>1. received' = Append(received, Head(queue)) /\ consumer' = "holding"
    BY <1>7 DEF Get
  <2>2. All' = All
    BY <1>2, <2>1, AllStays
  <2>3. Asking /\ Asking' /\ EventsPut' = EventsPut
    BY <1>2, <2>1, <2>2 DEF Asking, EventsPut
  <2>4. \A i \in DOMAIN received' : received'[i] # CLOSED
    BY <1>5, <1>7, <2>1 DEF Accounted, Sentinel
  <2> QED BY <1>2, <1>3, <1>4, <2>2, <2>3, <2>4 DEF Accounted, Verdict, Sentinel
<1>8. CASE Head(queue) = CLOSED
  <2>1. received' = received /\ consumer' = "unwinding"
    BY <1>8 DEF Get, CLOSED
  <2>2. Asking /\ ~Asking'
    BY <1>2, <2>1 DEF Asking
  <2>3. ~(Len(received) + 1 \in 1 .. EventsPut)
    BY <1>6, <1>8 DEF Accounted, Kept, CLOSED
  <2>4. Len(All) = Len(received) + Len(queue) /\ Len(received) \in Nat /\ Len(queue) \in Nat
    BY AllTypes
  <2>5. stage = "done" /\ EventsPut = Len(All) - 1 /\ Len(queue) = 1
    BY <1>5, <1>6, <2>3, <2>4 DEF EventsPut
  <2>6. queue' = <<>>
    BY <1>2, <1>5, <2>5
  <2>7. All' = received
    BY <1>5, <2>1, <2>6 DEF All
  <2>8. EventsPut' = Len(received) /\ EventsPut = Len(received)
    BY <2>2, <2>4, <2>5, <2>7 DEF EventsPut
  <2>9. \A i \in 1 .. EventsPut : All'[i] = All[i]
    BY <2>7, <2>8, AllTypes
  <2>10. Kept(held', All', EventsPut', seq', dropped')
    BY <1>2, <2>4, <2>8, <2>9, SameStart DEF Accounted, Types
  <2>11. Verdict'
    BY <1>2, <2>4, <2>5, <2>8, <2>9 DEF Accounted, Verdict
  <2>12. Sentinel'
    BY <1>2, <2>1, <2>2, <2>5, <2>6 DEF Accounted, Sentinel
  <2> QED BY <1>2, <1>3, <1>4, <2>10, <2>11, <2>12 DEF Accounted
<1> QED BY <1>7, <1>8

\* No step loses or repeats an event of a stream that is not cut short, but for
\* what a node gives up.
LEMMA AccountedStep ==
    ASSUME StreamShape, Types, Line, Course, Accounted, [Next]_vars
    PROVE  Accounted'
<1> SUFFICES ASSUME ~cutShort, ~cutShort' PROVE Accounted'
  <2>1. cutShort => cutShort'
    BY DEF Next, NodeStep, DriverStep, ConsumerStep, TaskStep, NodeEmits, NodeEnds,
           CancelNode, GivesUp, SinkReturns, SinkRaises, Proceed, Open, Conclude, Close,
           CancelDriver, Get, AskNext, Join, Abandon, Finished, vars
  <2> QED BY <2>1 DEF Accounted
<1>0. /\ Driver \in Tasks /\ Driver \notin Emitters /\ \A e \in Emitters : e \in Tasks
      /\ stage \in Stages
  BY DriverIsTask DEF Tasks, Types
<1>1. ASSUME NEW e \in Emitters, gathered, NodeEmits(e) PROVE Accounted'
  <2>1. stage = "wave" /\ task[e] = "running" /\ e \in Tasks
    BY <1>0, <1>1 DEF NodeEmits, Course, Accounted, InStep, Stages
  <2>2. CASE ~closed /\ Emit(e) /\ (SinkAwaits => UNCHANGED stage)
    BY <1>1, <2>1, <2>2, EmitAccounted DEF NodeEmits
  <2>3. CASE UNCHANGED <<stage, task, held, seq, queue, putters>>
    BY <1>1, <2>3 DEF NodeEmits, Accounted, InStep, Hands, Verdict, Sentinel, All,
                      EventsPut, Asking
  <2> QED BY <1>1, <2>2, <2>3 DEF NodeEmits
<1>2. ASSUME NEW e \in Emitters, gathered, NodeEnds(e) PROVE Accounted'
  <2>1. stage = "wave" /\ task[e] = "running" /\ e \in Tasks
    BY <1>0, <1>2 DEF NodeEnds, Course, Accounted, InStep, Stages
  <2>2. \A u \in Tasks : task'[u] = IF u = e THEN "ended" ELSE task[u]
    BY <1>2 DEF NodeEnds, Types
  <2>3. UNCHANGED <<stage, held, seq, queue, received, consumer, cancelled, dropped, cutShort>>
    BY <1>2 DEF NodeEnds, stream
  <2>4. UNCHANGED <<All, EventsPut, Asking>>
    BY <2>3 DEF All, EventsPut, Asking
  <2>5. InStep'
    BY <1>0, <2>1, <2>2, <2>3 DEF Accounted, InStep
  <2>6. Hands'
    BY <2>1, <2>2, <2>3 DEF Accounted, Hands, Pending
  <2> QED BY <2>3, <2>4, <2>5, <2>6 DEF Accounted, Verdict, Sentinel
<1>3. ASSUME NEW t \in Tasks, SinkReturns(t) \/ Proceed(t) PROVE Accounted'
  BY <1>3, RetriedPut DEF SinkReturns, Proceed
<1>4. ASSUME NEW t \in Tasks, SinkRaises(t) PROVE FALSE
  BY <1>4 DEF SinkRaises
<1>12. ASSUME NEW e \in Emitters, GivesUp(e) PROVE Accounted'
  <2>1. /\ task[e] \in Pending /\ e \in Tasks /\ e # Driver
        /\ UNCHANGED <<stage, seq, queue, received, consumer, cancelled, cutShort>>
        /\ held' = [held EXCEPT ![e] = 0] /\ dropped' = dropped \cup {held[e]}
    BY <1>0, <1>12 DEF GivesUp, Pending
  <2>2. stage = "wave" /\ held[e] # 0
    BY <1>0, <2>1 DEF Accounted, InStep, Hands, Stages, Pending
  <2>3. \A u \in Tasks : \/ u # e /\ task'[u] = task[u]
                         \/ u = e /\ task'[u] = "running"
                         \/ u # e /\ task[u] = "waiting" /\ task'[u] = "woken"
    BY <1>12, <2>1, OnlyWakes DEF GivesUp
  <2>4. UNCHANGED <<All, EventsPut, Asking>>
    BY <2>1 DEF All, EventsPut, Asking
  <2>5. InStep'
    BY <1>0, <2>1, <2>2, <2>3 DEF Accounted, InStep
  <2>6. \A u \in Tasks : held'[u] = IF u = e THEN 0 ELSE held[u]
    BY <2>1 DEF Types
  <2>7. Hands'
    BY <2>1, <2>2, <2>3, <2>6 DEF Accounted, Hands, Pending
  <2>8. Kept(held', All', EventsPut', seq', dropped')
    <3>1. held \in [Tasks -> Nat] /\ seq \in Nat /\ EventsPut = Len(All) /\ Len(All) \in Nat
      BY <2>2, AllTypes DEF Types, EventsPut
    <3>2. Kept([held EXCEPT ![e] = 0], All, EventsPut, seq, dropped \cup {held[e]})
      BY <2>1, <2>2, <3>1, GivenUp DEF Accounted
    <3> QED BY <2>1, <2>4, <3>2
  <2> QED BY <2>1, <2>2, <2>4, <2>5, <2>7, <2>8 DEF Accounted, Verdict, Sentinel
<1>5. ASSUME Open PROVE Accounted'
  BY <1>0, <1>5, EmitAccounted DEF Open
<1>6. ASSUME Conclude PROVE Accounted'
  <2>1. /\ stage = "wave" /\ task[Driver] = "running" /\ seq' = seq + 1
        /\ \A e \in Emitters : task[e] = "ended"
        /\ UNCHANGED <<received, consumer, cancelled, dropped, cutShort>>
    BY <1>6 DEF Conclude, Accounted, InStep
  <2>2. CASE /\ stage' = "closing" /\ queue' = Append(queue, seq + 1)
             /\ UNCHANGED <<task, held>>
    BY <1>0, <2>1, <2>2, PutAtOnce
  <2>3. ASSUME NEW s \in {"sinking", "waiting"}, stage' = "ending",
               task' = [task EXCEPT ![Driver] = s],
               held' = [held EXCEPT ![Driver] = seq + 1], UNCHANGED queue
        PROVE  Accounted'
    <3>1. /\ \A u \in Tasks : task'[u] = IF u = Driver THEN s ELSE task[u]
          /\ \A u \in Tasks : held'[u] = IF u = Driver THEN seq + 1 ELSE held[u]
          /\ seq \in Nat /\ held \in [Tasks -> Nat]
      BY <2>3 DEF Types
    <3>2. All' = All /\ EventsPut' = Len(All) /\ EventsPut = Len(All) /\ Asking' = Asking
      BY <2>1, <2>3 DEF All, EventsPut, Asking
    <3>3. held[Driver] = 0
      BY <1>0, <2>1 DEF Accounted, Hands, Pending
    <3>4. Kept(held, All, Len(All), seq, dropped) /\ Len(All) \in Nat
      BY <3>2, AllTypes DEF Accounted
    <3>5. Kept(held', All', EventsPut', seq', dropped')
      BY <1>0, <2>1, <2>3, <3>1, <3>2, <3>3, <3>4, NewInHand
    <3>6. InStep'
      BY <1>0, <2>1, <2>3, <3>1 DEF InStep, Pending
    <3>7. Hands'
      BY <2>1, <2>3, <3>1 DEF Accounted, Hands, Pending
    <3>8. Verdict'
      BY <1>0, <2>1, <2>3, <3>1 DEF Verdict
    <3>9. Sentinel'
      BY <2>1, <2>3, <3>2 DEF Accounted, Sentinel
    <3> QED BY <2>1, <3>5, <3>6, <3>7, <3>8, <3>9 DEF Accounted
  <2> QED BY <1>6, <2>2, <2>3 DEF Conclude
<1>7. ASSUME Close PROVE Accounted'
  <2>1. /\ stage = "closing" /\ task[Driver] = "running" /\ Put(Driver, CLOSED)
        /\ UNCHANGED <<seq, received, consumer, cancelled, dropped, cutShort>>
    BY <1>7 DEF Close, MidStep
  <2>2. held[Driver] = 0 /\ [held EXCEPT ![Driver] = 0] = held
    BY <1>0, <2>1 DEF Accounted, Hands, Pending, Types
  <2>3. CASE Full
    <3>1. /\ task' = [task EXCEPT ![Driver] = "waiting"] /\ held' = held
          /\ UNCHANGED <<stage, queue>>
      BY <2>1, <2>2, <2>3 DEF Put, CLOSED
    <3>2. \A u \in Tasks : task'[u] = IF u = Driver THEN "waiting" ELSE task[u]
      BY <3>1 DEF Types
    <3>3. UNCHANGED <<All, EventsPut, Asking>>
      BY <2>1, <3>1 DEF All, EventsPut, Asking
    <3>4. InStep' /\ Hands'
      BY <1>0, <2>1, <2>2, <3>1, <3>2 DEF Accounted, InStep, Hands, Pending
    <3> QED BY <2>1, <3>1, <3>3, <3>4 DEF Accounted, Verdict, Sentinel
  <2>4. CASE ~Full
    <3>1. /\ task' = [task EXCEPT ![Driver] = "ended"] /\ held' = held
          /\ stage' = "done" /\ queue' = Append(queue, CLOSED)
      BY <2>1, <2>2, <2>4 DEF Put, StageAfter
    <3> QED BY <2>1, <2>2, <3>1, SentinelPut
  <2> QED BY <2>3, <2>4
<1>8. ASSUME Get PROVE Accounted'
  BY <1>8, GetAccounted
<1>9. ASSUME Abandon PROVE FALSE
  BY <1>9 DEF Abandon
<1>10. ASSUME CancelDriver \/ \E e \in Emitters : CancelNode(e) PROVE FALSE
  BY <1>10 DEF CancelDriver, CancelNode, Accounted
<1>11. ASSUME AskNext \/ Join \/ Finished \/ UNCHANGED vars PROVE Accounted'
  <2>1. UNCHANGED <<stage, task, held, seq, queue, received, cancelled, dropped, cutShort>>
    BY <1>11 DEF AskNext, Join, Finished, vars, stream
  <2>2. Asking' = Asking
    BY <1>11 DEF AskNext, Join, Finished, vars, Asking
  <2>3. All' = All /\ EventsPut' = EventsPut
    BY <2>1, <2>2 DEF All, EventsPut
  <2> QED BY <2>1, <2>2, <2>3 DEF Accounted, InStep, Hands, Verdict, Sentinel
<1> QED BY <1>0, <1>1, <1>2, <1>3, <1>4, <1>5, <1>6, <1>7, <1>8, <1>9, <1>10, <1>11, <1>12
        DEF Next, NodeStep, DriverStep, ConsumerStep, TaskStep

\* On a stream that is not cut short, with timeouts, wakeups and errors of the
\* sink inside nodes: everything that was numbered is in one task's hand, in the
\* queue, with the consumer or given up by its node, in one place and once, and
\* the verdict is put last.
THEOREM EventsAreKept == Spec => []Accounted
<1>1. Init => Accounted
  <2> SUFFICES ASSUME Init PROVE Accounted
    OBVIOUS
  <2>1. received = <<>> /\ queue = <<>> /\ consumer = "reading" /\ stage = "opening"
        /\ seq = 0 /\ cancelled = {} /\ dropped = {}
        /\ \A t \in Tasks : task[t] = "running" /\ held[t] = 0
    BY DEF Init
  <2>2. All = <<>> /\ EventsPut = 0 /\ Asking
    BY <2>1 DEF All, EventsPut, Asking
  <2>3. InStep
    BY <2>1, DriverIsTask, StreamShape DEF InStep, Tasks
  <2>4. Hands /\ Verdict /\ Sentinel
    BY <2>1, <2>2 DEF Hands, Verdict, Sentinel, Pending
  <2>5. Kept(held, All, EventsPut, seq, dropped)
    BY <2>1, <2>2 DEF Kept
  <2> QED BY <2>1, <2>3, <2>4, <2>5 DEF Accounted
<1>2. LineInv /\ Course /\ Accounted /\ [Next]_vars => Accounted'
  BY StreamShape, AccountedStep DEF LineInv
<1> QED BY <1>1, <1>2, LineIsServed, CourseIsKept, PTL DEF Spec

-----------------------------------------------------------------------------
(***************************************************************************)
(* What a node gives up lies between two events of it that the stream has. *)
(* The first event of a node is emitted before its run() and the last one  *)
(* after it, so neither is given up.                                       *)
(***************************************************************************)

\* As many numbers as authors.
Numbered == author \in Seq(Tasks) /\ Len(author) = seq

\* No step gives out a number without an author.
LEMMA NumberedStep ==
    ASSUME StreamShape, Types, Numbered, [Next]_vars
    PROVE  Numbered'
<1>1. ASSUME NEW t \in Tasks, Step(t), seq' \in {seq, seq + 1} PROVE Numbered'
  BY <1>1 DEF Step, Numbered, Types
<1>2. Driver \in Tasks /\ \A e \in Emitters : e \in Tasks
  BY DEF Tasks
<1>3. ASSUME NEW e \in Emitters, NodeStep(e) PROVE seq' \in {seq, seq + 1}
  BY <1>3 DEF NodeStep, NodeEmits, Emit, NodeEnds, CancelNode, GivesUp, TaskStep, SinkReturns,
              SinkRaises, Proceed, stream
<1>4. ASSUME DriverStep PROVE seq' \in {seq, seq + 1}
  BY <1>4 DEF DriverStep, Open, Emit, Conclude, Close, CancelDriver, TaskStep, SinkReturns,
              SinkRaises, Proceed, stream
<1>5. CASE \E e \in Emitters : NodeStep(e)
  BY <1>1, <1>2, <1>3, <1>5 DEF NodeStep
<1>6. CASE DriverStep
  BY <1>1, <1>2, <1>4, <1>6 DEF DriverStep
<1>7. CASE ConsumerStep \/ (Abandon /\ UnnotedStep) \/ Finished \/ UNCHANGED vars
  <2>1. UNCHANGED <<author, seq>>
    BY <1>7 DEF ConsumerStep, Get, AskNext, Join, Abandon, UnnotedStep, Finished, vars, stream
  <2>. QED  BY <2>1 DEF Numbered
<1>. QED  BY <1>5, <1>6, <1>7 DEF Next

Accepted == 1 .. seq \ dropped

Bracketed ==
    /\ dropped \subseteq 1 .. seq
    /\ \A t \in Tasks : task[t] \in Pending /\ held[t] # 0 =>
          held[t] \in 1 .. seq /\ author[held[t]] = t
    /\ \A d \in dropped : \E e \in Emitters :
          /\ author[d] = e
          /\ task[e] \in Pending => d < held[e]
          /\ \E b \in Accepted : author[b] = e /\ b < d
          /\ left[e] = 0 /\ (~closed \/ ~cutShort) =>
                \E a \in Accepted : author[a] = e /\ d < a
    /\ \A e \in Emitters :
          /\ ~closed /\ left[e] < setup.events[e] => \E i \in Accepted : author[i] = e
          /\ task[e] \in Pending /\ left[e] < setup.events[e] - 1 =>
                \E i \in Accepted : author[i] = e /\ i < held[e]
          /\ task[e] = "ended" => left[e] = 0 \/ cutShort

\* A step that gives out no number, takes none into a hand and gives none up.
LEMMA BracketedStays ==
    ASSUME StreamShape, Types, Bracketed, UNCHANGED <<setup, author, seq, dropped, left>>,
           \A t \in Tasks : task'[t] \in Pending =>
               \/ task[t] \in Pending /\ held'[t] = held[t]
               \/ t = Driver /\ held'[t] = 0,
           closed => closed', cutShort => cutShort',
           \A e \in Emitters : task'[e] = "ended" =>
               task[e] = "ended" \/ left[e] = 0 \/ cutShort'
    PROVE  Bracketed'
<1>1. Driver \notin Emitters /\ \A e \in Emitters : e \in Tasks
  BY DriverIsTask DEF Tasks
<1>2. UNCHANGED Accepted
  BY DEF Accepted
<1>3. \A t \in Tasks : task'[t] \in Pending /\ held'[t] # 0 =>
          held'[t] \in 1 .. seq /\ author[held'[t]] = t
  BY DEF Bracketed
<1>4. ASSUME NEW d \in dropped
      PROVE  \E e \in Emitters :
          /\ author[d] = e
          /\ task'[e] \in Pending => d < held'[e]
          /\ \E b \in Accepted : author[b] = e /\ b < d
          /\ left[e] = 0 /\ (~closed' \/ ~cutShort') =>
                \E a \in Accepted : author[a] = e /\ d < a
  <2>1. PICK e \in Emitters :
          /\ author[d] = e
          /\ task[e] \in Pending => d < held[e]
          /\ \E b \in Accepted : author[b] = e /\ b < d
          /\ left[e] = 0 /\ (~closed \/ ~cutShort) =>
                \E a \in Accepted : author[a] = e /\ d < a
    BY DEF Bracketed
  <2>2. e \in Tasks /\ e # Driver
    BY <1>1
  <2>3. task'[e] \in Pending => d < held'[e]
    BY <2>1, <2>2
  <2>. QED  BY <2>1, <2>3
<1>5. ASSUME NEW e \in Emitters
      PROVE  /\ ~closed' /\ left[e] < setup.events[e] => \E i \in Accepted : author[i] = e
             /\ task'[e] \in Pending /\ left[e] < setup.events[e] - 1 =>
                   \E i \in Accepted : author[i] = e /\ i < held'[e]
             /\ task'[e] = "ended" => left[e] = 0 \/ cutShort'
  <2>1. task'[e] \in Pending => task[e] \in Pending /\ held'[e] = held[e]
    BY <1>1
  <2>. QED  BY <2>1 DEF Bracketed
<1>. QED  BY <1>2, <1>3, <1>4, <1>5 DEF Bracketed

\* A step that gives t the next number.
LEMMA BracketedNew ==
    ASSUME StreamShape, Types, Numbered, Bracketed, NEW t \in Tasks,
           ~closed, task[t] \notin Pending,
           author' = Append(author, t), seq' = seq + 1, UNCHANGED <<setup, dropped, cutShort>>,
           closed' = FALSE,
           \A u \in Tasks : u # t => task'[u] = task[u] /\ held'[u] = held[u],
           task'[t] \in Pending => held'[t] = seq + 1, task'[t] # "ended",
           \A e \in Emitters : e # t => left'[e] = left[e],
           t \in Emitters => left'[t] = left[t] - 1
    PROVE  Bracketed'
<1>1. /\ seq \in Nat /\ author \in Seq(Tasks) /\ Len(author) = seq
      /\ left \in [Emitters -> Nat] /\ setup.events \in [Emitters -> Nat]
      /\ \A e \in Emitters : e \in Tasks
  BY DEF Types, Numbered, StreamShape, Tasks
<1>2. author'[seq + 1] = t /\ \A i \in 1 .. seq : author'[i] = author[i]
  BY <1>1
<1>3. dropped \subseteq 1 .. seq
  BY DEF Bracketed
<1>4. /\ seq + 1 \in Accepted' /\ Accepted \subseteq 1 .. seq
      /\ \A i \in Accepted : i \in Accepted' /\ author'[i] = author[i] /\ i < seq + 1
  BY <1>1, <1>2, <1>3 DEF Accepted
<1>5. \A u \in Tasks : task'[u] \in Pending /\ held'[u] # 0 =>
          held'[u] \in 1 .. seq + 1 /\ author'[held'[u]] = u
  <2>. SUFFICES ASSUME NEW u \in Tasks, task'[u] \in Pending, held'[u] # 0
                PROVE  held'[u] \in 1 .. seq + 1 /\ author'[held'[u]] = u
    OBVIOUS
  <2>1. CASE u = t
    BY <1>1, <1>2, <2>1
  <2>2. CASE u # t
    <3>1. held'[u] \in 1 .. seq /\ author[held'[u]] = u
      BY <2>2 DEF Bracketed
    <3>. QED  BY <1>1, <1>2, <3>1
  <2>. QED  BY <2>1, <2>2
<1>6. ASSUME NEW d \in dropped
      PROVE  \E e \in Emitters :
          /\ author'[d] = e
          /\ task'[e] \in Pending => d < held'[e]
          /\ \E b \in Accepted' : author'[b] = e /\ b < d
          /\ left'[e] = 0 /\ (~closed' \/ ~cutShort') =>
                \E a \in Accepted' : author'[a] = e /\ d < a
  <2>1. PICK e \in Emitters :
          /\ author[d] = e
          /\ task[e] \in Pending => d < held[e]
          /\ \E b \in Accepted : author[b] = e /\ b < d
          /\ left[e] = 0 /\ (~closed \/ ~cutShort) =>
                \E a \in Accepted : author[a] = e /\ d < a
    BY DEF Bracketed
  <2>2. d \in 1 .. seq /\ author'[d] = e /\ d < seq + 1
    BY <1>1, <1>2, <1>3, <2>1
  <2>3. task'[e] \in Pending => d < held'[e]
    BY <1>1, <2>1, <2>2
  <2>4. \E b \in Accepted' : author'[b] = e /\ b < d
    BY <1>4, <2>1
  <2>5. left'[e] = 0 => \E a \in Accepted' : author'[a] = e /\ d < a
    <3>1. CASE e = t
      BY <1>2, <1>4, <2>2, <3>1
    <3>2. CASE e # t
      BY <1>4, <2>1, <3>2
    <3>. QED  BY <3>1, <3>2
  <2>. QED  BY <2>2, <2>3, <2>4, <2>5
<1>7. ASSUME NEW e \in Emitters
      PROVE  /\ left'[e] < setup.events[e] => \E i \in Accepted' : author'[i] = e
             /\ task'[e] \in Pending /\ left'[e] < setup.events[e] - 1 =>
                   \E i \in Accepted' : author'[i] = e /\ i < held'[e]
             /\ task'[e] = "ended" => left'[e] = 0 \/ cutShort'
  <2>1. CASE e = t
    <3>1. \E i \in Accepted' : author'[i] = e
      BY <1>2, <1>4, <2>1
    <3>2. left'[e] < setup.events[e] - 1 => left[e] < setup.events[e]
      <4>1. left[e] \in Nat /\ setup.events[e] \in Nat /\ left'[e] = left[e] - 1
        BY <1>1, <2>1
      <4>. QED  BY <4>1
    <3>3. left[e] < setup.events[e] => \E i \in Accepted : author[i] = e
      BY DEF Bracketed
    <3>4. task'[e] \in Pending /\ left'[e] < setup.events[e] - 1 =>
             \E i \in Accepted' : author'[i] = e /\ i < held'[e]
      BY <1>4, <2>1, <3>2, <3>3
    <3>. QED  BY <2>1, <3>1, <3>4
  <2>2. CASE e # t
    <3>1. /\ left[e] < setup.events[e] => \E i \in Accepted : author[i] = e
          /\ task[e] \in Pending /\ left[e] < setup.events[e] - 1 =>
                \E i \in Accepted : author[i] = e /\ i < held[e]
          /\ task[e] = "ended" => left[e] = 0 \/ cutShort
      BY DEF Bracketed
    <3>2. left'[e] = left[e] /\ task'[e] = task[e] /\ held'[e] = held[e]
      BY <1>1, <2>2
    <3>. QED  BY <1>4, <3>1, <3>2
  <2>. QED  BY <2>1, <2>2
<1>8. dropped' \subseteq 1 .. seq'
  BY <1>1, <1>3
<1>. QED  BY <1>5, <1>6, <1>7, <1>8 DEF Bracketed

\* A node gives up what it holds, which is neither its first event nor its last.
LEMMA BracketedGivesUp ==
    ASSUME StreamShape, Types, Line, Course, Numbered, Bracketed,
           NEW e \in Emitters, GivesUp(e), Step(e)
    PROVE  Bracketed'
<1>0. /\ e \in Tasks /\ e # Driver /\ \A f \in Emitters : f \in Tasks
      /\ seq \in Nat /\ left \in [Emitters -> Nat] /\ setup.events \in [Emitters -> Nat]
      /\ held \in [Tasks -> Nat]
  BY DriverIsTask DEF Types, Tasks, StreamShape
<1>1. /\ UNCHANGED <<setup, seq, author, closed, cutShort>>
      /\ task[e] \in Pending /\ 0 < left[e] /\ left[e] < setup.events[e] - 1
      /\ dropped' = dropped \cup {held[e]}
      /\ \A u \in Tasks : u # e => held'[u] = held[u]
  BY <1>0 DEF GivesUp, Step, Inside, Pending
<1>2. /\ task'[e] = "running"
      /\ \A u \in Tasks : \/ task'[u] = task[u]
                          \/ u = e /\ task'[u] = "running"
                          \/ task[u] = "waiting" /\ task'[u] = "woken"
  BY <1>0, OnlyWakes DEF GivesUp
<1>3. /\ left'[e] \in 1 .. left[e] /\ left'[e] > 0
      /\ \A f \in Emitters : f # e => left'[f] = left[f]
  <2>1. PICK n \in 1 .. left[e] : left' = [left EXCEPT ![e] = n]
    BY DEF GivesUp
  <2>2. left'[e] = n /\ n > 0 /\ \A f \in Emitters : f # e => left'[f] = left[f]
    BY <1>0, <2>1
  <2>. QED  BY <2>2
<1>4. held[e] \in 1 .. seq /\ author[held[e]] = e
  <2>1. held[e] # 0
    BY <1>0, <1>1 DEF Course
  <2>. QED  BY <1>0, <1>1, <2>1 DEF Bracketed
<1>5. PICK i \in Accepted : author[i] = e /\ i < held[e]
  BY <1>1 DEF Bracketed
<1>6. Accepted' = Accepted \ {held[e]} /\ Accepted \subseteq 1 .. seq
  BY <1>1 DEF Accepted
<1>7. i \in Accepted'
  BY <1>0, <1>4, <1>5, <1>6
<1>8. \A f \in Emitters \ {e} : \A a \in Accepted : author[a] = f => a \in Accepted'
  BY <1>4, <1>6
<1>9. \A t \in Tasks : task'[t] \in Pending => task[t] \in Pending /\ held'[t] = held[t]
  BY <1>1, <1>2 DEF Pending
<1>10. ASSUME NEW d \in dropped'
       PROVE  \E f \in Emitters :
           /\ author[d] = f
           /\ task'[f] \in Pending => d < held'[f]
           /\ \E b \in Accepted' : author[b] = f /\ b < d
           /\ left'[f] = 0 /\ (~closed \/ ~cutShort) =>
                 \E a \in Accepted' : author[a] = f /\ d < a
  <2>1. CASE d \in dropped
    <3>1. PICK f \in Emitters :
           /\ author[d] = f
           /\ task[f] \in Pending => d < held[f]
           /\ \E b \in Accepted : author[b] = f /\ b < d
           /\ left[f] = 0 /\ (~closed \/ ~cutShort) =>
                 \E a \in Accepted : author[a] = f /\ d < a
      BY <2>1 DEF Bracketed
    <3>2. task'[f] \in Pending => d < held'[f]
      BY <1>0, <1>9, <3>1
    <3>3. \E b \in Accepted' : author[b] = f /\ b < d
      <4>1. PICK b \in Accepted : author[b] = f /\ b < d
        BY <3>1
      <4>2. CASE f = e
        <5>1. d < held[e] /\ d \in 1 .. seq
          BY <1>1, <2>1, <3>1, <4>2 DEF Bracketed
        <5>2. b # held[e]
          BY <1>4, <1>6, <4>1, <5>1
        <5>. QED  BY <1>6, <4>1, <5>2
      <4>3. CASE f # e
        BY <1>8, <4>1, <4>3
      <4>. QED  BY <4>2, <4>3
    <3>4. left'[f] = 0 /\ (~closed \/ ~cutShort) =>
              \E a \in Accepted' : author[a] = f /\ d < a
      <4>1. CASE f = e
        BY <1>3, <4>1
      <4>2. CASE f # e
        BY <1>3, <1>8, <3>1, <4>2
      <4>. QED  BY <4>1, <4>2
    <3>. QED  BY <3>1, <3>2, <3>3, <3>4
  <2>2. CASE d = held[e]
    <3>1. task'[e] \notin Pending
      BY <1>2 DEF Pending
    <3>. QED  BY <1>3, <1>4, <1>5, <1>7, <2>2, <3>1
  <2>. QED  BY <1>1, <2>1, <2>2
<1>11. ASSUME NEW f \in Emitters
       PROVE  /\ ~closed /\ left'[f] < setup.events[f] => \E a \in Accepted' : author[a] = f
              /\ task'[f] \in Pending /\ left'[f] < setup.events[f] - 1 =>
                    \E a \in Accepted' : author[a] = f /\ a < held'[f]
              /\ task'[f] = "ended" => left'[f] = 0 \/ cutShort
  <2>1. CASE f = e
    BY <1>2, <1>5, <1>7, <2>1 DEF Pending
  <2>2. CASE f # e
    <3>1. /\ ~closed /\ left[f] < setup.events[f] => \E a \in Accepted : author[a] = f
          /\ task[f] \in Pending /\ left[f] < setup.events[f] - 1 =>
                \E a \in Accepted : author[a] = f /\ a < held[f]
          /\ task[f] = "ended" => left[f] = 0 \/ cutShort
      BY DEF Bracketed
    <3>2. task'[f] = "ended" => task[f] = "ended"
      BY <1>0, <1>2
    <3>. QED  BY <1>0, <1>3, <1>8, <1>9, <2>2, <3>1, <3>2
  <2>. QED  BY <2>1, <2>2
<1>12. \A t \in Tasks : task'[t] \in Pending /\ held'[t] # 0 =>
           held'[t] \in 1 .. seq /\ author[held'[t]] = t
  BY <1>9 DEF Bracketed
<1>13. dropped' \subseteq 1 .. seq
  BY <1>1, <1>4 DEF Bracketed
<1>. QED  BY <1>1, <1>10, <1>11, <1>12, <1>13 DEF Bracketed

\* No step gives up the first or the last event of a node.
LEMMA BracketedStep ==
    ASSUME StreamShape, Types, Line, DriverRests, Course, Accounted, Numbered, Bracketed,
           [Next]_vars
    PROVE  Bracketed'
<1>0. /\ Driver \in Tasks /\ Driver \notin Emitters /\ \A e \in Emitters : e \in Tasks
      /\ task \in [Tasks -> Suspensions] /\ held \in [Tasks -> Nat] /\ stage \in Stages
      /\ seq \in Nat
  BY DriverIsTask DEF Tasks, Types
<1>1. ASSUME NEW t \in Tasks, NEW item \in Nat, Put(t, item)
      PROVE  /\ \A u \in Tasks : u # t => task'[u] = task[u] /\ held'[u] = held[u]
             /\ task'[t] \in Pending => held'[t] = item
             /\ task'[t] = "ended" => t = Driver /\ stage = "closing"
  BY <1>0, <1>1 DEF Put, Pending
<1>2. ASSUME NEW t \in Tasks, Emit(t), stage # "closing" \/ t # Driver
      PROVE  /\ seq' = seq + 1
             /\ \A u \in Tasks : u # t => task'[u] = task[u] /\ held'[u] = held[u]
             /\ task'[t] \in Pending => held'[t] = seq + 1
             /\ task'[t] # "ended"
  <2>1. CASE SinkAwaits
    BY <1>0, <1>2, <2>1 DEF Emit
  <2>2. CASE ~SinkAwaits /\ Put(t, seq + 1)
    <3>1. seq + 1 \in Nat
      BY <1>0
    <3>. QED  BY <1>1, <1>2, <2>2, <3>1 DEF Emit
  <2>. QED  BY <1>2, <2>1, <2>2 DEF Emit
<1>3. ASSUME NEW e \in Emitters, NodeEmits(e), Step(e) PROVE Bracketed'
  <2>1. /\ left' = [left EXCEPT ![e] = @ - 1] /\ task[e] = "running" /\ e # Driver
        /\ UNCHANGED <<setup, closed, dropped, cutShort>>
    BY <1>0, <1>3 DEF NodeEmits, Step
  <2>2. \A f \in Emitters : left'[f] = IF f = e THEN left[e] - 1 ELSE left[f]
    BY <2>1 DEF Types
  <2>3. CASE ~closed /\ Emit(e)
    <3>1. /\ seq' = seq + 1 /\ author' = Append(author, e)
          /\ \A u \in Tasks : u # e => task'[u] = task[u] /\ held'[u] = held[u]
          /\ task'[e] \in Pending => held'[e] = seq + 1
          /\ task'[e] # "ended"
      BY <1>0, <1>2, <1>3, <2>1, <2>3 DEF Step
    <3>2. closed' = FALSE /\ task[e] \notin Pending
      BY <2>1, <2>3 DEF Course, Pending
    <3>. QED  BY <1>0, <2>1, <2>2, <2>3, <3>1, <3>2, BracketedNew
  <2>4. CASE closed /\ UNCHANGED <<task, held, seq>>
    <3>1. cutShort
      BY <1>0, <2>1, <2>4 DEF Course, Accounted, InStep
    <3>2. UNCHANGED <<author, Accepted>>
      BY <1>3, <2>1, <2>4 DEF Step, Accepted
    <3>3. closed' /\ cutShort'
      BY <2>1, <2>4, <3>1
    <3>4. \A f \in Emitters :
             task'[f] \in Pending /\ left'[f] < setup.events[f] - 1 =>
                \E i \in Accepted : author[i] = f /\ i < held[f]
      BY <2>1, <2>2, <2>4 DEF Bracketed, Pending
    <3>. QED  BY <2>1, <2>4, <3>2, <3>3, <3>4 DEF Bracketed
  <2>. QED  BY <1>3, <2>3, <2>4 DEF NodeEmits
<1>4. ASSUME NEW e \in Emitters, NodeEnds(e), Step(e) PROVE Bracketed'
  <2>1. /\ left[e] = 0 /\ UNCHANGED <<setup, author, seq, dropped, left, held, closed, cutShort>>
        /\ \A u \in Tasks : task'[u] = IF u = e THEN "ended" ELSE task[u]
    BY <1>0, <1>4 DEF NodeEnds, Step, stream
  <2>2. /\ \A u \in Tasks : task'[u] \in Pending => task[u] \in Pending /\ held'[u] = held[u]
        /\ \A f \in Emitters : task'[f] = "ended" => task[f] = "ended" \/ left[f] = 0
    BY <1>0, <2>1 DEF Pending
  <2>. QED  BY <2>1, <2>2, BracketedStays
<1>5. ASSUME NEW e \in Emitters, CancelNode(e), Step(e) PROVE Bracketed'
  <2>1. /\ UNCHANGED <<setup, author, seq, dropped, left, held, closed, cutShort>> /\ cutShort
        /\ \A u \in Tasks : \/ task'[u] = task[u]
                            \/ task'[u] = "ended"
                            \/ task[u] = "waiting" /\ task'[u] = "woken"
    BY <1>0, <1>5, OnlyWakes DEF CancelNode, Step, Course
  <2>. QED  BY <2>1, BracketedStays DEF Pending
<1>6. ASSUME NEW e \in Emitters, GivesUp(e), Step(e) PROVE Bracketed'
  BY <1>6, BracketedGivesUp
<1>7. ASSUME NEW t \in Tasks, SinkReturns(t) \/ Proceed(t), Step(t) PROVE Bracketed'
  <2>1. /\ task[t] \in Pending /\ Put(t, held[t]) /\ held[t] \in Nat
        /\ UNCHANGED <<setup, author, seq, dropped, left, closed, cutShort>>
    BY <1>0, <1>7 DEF SinkReturns, Proceed, Step, Pending
  <2>2. /\ \A u \in Tasks : u # t => task'[u] = task[u] /\ held'[u] = held[u]
        /\ task'[t] \in Pending => held'[t] = held[t]
        /\ task'[t] = "ended" => t = Driver
    BY <1>1, <2>1
  <2>3. \A u \in Tasks : task'[u] \in Pending => task[u] \in Pending /\ held'[u] = held[u]
    BY <2>1, <2>2
  <2>4. \A e \in Emitters : task'[e] = "ended" => task[e] = "ended"
    BY <1>0, <2>2
  <2>. QED  BY <2>1, <2>3, <2>4, BracketedStays
<1>8. ASSUME NEW t \in Tasks, SinkRaises(t), Step(t) PROVE Bracketed'
  <2>1. /\ UNCHANGED <<setup, author, seq, dropped, left, closed>> /\ cutShort'
        /\ task' = [task EXCEPT ![t] = IF t = Driver THEN "running" ELSE "ended"]
        /\ held' = [held EXCEPT ![t] = 0]
    BY <1>8 DEF SinkRaises, Step, stream
  <2>2. \A u \in Tasks : task'[u] \in Pending => task[u] \in Pending /\ held'[u] = held[u]
    BY <1>0, <2>1 DEF Pending
  <2>. QED  BY <2>1, <2>2, BracketedStays
<1>9. ASSUME Open, Step(Driver) PROVE Bracketed'
  <2>1. /\ stage = "opening" /\ ~closed /\ closed' = FALSE /\ task[Driver] \notin Pending
        /\ Emit(Driver) /\ UNCHANGED <<setup, dropped, cutShort, left>>
    BY <1>9 DEF Open, Step, Course, Pending
  <2>2. /\ seq' = seq + 1 /\ author' = Append(author, Driver)
        /\ \A u \in Tasks : u # Driver => task'[u] = task[u] /\ held'[u] = held[u]
        /\ task'[Driver] \in Pending => held'[Driver] = seq + 1
        /\ task'[Driver] # "ended"
    BY <1>0, <1>2, <1>9, <2>1 DEF Step
  <2>. QED  BY <1>0, <2>1, <2>2, BracketedNew
<1>10. ASSUME Conclude, Step(Driver) PROVE Bracketed'
  <2>1. /\ stage = "wave" /\ ~closed /\ closed' = FALSE /\ task[Driver] = "running"
        /\ UNCHANGED <<setup, dropped, cutShort, left>> /\ seq' = seq + 1
        /\ author' = Append(author, Driver)
    BY <1>0, <1>10 DEF Conclude, Step, Course, DriverRests
  <2>2. /\ \A u \in Tasks : u # Driver => task'[u] = task[u] /\ held'[u] = held[u]
        /\ task'[Driver] \in Pending => held'[Driver] = seq + 1
        /\ task'[Driver] # "ended"
    BY <1>0, <1>10, <2>1 DEF Conclude, Pending
  <2>3. task[Driver] \notin Pending
    BY <2>1 DEF Pending
  <2>. QED  BY <1>0, <2>1, <2>2, <2>3, BracketedNew
<1>11. ASSUME Close, Step(Driver) PROVE Bracketed'
  <2>1. /\ Put(Driver, 0) /\ 0 \in Nat /\ closed'
        /\ UNCHANGED <<setup, author, seq, dropped, left, cutShort>>
    BY <1>0, <1>11 DEF Close, Step, CLOSED
  <2>2. /\ \A u \in Tasks : u # Driver => task'[u] = task[u] /\ held'[u] = held[u]
        /\ task'[Driver] \in Pending => held'[Driver] = 0
    BY <1>0, <1>1, <2>1
  <2>3. \A e \in Emitters : task'[e] = "ended" => task[e] = "ended"
    BY <1>0, <2>2
  <2>. QED  BY <2>1, <2>2, <2>3, BracketedStays
<1>12. ASSUME CancelDriver, Step(Driver) PROVE Bracketed'
  <2>1. UNCHANGED <<setup, author, seq, dropped, left, held, closed, cutShort>>
    BY <1>12 DEF CancelDriver, Step
  <2>2. \E s \in {"running", "ended"} : task' = [PassWakeup(Driver) EXCEPT ![Driver] = s]
    BY <1>12 DEF CancelDriver
  <2>3. \A u \in Tasks : \/ task'[u] = task[u]
                         \/ u = Driver /\ task'[u] \in {"running", "ended"}
                         \/ task[u] = "waiting" /\ task'[u] = "woken"
    BY <1>0, <2>2, OnlyWakes
  <2>4. /\ \A u \in Tasks : task'[u] \in Pending => task[u] \in Pending
        /\ \A e \in Emitters : task'[e] = "ended" => task[e] = "ended"
    BY <1>0, <2>3 DEF Pending
  <2>. QED  BY <2>1, <2>4, BracketedStays
<1>13. ASSUME Get, UnnotedStep PROVE Bracketed'
  <2>1. UNCHANGED <<setup, author, seq, dropped, left, held, closed, cutShort>>
    BY <1>13 DEF Get, UnnotedStep
  <2>2. \A u \in Tasks : task'[u] = task[u] \/ (task[u] = "waiting" /\ task'[u] = "woken")
    BY <1>0, <1>13, OnlyWakes DEF Get
  <2>3. /\ \A u \in Tasks : task'[u] \in Pending => task[u] \in Pending
        /\ \A e \in Emitters : task'[e] = "ended" => task[e] = "ended"
    BY <1>0, <2>2 DEF Pending
  <2>. QED  BY <2>1, <2>3, BracketedStays
<1>14. ASSUME \/ (AskNext \/ Join \/ Abandon) /\ UnnotedStep
              \/ Finished \/ UNCHANGED vars
       PROVE  Bracketed'
  <2>1. UNCHANGED <<setup, author, seq, dropped, left, task, held, closed>>
    BY <1>14 DEF AskNext, Join, Abandon, UnnotedStep, Finished, vars, stream
  <2>2. cutShort => cutShort'
    BY <1>14 DEF AskNext, Join, Abandon, Finished, vars
  <2>. QED  BY <2>1, <2>2, BracketedStays
<1>. QED  BY <1>0, <1>3, <1>4, <1>5, <1>6, <1>7, <1>8, <1>9, <1>10, <1>11, <1>12, <1>13, <1>14
          DEF Next, NodeStep, DriverStep, ConsumerStep, TaskStep

\* On every stream, cut short or not, whose events are so many: a node has had
\* an event accepted before each one it gives up, and has one to come or had it.
THEOREM GivenUpBetween == Spec => []Bracketed
<1>1. Init => Numbered /\ Bracketed
  <2>1. Init => Numbered
    BY DEF Init, Numbered
  <2>2. ASSUME Init, NEW e \in Emitters
        PROVE  ~(left[e] < setup.events[e]) /\ ~(left[e] < setup.events[e] - 1)
    <3>1. left[e] = setup.events[e] /\ setup.events[e] \in Nat
      BY <2>2, StreamShape DEF Init, StreamShape
    <3>. QED  BY <3>1
  <2>3. Init => Bracketed
    <3>. SUFFICES ASSUME Init PROVE Bracketed
      OBVIOUS
    <3>1. /\ dropped = {} /\ \A t \in Tasks : task[t] = "running"
          /\ \A e \in Emitters : e \in Tasks
      BY DEF Init, Tasks
    <3>. QED  BY <2>2, <3>1 DEF Bracketed, Pending
  <2>. QED  BY <2>1, <2>3
<1>2. Types /\ Numbered /\ [Next]_vars => Numbered'
  BY StreamShape, NumberedStep
<1>3. LineInv /\ Course /\ Accounted /\ Numbered /\ Bracketed /\ [Next]_vars => Bracketed'
  BY StreamShape, BracketedStep DEF LineInv
<1>4. LineInv => Types
  BY DEF LineInv
<1>. QED  BY <1>1, <1>2, <1>3, <1>4, LineIsServed, CourseIsKept, EventsAreKept, PTL DEF Spec

\* A consumer that reads to the end has every event once and the verdict last,
\* for any wave, any queue, any sink and nodes that run into their timeouts; but
\* for events that a node gave up, between two others of it that arrive.
THEOREM StreamIsComplete == Spec => []AllButTheDropped
<1>1. LineInv /\ Course /\ Accounted /\ Bracketed => AllButTheDropped
  <2> SUFFICES ASSUME LineInv, Course, Accounted, Bracketed, consumer = "done", ~cutShort
               PROVE  /\ Range(received) = 1 .. seq \ dropped
                      /\ \A i, j \in DOMAIN received : received[i] = received[j] => i = j
                      /\ Last(received) = seq
                      /\ \A d \in dropped : \E b, a \in Range(received) :
                            /\ author[b] = author[d] /\ author[a] = author[d]
                            /\ b < d /\ d < a
    BY DEF AllButTheDropped
  <2>1. received \in Seq(Nat) /\ seq \in Nat
    BY DEF LineInv, Types
  <2>2. ~Asking /\ stage = "done" /\ queue = <<>>
    BY DEF Accounted, Sentinel, Asking
  <2>3. All = received /\ EventsPut = Len(received)
    BY <2>1, <2>2 DEF All, EventsPut
  <2>4. \A t \in Tasks : held[t] = 0
    BY <2>2 DEF Accounted, Hands, InStep, Tasks, Pending
  <2>5. /\ \A i \in DOMAIN received : received[i] \in 1 .. seq /\ received[i] \notin dropped
        /\ \A i, j \in DOMAIN received : received[i] = received[j] => i = j
        /\ \A m \in 1 .. seq \ dropped : \E i \in DOMAIN received : received[i] = m
    <3>1. /\ Kept(held, received, Len(received), seq, dropped)
          /\ DOMAIN received = 1 .. Len(received)
      BY <2>1, <2>3 DEF Accounted
    <3>2. \A m \in 1 .. seq : ~\E t \in Tasks : held[t] = m
      BY <2>1, <2>4
    <3> QED BY <3>1, <3>2 DEF Kept
  <2>6. Range(received) = Accepted
    BY <2>5 DEF Range, Accepted
  <2>7. Last(received) = seq
    BY <2>2, <2>3 DEF Accounted, Verdict, Last
  <2>8. \A e \in Emitters : left[e] = 0
    BY <2>2 DEF Accounted, InStep, Bracketed
  <2>9. ASSUME NEW d \in dropped
        PROVE  \E b, a \in Accepted : /\ author[b] = author[d] /\ author[a] = author[d]
                                      /\ b < d /\ d < a
    <3>1. PICK e \in Emitters : /\ author[d] = e
                                /\ \E b \in Accepted : author[b] = e /\ b < d
                                /\ left[e] = 0 => \E a \in Accepted : author[a] = e /\ d < a
      BY DEF Bracketed
    <3> QED BY <2>8, <3>1
  <2> QED BY <2>5, <2>6, <2>7, <2>9 DEF Accepted
<1> QED BY <1>1, LineIsServed, CourseIsKept, EventsAreKept, GivenUpBetween, PTL

-----------------------------------------------------------------------------
(***************************************************************************)
(* The promise of Channel.  Every step of the stream is a step of Channel  *)
(* or leaves its state alone; and Channel keeps what one task emitted in   *)
(* order, which is therefore shown of its few steps.                       *)
(***************************************************************************)

\* Item n does not overtake an earlier item m of the same task.
Before(a, m, n) == m # 0 /\ n # 0 /\ a[m] = a[n] => m < n

\* Of items by authors a: H is in hand, q is put and g is given.
Ordered(a, H, q, g) ==
    /\ \A t \in Tasks : H[t] \in 0 .. Len(a) /\ (H[t] # 0 => a[H[t]] = t)
    /\ \A i \in DOMAIN q : q[i] \in 0 .. Len(a)
    /\ \A i \in DOMAIN g : g[i] \in 1 .. Len(a)
    /\ \A i, j \in DOMAIN g : i < j => Before(a, g[i], g[j])
    /\ \A i, j \in DOMAIN q : i < j => Before(a, q[i], q[j])
    /\ \A i \in DOMAIN g, j \in DOMAIN q : Before(a, g[i], q[j])
    /\ \A i \in DOMAIN g, t \in Tasks : Before(a, g[i], H[t])
    /\ \A i \in DOMAIN q, t \in Tasks : Before(a, q[i], H[t])

InOrder == author \in Seq(Tasks) /\ Ordered(author, InHand, queue, received)

\* An item behind all that are put: put at once, or from a hand.
LEMMA OrderedAppend ==
    ASSUME NEW a \in Seq(Tasks), NEW H \in [Tasks -> Nat], NEW q \in Seq(Nat),
           NEW g \in Seq(Nat), Ordered(a, H, q, g), NEW n \in 0 .. Len(a),
           \A i \in DOMAIN q : Before(a, q[i], n), \A i \in DOMAIN g : Before(a, g[i], n),
           \A t \in Tasks : Before(a, n, H[t])
    PROVE  Ordered(a, H, Append(q, n), g)
<1>. DEFINE r == Append(q, n)
<1>1. /\ Len(q) \in Nat /\ DOMAIN q = 1 .. Len(q) /\ DOMAIN r = 1 .. Len(q) + 1
      /\ r[Len(q) + 1] = n /\ \A i \in DOMAIN q : r[i] = q[i]
  OBVIOUS
<1>. HIDE DEF r
<1>2. \A i \in DOMAIN r : i \in DOMAIN q \/ i = Len(q) + 1
  <2>1. Len(q) \in Nat /\ DOMAIN q = 1 .. Len(q) /\ DOMAIN r = 1 .. Len(q) + 1
    BY <1>1
  <2>2. \A i \in 1 .. Len(q) + 1 : i \in 1 .. Len(q) \/ i = Len(q) + 1
    BY <2>1
  <2>. QED  BY <2>1, <2>2
<1>3. \A i, j \in DOMAIN r : i < j => Before(a, r[i], r[j])
  <2>1. \A i, j \in DOMAIN r : i < j => i \in DOMAIN q
    BY <1>1
  <2>. QED  BY <1>1, <1>2, <2>1 DEF Ordered
<1>4. /\ \A i \in DOMAIN r : r[i] \in 0 .. Len(a)
      /\ \A i \in DOMAIN g, j \in DOMAIN r : Before(a, g[i], r[j])
      /\ \A i \in DOMAIN r, t \in Tasks : Before(a, r[i], H[t])
  BY <1>1, <1>2 DEF Ordered
<1>. QED  BY <1>3, <1>4 DEF Ordered, r

\* An item leaves a hand,
LEMMA OrderedRelease ==
    ASSUME NEW a, NEW H \in [Tasks -> Nat], NEW q, NEW g, Ordered(a, H, q, g), NEW t \in Tasks,
           Len(a) \in Nat
    PROVE  Ordered(a, [H EXCEPT ![t] = 0], q, g)
<1>. DEFINE G == [H EXCEPT ![t] = 0]
<1>1. \A u \in Tasks : G[u] = IF u = t THEN 0 ELSE H[u]
  OBVIOUS
<1>. HIDE DEF G
<1>2. \A u \in Tasks : G[u] \in 0 .. Len(a) /\ (G[u] # 0 => a[G[u]] = u)
  BY <1>1 DEF Ordered
<1>3. /\ \A i \in DOMAIN g, u \in Tasks : Before(a, g[i], G[u])
      /\ \A i \in DOMAIN q, u \in Tasks : Before(a, q[i], G[u])
  BY <1>1 DEF Ordered, Before
<1>. QED  BY <1>2, <1>3 DEF Ordered, G

\* or is put from it,
LEMMA OrderedPut ==
    ASSUME NEW a \in Seq(Tasks), NEW H \in [Tasks -> Nat], NEW q \in Seq(Nat),
           NEW g \in Seq(Nat), Ordered(a, H, q, g), NEW t \in Tasks, H[t] # 0
    PROVE  Ordered(a, [H EXCEPT ![t] = 0], Append(q, H[t]), g)
<1>. DEFINE G == [H EXCEPT ![t] = 0]
<1>1. G \in [Tasks -> Nat] /\ \A u \in Tasks : G[u] = IF u = t THEN 0 ELSE H[u]
  OBVIOUS
<1>2. Ordered(a, G, q, g)
  <2>1. Len(a) \in Nat
    OBVIOUS
  <2>. QED  BY <2>1, OrderedRelease
<1>. HIDE DEF G
<1>3. \A u \in Tasks : Before(a, H[t], G[u])
  <2>. SUFFICES ASSUME NEW u \in Tasks, G[u] # 0, a[H[t]] = a[G[u]] PROVE FALSE
    BY DEF Before
  <2>. QED  BY <1>1 DEF Ordered
<1>4. /\ \A i \in DOMAIN q : Before(a, q[i], H[t])
      /\ \A i \in DOMAIN g : Before(a, g[i], H[t])
      /\ H[t] \in 0 .. Len(a)
  BY DEF Ordered
<1>5. Ordered(a, G, Append(q, H[t]), g)
  BY <1>1, <1>2, <1>3, <1>4, OrderedAppend
<1>. QED  BY <1>5 DEF G

\* or is new: it is then the latest of all.
LEMMA OrderedNew ==
    ASSUME NEW a \in Seq(Tasks), NEW H \in [Tasks -> Nat], NEW q \in Seq(Nat),
           NEW g \in Seq(Nat), Ordered(a, H, q, g), NEW t \in Tasks, H[t] = 0
    PROVE  LET b == Append(a, t)
           IN  /\ b \in Seq(Tasks)
               /\ Ordered(b, [H EXCEPT ![t] = Len(b)], q, g)
               /\ Ordered(b, H, Append(q, Len(b)), g)
<1>. DEFINE b == Append(a, t)
            n == Len(b)
            G == [H EXCEPT ![t] = n]
<1>1. /\ b \in Seq(Tasks) /\ Len(a) \in Nat /\ n = Len(a) + 1 /\ n \in Nat /\ b[n] = t
      /\ \A i \in 1 .. Len(a) : b[i] = a[i]
  OBVIOUS
<1>2. G \in [Tasks -> Nat] /\ \A u \in Tasks : G[u] = IF u = t THEN n ELSE H[u]
  BY <1>1
<1>. HIDE DEF b, n, G
<1>3. \A i, j \in 0 .. Len(a) : Before(a, i, j) => Before(b, i, j)
  BY <1>1 DEF Before
<1>4. \A i \in 0 .. Len(a) : i \in 0 .. n /\ (i # 0 => i \in 1 .. n) /\ Before(b, i, n)
  BY <1>1 DEF Before
<1>5. /\ \A u \in Tasks : H[u] \in 0 .. Len(a) /\ (H[u] # 0 => a[H[u]] = u)
      /\ \A i \in DOMAIN q : q[i] \in 0 .. Len(a)
      /\ \A i \in DOMAIN g : g[i] \in 0 .. Len(a) /\ g[i] # 0
  BY DEF Ordered
<1>6. Ordered(b, H, q, g)
  <2>1. \A u \in Tasks : H[u] \in 0 .. n /\ (H[u] # 0 => b[H[u]] = u)
    <3>1. \A i \in 0 .. Len(a) : i \in 0 .. n /\ (i # 0 => i \in 1 .. Len(a))
      BY <1>1
    <3>. QED  BY <1>1, <1>5, <3>1
  <2>2. /\ \A i, j \in DOMAIN g : i < j => Before(b, g[i], g[j])
        /\ \A i, j \in DOMAIN q : i < j => Before(b, q[i], q[j])
        /\ \A i \in DOMAIN g, j \in DOMAIN q : Before(b, g[i], q[j])
    BY <1>3, <1>5 DEF Ordered
  <2>3. /\ \A i \in DOMAIN g, u \in Tasks : Before(b, g[i], H[u])
        /\ \A i \in DOMAIN q, u \in Tasks : Before(b, q[i], H[u])
    BY <1>3, <1>5 DEF Ordered
  <2>4. /\ \A i \in DOMAIN q : q[i] \in 0 .. n
        /\ \A i \in DOMAIN g : g[i] \in 1 .. n
    BY <1>4, <1>5
  <2>. QED  BY <2>1, <2>2, <2>3, <2>4 DEF Ordered, n
<1>7. Ordered(b, G, q, g)
  <2>1. \A u \in Tasks : G[u] \in 0 .. n /\ (G[u] # 0 => b[G[u]] = u)
    <3>1. \A u \in Tasks : H[u] \in 0 .. n /\ (H[u] # 0 => b[H[u]] = u)
      BY <1>6 DEF Ordered, n
    <3>2. n \in 0 .. n
      BY <1>1
    <3>. QED  BY <1>1, <1>2, <3>1, <3>2
  <2>2. /\ \A i \in DOMAIN g, u \in Tasks : Before(b, g[i], G[u])
        /\ \A i \in DOMAIN q, u \in Tasks : Before(b, q[i], G[u])
    BY <1>2, <1>4, <1>5, <1>6 DEF Ordered
  <2>. QED  BY <1>6, <2>1, <2>2 DEF Ordered, n
<1>8. Ordered(b, H, Append(q, n), g)
  <2>1. \A u \in Tasks : Before(b, n, H[u])
    <3>. SUFFICES ASSUME NEW u \in Tasks, H[u] # 0, b[n] = b[H[u]] PROVE FALSE
      BY DEF Before
    <3>. QED  BY <1>1, <1>5
  <2>2. n \in 0 .. Len(b)
    BY <1>1 DEF n
  <2>. QED  BY <1>1, <1>4, <1>5, <1>6, <2>1, <2>2, OrderedAppend
<1>. QED  BY <1>1, <1>7, <1>8 DEF b, n, G

\* The first that is put is given, or is the mark and dropped.
LEMMA OrderedTake ==
    ASSUME NEW a \in Seq(Tasks), NEW H \in [Tasks -> Nat], NEW q \in Seq(Nat),
           NEW g \in Seq(Nat), Ordered(a, H, q, g), q # <<>>
    PROVE  /\ Ordered(a, H, Tail(q), g)
           /\ Head(q) # 0 => Ordered(a, H, Tail(q), Append(g, Head(q)))
<1>. DEFINE r == Tail(q)
            h == Head(q)
            f == Append(g, h)
<1>1. /\ Len(q) \in Nat /\ Len(q) > 0 /\ DOMAIN q = 1 .. Len(q) /\ DOMAIN r = 1 .. Len(q) - 1
      /\ h = q[1] /\ \A i \in DOMAIN r : i + 1 \in DOMAIN q /\ r[i] = q[i + 1]
      /\ h \in Nat /\ Len(a) \in Nat
  OBVIOUS
<1>2. /\ Len(g) \in Nat /\ DOMAIN g = 1 .. Len(g) /\ DOMAIN f = 1 .. Len(g) + 1
      /\ f[Len(g) + 1] = h /\ \A i \in DOMAIN g : f[i] = g[i]
  BY <1>1
<1>. HIDE DEF r, h, f
<1>3. \A i, j \in DOMAIN r : i < j => Before(a, r[i], r[j])
  <2>1. \A i, j \in DOMAIN r : i < j => i + 1 < j + 1
    BY <1>1
  <2>. QED  BY <1>1, <2>1 DEF Ordered
<1>4. \A i \in DOMAIN r : Before(a, h, r[i])
  <2>1. \A i \in DOMAIN r : 1 < i + 1 /\ 1 \in DOMAIN q
    BY <1>1
  <2>. QED  BY <1>1, <2>1 DEF Ordered
<1>5. Ordered(a, H, r, g)
  BY <1>1, <1>3 DEF Ordered
<1>6. ASSUME h # 0 PROVE Ordered(a, H, r, f)
  <2>1. 1 \in DOMAIN q
    BY <1>1
  <2>2. /\ h \in 1 .. Len(a) /\ \A i \in DOMAIN g : Before(a, g[i], h)
        /\ \A t \in Tasks : Before(a, h, H[t])
    <3>1. q[1] \in 0 .. Len(a) /\ \A i \in DOMAIN g : Before(a, g[i], q[1])
      BY <2>1 DEF Ordered
    <3>2. \A t \in Tasks : Before(a, q[1], H[t])
      BY <2>1 DEF Ordered
    <3>. QED  BY <1>1, <1>6, <3>1, <3>2
  <2>3. \A i \in DOMAIN f : i \in DOMAIN g \/ i = Len(g) + 1
    BY <1>2
  <2>4. \A i, j \in DOMAIN f : i < j => i \in DOMAIN g
    BY <1>2
  <2>5. \A i, j \in DOMAIN f : i < j => Before(a, f[i], f[j])
    BY <1>2, <2>2, <2>3, <2>4 DEF Ordered
  <2>6. /\ \A i \in DOMAIN f : f[i] \in 1 .. Len(a)
        /\ \A i \in DOMAIN f, j \in DOMAIN r : Before(a, f[i], r[j])
        /\ \A i \in DOMAIN f, t \in Tasks : Before(a, f[i], H[t])
    BY <1>2, <1>4, <1>5, <2>2, <2>3 DEF Ordered
  <2>. QED  BY <1>5, <2>5, <2>6 DEF Ordered
<1>. QED  BY <1>5, <1>6 DEF r, h, f

\* Channel keeps the order of each task.
LEMMA ChannelStep ==
    ASSUME Types, InOrder, [Promise!Next]_(Promise!vars)
    PROVE  InOrder'
<1>. USE DEF InOrder
<1>1. /\ author \in Seq(Tasks) /\ queue \in Seq(Nat) /\ received \in Seq(Nat)
      /\ InHand \in [Tasks -> Nat] /\ Len(author) \in Nat
  BY DEF Types, InHand
<1>2. ASSUME NEW t \in Tasks, Promise!Number(t) PROVE InOrder'
  <2>1. /\ InHand[t] = 0 /\ author' = Append(author, t) /\ received' = received
        /\ \/ InHand' = [InHand EXCEPT ![t] = Len(author')] /\ queue' = queue
           \/ queue' = Append(queue, Len(author')) /\ InHand' = InHand
    BY <1>2 DEF Promise!Number
  <2>2. LET b == Append(author, t)
        IN  /\ b \in Seq(Tasks)
            /\ Ordered(b, [InHand EXCEPT ![t] = Len(b)], queue, received)
            /\ Ordered(b, InHand, Append(queue, Len(b)), received)
    BY <1>1, <2>1, OrderedNew
  <2>. QED  BY <2>1, <2>2
<1>3. ASSUME NEW t \in Tasks, Promise!Put(t) PROVE InOrder'
  BY <1>1, <1>3, OrderedPut DEF Promise!Put
<1>4. ASSUME NEW t \in Tasks, Promise!Drop(t) \/ Promise!GiveUp(t) PROVE InOrder'
  <2>1. InHand' = [InHand EXCEPT ![t] = 0] /\ UNCHANGED <<author, queue, received>>
    BY <1>4 DEF Promise!Drop, Promise!GiveUp
  <2>. QED  BY <1>1, <2>1, OrderedRelease
<1>5. Ordered(author, InHand, Append(queue, 0), received)
  <2>1. 0 \in 0 .. Len(author)
    BY <1>1
  <2>2. /\ \A i \in DOMAIN queue : Before(author, queue[i], 0)
        /\ \A i \in DOMAIN received : Before(author, received[i], 0)
        /\ \A t \in Tasks : Before(author, 0, InHand[t])
    BY DEF Before
  <2>. QED  BY <1>1, <2>1, <2>2, OrderedAppend
<1>6. CASE Promise!Close
  BY <1>5, <1>6 DEF Promise!Close
<1>7. CASE Promise!Mark
  BY <1>5, <1>7 DEF Promise!Mark
<1>8. CASE Promise!Give
  BY <1>1, <1>8, OrderedTake DEF Promise!Give
<1>9. CASE Promise!End
  BY <1>1, <1>9, OrderedTake DEF Promise!End
<1>10. CASE Promise!Leave \/ UNCHANGED Promise!vars
  BY <1>10 DEF Promise!Leave, Promise!vars
<1>. QED  BY <1>2, <1>3, <1>4, <1>6, <1>7, <1>8, <1>9, <1>10 DEF Promise!Next

\* What a put does to the hands.
LEMMA HandOfPut ==
    ASSUME Types, NEW t \in Tasks, NEW item \in Nat, Put(t, item)
    PROVE  \/ /\ InHand' = [InHand EXCEPT ![t] = item]
              /\ UNCHANGED <<queue, stage>>
           \/ /\ InHand' = [InHand EXCEPT ![t] = 0]
              /\ queue' = Append(queue, item)
              /\ stage' = IF t = Driver THEN StageAfter ELSE stage
<1>. DEFINE With(n) == [InHand EXCEPT ![t] = n]
<1>1. task \in [Tasks -> Suspensions] /\ held \in [Tasks -> Nat]
  BY DEF Types
<1>2. CASE Full
  <2>1. /\ task' = [task EXCEPT ![t] = "waiting"] /\ held' = [held EXCEPT ![t] = item]
        /\ UNCHANGED <<queue, stage>>
    BY <1>2 DEF Put
  <2>2. InHand' = With(item)
    BY <1>1, <2>1 DEF InHand, Pending
  <2>. QED  BY <2>1, <2>2
<1>3. CASE ~Full
  <2>1. /\ task' = [task EXCEPT ![t] = IF t = Driver /\ stage = "closing" THEN "ended" ELSE "running"]
        /\ held' = [held EXCEPT ![t] = 0]
        /\ queue' = Append(queue, item)
        /\ stage' = IF t = Driver THEN StageAfter ELSE stage
    BY <1>3 DEF Put
  <2>2. InHand' = With(0)
    BY <1>1, <2>1 DEF InHand, Pending
  <2>. QED  BY <2>1, <2>2
<1>. QED  BY <1>2, <1>3

\* A stage before closing is one of an open stream.
LEMMA OpenStage ==
    ASSUME Course, stage \notin {"closing", "done"}
    PROVE  ~closed /\ State = "open"
BY DEF Course, State

\* Emitting is numbering, whether the sink or the queue holds the event up.
LEMMA EmitKeepsPromise ==
    ASSUME Types, Course, Numbered, NEW t \in Tasks, Emit(t), SinkAwaits => UNCHANGED stage,
           task[t] = "running", ~closed, Step(t),
           UNCHANGED <<closed, consumer, received, dropped, cutShort>>
    PROVE  Promise!Number(t)
<1>1. task \in [Tasks -> Suspensions] /\ held \in [Tasks -> Nat] /\ seq \in Nat
  BY DEF Types
<1>2. seq' = seq + 1 /\ author' = Append(author, t) /\ Len(author') = seq + 1 /\ seq + 1 \in Nat
  BY <1>1 DEF Emit, Step, Numbered
<1>3. InHand[t] = 0 /\ InHand = [InHand EXCEPT ![t] = 0]
  BY DEF InHand, Pending
<1>4. \/ InHand' = [InHand EXCEPT ![t] = seq + 1] /\ queue' = queue
      \/ InHand' = InHand /\ queue' = Append(queue, seq + 1)
  <2>1. CASE SinkAwaits
    <3>1. /\ task' = [task EXCEPT ![t] = "sinking"] /\ held' = [held EXCEPT ![t] = seq + 1]
          /\ queue' = queue
      BY <2>1 DEF Emit
    <3>2. InHand' = [InHand EXCEPT ![t] = seq + 1]
      BY <1>1, <3>1 DEF InHand, Pending
    <3>. QED  BY <3>1, <3>2
  <2>2. CASE ~SinkAwaits /\ Put(t, seq + 1)
    BY <1>2, <1>3, <2>2, HandOfPut
  <2>. QED  BY <2>1, <2>2 DEF Emit
<1>5. State = "open" /\ State' = "open" /\ Asking' = Asking
  BY DEF State, Asking
<1>. QED  BY <1>2, <1>3, <1>4, <1>5 DEF Promise!Number

\* A put that was suspended, in the sink or in line, goes on.
LEMMA RetryKeepsPromise ==
    ASSUME Types, Course, Numbered, NEW t \in Tasks, SinkReturns(t) \/ Proceed(t), Step(t)
    PROVE  [Promise!Next]_(Promise!vars)
<1>1. /\ task[t] \in Pending /\ Put(t, held[t]) /\ held[t] \in Nat /\ InHand[t] = held[t]
      /\ UNCHANGED <<seq, closed, consumer, received, dropped, cutShort>>
  BY DEF SinkReturns, Proceed, Pending, Types, InHand
<1>2. author' = author /\ Asking' = Asking /\ InHand = [InHand EXCEPT ![t] = held[t]]
  BY <1>1 DEF Step, Asking, InHand
<1>3. CASE InHand' = [InHand EXCEPT ![t] = held[t]] /\ UNCHANGED <<queue, stage>>
  BY <1>1, <1>2, <1>3 DEF Promise!vars, State
<1>4. CASE /\ InHand' = [InHand EXCEPT ![t] = 0] /\ queue' = Append(queue, held[t])
           /\ stage' = IF t = Driver THEN StageAfter ELSE stage
  <2>1. CASE held[t] # 0
    <3>1. ~(t = Driver /\ stage = "closing")
      BY <1>1, <2>1 DEF Course
    <3>2. State' = State
      BY <1>1, <1>4, <3>1 DEF State, StageAfter, Course
    <3>. QED  BY <1>1, <1>2, <1>4, <2>1, <3>2 DEF Promise!Put, Promise!Next
  <2>2. CASE held[t] = 0
    <3>1. t = Driver /\ stage = "closing" /\ task[Driver] # "running"
      BY <1>1, <2>2 DEF Course, Pending
    <3>2. closed /\ stage' = "done"
      BY <1>4, <3>1 DEF Course, StageAfter
    <3>3. State = "closing" /\ State' = "shut"
      BY <1>1, <3>1, <3>2 DEF State
    <3>4. InHand' = InHand
      BY <1>1, <1>2, <1>4, <2>2
    <3>. QED  BY <1>1, <1>2, <1>4, <2>2, <3>3, <3>4 DEF Promise!Mark, Promise!Next
  <2>. QED  BY <2>1, <2>2
<1>. QED  BY <1>1, <1>3, <1>4, HandOfPut

\* Every step of the stream is one of Channel, or leaves its state alone.
LEMMA StepKeepsPromise ==
    ASSUME StreamShape, Types, Line, DriverRests, Course, Accounted, Numbered, Bracketed,
           [Next]_vars
    PROVE  [Promise!Next]_(Promise!vars)
<1>0. /\ Driver \in Tasks /\ Driver \notin Emitters /\ \A e \in Emitters : e \in Tasks
      /\ task \in [Tasks -> Suspensions] /\ held \in [Tasks -> Nat] /\ stage \in Stages
      /\ seq \in Nat /\ InHand \in [Tasks -> Nat]
  BY DriverIsTask DEF Tasks, Types, InHand
<1>1. ASSUME NEW e \in Emitters, NodeEmits(e), Step(e) PROVE [Promise!Next]_(Promise!vars)
  <2>1. CASE ~closed /\ Emit(e) /\ (SinkAwaits => UNCHANGED stage)
    <3>1. Promise!Number(e)
      BY <1>0, <1>1, <2>1, EmitKeepsPromise DEF NodeEmits
    <3>. QED  BY <1>0, <3>1 DEF Promise!Next
  <2>2. CASE UNCHANGED <<stage, task, held, seq, queue, putters>>
    BY <1>1, <2>2 DEF NodeEmits, Step, Promise!vars, InHand, State, Asking
  <2>. QED  BY <1>1, <2>1, <2>2 DEF NodeEmits
<1>2. ASSUME NEW e \in Emitters, NodeEnds(e), Step(e) PROVE [Promise!Next]_(Promise!vars)
  <2>1. InHand' = InHand
    BY <1>0, <1>2 DEF NodeEnds, InHand, Pending
  <2>. QED  BY <1>2, <2>1 DEF NodeEnds, stream, Step, Promise!vars, State, Asking
<1>3. ASSUME NEW e \in Emitters, CancelNode(e), Step(e) PROVE [Promise!Next]_(Promise!vars)
  <2>1. /\ UNCHANGED <<stage, held, seq, closed, queue, consumer, received, dropped, cutShort>>
        /\ cutShort
        /\ task' = [PassWakeup(e) EXCEPT ![e] = "ended"]
    BY <1>3 DEF CancelNode, Course
  <2>2. InHand' = [InHand EXCEPT ![e] = 0]
    <3>1. \A u \in Tasks : InHand'[u] = IF u = e THEN 0 ELSE InHand[u]
      BY <1>0, <2>1, OnlyWakes DEF InHand, Pending
    <3>. QED  BY <1>0, <3>1 DEF InHand
  <2>3. Promise!Drop(e)
    BY <1>3, <2>1, <2>2 DEF Step, Promise!Drop, State, Asking
  <2>. QED  BY <1>0, <2>3 DEF Promise!Next
<1>13. ASSUME NEW e \in Emitters, GivesUp(e), Step(e) PROVE [Promise!Next]_(Promise!vars)
  <2>1. /\ UNCHANGED <<stage, seq, closed, queue, consumer, received, cutShort>>
        /\ task[e] \in Pending /\ left[e] < setup.events[e] - 1
        /\ dropped' = dropped \cup {held[e]} /\ held' = [held EXCEPT ![e] = 0]
        /\ task' = [PassWakeup(e) EXCEPT ![e] = "running"]
    BY <1>13 DEF GivesUp, Inside, Pending
  <2>2. InHand' = [InHand EXCEPT ![e] = 0]
    <3>1. \A u \in Tasks : InHand'[u] = IF u = e THEN 0 ELSE InHand[u]
      BY <1>0, <2>1, OnlyWakes DEF InHand, Pending
    <3>. QED  BY <1>0, <3>1 DEF InHand
  <2>3. e \in Tasks /\ e # Driver /\ InHand[e] = held[e] /\ held[e] # 0
    BY <1>0, <2>1 DEF Course, InHand
  <2>4. PICK i \in Accepted : author[i] = e /\ i < held[e]
    BY <2>1 DEF Bracketed
  <2>5. i \in 1 .. held[e] - 1 /\ i \notin dropped
    BY <1>0, <2>3, <2>4 DEF Accepted
  <2>6. author' = author /\ Asking' = Asking /\ State' = State
    BY <1>13, <2>1 DEF Step, Asking, State
  <2>7. Promise!GiveUp(e)
    BY <2>1, <2>2, <2>3, <2>4, <2>5, <2>6 DEF Promise!GiveUp
  <2>. QED  BY <2>3, <2>7 DEF Promise!Next
<1>4. ASSUME NEW t \in Tasks, SinkReturns(t) \/ Proceed(t), Step(t)
      PROVE  [Promise!Next]_(Promise!vars)
  BY <1>4, RetryKeepsPromise
<1>5. ASSUME NEW t \in Tasks, SinkRaises(t), Step(t) PROVE [Promise!Next]_(Promise!vars)
  <2>1. /\ stage' = stage \/ (stage \notin {"closing", "done"} /\ stage' = "closing")
        /\ UNCHANGED <<seq, closed, queue, consumer, received, dropped>> /\ cutShort' = TRUE
        /\ task' = [task EXCEPT ![t] = IF t = Driver THEN "running" ELSE "ended"]
        /\ held' = [held EXCEPT ![t] = 0]
    BY <1>5 DEF SinkRaises, stream
  <2>2. InHand' = [InHand EXCEPT ![t] = 0]
    BY <1>0, <2>1 DEF InHand, Pending
  <2>3. State' = State
    BY <2>1, OpenStage DEF State
  <2>4. Promise!Drop(t)
    BY <1>5, <2>1, <2>2, <2>3 DEF Step, Promise!Drop, Asking
  <2>. QED  BY <2>4 DEF Promise!Next
<1>6. ASSUME Open, Step(Driver) PROVE [Promise!Next]_(Promise!vars)
  <2>1. ~closed
    BY <1>6, OpenStage DEF Open
  <2>2. Promise!Number(Driver)
    BY <1>0, <1>6, <2>1, EmitKeepsPromise DEF Open
  <2>. QED  BY <1>0, <2>2 DEF Promise!Next
<1>7. ASSUME Conclude, Step(Driver) PROVE [Promise!Next]_(Promise!vars)
  <2>1. /\ stage = "wave" /\ ~closed /\ task[Driver] = "running" /\ seq' = seq + 1
        /\ stage' \in {"ending", "closing"} /\ UNCHANGED <<closed, consumer, received, dropped, cutShort>>
    BY <1>7, OpenStage DEF Conclude, DriverRests
  <2>2. author' = Append(author, Driver) /\ Len(author') = seq + 1
    BY <1>0, <1>7, <2>1 DEF Step, Numbered
  <2>3. \/ InHand' = [InHand EXCEPT ![Driver] = seq + 1] /\ queue' = queue
        \/ InHand' = InHand /\ queue' = Append(queue, seq + 1)
    <3>1. ASSUME NEW s \in Pending, task' = [task EXCEPT ![Driver] = s],
                 held' = [held EXCEPT ![Driver] = seq + 1]
          PROVE  InHand' = [InHand EXCEPT ![Driver] = seq + 1]
      BY <1>0, <3>1 DEF InHand
    <3>2. UNCHANGED <<task, held>> => InHand' = InHand
      BY DEF InHand
    <3>. QED  BY <1>7, <3>1, <3>2 DEF Conclude, Pending
  <2>4. State = "open" /\ State' = "open" /\ Asking' = Asking /\ InHand[Driver] = 0
    BY <1>0, <2>1 DEF State, Asking, InHand, Pending
  <2>5. Promise!Number(Driver)
    BY <2>1, <2>2, <2>3, <2>4 DEF Promise!Number
  <2>. QED  BY <1>0, <2>5 DEF Promise!Next
<1>8. ASSUME Close, Step(Driver) PROVE [Promise!Next]_(Promise!vars)
  <2>1. /\ stage = "closing" /\ task[Driver] = "running" /\ Put(Driver, 0)
        /\ closed' = TRUE /\ ~closed /\ UNCHANGED <<seq, consumer, received, dropped, cutShort>>
    BY <1>8 DEF Close, MidStep, CLOSED, Course
  <2>2. InHand[Driver] = 0 /\ InHand = [InHand EXCEPT ![Driver] = 0] /\ 0 \in Nat
    BY <1>0, <2>1 DEF InHand, Pending
  <2>3. cutShort \/ \A t \in Tasks : InHand[t] = 0
    BY <1>0, <2>1 DEF Accounted, InStep, InHand, Pending, Tasks
  <2>7. cutShort \/ \A d \in dropped : Promise!MadeUpFor(d)
    <3>. SUFFICES ASSUME ~cutShort, NEW d \in dropped PROVE Promise!MadeUpFor(d)
      OBVIOUS
    <3>1. \A e \in Emitters : left[e] = 0
      BY <2>1 DEF Accounted, InStep, Bracketed
    <3>2. PICK j \in Accepted : author[j] = author[d] /\ d < j
      BY <3>1 DEF Bracketed
    <3>3. d \in 1 .. seq /\ j \in 1 .. seq /\ j \notin dropped /\ Len(author) = seq
      BY DEF Bracketed, Accepted, Numbered
    <3>4. j \in d + 1 .. Len(author)
      BY <1>0, <3>2, <3>3
    <3>. QED  BY <3>2, <3>3, <3>4 DEF Promise!MadeUpFor
  <2>4. /\ InHand' = InHand
        /\ \/ UNCHANGED <<queue, stage>>
           \/ queue' = Append(queue, 0) /\ stage' = "done"
    BY <1>0, <2>1, <2>2, HandOfPut DEF StageAfter
  <2>5. State = "open" /\ (State' = IF stage' = "closing" THEN "closing" ELSE "shut")
    BY <2>1 DEF State
  <2>6. author' = author /\ Asking' = Asking
    BY <1>8, <2>1 DEF Step, Asking
  <2>. QED  BY <2>1, <2>3, <2>4, <2>5, <2>6, <2>7 DEF Promise!Close, Promise!Next
<1>9. ASSUME CancelDriver, Step(Driver) PROVE [Promise!Next]_(Promise!vars)
  <2>1. /\ UNCHANGED <<held, seq, closed, queue, consumer, received, dropped, cutShort>> /\ cutShort
        /\ stage # "done" /\ stage' \in {"closing", "done"} /\ ~MidStep
        /\ \E s \in {"running", "ended"} : task' = [PassWakeup(Driver) EXCEPT ![Driver] = s]
    BY <1>9 DEF CancelDriver, Course
  <2>2. InHand' = [InHand EXCEPT ![Driver] = 0]
    <3>1. \A u \in Tasks : InHand'[u] = IF u = Driver THEN 0 ELSE InHand[u]
      BY <1>0, <2>1, OnlyWakes DEF InHand, Pending
    <3>. QED  BY <1>0, <3>1 DEF InHand
  <2>3. author' = author /\ Asking' = Asking
    BY <1>9, <2>1 DEF Step, Asking
  <2>4. CASE stage = "closing"
    <3>1. closed /\ stage' = "done" /\ InHand[Driver] = 0
      BY <1>0, <1>9, <2>1, <2>4 DEF Course, MidStep, InHand, CancelDriver
    <3>2. State = "closing" /\ State' = "shut" /\ InHand' = InHand
      BY <1>0, <2>1, <2>2, <2>4, <3>1 DEF State
    <3>. QED  BY <2>1, <2>3, <3>2 DEF Promise!Mark, Promise!Next
  <2>5. CASE stage # "closing"
    <3>1. State' = State
      BY <2>1, <2>5, OpenStage DEF State
    <3>2. Promise!Drop(Driver)
      BY <2>1, <2>2, <2>3, <3>1 DEF Promise!Drop, Course
    <3>. QED  BY <1>0, <3>2 DEF Promise!Next
  <2>. QED  BY <2>4, <2>5
<1>10. ASSUME Get, UnnotedStep PROVE [Promise!Next]_(Promise!vars)
  <2>1. /\ consumer = "reading" /\ queue # <<>> /\ queue' = Tail(queue) /\ task' = WakeFirst(task)
        /\ UNCHANGED <<stage, held, closed, dropped, cutShort, author>>
    BY <1>10 DEF Get, UnnotedStep
  <2>2. InHand' = InHand
    BY <1>0, <2>1, OnlyWakes DEF InHand, Pending
  <2>3. State' = State /\ Asking
    BY <2>1 DEF State, Asking
  <2>4. CASE Head(queue) = 0
    <3>1. received' = received /\ ~Asking'
      BY <1>10, <2>4 DEF Get, CLOSED, Asking
    <3>. QED  BY <2>1, <2>2, <2>3, <2>4, <3>1 DEF Promise!End, Promise!Next
  <2>5. CASE Head(queue) # 0
    <3>1. received' = Append(received, Head(queue)) /\ Asking'
      BY <1>10, <2>5 DEF Get, CLOSED, Asking
    <3>. QED  BY <2>1, <2>2, <2>3, <2>5, <3>1 DEF Promise!Give, Promise!Next
  <2>. QED  BY <2>4, <2>5
<1>11. ASSUME Abandon, UnnotedStep PROVE [Promise!Next]_(Promise!vars)
  <2>1. /\ ~Asking' /\ cutShort' = TRUE
        /\ UNCHANGED <<author, InHand, queue, received, dropped, State>>
    BY <1>11 DEF Abandon, UnnotedStep, stream, Asking, InHand, State
  <2>. QED  BY <2>1 DEF Promise!Leave, Promise!Next
<1>12. ASSUME (AskNext /\ UnnotedStep) \/ (Join /\ UnnotedStep) \/ Finished \/ UNCHANGED vars
       PROVE  [Promise!Next]_(Promise!vars)
  <2>1. UNCHANGED <<author, task, held, queue, received, closed, stage, dropped, cutShort>>
    BY <1>12 DEF AskNext, Join, Finished, UnnotedStep, vars, stream
  <2>2. Asking' = Asking
    BY <1>12 DEF AskNext, Join, Finished, vars, Asking
  <2>. QED  BY <2>1, <2>2 DEF Promise!vars, InHand, State
<1>. QED  BY <1>0, <1>1, <1>2, <1>3, <1>4, <1>5, <1>6, <1>7, <1>8, <1>9, <1>10, <1>11, <1>12,
             <1>13
          DEF Next, NodeStep, DriverStep, ConsumerStep, TaskStep

\* The stream keeps the promise of Channel: waiters, wakeups, cancellations,
\* timeouts and errors of the sink are an implementation, for any wave, any
\* queue, any sink and any consumer.
THEOREM StreamIsAChannel == Spec => KeepsToChannel
<1>1. Init => Promise!Init
  BY DEF Init, Promise!Init, InHand, Pending, State, Asking
<1>2. Init => Numbered
  BY DEF Init, Numbered
<1>3. Types /\ Numbered /\ [Next]_vars => Numbered'
  BY StreamShape, NumberedStep
<1>4. LineInv /\ Course /\ Accounted /\ Numbered /\ Bracketed /\ [Next]_vars
         => [Promise!Next]_(Promise!vars)
  BY StreamShape, StepKeepsPromise DEF LineInv
<1>5. LineInv => Types
  BY DEF LineInv
<1>. QED  BY <1>1, <1>2, <1>3, <1>4, <1>5, LineIsServed, CourseIsKept, EventsAreKept,
             GivenUpBetween, PTL
          DEF Spec, KeepsToChannel, Promise!Spec

\* What one task emitted arrives in the order it did so, and no event twice,
\* also on a stream that is cut short.
THEOREM NobodyOvertakesItself == Spec => []EachInItsOrder
<1>1. Init => InOrder
  BY DEF Init, InOrder, Ordered, InHand, Pending
<1>2. LineInv /\ InOrder /\ [Promise!Next]_(Promise!vars) => InOrder'
  BY ChannelStep DEF LineInv
<1>3. InOrder => EachInItsOrder
  <2>. SUFFICES ASSUME InOrder, NEW i \in DOMAIN received, NEW j \in DOMAIN received, i < j,
                       author[received[i]] = author[received[j]]
                PROVE  received[i] < received[j]
    BY DEF EachInItsOrder
  <2>1. Before(author, received[i], received[j]) /\ received[i] # 0 /\ received[j] # 0
    BY DEF InOrder, Ordered
  <2>. QED  BY <2>1 DEF Before
<1>. QED  BY <1>1, <1>2, <1>3, LineIsServed, StreamIsAChannel, PTL DEF Spec, KeepsToChannel, Promise!Spec

\* The consumer can rely on both.
THEOREM RunIsDelivered == Spec => []DeliversTheRun
BY StreamIsComplete, NobodyOvertakesItself, PTL DEF DeliversTheRun

=============================================================================
