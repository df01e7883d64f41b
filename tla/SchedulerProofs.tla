-------------------------- MODULE SchedulerProofs --------------------------
(***************************************************************************)
(* Proofs about Scheduler, for every workflow graph and every policy, and  *)
(* about Durability, which is Scheduler with a store, for any number of    *)
(* crashes and resumes too.                                                *)
(***************************************************************************)
EXTENDS Durability, FiniteSetTheorems, TLAPS

-----------------------------------------------------------------------------
(***************************************************************************)
(* Lemmas about the graph.                                                 *)
(***************************************************************************)

\* Every set of edges the counters range over is finite.
LEMMA EdgeSetsFinite ==
    ASSUME NEW S, S \subseteq Edges
    PROVE  IsFiniteSet(S) /\ Cardinality(S) \in Nat
BY FiniteGraph, FS_Subset, FS_CardinalityType

\* The labels a node may choose are branches.
LEMMA ChoicesAreBranches ==
    ASSUME NEW n \in Nodes
    PROVE  Choices(n) \subseteq Branches /\ ErrorBranch[n] \in Branches
BY EdgesShape, PolicyShape
   DEF Choices, Branches, BranchLabels, OutEdges, EdgeShape

\* Counting down the edges from n: the edges left are those that were left
\* before, less the edges from n.
LEMMA CountDown ==
    ASSUME NEW n \in Nodes, NEW t \in Nodes, NEW D, n \notin D
    PROVE  Cardinality({e \in InEdges(t) : e.source \notin D \cup {n}})
             = Cardinality({e \in InEdges(t) : e.source \notin D})
               - Cardinality(EdgesBetween(n, t))
<1> DEFINE A == {e \in InEdges(t) : e.source \notin D}
           B == EdgesBetween(n, t)
<1>1. {e \in InEdges(t) : e.source \notin D \cup {n}} = A \ B
  BY DEF InEdges, EdgesBetween
<1>2. A \cap B = B
  BY DEF InEdges, EdgesBetween
<1>3. IsFiniteSet(A)
  BY EdgeSetsFinite DEF InEdges
<1>4. Cardinality(A \ B) = Cardinality(A) - Cardinality(A \cap B)
  BY <1>3, FS_Difference
<1> QED BY <1>1, <1>2, <1>4

\* The edges of S that leave a node of D.
Leaving(S, D) == {e \in S : e.source \in D}

\* Counting up: the edges of S from the nodes of D and from n.
LEMMA CountUp ==
    ASSUME NEW n \in Nodes, NEW D, n \notin D, NEW S \in SUBSET Edges
    PROVE  Cardinality(Leaving(S, D \cup {n}))
             = Cardinality(Leaving(S, D)) + Cardinality(Leaving(S, {n}))
<1> DEFINE A == Leaving(S, D)
           B == Leaving(S, {n})
<1>1. Leaving(S, D \cup {n}) = A \cup B
  BY DEF Leaving
<1>2. A \cap B = {}
  BY DEF Leaving
<1>3. IsFiniteSet(A) /\ IsFiniteSet(B) /\ Cardinality(A) \in Nat /\ Cardinality(B) \in Nat
  BY EdgeSetsFinite DEF Leaving
<1>4. Cardinality(A \cup B) = Cardinality(A) + Cardinality(B) - Cardinality(A \cap B)
  BY <1>3, FS_Union
<1>5. Cardinality(A \cap B) = 0
  BY <1>2, FS_EmptySet
<1> HIDE DEF A, B
<1>6. Cardinality(A \cup B) = Cardinality(A) + Cardinality(B)
  BY <1>3, <1>4, <1>5
<1> QED BY <1>1, <1>6 DEF A, B

-----------------------------------------------------------------------------
(***************************************************************************)
(* Type correctness.                                                       *)
(***************************************************************************)

\* The types, and the attempts within their bound.
LEMMA InitTypeOK == Init => TypeOK
<1> SUFFICES ASSUME Init PROVE TypeOK
  OBVIOUS
<1>1. Indegree \in [Nodes -> Int]
  BY EdgeSetsFinite DEF Indegree, InEdges
<1>2. \A n \in Nodes : 0 <= MaxAttempts[n]
  BY PolicyShape
<1> QED
  BY <1>1, <1>2 DEF Init, TypeOK, Phases, Outcomes, Statuses, Branches, Roots

\* A node stays within its attempts.
LEMMA NodeStepTypeOK ==
    ASSUME TypeOK, NEW n \in Nodes, NodeStep(n)
    PROVE  TypeOK'
<1> USE DEF TypeOK, UnchangedByNode, counters, Statuses
<1>0. /\ MaxAttempts \in [Nodes -> Nat \ {0}]
      /\ ErrorBranch[n] \in Branches
      /\ Choices(n) \subseteq Branches
  BY PolicyShape, ChoicesAreBranches
<1>1. CASE Start(n)
  BY <1>0, <1>1 DEF Start
<1>2. CASE Retry(n)
  BY <1>0, <1>2 DEF Retry, Executing
<1>3. CASE Complete(n)
  BY <1>0, <1>3 DEF Complete, Executing
<1>4. CASE Pause(n)
  BY <1>0, <1>4 DEF Pause, Executing
<1>5. CASE Fail(n)
  BY <1>0, <1>5 DEF Fail, Executing
<1> QED BY <1>1, <1>2, <1>3, <1>4, <1>5 DEF NodeStep

\* Counting down stays within the integers.
LEMMA SettleTypeOK ==
    ASSUME TypeOK, NEW n \in Nodes, Settle(n)
    PROVE  TypeOK'
<1>1. \A t \in Nodes : /\ Cardinality(EdgesBetween(n, t)) \in Int
                       /\ Cardinality({e \in EdgesBetween(n, t) : EdgeTaken(e)}) \in Int
  BY EdgeSetsFinite DEF EdgesBetween
<1> DEFINE down(t) == Cardinality(EdgesBetween(n, t))
           up(t) == Cardinality({e \in EdgesBetween(n, t) : EdgeTaken(e)})
<1>a. /\ pending' = [t \in Nodes |-> pending[t] - down(t)]
      /\ taken' = [t \in Nodes |-> taken[t] + up(t)]
  BY DEF Settle
<1>b. \A t \in Nodes : pending[t] \in Int /\ taken[t] \in Int
  BY DEF TypeOK
<1>c. \A t \in Nodes : down(t) \in Int /\ up(t) \in Int
  BY <1>1
<1> HIDE DEF down, up
<1>2. pending' \in [Nodes -> Int] /\ taken' \in [Nodes -> Int]
  BY <1>a, <1>b, <1>c
<1> QED BY <1>2 DEF Settle, TypeOK, Statuses

\* No step leaves the types.
LEMMA NextTypeOK == TypeOK /\ [Next]_vars => TypeOK'
<1> SUFFICES ASSUME TypeOK, [Next]_vars PROVE TypeOK'
  OBVIOUS
<1>1. CASE Dispatch
  BY <1>1 DEF TypeOK, Dispatch, Phases, counters
<1>2. ASSUME NEW n \in Nodes, NodeStep(n) PROVE TypeOK'
  BY <1>2, NodeStepTypeOK
<1>3. CASE EndWave
  BY <1>3 DEF TypeOK, EndWave, Phases, records, counters
<1>4. ASSUME NEW n \in Nodes, Settle(n) PROVE TypeOK'
  BY <1>4, SettleTypeOK
<1>5. CASE EndSettle
  BY <1>5 DEF TypeOK, EndSettle, Phases, records, counters
<1>6. CASE Finish
  BY <1>6 DEF TypeOK, Finish, Phases, Outcomes, Verdict, records, counters
<1>7. CASE Resume
  BY <1>7 DEF TypeOK, Resume, Phases, Outcomes, Statuses, counters
<1>8. CASE UNCHANGED vars
  BY <1>8 DEF TypeOK, vars, records, counters
<1> QED
  BY <1>1, <1>2, <1>3, <1>4, <1>5, <1>6, <1>7, <1>8 DEF Next, Returned

\* Every variable of the scheduler keeps its type, and no node is attempted
\* more often than its retry policy allows.
THEOREM TypeCorrect == Spec => []TypeOK
BY InitTypeOK, NextTypeOK, PTL DEF Spec

-----------------------------------------------------------------------------
(***************************************************************************)
(* The inductive invariant.                                                *)
(***************************************************************************)

\* All that a step has to leave alone for counters and positions to stay
\* right: the counters, the drained nodes with their records, and who is in
\* play or skipped.  Every step but a settle does.
LEMMA Frame ==
    ASSUME CountersAgree, PositionInv,
           UNCHANGED counters,
           Drained' = Drained,
           \A m \in Drained : status'[m] = status[m] /\ branch'[m] = branch[m],
           \A n \in Nodes : /\ InPlay(n)' <=> InPlay(n)
                            /\ status'[n] = "skipped" <=> status[n] = "skipped"
    PROVE  CountersAgree' /\ PositionInv'
<1>1. \A e \in Edges : e.source \in Drained => (EdgeTaken(e)' <=> EdgeTaken(e))
  BY DEF EdgeTaken
<1>2. CountersAgree'
  <2> SUFFICES ASSUME NEW t \in Nodes
               PROVE  /\ pending'[t] = Cardinality({e \in InEdges(t) : e.source \notin Drained'})
                      /\ taken'[t] = Cardinality({e \in InEdges(t) : /\ e.source \in Drained'
                                                                  /\ EdgeTaken(e)'})
    BY DEF CountersAgree
  <2>1. {e \in InEdges(t) : e.source \in Drained' /\ EdgeTaken(e)'}
          = {e \in InEdges(t) : e.source \in Drained /\ EdgeTaken(e)}
    BY <1>1 DEF InEdges
  <2> QED BY <2>1 DEF CountersAgree, counters
<1>3. ASSUME NEW n \in Nodes
      PROVE  /\ AllDrained(n)' <=> AllDrained(n)
             /\ AllDrained(n) => (SomeTaken(n)' <=> SomeTaken(n))
  BY <1>1 DEF AllDrained, SomeTaken, InEdges
<1> QED BY <1>2, <1>3 DEF PositionInv

\* At the start the roots are released and nothing else is.
LEMMA InitIInv == Init => IInv
<1> SUFFICES ASSUME Init PROVE IInv
  OBVIOUS
<1>1. TypeOK
  BY InitTypeOK
<1>2. PhaseInv /\ RecordInv
  BY DEF Init, PhaseInv, RecordInv, Decided, Lost
<1>3. Drained = {}
  BY DEF Init, Drained, Decided
<1>4. CountersAgree
  <2> SUFFICES ASSUME NEW t \in Nodes
               PROVE  /\ pending[t] = Cardinality({e \in InEdges(t) : e.source \notin {}})
                      /\ taken[t] = Cardinality({e \in InEdges(t) : /\ e.source \in {}
                                                                 /\ EdgeTaken(e)})
    BY <1>3 DEF CountersAgree
  <2>1. {e \in InEdges(t) : e.source \notin {}} = InEdges(t)
    OBVIOUS
  <2>2. {e \in InEdges(t) : e.source \in {} /\ EdgeTaken(e)} = {}
    OBVIOUS
  <2>3. pending[t] = Cardinality(InEdges(t)) /\ taken[t] = 0
    BY DEF Init, Indegree
  <2> QED BY <2>1, <2>2, <2>3, FS_EmptySet
<1>5. PositionInv
  BY <1>3 DEF Init, PositionInv, InPlay, Started, AllDrained, Roots, InEdges
<1>6. WaveInv
  BY EdgesShape DEF Init, WaveInv, Started, EdgeShape
<1> QED BY <1>1, <1>2, <1>4, <1>5, <1>6 DEF IInv

\* The released nodes become the batch.
LEMMA DispatchIInv == IInv /\ Dispatch => IInv'
<1> SUFFICES ASSUME IInv, Dispatch PROVE IInv'
  OBVIOUS
<1> USE DEF IInv
<1>1. TypeOK'
  BY NextTypeOK DEF Next
<1>2. batch = {} /\ settling = {} /\ failures = {}
  BY DEF Dispatch, PhaseInv
<1>3. PhaseInv'
  BY <1>2 DEF Dispatch, PhaseInv, Verdict
<1>4. RecordInv'
  BY <1>2 DEF Dispatch, RecordInv, Decided, Lost, TypeOK
<1>5. Drained' = Drained
  BY <1>2 DEF Dispatch, Drained, Decided, RecordInv
<1>6. CountersAgree' /\ PositionInv'
  <2>1. \A n \in Nodes : InPlay(n)' <=> InPlay(n)
    BY <1>2 DEF Dispatch, InPlay, Started
  <2> QED BY <1>5, <2>1, Frame DEF Dispatch
<1>7. WaveInv'
  <2>1. \A n \in Nodes : wave'[n] <= waves'
    BY DEF Dispatch, WaveInv, TypeOK
  <2>2. ASSUME NEW e \in Edges, (Started(e.target) \/ e.target \in batch)'
        PROVE  wave'[e.source] < wave'[e.target]
    <3>1. e.source \in Nodes /\ e.target \in Nodes /\ e \in InEdges(e.target)
      BY EdgesShape DEF EdgeShape, InEdges
    <3>2. Started(e.target) \/ e.target \in ready
      BY <2>2 DEF Dispatch, Started
    <3>3. e.source \in Drained
      BY <3>1, <3>2 DEF PositionInv, InPlay, AllDrained
    <3>4. e.source \notin ready
      BY <3>1, <3>3 DEF Drained, Decided, RecordInv
    <3>5. wave'[e.source] = wave[e.source] /\ wave[e.source] <= waves
      BY <3>1, <3>4 DEF Dispatch, WaveInv
    <3>6. CASE e.target \in ready
      BY <3>1, <3>5, <3>6 DEF Dispatch, TypeOK
    <3>7. CASE e.target \notin ready
      BY <3>1, <3>2, <3>5, <3>7 DEF Dispatch, WaveInv
    <3> QED BY <3>6, <3>7
  <2> QED BY <2>1, <2>2 DEF WaveInv
<1> QED BY <1>1, <1>3, <1>4, <1>6, <1>7

\* A node of the batch starts, retries or ends, and nothing is released by it yet.
LEMMA NodeStepIInv == ASSUME IInv, NEW n \in Nodes, NodeStep(n) PROVE IInv'
<1> USE DEF IInv
<1>1. TypeOK'
  BY NextTypeOK DEF Next
<1>2. /\ phase = "gather" /\ n \in batch /\ status[n] \in {"pending", "running"}
      /\ UnchangedByNode
      /\ \A m \in Nodes \ {n} : /\ status'[m] = status[m]
                                /\ branch'[m] = branch[m]
                                /\ recovered'[m] = recovered[m]
      /\ status'[n] \in {"running", "completed", "failed", "paused"}
      /\ awaiting' = IF status'[n] = "paused" THEN awaiting \cup {n} ELSE awaiting
  <2> USE DEF TypeOK
  <2>1. CASE Start(n)
    BY <2>1 DEF Start
  <2>2. CASE Retry(n)
    BY <2>2 DEF Retry, Executing
  <2>3. CASE Complete(n)
    BY <2>3 DEF Complete, Executing
  <2>4. CASE Pause(n)
    BY <2>4 DEF Pause, Executing
  <2>5. CASE Fail(n)
    BY <2>5 DEF Fail, Executing
  <2> QED BY <2>1, <2>2, <2>3, <2>4, <2>5 DEF NodeStep
<1>3. PhaseInv'
  BY <1>2 DEF UnchangedByNode, PhaseInv
<1>4. RecordInv'
  <2>1. awaiting' = {m \in Nodes : status'[m] = "paused"}
    BY <1>2 DEF RecordInv
  <2>2. ASSUME NEW m \in Nodes, m # n
        PROVE  /\ (m \in ready => status[m] = "pending")'
               /\ (status[m] = "running" => m \in batch)'
               /\ (m \in batch => status[m] # "skipped")'
               /\ (m \in settling => Decided(m) /\ ~Lost(m))'
               /\ (m \in failures => Lost(m))'
               /\ (Lost(m) => m \in batch \cup failures)'
    BY <1>2, <2>2 DEF RecordInv, UnchangedByNode, Decided, Lost
  <2>3. n \notin ready /\ n \notin settling /\ n \notin failures
    BY <1>2 DEF PhaseInv
  <2> QED BY <1>2, <2>1, <2>2, <2>3 DEF RecordInv, UnchangedByNode
<1>5. Drained' = Drained
  BY <1>2 DEF Drained, Decided, UnchangedByNode
<1>6. CountersAgree' /\ PositionInv'
  <2>1. \A m \in Drained : status'[m] = status[m] /\ branch'[m] = branch[m]
    BY <1>2 DEF Drained
  <2>2. \A m \in Nodes : /\ InPlay(m)' <=> InPlay(m)
                         /\ status'[m] = "skipped" <=> status[m] = "skipped"
    BY <1>2 DEF InPlay, Started, UnchangedByNode
  <2> QED BY <1>2, <1>5, <2>1, <2>2, Frame DEF UnchangedByNode
<1>7. WaveInv'
  <2>1. \A e \in Edges : (Started(e.target) \/ e.target \in batch)'
                          => Started(e.target) \/ e.target \in batch
    BY <1>2, EdgesShape DEF Started, UnchangedByNode, EdgeShape
  <2> QED BY <1>2, <2>1 DEF WaveInv, UnchangedByNode
<1> QED BY <1>1, <1>3, <1>4, <1>6, <1>7

\* The batch is handed on to be settled, or lost.
LEMMA EndWaveIInv == IInv /\ EndWave => IInv'
<1> SUFFICES ASSUME IInv, EndWave PROVE IInv'
  OBVIOUS
<1> USE DEF IInv
<1> DEFINE lost == {n \in batch : Lost(n)}
           settled == {n \in batch : ~Lost(n) /\ status[n] # "paused"}
<1>1. TypeOK'
  BY NextTypeOK DEF Next
<1>2. /\ phase = "gather" /\ settling = {} /\ failures = {} /\ ready = {}
      /\ \A n \in batch : status[n] \in {"completed", "failed", "paused"}
      /\ failures' = lost /\ settling' = settled /\ batch' = {}
      /\ phase' = IF lost = {} THEN "settle" ELSE "loop"
      /\ UNCHANGED <<outcome, waves, records, counters, ready, awaiting, upstream>>
  BY DEF EndWave, PhaseInv, RecordInv, TypeOK, Statuses
<1>3. PhaseInv'
  BY <1>2 DEF PhaseInv
<1>4. RecordInv'
  BY <1>2 DEF RecordInv, Decided, Lost, records, TypeOK
<1>5. Drained' = Drained
  BY <1>2 DEF Drained, Decided, records, TypeOK
<1>6. CountersAgree' /\ PositionInv'
  <2>1. \A n \in Nodes : InPlay(n)' <=> InPlay(n)
    BY <1>2 DEF InPlay, Started, records
  <2> QED BY <1>2, <1>5, <2>1, Frame DEF records
<1>7. WaveInv'
  BY <1>2 DEF WaveInv, Started, records
<1> QED BY <1>1, <1>3, <1>4, <1>6, <1>7

\* The loops end with nothing left to settle.
LEMMA EndSettleIInv == IInv /\ (EndSettle \/ Finish) => IInv'
<1> SUFFICES ASSUME IInv, EndSettle \/ Finish PROVE IInv'
  OBVIOUS
<1> USE DEF IInv
<1>1. TypeOK'
  BY NextTypeOK DEF Next
<1>2. UNCHANGED <<waves, records, counters, ready, batch, settling, failures,
                  awaiting, outputs, upstream>>
  BY DEF EndSettle, Finish
<1>3. PhaseInv'
  <2>1. CASE EndSettle
    BY <2>1 DEF EndSettle, PhaseInv
  <2>2. CASE Finish
    BY <2>2 DEF Finish, PhaseInv, Verdict
  <2> QED BY <2>1, <2>2
<1>4. RecordInv'
  BY <1>2 DEF RecordInv, Decided, Lost, records
<1>5. Drained' = Drained
  BY <1>2 DEF Drained, Decided, records
<1>6. CountersAgree' /\ PositionInv'
  BY <1>2, <1>5, Frame DEF InPlay, Started, records
<1>7. WaveInv'
  BY <1>2 DEF WaveInv, Started, records
<1> QED BY <1>1, <1>3, <1>4, <1>6, <1>7

\* An answered question is a completed node that is to be settled.
LEMMA ResumeIInv == IInv /\ Resume => IInv'
<1> SUFFICES ASSUME IInv, Resume PROVE IInv'
  OBVIOUS
<1> USE DEF IInv
<1>1. TypeOK'
  BY NextTypeOK DEF Next
<1>2. /\ failures = {} /\ ready = {} /\ batch = {} /\ settling = {}
      /\ awaiting = {n \in Nodes : status[n] = "paused"}
      /\ awaiting' = {} /\ settling' = awaiting /\ phase' = "answers"
      /\ outcome' = "running"
      /\ \A n \in Nodes : status'[n] = IF status[n] = "paused" THEN "completed"
                                       ELSE status[n]
      /\ UNCHANGED <<waves, branch, recovered, attempts, wave, counters, ready,
                     batch, failures, upstream>>
  BY DEF Resume, PhaseInv, RecordInv, Verdict
<1>3. PhaseInv'
  BY <1>2 DEF PhaseInv
<1>4. RecordInv'
  BY <1>2 DEF RecordInv, Decided, Lost
<1>5. Drained' = Drained
  BY <1>2 DEF Drained, Decided
<1>6. CountersAgree' /\ PositionInv'
  <2>1. \A n \in Nodes : InPlay(n)' <=> InPlay(n)
    BY <1>2 DEF InPlay, Started
  <2>2. \A n \in Drained : status'[n] = status[n]
    BY <1>2 DEF Drained, Decided
  <2> QED BY <1>2, <1>5, <2>1, <2>2, Frame
<1>7. WaveInv'
  <2>1. \A n \in Nodes : Started(n)' <=> Started(n)
    BY <1>2 DEF Started
  <2> QED BY <1>2, <2>1, EdgesShape DEF WaveInv, EdgeShape
<1> QED BY <1>1, <1>3, <1>4, <1>6, <1>7

\* The targets whose last edge a settle of n counts down, and those among them
\* that no edge reaches.
Zeroed(n) == {t \in Nodes : EdgesBetween(n, t) # {} /\ pending'[t] = 0}
SkippedBy(n) == {t \in Zeroed(n) : taken'[t] = 0}

\* What a settle does, in terms of sets: n joins the drained nodes, the
\* counters follow, and the zeroed targets were not in play before.
LEMMA SettleEffect ==
    ASSUME IInv, NEW n \in Nodes, Settle(n)
    PROVE  /\ batch = {} /\ failures = {}
           /\ n \notin Drained /\ Drained' = Drained \cup {n}
           /\ Zeroed(n) = {t \in Nodes : AllDrained(t)' /\ EdgesBetween(n, t) # {}}
           /\ \A t \in Zeroed(n) : ~InPlay(t) /\ status[t] = "pending" /\ t # n
           /\ CountersAgree'
           /\ SkippedBy(n) = {t \in Zeroed(n) : ~SomeTaken(t)'}
           /\ \A m \in Drained' : m \notin SkippedBy(n) /\ status'[m] = status[m]
<1> USE DEF IInv
<1>1. /\ phase \in {"settle", "answers"} /\ n \in settling
      /\ batch = {} /\ failures = {}
      /\ Decided(n) /\ n \notin Drained
  BY DEF Settle, PhaseInv, RecordInv, Drained
<1>2. /\ ready' = ready \cup (Zeroed(n) \ SkippedBy(n))
      /\ settling' = (settling \ {n}) \cup SkippedBy(n)
      /\ status' = [t \in Nodes |-> IF t \in SkippedBy(n) THEN "skipped" ELSE status[t]]
      /\ UNCHANGED <<branch, batch, failures>>
  BY DEF Settle, Zeroed, SkippedBy
<1>3. \A t \in Nodes : EdgesBetween(n, t) # {} =>
          ~InPlay(t) /\ status[t] # "skipped" /\ status[t] = "pending"
  <2> SUFFICES ASSUME NEW t \in Nodes, EdgesBetween(n, t) # {}
               PROVE  ~InPlay(t) /\ status[t] = "pending"
    OBVIOUS
  <2>1. ~AllDrained(t)
    BY <1>1 DEF AllDrained, EdgesBetween, InEdges
  <2> QED BY <2>1 DEF PositionInv, InPlay, Started, TypeOK, Statuses
<1>4. \A t \in Zeroed(n) : ~InPlay(t) /\ status[t] = "pending" /\ t # n
  BY <1>1, <1>3 DEF Zeroed, Decided
<1>5. SkippedBy(n) \subseteq Zeroed(n) /\ Zeroed(n) \subseteq Nodes
  BY DEF SkippedBy, Zeroed
<1>6. Drained' = Drained \cup {n}
  <2>1. \A m \in Nodes : Decided(m)' <=> Decided(m) \/ m \in SkippedBy(n)
    BY <1>2, <1>5 DEF Decided
  <2>2. \A m \in SkippedBy(n) : m \notin Drained /\ m # n
    BY <1>4, <1>5 DEF Drained, Decided
  <2> QED BY <1>1, <1>2, <2>1, <2>2 DEF Drained
<1>7. \A m \in Drained' : m \notin SkippedBy(n) /\ status'[m] = status[m]
  BY <1>1, <1>2, <1>4, <1>5, <1>6 DEF Drained, Decided
<1>8. \A e \in Edges : e.source \in Drained' => (EdgeTaken(e)' <=> EdgeTaken(e))
  BY <1>2, <1>7 DEF EdgeTaken
<1>9. CountersAgree'
  <2> SUFFICES ASSUME NEW t \in Nodes
               PROVE  /\ pending'[t] = Cardinality({e \in InEdges(t) : e.source \notin Drained'})
                      /\ taken'[t] = Cardinality({e \in InEdges(t) : /\ e.source \in Drained'
                                                                  /\ EdgeTaken(e)'})
    BY DEF CountersAgree
  <2> DEFINE S == {e \in InEdges(t) : EdgeTaken(e)}
  <2>1. pending'[t] = Cardinality({e \in InEdges(t) : e.source \notin Drained})
                        - Cardinality(EdgesBetween(n, t))
    BY DEF Settle, CountersAgree
  <2>2. taken'[t] = Cardinality({e \in InEdges(t) : e.source \in Drained /\ EdgeTaken(e)})
                      + Cardinality({e \in EdgesBetween(n, t) : EdgeTaken(e)})
    BY DEF Settle, CountersAgree
  <2>3. /\ {e \in InEdges(t) : e.source \in Drained /\ EdgeTaken(e)}
             = Leaving(S, Drained)
        /\ {e \in EdgesBetween(n, t) : EdgeTaken(e)} = Leaving(S, {n})
        /\ {e \in InEdges(t) : e.source \in Drained' /\ EdgeTaken(e)'}
             = Leaving(S, Drained')
    BY <1>8 DEF InEdges, EdgesBetween, Leaving
  <2>4. Cardinality({e \in InEdges(t) : e.source \notin Drained \cup {n}})
          = Cardinality({e \in InEdges(t) : e.source \notin Drained})
              - Cardinality(EdgesBetween(n, t))
    BY <1>1, CountDown
  <2>5. S \in SUBSET Edges
    BY DEF InEdges
  <2> HIDE DEF S, IInv
  <2>8. Cardinality(Leaving(S, Drained \cup {n}))
          = Cardinality(Leaving(S, Drained)) + Cardinality(Leaving(S, {n}))
    BY <1>1, <2>5, CountUp
  <2>6. pending'[t] = Cardinality({e \in InEdges(t) : e.source \notin Drained'})
    BY <1>6, <2>1, <2>4
  <2>7. taken'[t] = Cardinality({e \in InEdges(t) : e.source \in Drained' /\ EdgeTaken(e)'})
    BY <1>6, <2>2, <2>3, <2>8
  <2> QED BY <2>6, <2>7
<1>10. \A t \in Nodes : /\ pending'[t] = 0 <=> AllDrained(t)'
                        /\ AllDrained(t)' => (taken'[t] = 0 <=> ~SomeTaken(t)')
  <2> SUFFICES ASSUME NEW t \in Nodes
               PROVE  /\ pending'[t] = 0 <=> AllDrained(t)'
                      /\ AllDrained(t)' => (taken'[t] = 0 <=> ~SomeTaken(t)')
    OBVIOUS
  <2> DEFINE A == {e \in InEdges(t) : e.source \notin Drained'}
             B == {e \in InEdges(t) : e.source \in Drained' /\ EdgeTaken(e)'}
  <2>1. pending'[t] = Cardinality(A) /\ taken'[t] = Cardinality(B)
    BY <1>9 DEF CountersAgree
  <2>2. IsFiniteSet(A) /\ IsFiniteSet(B)
    BY EdgeSetsFinite DEF InEdges
  <2>3. (Cardinality(A) = 0 <=> A = {}) /\ (Cardinality(B) = 0 <=> B = {})
    BY <2>2, FS_EmptySet
  <2>4. A = {} <=> AllDrained(t)'
    BY DEF AllDrained
  <2>5. AllDrained(t)' => (B = {} <=> ~SomeTaken(t)')
    BY DEF AllDrained, SomeTaken
  <2> QED BY <2>1, <2>3, <2>4, <2>5
<1>11. /\ Zeroed(n) = {t \in Nodes : AllDrained(t)' /\ EdgesBetween(n, t) # {}}
       /\ SkippedBy(n) = {t \in Zeroed(n) : ~SomeTaken(t)'}
  BY <1>10 DEF Zeroed, SkippedBy
<1> QED BY <1>1, <1>4, <1>6, <1>7, <1>9, <1>11

\* Settling a node decides what becomes of its targets.
LEMMA SettleIInv == ASSUME IInv, NEW n \in Nodes, Settle(n) PROVE IInv'
<1> USE DEF IInv
<1> DEFINE zeroed == Zeroed(n)
           skipped == SkippedBy(n)
<1>1. TypeOK'
  BY NextTypeOK DEF Next
<1>2. /\ phase \in {"settle", "answers"} /\ batch = {} /\ failures = {}
      /\ ready' = ready \cup (zeroed \ skipped)
      /\ settling' = (settling \ {n}) \cup skipped
      /\ status' = [t \in Nodes |-> IF t \in skipped THEN "skipped" ELSE status[t]]
      /\ wave' = [t \in Nodes |-> IF t \in skipped THEN waves ELSE wave[t]]
      /\ UNCHANGED <<phase, outcome, waves, branch, recovered, attempts, batch,
                     failures, awaiting, outputs, upstream>>
  BY SettleEffect DEF Settle, Zeroed, SkippedBy
<1>3. /\ n \notin Drained /\ Drained' = Drained \cup {n}
      /\ zeroed = {t \in Nodes : AllDrained(t)' /\ EdgesBetween(n, t) # {}}
      /\ \A t \in zeroed : ~InPlay(t) /\ status[t] = "pending"
      /\ skipped = {t \in zeroed : ~SomeTaken(t)'}
      /\ \A m \in Drained' : m \notin skipped /\ status'[m] = status[m]
      /\ CountersAgree'
  BY SettleEffect
<1> HIDE DEF zeroed, skipped
<1>4. PhaseInv'
  BY <1>2 DEF PhaseInv
<1>5. RecordInv'
  <2>1. awaiting' = {m \in Nodes : status'[m] = "paused"}
    BY <1>2, <1>3 DEF RecordInv
  <2>2. ASSUME NEW m \in Nodes
        PROVE  /\ (m \in ready => status[m] = "pending")'
               /\ (status[m] = "running" => m \in batch)'
               /\ (m \in batch => status[m] # "skipped")'
               /\ (m \in settling => Decided(m) /\ ~Lost(m))'
               /\ (m \in failures => Lost(m))'
               /\ (Lost(m) => m \in batch \cup failures)'
    BY <1>2, <1>3 DEF RecordInv, InPlay, Decided, Lost
  <2> QED BY <2>1, <2>2 DEF RecordInv
<1>6. \A e \in Edges : e.source \in Drained =>
          (EdgeTaken(e)' <=> EdgeTaken(e)) /\ e.source \in Drained'
  BY <1>2, <1>3 DEF EdgeTaken
<1>7. ASSUME NEW m \in Nodes, AllDrained(m)
      PROVE  AllDrained(m)' /\ (SomeTaken(m)' <=> SomeTaken(m))
  BY <1>6, <1>7 DEF AllDrained, SomeTaken, InEdges
<1>8. \A m \in Nodes : /\ Started(m)' <=> Started(m)
                       /\ InPlay(m)' <=> InPlay(m) \/ m \in zeroed \ skipped
  BY <1>2, <1>3 DEF Started, InPlay
<1>9. PositionInv'
  <2> SUFFICES ASSUME NEW m \in Nodes
               PROVE  /\ InPlay(m)' => AllDrained(m)' /\ (InEdges(m) = {} \/ SomeTaken(m)')
                      /\ status'[m] = "skipped" =>
                            InEdges(m) # {} /\ AllDrained(m)' /\ ~SomeTaken(m)'
                      /\ ~InPlay(m)' /\ status'[m] # "skipped" => ~AllDrained(m)'
    BY DEF PositionInv
  <2>1. CASE m \in zeroed
    <3>1. InEdges(m) # {}
      BY <1>3, <2>1 DEF InEdges, EdgesBetween
    <3>2. status'[m] = "skipped" <=> m \in skipped
      BY <1>2, <1>3, <2>1
    <3> QED BY <1>3, <1>8, <2>1, <3>1, <3>2
  <2>2. CASE m \notin zeroed
    <3>1. /\ status'[m] = status[m] /\ (InPlay(m)' <=> InPlay(m))
      BY <1>2, <1>3, <1>8, <2>2
    <3>2. ASSUME ~AllDrained(m) PROVE ~AllDrained(m)'
      <4>1. PICK e \in InEdges(m) : e.source \notin Drained
        BY <3>2 DEF AllDrained
      <4>2. CASE e.source = n
        BY <1>3, <2>2, <4>1, <4>2 DEF EdgesBetween, InEdges
      <4>3. CASE e.source # n
        BY <1>3, <4>1, <4>3 DEF AllDrained
      <4> QED BY <4>2, <4>3
    <3> QED BY <1>7, <3>1, <3>2 DEF PositionInv
  <2> QED BY <2>1, <2>2
<1>10. WaveInv'
  <2>1. \A m \in Nodes : wave'[m] <= waves'
    BY <1>2 DEF WaveInv, TypeOK
  <2>2. ASSUME NEW e \in Edges, (Started(e.target) \/ e.target \in batch)'
        PROVE  wave'[e.source] < wave'[e.target]
    <3>1. e.source \in Nodes /\ e.target \in Nodes /\ e \in InEdges(e.target)
      BY EdgesShape DEF EdgeShape, InEdges
    <3>2. Started(e.target)
      BY <1>2, <1>8, <2>2, <3>1
    <3>3. e.source \in Drained /\ e.target \notin skipped
      BY <1>3, <3>1, <3>2 DEF PositionInv, InPlay, AllDrained, Started
    <3> QED BY <1>2, <1>3, <3>1, <3>2, <3>3 DEF WaveInv
  <2> QED BY <2>1, <2>2 DEF WaveInv
<1> QED BY <1>1, <1>3, <1>4, <1>5, <1>9, <1>10

\* The invariant is about the state alone.
LEMMA StutterIInv == IInv /\ UNCHANGED vars => IInv'
<1> SUFFICES ASSUME IInv, UNCHANGED vars PROVE IInv'
  OBVIOUS
<1> USE DEF vars, records, counters
<1>1. TypeOK' /\ PhaseInv' /\ RecordInv' /\ WaveInv'
  BY DEF IInv, TypeOK, PhaseInv, RecordInv, WaveInv, Verdict, Decided, Lost, Started
<1>2. Drained' = Drained
  BY DEF Drained, Decided
<1>3. CountersAgree' /\ PositionInv'
  BY <1>2, Frame DEF IInv, InPlay, Started
<1> QED BY <1>1, <1>3 DEF IInv

\* No step leaves the invariant.
LEMMA NextIInv == IInv /\ [Next]_vars => IInv'
<1> SUFFICES ASSUME IInv, [Next]_vars PROVE IInv'
  OBVIOUS
<1>1. CASE Dispatch
  BY <1>1, DispatchIInv
<1>2. ASSUME NEW n \in Nodes, NodeStep(n) PROVE IInv'
  BY <1>2, NodeStepIInv
<1>3. CASE EndWave
  BY <1>3, EndWaveIInv
<1>4. ASSUME NEW n \in Nodes, Settle(n) PROVE IInv'
  BY <1>4, SettleIInv
<1>5. CASE EndSettle \/ Finish
  BY <1>5, EndSettleIInv
<1>6. CASE Resume
  BY <1>6, ResumeIInv
<1>7. CASE Returned \/ UNCHANGED vars
  BY <1>7, StutterIInv DEF Returned
<1> QED BY <1>1, <1>2, <1>3, <1>4, <1>5, <1>6, <1>7 DEF Next

\* The inductive invariant holds throughout every run.
THEOREM Invariance == Spec => []IInv
<1>1. Init => IInv
  BY InitIInv
<1>2. IInv /\ [Next]_vars => IInv'
  BY NextIInv
<1> QED BY <1>1, <1>2, PTL DEF Spec

-----------------------------------------------------------------------------
(***************************************************************************)
(* The properties of a run.                                                *)
(***************************************************************************)

\* The pending and taken tables of _RunState are exact counts of edges at every
\* point of every run, through skips, failures and resumes (_settle).
THEOREM CountersAreExact == Spec => []CountersAgree
<1>1. IInv => CountersAgree
  BY DEF IInv
<1> QED BY <1>1, Invariance, PTL

\* Positions read as fates.
LEMMA FatesFromPositions == IInv => FateFollowsEdges
BY EdgesShape
   DEF IInv, FateFollowsEdges, PositionInv, AllDrained, SomeTaken, InPlay,
       Drained, InEdges, EdgeShape

\* A node runs only after all of its predecessors are decided and because an
\* edge into it was taken; it is skipped only if none was (_drain_settles).
THEOREM FatesFollow == Spec => []FateFollowsEdges
BY FatesFromPositions, Invariance, PTL

\* A node runs in a later wave than all of its predecessors (_drive).
THEOREM WavesAscend == Spec => []WavesFollowEdges
<1>1. IInv => WavesFollowEdges
  BY DEF IInv, WavesFollowEdges, WaveInv
<1> QED BY <1>1, Invariance, PTL

\* Fates and waves both come from the predecessors.
THEOREM RunMovesAlongEdges == Spec => []RunFollowsEdges
BY FatesFollow, WavesAscend, PTL DEF RunFollowsEdges

\* With nothing ready and nothing failed, the loop has no other work either: a
\* node that is neither decided nor asking waits for an undecided predecessor.
LEMMA NothingLeftBehind ==
    ASSUME IInv, phase \in {"loop", "done"}, ready = {}, failures = {}
    PROVE  /\ \A n \in Nodes : status[n] # "running" /\ ~Lost(n)
           /\ \A n \in Nodes : \/ Decided(n)
                               \/ n \in awaiting
                               \/ /\ status[n] = "pending"
                                  /\ \E e \in InEdges(n) : ~Decided(e.source)
<1> USE DEF IInv
<1>1. batch = {} /\ settling = {}
  BY DEF PhaseInv
<1>2. \A n \in Nodes : status[n] # "running" /\ ~Lost(n)
  BY <1>1 DEF RecordInv
<1>3. ASSUME NEW n \in Nodes, ~Decided(n), n \notin awaiting
      PROVE  status[n] = "pending" /\ \E e \in InEdges(n) : ~Decided(e.source)
  <2>1. status[n] = "pending"
    BY <1>2, <1>3 DEF RecordInv, Decided, TypeOK, Statuses
  <2>2. ~AllDrained(n)
    BY <1>1, <2>1 DEF PositionInv, InPlay, Started
  <2> QED BY <1>1, <2>1, <2>2, EdgesShape
          DEF AllDrained, Drained, InEdges, EdgeShape
<1> QED BY <1>2, <1>3

\* On an acyclic graph that is possible only if some question is open.
LEMMA NoQuestionNothingLeft ==
    ASSUME IInv, phase \in {"loop", "done"}, ready = {}, failures = {}, awaiting = {}
    PROVE  \A n \in Nodes : Decided(n)
<1> DEFINE U == {n \in Nodes : ~Decided(n)}
<1> SUFFICES ASSUME U # {} PROVE FALSE
  OBVIOUS
<1>1. PICK n \in U : \A e \in InEdges(n) : e.source \notin U
  BY Acyclic
<1>2. \E e \in InEdges(n) : ~Decided(e.source)
  BY NothingLeftBehind
<1> QED BY <1>1, <1>2, EdgesShape DEF InEdges, EdgeShape

\* Completion is a verdict on an empty ready queue without failures or questions.
LEMMA CompletedFromIInv == IInv => CompletedRunDecidesAll
<1> SUFFICES ASSUME IInv, outcome = "completed"
             PROVE  \A n \in Nodes : Decided(n)
  BY DEF CompletedRunDecidesAll
<1>1. phase = "done" /\ ready = {} /\ failures = {} /\ awaiting = {}
  BY DEF IInv, PhaseInv, TypeOK, Verdict
<1> QED BY <1>1, NoQuestionNothingLeft

\* A run that reports completed has decided every node: the ready queue cannot
\* run dry with a join still waiting (the `while ready` loop of _drive).
THEOREM NoNodeIsForgotten == Spec => []CompletedRunDecidesAll
BY CompletedFromIInv, Invariance, PTL

\* A run pauses only when everything that does not depend on an answer is done
\* (NodePaused in _drive: a pause does not stop the other branches).
THEOREM PauseIsLast == Spec => []PausedRunIsQuiescent
<1>1. IInv => PausedRunIsQuiescent
  <2> SUFFICES ASSUME IInv, outcome = "paused" PROVE PausedRunIsQuiescent
    BY DEF PausedRunIsQuiescent
  <2>1. phase = "done" /\ ready = {} /\ failures = {} /\ awaiting # {}
    BY DEF IInv, PhaseInv, TypeOK, Verdict
  <2> QED BY <2>1, NothingLeftBehind DEF PausedRunIsQuiescent
<1> QED BY <1>1, Invariance, PTL

\* Both ways: _drive ends without a failure only when nothing can run.
THEOREM LoopRunsDry == Spec => []EndsWhenNothingCanRun
BY NoNodeIsForgotten, PauseIsLast, PTL DEF EndsWhenNothingCanRun

\* Only a node that is not decided ends,
LEMMA NodeStepKeepsFates ==
    ASSUME TypeOK, NEW n \in Nodes, NodeStep(n), NEW m \in Nodes
    PROVE  FateStays(m)
<1> USE DEF TypeOK, UnchangedByNode, Decided, FateStays
<1>1. CASE Start(n)
  BY <1>1 DEF Start
<1>2. CASE Retry(n)
  BY <1>2 DEF Retry, Executing
<1>3. CASE Complete(n)
  BY <1>3 DEF Complete, Executing
<1>4. CASE Pause(n)
  BY <1>4 DEF Pause, Executing
<1>5. CASE Fail(n)
  BY <1>5 DEF Fail, Executing
<1> QED BY <1>1, <1>2, <1>3, <1>4, <1>5 DEF NodeStep

\* only a pending one is skipped,
LEMMA SettleKeepsFates ==
    ASSUME IInv, NEW n \in Nodes, Settle(n), NEW m \in Nodes
    PROVE  FateStays(m)
<1>1. \A t \in SkippedBy(n) : status[t] = "pending"
  BY SettleEffect DEF SkippedBy
<1>2. /\ status' = [t \in Nodes |-> IF t \in SkippedBy(n) THEN "skipped" ELSE status[t]]
      /\ wave' = [t \in Nodes |-> IF t \in SkippedBy(n) THEN waves ELSE wave[t]]
      /\ UNCHANGED <<branch, attempts>>
  BY DEF Settle, Zeroed, SkippedBy
<1> QED BY <1>1, <1>2 DEF Decided, FateStays

\* and no other step touches the records of a decided node.
LEMMA NextKeepsFates ==
    ASSUME IInv, [Next]_vars, NEW m \in Nodes
    PROVE  FateStays(m)
<1>1. CASE Dispatch
  <2>1. Decided(m) => m \notin ready
    BY DEF IInv, RecordInv, Decided
  <2> QED BY <1>1, <2>1 DEF Dispatch, FateStays
<1>2. ASSUME NEW n \in Nodes, NodeStep(n) PROVE FateStays(m)
  BY <1>2, NodeStepKeepsFates DEF IInv
<1>3. ASSUME NEW n \in Nodes, Settle(n) PROVE FateStays(m)
  BY <1>3, SettleKeepsFates
<1>4. CASE EndWave \/ EndSettle \/ Finish \/ Returned \/ UNCHANGED vars
  BY <1>4 DEF EndWave, EndSettle, Finish, Returned, records, vars, FateStays
<1>5. CASE Resume
  BY <1>5 DEF Resume, IInv, RecordInv, Decided, FateStays
<1> QED BY <1>1, <1>2, <1>3, <1>4, <1>5 DEF Next

\* No step of a run, resume included, revises a decided node: its status, its
\* branch, its attempts and its wave stay what they are.
THEOREM FatesAreFinal == Spec => FateIsFinal
<1>1. IInv /\ [Next]_vars => [\A n \in Nodes : FateStays(n)]_vars
  BY NextKeepsFates
<1> QED BY <1>1, Invariance, PTL DEF Spec, FateIsFinal

-----------------------------------------------------------------------------
(***************************************************************************)
(* Scheduler implements Dataflow: status, branch and outcome are mapped to *)
(* themselves, and the waves, queues and counters are hidden.              *)
(***************************************************************************)

\* How an absorbed failure shows: a failed node was recovered exactly if it has
\* a branch to route to (_apply_error_strategy), and a node that has not ended
\* has neither mark.
ChoiceInv ==
    \A n \in Nodes :
        /\ status[n] \in {"pending", "running", "paused"} =>
              branch[n] = NoBranch /\ ~recovered[n]
        /\ status[n] = "failed" => (recovered[n] <=> branch[n] # NoBranch)

\* No node has ended.
LEMMA InitChoiceInv == Init => ChoiceInv
BY DEF Init, ChoiceInv

\* _apply_error_strategy sets both marks or none.
LEMMA NodeStepChoiceInv ==
    ASSUME TypeOK, ChoiceInv, NEW n \in Nodes, NodeStep(n)
    PROVE  ChoiceInv'
<1> USE DEF TypeOK, ChoiceInv, Executing
<1>0. ErrorBranch[n] # NoBranch
  BY PolicyShape, NoBranchIsNoLabel
<1>1. CASE Start(n)
  BY <1>1 DEF Start
<1>2. CASE Retry(n)
  BY <1>2 DEF Retry
<1>3. CASE Complete(n)
  BY <1>3 DEF Complete
<1>4. CASE Pause(n)
  BY <1>4 DEF Pause
<1>5. CASE Fail(n)
  BY <1>0, <1>5 DEF Fail
<1> QED BY <1>1, <1>2, <1>3, <1>4, <1>5 DEF NodeStep

\* No step leaves it.
LEMMA NextChoiceInv == IInv /\ ChoiceInv /\ [Next]_vars => ChoiceInv'
<1> SUFFICES ASSUME IInv, ChoiceInv, [Next]_vars PROVE ChoiceInv'
  OBVIOUS
<1>1. ASSUME NEW n \in Nodes, NodeStep(n) PROVE ChoiceInv'
  BY <1>1, NodeStepChoiceInv DEF IInv
<1>2. ASSUME NEW n \in Nodes, Settle(n) PROVE ChoiceInv'
  BY <1>2 DEF Settle, ChoiceInv
<1>3. CASE Resume
  BY <1>3 DEF Resume, ChoiceInv
<1>4. CASE Dispatch \/ EndWave \/ EndSettle \/ Finish \/ Returned \/ UNCHANGED vars
  BY <1>4 DEF Dispatch, EndWave, EndSettle, Finish, Returned, records, vars, ChoiceInv
<1> QED BY <1>1, <1>2, <1>3, <1>4 DEF Next

-----------------------------------------------------------------------------
(***************************************************************************)
(* What a decision takes.                                                  *)
(***************************************************************************)

\* How a branch shows where a node came from: a default names none and replaces
\* the failures of on_error=default only, a decision that completed by itself
\* names one of its labels, a routed failure the label it is routed to; only
\* questions pause, and a skipped node has named nothing.
LabelInv ==
    \A n \in Nodes :
        /\ Defaulted(n) => branch[n] = NoBranch /\ OnError[n] = "default"
        /\ Kind[n] = "decision" /\ status[n] = "completed" /\ ~recovered[n] =>
              branch[n] \in BranchLabels(n)
        /\ status[n] = "failed" => branch[n] \in BranchLabels(n) \cup {NoBranch}
        /\ status[n] = "skipped" => branch[n] = NoBranch
        /\ status[n] = "paused" => Kind[n] = "await"

\* A decision completes with a label, and a default names none.
LEMMA NodeStepLabelInv ==
    ASSUME TypeOK, LabelInv, ChoiceInv, NEW n \in Nodes, NodeStep(n)
    PROVE  LabelInv'
<1> USE DEF TypeOK, LabelInv, ChoiceInv, Executing, Defaulted
<1>1. CASE Start(n)
  BY <1>1 DEF Start
<1>2. CASE Retry(n)
  BY <1>2 DEF Retry
<1>3. CASE Complete(n)
  <2>1. Kind[n] = "decision" => Choices(n) = BranchLabels(n)
    BY DEF Choices
  <2> QED BY <1>3, <2>1 DEF Complete
<1>4. CASE Pause(n)
  BY <1>4 DEF Pause
<1>5. CASE Fail(n)
  BY <1>5 DEF Fail, RoutesError
<1> QED BY <1>1, <1>2, <1>3, <1>4, <1>5 DEF NodeStep

\* No step leaves it; what settling skips was pending, and resume completes only
\* questions.
LEMMA NextLabelInv ==
    ASSUME IInv, LabelInv, ChoiceInv, [Next]_vars
    PROVE  LabelInv'
<1>1. ASSUME NEW n \in Nodes, NodeStep(n) PROVE LabelInv'
  BY <1>1, NodeStepLabelInv DEF IInv
<1>2. ASSUME NEW n \in Nodes, Settle(n) PROVE LabelInv'
  <2>1. /\ status' = [t \in Nodes |-> IF t \in SkippedBy(n) THEN "skipped" ELSE status[t]]
        /\ UNCHANGED <<branch, recovered>>
    BY <1>2 DEF Settle, SkippedBy, Zeroed
  <2>2. \A t \in SkippedBy(n) : status[t] = "pending"
    BY <1>2, SettleEffect DEF SkippedBy
  <2> QED BY <2>1, <2>2 DEF LabelInv, ChoiceInv, Defaulted, IInv, TypeOK
<1>3. CASE Resume
  BY <1>3 DEF Resume, LabelInv, ChoiceInv, IInv, RecordInv, Defaulted
<1>4. CASE Dispatch \/ EndWave \/ EndSettle \/ Finish \/ Returned \/ UNCHANGED vars
  BY <1>4 DEF Dispatch, EndWave, EndSettle, Finish, Returned, records, vars, LabelInv,
              Defaulted
<1> QED BY <1>1, <1>2, <1>3, <1>4 DEF Next

\* The edges a settled decision takes carry its branch, or every label if it has
\* been replaced by a default.
LEMMA OneLabelTaken ==
    ASSUME IInv, LabelInv
    PROVE  DecisionTakesOneLabel
<1> SUFFICES ASSUME NEW n \in Nodes, Kind[n] = "decision", Decided(n)
             PROVE  /\ ~Defaulted(n) => LabelsTaken(n) = {branch[n]} \ {NoBranch}
                    /\ status[n] = "completed" /\ ~Defaulted(n) =>
                          branch[n] \in BranchLabels(n)
                    /\ Defaulted(n) => LabelsTaken(n) = BranchLabels(n)
                    /\ \A t \in Nodes :
                          HangsOn(t, n, BranchLabels(n) \ LabelsTaken(n)) => ~Started(t)
  BY DEF DecisionTakesOneLabel
<1>1. status[n] = "completed" /\ ~Defaulted(n) => branch[n] \in BranchLabels(n)
  BY DEF LabelInv, Defaulted
<1>2. ~Defaulted(n) => LabelsTaken(n) = {branch[n]} \ {NoBranch}
  <2> SUFFICES ASSUME ~Defaulted(n)
               PROVE  LabelsTaken(n) = {branch[n]} \ {NoBranch}
    OBVIOUS
  <2>1. branch[n] \in BranchLabels(n) \cup {NoBranch}
    BY <1>1 DEF LabelInv, Decided
  <2>2. branch[n] # NoBranch => status[n] # "skipped"
    BY DEF LabelInv
  <2>3. ASSUME NEW e \in OutEdges(n), EdgeTaken(e), e.branch # NoBranch
        PROVE  e.branch = branch[n]
    <3>1. branch[n] # NoBranch \/ status[n] # "completed"
      BY <1>1 DEF BranchLabels
    <3> QED BY <2>3, <3>1 DEF OutEdges, EdgeTaken, Takes
  <2>4. ASSUME branch[n] # NoBranch
        PROVE  \E e \in OutEdges(n) : EdgeTaken(e) /\ e.branch = branch[n]
    <3>1. PICK e \in OutEdges(n) : e.branch = branch[n]
      BY <2>1, <2>4 DEF BranchLabels
    <3>2. e.source = n
      BY DEF OutEdges
    <3> QED BY <2>2, <2>4, <3>1, <3>2 DEF EdgeTaken, Takes, Decided
  <2> QED BY <2>3, <2>4 DEF LabelsTaken
<1>3. Defaulted(n) => LabelsTaken(n) = BranchLabels(n)
  <2> SUFFICES ASSUME Defaulted(n) PROVE LabelsTaken(n) = BranchLabels(n)
    OBVIOUS
  <2>1. branch[n] = NoBranch /\ ErrorLabel(n) = NoBranch /\ status[n] = "completed"
    BY DEF LabelInv, Defaulted, ErrorLabel
  <2>2. \A e \in OutEdges(n) : EdgeTaken(e)
    BY <2>1 DEF OutEdges, EdgeTaken, Takes
  <2> QED BY <2>2 DEF LabelsTaken, BranchLabels
<1>4. ASSUME NEW t \in Nodes, HangsOn(t, n, BranchLabels(n) \ LabelsTaken(n))
      PROVE  ~Started(t)
  <2>1. SUFFICES ASSUME Started(t) PROVE FALSE
    OBVIOUS
  <2>2. PICK e \in InEdges(t) : EdgeTaken(e)
    BY <1>4, <2>1 DEF HangsOn, IInv, PositionInv, InPlay, SomeTaken
  <2>3. e.source = n /\ e.branch \in BranchLabels(n) \ LabelsTaken(n) /\ e \in Edges
    BY <1>4 DEF HangsOn, InEdges
  <2> QED BY <2>2, <2>3 DEF LabelsTaken, BranchLabels, OutEdges
<1> QED BY <1>1, <1>2, <1>3, <1>4

\* In every graph, a settled decision takes the one label it named or its failure
\* was routed to, and what hangs on the others does not run (DecisionNode,
\* _validated_branch and _settle); a decision replaced by a default takes them all
\* (_apply_error_strategy).
THEOREM OneLabelRuns == Spec => []DecisionTakesOneLabel
<1>1. Init => LabelInv
  BY DEF Init, LabelInv, Defaulted
<1>2. IInv /\ ChoiceInv /\ LabelInv /\ [Next]_vars => LabelInv'
  BY NextLabelInv
<1>3. IInv /\ LabelInv => DecisionTakesOneLabel
  BY OneLabelTaken
<1>4. IInv /\ ChoiceInv /\ [Next]_vars => ChoiceInv'
  BY NextChoiceInv
<1> QED BY <1>1, <1>2, <1>3, <1>4, InitChoiceInv, Invariance, PTL DEF Spec

-----------------------------------------------------------------------------
(***************************************************************************)
(* What a node is given.                                                   *)
(***************************************************************************)

\* The target of an edge lies behind its source, and behind what that is behind.
LEMMA EdgesLeadBehind ==
    ASSUME NEW e \in Edges, NEW q \in Nodes, e.source = q \/ e.source \in Behind[q]
    PROVE  e.target \in Behind[q]
<1>1. e.target \in Nodes
  BY EdgesShape DEF EdgeShape
<1>2. ASSUME NEW S \in SUBSET Nodes,
             \A d \in Edges : d.source \in S \cup {q} => d.target \in S
      PROVE  e.target \in S
  BY <1>2 DEF Behind
<1> QED BY <1>1, <1>2 DEF Behind

\* Of a paused run, whatever is not decided and asks nothing lies behind a question.
LEMMA QuestionsBlock ==
    ASSUME IInv, outcome = "paused",
           NEW n \in Nodes, ~Decided(n), n \notin awaiting
    PROVE  \E q \in awaiting : n \in Behind[q]
<1> DEFINE U == {m \in Nodes : /\ ~Decided(m) /\ m \notin awaiting
                               /\ ~\E q \in awaiting : m \in Behind[q]}
<1>1. U # {} => \E m \in U : \A e \in InEdges(m) : e.source \notin U
  BY Acyclic
<1>2. phase = "done" /\ ready = {} /\ failures = {} /\ awaiting \subseteq Nodes
  BY DEF IInv, PhaseInv, TypeOK, Verdict
<1>3. ASSUME NEW m \in U, \A e \in InEdges(m) : e.source \notin U PROVE FALSE
  <2>1. PICK e \in InEdges(m) : ~Decided(e.source)
    BY <1>2, NothingLeftBehind
  <2>2. e \in Edges /\ e.source \in Nodes /\ e.target = m
    BY EdgesShape DEF InEdges, EdgeShape
  <2>3. PICK q \in awaiting : e.source = q \/ e.source \in Behind[q]
    BY <1>3, <2>1, <2>2
  <2> QED BY <1>2, <2>2, <2>3, EdgesLeadBehind
<1> QED BY <1>1, <1>3

Awaited(n) == \E q \in Nodes : Answered(q) /\ n \in Behind[q]

\* The outputs are those of the nodes that completed or were absorbed and have
\* left their wave; one that is missing is missing only to nodes behind a question.
GivenInv ==
    /\ \A n \in batch : upstream[n] = Predecessors(n) \cap outputs
    /\ \A n \in outputs : HasOutputs(n)
    /\ \A n \in Nodes : status[n] = "completed" => n \in outputs \cup batch
    /\ \A n \in Nodes : status[n] = "paused" => Kind[n] = "await"
    /\ \A p \in Nodes \ (outputs \cup batch) : HasOutputs(p) =>
           \A n \in Nodes : n \in batch \/ ~Decided(n) => Awaited(n)

\* A run begins without outputs.
LEMMA InitGivenInv == Init => GivenInv
BY DEF Init, GivenInv, HasOutputs

\* A node that ends is in its wave, where nobody looks for its outputs yet.
LEMMA NodeStepGivenInv ==
    ASSUME IInv, GivenInv, NEW n \in Nodes, NodeStep(n)
    PROVE  GivenInv'
<1>1. /\ n \in batch /\ status[n] \in {"pending", "running"}
      /\ UNCHANGED <<batch, outputs, upstream>>
      /\ \A m \in Nodes \ {n} : status'[m] = status[m] /\ recovered'[m] = recovered[m]
      /\ status'[n] = "paused" => Kind[n] = "await"
  BY DEF NodeStep, Start, Retry, Complete, Pause, Fail, Executing, UnchangedByNode,
         IInv, TypeOK
<1>2. \A m \in Nodes \ {n} : /\ HasOutputs(m)' <=> HasOutputs(m)
                             /\ Decided(m)' <=> Decided(m)
                             /\ Answered(m)' <=> Answered(m)
  BY <1>1 DEF HasOutputs, Decided, Answered
<1>3. ~HasOutputs(n) /\ ~Answered(n)
  BY <1>1 DEF HasOutputs, Answered
<1>4. \A m \in Nodes : Awaited(m) => Awaited(m)'
  BY <1>2, <1>3 DEF Awaited
<1>5. outputs \subseteq Nodes /\ batch \subseteq Nodes
  BY DEF IInv, TypeOK
<1>6. \A m \in batch : upstream'[m] = Predecessors(m) \cap outputs'
  BY <1>1 DEF GivenInv
<1>7. \A m \in outputs' : HasOutputs(m)'
  BY <1>1, <1>2, <1>3, <1>5 DEF GivenInv
<1>8. \A m \in Nodes : status'[m] = "completed" => m \in outputs' \cup batch'
  BY <1>1 DEF GivenInv
<1>9. \A m \in Nodes : status'[m] = "paused" => Kind[m] = "await"
  BY <1>1 DEF GivenInv
<1>10. ASSUME NEW p \in Nodes \ (outputs' \cup batch'), HasOutputs(p)',
              NEW m \in Nodes, m \in batch' \/ ~Decided(m)'
       PROVE  Awaited(m)'
  <2>1. p # n /\ HasOutputs(p) /\ p \in Nodes \ (outputs \cup batch)
    BY <1>1, <1>2, <1>10
  <2>2. m \in batch \/ ~Decided(m)
    BY <1>1, <1>2, <1>10
  <2> QED BY <1>4, <2>1, <2>2 DEF GivenInv
<1> QED BY <1>1, <1>6, <1>7, <1>8, <1>9, <1>10 DEF GivenInv

\* The outputs of a wave are entered when it is over.
LEMMA EndWaveGivenInv ==
    ASSUME IInv, GivenInv, EndWave
    PROVE  GivenInv'
<1> DEFINE settled == {n \in batch : ~Lost(n) /\ status[n] # "paused"}
<1>1. /\ outputs' = outputs \cup settled /\ batch' = {}
      /\ UNCHANGED <<status, recovered, upstream>>
      /\ \A n \in batch : status[n] \notin {"pending", "running"}
  BY DEF EndWave, records
<1>2. batch \subseteq Nodes /\ \A n \in batch : status[n] \in {"completed", "failed", "paused"}
  BY <1>1 DEF IInv, TypeOK, RecordInv, Statuses
<1>3. \A n \in batch : n \in settled <=> HasOutputs(n)
  BY <1>2 DEF HasOutputs, Lost
<1>4. \A n : /\ HasOutputs(n)' <=> HasOutputs(n)
             /\ Decided(n)' <=> Decided(n)
             /\ Awaited(n)' <=> Awaited(n)
  BY <1>1 DEF HasOutputs, Decided, Answered, Awaited
<1>5. \A n \in outputs' : HasOutputs(n)'
  BY <1>1, <1>3, <1>4 DEF GivenInv
<1>6. \A n \in Nodes : status'[n] = "completed" => n \in outputs' \cup batch'
  BY <1>1, <1>3 DEF GivenInv, HasOutputs
<1> QED BY <1>1, <1>3, <1>4, <1>5, <1>6 DEF GivenInv

\* A target that is skipped has not run.
LEMMA SettleGivenInv ==
    ASSUME IInv, GivenInv, NEW n \in Nodes, Settle(n)
    PROVE  GivenInv'
<1>1. batch = {} /\ \A t \in SkippedBy(n) : status[t] = "pending"
  BY SettleEffect DEF SkippedBy
<1>2. /\ status' = [t \in Nodes |-> IF t \in SkippedBy(n) THEN "skipped" ELSE status[t]]
      /\ UNCHANGED <<batch, recovered, outputs, upstream>>
  BY DEF Settle, SkippedBy, Zeroed
<1>3. \A m \in Nodes : /\ HasOutputs(m)' <=> HasOutputs(m)
                       /\ Answered(m)' <=> Answered(m)
                       /\ Decided(m) => Decided(m)'
                       /\ status'[m] = "completed" => status[m] = "completed"
                       /\ status'[m] = "paused" => status[m] = "paused"
  BY <1>1, <1>2 DEF HasOutputs, Answered, Decided
<1>4. \A m \in Nodes : Awaited(m) => Awaited(m)'
  BY <1>3 DEF Awaited
<1>5. outputs \subseteq Nodes
  BY DEF IInv, TypeOK
<1> QED BY <1>1, <1>2, <1>3, <1>4, <1>5 DEF GivenInv

\* A resume drops outputs, of nodes that are decided; whoever is left waited for
\* an answer that has now been given.
LEMMA ResumeGivenInv ==
    ASSUME IInv, ChoiceInv, GivenInv, Resume
    PROVE  GivenInv'
<1>1. /\ outcome = "paused" /\ batch = {}
      /\ awaiting = {n \in Nodes : status[n] = "paused"}
  BY DEF Resume, IInv, PhaseInv, RecordInv
<1>2. /\ status' = [n \in Nodes |-> IF n \in awaiting THEN "completed" ELSE status[n]]
      /\ outputs' = {n \in Nodes : status'[n] = "completed"}
      /\ UNCHANGED <<recovered, batch>>
  BY DEF Resume
<1>3. \A q \in awaiting : q \in Nodes /\ Answered(q)'
  BY <1>1, <1>2 DEF Answered, GivenInv, ChoiceInv
<1>4. ASSUME NEW n \in Nodes, ~Decided(n)' PROVE Awaited(n)'
  <2>1. ~Decided(n) /\ n \notin awaiting
    BY <1>2, <1>4 DEF Decided
  <2>2. PICK q \in awaiting : n \in Behind[q]
    BY <1>1, <2>1, QuestionsBlock
  <2> QED BY <1>3, <2>2 DEF Awaited
<1>5. \A n \in outputs' : HasOutputs(n)'
  BY <1>2 DEF HasOutputs
<1>6. \A n \in Nodes : status'[n] # "paused"
  BY <1>1, <1>2
<1> QED BY <1>1, <1>2, <1>4, <1>5, <1>6 DEF GivenInv

\* Every step keeps it.
LEMMA NextGivenInv ==
    ASSUME IInv, ChoiceInv, GivenInv, [Next]_vars
    PROVE  GivenInv'
<1>1. CASE Dispatch
  <2>1. /\ batch = {} /\ batch' = ready /\ ready \subseteq Nodes
        /\ \A n \in ready : status[n] = "pending" /\ upstream'[n] = Predecessors(n) \cap outputs
        /\ UNCHANGED <<status, recovered, outputs>>
    BY <1>1 DEF Dispatch, IInv, PhaseInv, RecordInv, TypeOK
  <2>2. \A n : /\ HasOutputs(n)' <=> HasOutputs(n)
               /\ Decided(n)' <=> Decided(n)
               /\ Awaited(n)' <=> Awaited(n)
    BY <2>1 DEF HasOutputs, Decided, Answered, Awaited
  <2>3. \A n \in ready : ~Decided(n)
    BY <2>1 DEF Decided
  <2> QED BY <2>1, <2>2, <2>3 DEF GivenInv
<1>2. ASSUME NEW n \in Nodes, NodeStep(n) PROVE GivenInv'
  BY <1>2, NodeStepGivenInv
<1>3. CASE EndWave
  BY <1>3, EndWaveGivenInv
<1>4. ASSUME NEW n \in Nodes, Settle(n) PROVE GivenInv'
  BY <1>4, SettleGivenInv
<1>5. CASE Resume
  BY <1>5, ResumeGivenInv
<1>6. CASE EndSettle \/ Finish \/ Returned \/ UNCHANGED vars
  <2>1. UNCHANGED <<status, recovered, batch, outputs, upstream>>
    BY <1>6 DEF EndSettle, Finish, Returned, vars, records
  <2> QED BY <2>1 DEF GivenInv, HasOutputs, Decided, Answered, Awaited
<1> QED BY <1>1, <1>2, <1>3, <1>4, <1>5, <1>6 DEF Next

\* A node is given the outputs of all its predecessors that have any, whatever
\* happened between them and it; an absorbed failure's can be missing only if
\* the node lies behind a question (execute, _state_from_checkpoint).
THEOREM NodesGetWhatThereIs == Spec => []InputsAreWhole
<1>1. IInv /\ GivenInv => InputsAreWhole
  <2> SUFFICES ASSUME IInv, GivenInv, NEW n \in batch
               PROVE  /\ \A p \in upstream[n] : p \in Predecessors(n) /\ HasOutputs(p)
                      /\ \A p \in Predecessors(n) \ upstream[n] :
                            /\ status[p] # "completed"
                            /\ HasOutputs(p) => Awaited(n)
    BY DEF InputsAreWhole, Awaited
  <2>1. n \in Nodes /\ upstream[n] = Predecessors(n) \cap outputs
    BY DEF IInv, TypeOK, GivenInv
  <2>2. \A p \in Predecessors(n) : p \in Nodes /\ p \notin batch
    BY <2>1, EdgesShape
       DEF IInv, PositionInv, InPlay, AllDrained, Drained, Predecessors, InEdges, EdgeShape
  <2> QED BY <2>1, <2>2 DEF GivenInv
<1>2. Init => IInv /\ ChoiceInv /\ GivenInv
  BY InitIInv, InitChoiceInv, InitGivenInv
<1>3. IInv /\ ChoiceInv /\ GivenInv /\ [Next]_vars => (IInv /\ ChoiceInv /\ GivenInv)'
  BY NextIInv, NextChoiceInv, NextGivenInv
<1> QED BY <1>1, <1>2, <1>3, PTL DEF Spec

-----------------------------------------------------------------------------

\* Both modules speak of the same graph and the same rule for taking an edge.
LEMMA SameGraph ==
    /\ \A n : /\ Promise!InEdges(n) = InEdges(n)
              /\ Promise!Choices(n) = Choices(n)
              /\ Promise!RoutesError(n) <=> RoutesError(n)
    /\ Promise!Roots = Roots
    /\ Promise!Branches = Branches
    /\ \A e : Promise!EdgeTaken(e) <=> EdgeTaken(e)
BY DEF Promise!InEdges, InEdges, Promise!Choices, Choices, Promise!RoutesError,
       RoutesError, Promise!Roots, Roots, Promise!Branches, Branches,
       Promise!BranchLabels, BranchLabels, Promise!OutEdges, OutEdges,
       Promise!EdgeTaken, EdgeTaken, Promise!Takes, Takes, Promise!ErrorLabel,
       ErrorLabel

\* A failure ends the run of the one exactly if it ends that of the other.
LEMMA SameLost ==
    ASSUME ChoiceInv, NEW n \in Nodes
    PROVE  /\ Promise!Lost(n) <=> Lost(n)
           /\ Promise!Settled(n) <=> Decided(n) /\ ~Lost(n)
BY DEF ChoiceInv, Promise!Lost, Lost, Promise!Settled, Decided

\* A released node has all its predecessors settled.
LEMMA DrainedIsSettled ==
    ASSUME IInv, ChoiceInv, NEW n \in Nodes, AllDrained(n)
    PROVE  Promise!AllSettled(n)
BY EdgesShape, SameGraph, SameLost
   DEF IInv, RecordInv, AllDrained, Drained, Promise!AllSettled, InEdges, EdgeShape

\* A node that gets its slot may begin,
LEMMA StartBegins ==
    ASSUME IInv, ChoiceInv, NEW n \in Nodes, Start(n)
    PROVE  Promise!Begin(n)
<1>1. AllDrained(n) /\ (InEdges(n) = {} \/ SomeTaken(n))
  BY DEF Start, IInv, PositionInv, InPlay
<1>2. Promise!Reached(n)
  BY <1>1, DrainedIsSettled, SameGraph
     DEF Promise!Reached, Promise!SomeTaken, SomeTaken, Roots
<1> QED BY <1>2 DEF Start, Promise!Begin, UnchangedByNode, IInv, PhaseInv

\* and ends as its kind and policy allow.
LEMMA NodeEnds ==
    ASSUME IInv, ChoiceInv, NEW n \in Nodes, Complete(n) \/ Pause(n) \/ Fail(n)
    PROVE  Promise!End(n)
<1>1. /\ outcome = "running" /\ status[n] = "running" /\ branch[n] = NoBranch
      /\ UNCHANGED outcome
      /\ branch = [branch EXCEPT ![n] = NoBranch]
  BY DEF Complete, Pause, Fail, Executing, UnchangedByNode, IInv, PhaseInv,
         ChoiceInv, TypeOK
<1>2. NoBranch \in Branches /\ ErrorBranch[n] \in Branches /\ Choices(n) \subseteq Branches
  BY ChoicesAreBranches DEF Branches
<1> USE <1>1, <1>2, SameGraph DEF Promise!End, Promise!Ends
<1>3. CASE Complete(n)
  BY <1>3 DEF Complete
<1>4. CASE Pause(n)
  BY <1>4 DEF Pause, Executing
<1>5. CASE Fail(n)
  BY <1>5 DEF Fail
<1> QED BY <1>3, <1>4, <1>5

\* A target that is skipped had every predecessor settled and no edge taken.
LEMMA SettleSkips ==
    ASSUME IInv, ChoiceInv, NEW n \in Nodes, Settle(n)
    PROVE  Promise!Skip \/ UNCHANGED Promise!vars
<1>1. /\ outcome = "running" /\ Decided(n) /\ ~Lost(n)
      /\ status' = [t \in Nodes |-> IF t \in SkippedBy(n) THEN "skipped" ELSE status[t]]
      /\ UNCHANGED <<branch, outcome>>
  BY DEF Settle, SkippedBy, Zeroed, IInv, PhaseInv, RecordInv
<1>2. CASE SkippedBy(n) = {}
  BY <1>1, <1>2 DEF IInv, TypeOK, Promise!vars
<1>3. CASE SkippedBy(n) # {}
  <2>1. ASSUME NEW t \in SkippedBy(n)
        PROVE  t \in Promise!Undecided /\ Promise!CutOff(t)
    <3>1. /\ t \in Nodes /\ status[t] = "pending" /\ EdgesBetween(n, t) # {}
          /\ AllDrained(t)' /\ ~SomeTaken(t)'
          /\ Drained' = Drained \cup {n}
          /\ \A m \in Drained' : status'[m] = status[m]
      BY SettleEffect
    <3>2. \A e \in InEdges(t) : EdgeTaken(e)' <=> EdgeTaken(e)
      BY <1>1, <3>1 DEF AllDrained, EdgeTaken
    <3>3. \A e \in InEdges(t) : e.source \in Nodes /\ Decided(e.source) /\ ~Lost(e.source)
      BY <1>1, <3>1, EdgesShape
         DEF AllDrained, Drained, IInv, RecordInv, InEdges, EdgeShape
    <3>4. Promise!AllSettled(t)
      BY <3>3, SameLost, SameGraph DEF Promise!AllSettled
    <3>5. t \notin Promise!Roots /\ ~Promise!SomeTaken(t)
      BY <3>1, <3>2, SameGraph
         DEF Roots, InEdges, EdgesBetween, SomeTaken, Promise!SomeTaken
    <3> QED BY <3>1, <3>4, <3>5 DEF Promise!Undecided, Promise!CutOff
  <2> QED BY <1>1, <1>3, <2>1 DEF Promise!Skip
<1> QED BY <1>2, <1>3

\* The verdict is the one the nodes call for.
LEMMA FinishConcludes ==
    ASSUME IInv, ChoiceInv, Finish
    PROVE  Promise!Conclude
<1>1. /\ phase = "loop" /\ outcome = "running" /\ batch = {}
      /\ outcome' = Verdict /\ UNCHANGED <<status, branch>>
      /\ ready = {} \/ failures # {}
  BY DEF Finish, IInv, PhaseInv, records
<1>2. CASE failures # {}
  <2>1. PICK n \in Nodes : n \in failures
    BY <1>2 DEF IInv, TypeOK
  <2>2. Promise!Lost(n)
    BY <2>1, SameLost DEF IInv, RecordInv
  <2>3. \A m \in Nodes : status[m] # "running"
    BY <1>1 DEF IInv, RecordInv
  <2> QED BY <1>1, <1>2, <2>2, <2>3 DEF Promise!Conclude, Verdict
<1>3. CASE failures = {} /\ awaiting # {}
  <2>1. ready = {}
    BY <1>1, <1>3
  <2>2. \A n \in Nodes : status[n] # "running" /\ ~Lost(n)
    BY <1>1, <1>3, <2>1, NothingLeftBehind
  <2>3. ASSUME NEW n \in Nodes, status[n] = "pending"
        PROVE  ~Promise!AllSettled(n)
    <3>1. PICK e \in InEdges(n) : ~Decided(e.source)
      BY <1>1, <1>3, <2>1, <2>3, NothingLeftBehind DEF Decided, IInv, RecordInv
    <3>2. e.source \in Nodes
      BY EdgesShape DEF InEdges, EdgeShape
    <3> QED BY <3>1, <3>2, SameGraph, SameLost DEF Promise!AllSettled
  <2>4. Promise!Quiet
    BY <2>2, <2>3 DEF Promise!Quiet, Promise!Reached, Promise!CutOff
  <2>5. Promise!Asking # {}
    BY <1>3 DEF Promise!Asking, IInv, RecordInv
  <2> QED BY <1>1, <1>3, <2>2, <2>4, <2>5, SameLost DEF Promise!Conclude, Verdict
<1>4. CASE failures = {} /\ awaiting = {}
  <2>1. \A n \in Nodes : Decided(n) /\ ~Lost(n)
    BY <1>1, <1>4, NothingLeftBehind, NoQuestionNothingLeft
  <2> QED BY <1>1, <1>4, <2>1, SameLost DEF Promise!Conclude, Verdict
<1> QED BY <1>2, <1>3, <1>4

\* A resume answers every question.
LEMMA ResumeAnswers ==
    ASSUME IInv, Resume
    PROVE  Promise!Answer
BY DEF Resume, Promise!Answer, Promise!Asking, IInv, RecordInv

\* Every step is a step of Dataflow or changes none of its variables.
LEMMA StepRefines ==
    ASSUME IInv, ChoiceInv, [Next]_vars
    PROVE  [Promise!Next]_(Promise!vars)
<1> USE DEF Promise!Next, Promise!Proceed
<1>1. ASSUME NEW n \in Nodes, NodeStep(n) PROVE [Promise!Next]_(Promise!vars)
  <2>1. CASE Start(n)
    BY <2>1, StartBegins
  <2>2. CASE Retry(n)
    BY <2>2 DEF Retry, UnchangedByNode, Promise!vars
  <2>3. CASE Complete(n) \/ Pause(n) \/ Fail(n)
    BY <2>3, NodeEnds
  <2> QED BY <1>1, <2>1, <2>2, <2>3 DEF NodeStep
<1>2. ASSUME NEW n \in Nodes, Settle(n) PROVE [Promise!Next]_(Promise!vars)
  BY <1>2, SettleSkips
<1>3. CASE Finish
  BY <1>3, FinishConcludes
<1>4. CASE Resume
  BY <1>4, ResumeAnswers
<1>5. CASE Dispatch \/ EndWave \/ EndSettle \/ Returned \/ UNCHANGED vars
  BY <1>5 DEF Dispatch, EndWave, EndSettle, Returned, records, vars, Promise!vars
<1> QED BY <1>1, <1>2, <1>3, <1>4, <1>5 DEF Next

\* Every run of the engine is a run that Dataflow allows: the driving loop, its
\* queues and its counters decide nodes in no other way than by their
\* predecessors, whatever the graph, the policies and the answers.
THEOREM Refinement == Spec => Promise!Spec
<1>1. Init => Promise!Init
  BY DEF Init, Promise!Init
<1>2. Spec => [](IInv /\ ChoiceInv)
  BY InitIInv, NextIInv, InitChoiceInv, NextChoiceInv, PTL DEF Spec
<1>3. IInv /\ ChoiceInv /\ [Next]_vars => [Promise!Next]_(Promise!vars)
  BY StepRefines
<1> QED BY <1>1, <1>2, <1>3, PTL DEF Spec, Promise!Spec

-----------------------------------------------------------------------------
(***************************************************************************)
(* The run with its store.  A checkpoint is a run at rest.  Whenever one   *)
(* is saved nothing is in flight, so Scheduler's invariant becomes a       *)
(* statement about the saved fields alone (Sound); and a run rebuilt from  *)
(* fields of which that statement holds satisfies Scheduler's invariant    *)
(* again, although what was in flight when the process died is lost.       *)
(***************************************************************************)


\* Fates, edges and reach as a record r of Checkpoints has them.
DoneIn(r, n) == r.status[n] \in {"completed", "failed", "skipped"}
TakenIn(r, e) == Takes(e, r.status[e.source], r.branch[e.source])
AllDoneIn(r, n) == \A e \in InEdges(n) : DoneIn(r, e.source)
SomeTakenIn(r, n) == \E e \in InEdges(n) : TakenIn(r, e)
RanIn(r, n) == r.status[n] \in {"completed", "failed", "paused"}

NodeSound(r, n) ==
    /\ r.attempts[n] <= MaxAttempts[n]
    /\ r.status[n] # "running"
    /\ r.status[n] = "failed" => r.recovered[n]
    /\ n \in r.awaiting <=> r.status[n] = "paused"
    /\ n \in r.ready <=> r.status[n] = "pending" /\ AllDoneIn(r, n)
    /\ RanIn(r, n) \/ n \in r.ready => /\ AllDoneIn(r, n)
                                       /\ InEdges(n) = {} \/ SomeTakenIn(r, n)
    /\ r.status[n] = "skipped" =>
          InEdges(n) # {} /\ AllDoneIn(r, n) /\ ~SomeTakenIn(r, n)
    /\ r.pending[n] = Cardinality({e \in InEdges(n) : ~DoneIn(r, e.source)})
    /\ r.taken[n] = Cardinality({e \in InEdges(n) : TakenIn(r, e)})

WavesSound(r) ==
    /\ \A n \in Nodes : r.wave[n] <= r.waves
    /\ \A e \in Edges : RanIn(r, e.target) => r.wave[e.source] < r.wave[e.target]

Sound(r) ==
    /\ r \in Checkpoints
    /\ \A n \in Nodes : NodeSound(r, n)
    /\ WavesSound(r)

StoreIsSound == store # NoCheckpoint => Sound(store)

-----------------------------------------------------------------------------
(* A run at rest is worth saving, and what was saved is a run at rest.     *)

\* Nothing is in flight.
AtRest == batch = {} /\ settling = {} /\ failures = {}

\* The fields of a run at rest are sound.
LEMMA RestIsSound ==
    ASSUME IInv, AtRest
    PROVE  Sound(Checkpoint)
<1> DEFINE r == Checkpoint
<1> USE DEF IInv, AtRest
<1>1. r \in Checkpoints
  BY DEF Checkpoint, Checkpoints, TypeOK
<1>2. /\ r.status = status /\ r.branch = branch /\ r.recovered = recovered
      /\ r.attempts = attempts /\ r.wave = wave /\ r.pending = pending
      /\ r.taken = taken /\ r.ready = ready /\ r.awaiting = awaiting
      /\ r.waves = waves
  BY DEF Checkpoint
<1> HIDE DEF r
<1>3. /\ \A n \in Nodes : n \in Drained <=> DoneIn(r, n)
      /\ \A e \in Edges : /\ TakenIn(r, e) <=> EdgeTaken(e)
                          /\ TakenIn(r, e) => e.source \in Drained
  BY <1>2, EdgesShape DEF Drained, Decided, DoneIn, TakenIn, EdgeTaken, Takes, EdgeShape
<1>4. \A n \in Nodes : /\ AllDoneIn(r, n) <=> AllDrained(n)
                       /\ SomeTakenIn(r, n) <=> SomeTaken(n)
  BY <1>3, EdgesShape DEF AllDoneIn, AllDrained, SomeTakenIn, SomeTaken, InEdges, EdgeShape
<1>5. ASSUME NEW n \in Nodes PROVE NodeSound(r, n)
  <2>1. /\ {e \in InEdges(n) : ~DoneIn(r, e.source)}
             = {e \in InEdges(n) : e.source \notin Drained}
        /\ {e \in InEdges(n) : TakenIn(r, e)}
             = {e \in InEdges(n) : e.source \in Drained /\ EdgeTaken(e)}
    BY <1>3, EdgesShape DEF InEdges, EdgeShape
  <2>2. /\ r.pending[n] = Cardinality({e \in InEdges(n) : ~DoneIn(r, e.source)})
        /\ r.taken[n] = Cardinality({e \in InEdges(n) : TakenIn(r, e)})
    BY <1>2, <2>1 DEF CountersAgree
  <2>3. /\ r.attempts[n] <= MaxAttempts[n]
        /\ r.status[n] # "running"
        /\ r.status[n] = "failed" => r.recovered[n]
        /\ n \in r.awaiting <=> r.status[n] = "paused"
    BY <1>2 DEF TypeOK, RecordInv, Lost
  <2>4. InPlay(n) <=> RanIn(r, n) \/ n \in r.ready
    BY <1>2, <2>3 DEF InPlay, Started, RanIn
  <2>5. n \in r.ready <=> r.status[n] = "pending" /\ AllDoneIn(r, n)
    BY <1>2, <1>4, <2>4 DEF RecordInv, PositionInv, InPlay, RanIn
  <2>6. /\ RanIn(r, n) \/ n \in r.ready => /\ AllDoneIn(r, n)
                                           /\ InEdges(n) = {} \/ SomeTakenIn(r, n)
        /\ r.status[n] = "skipped" =>
              InEdges(n) # {} /\ AllDoneIn(r, n) /\ ~SomeTakenIn(r, n)
    BY <1>2, <1>4, <2>4 DEF PositionInv
  <2> QED BY <2>2, <2>3, <2>5, <2>6 DEF NodeSound
<1>6. WavesSound(r)
  BY <1>2 DEF WavesSound, WaveInv, RanIn, Started
<1> QED BY <1>1, <1>5, <1>6 DEF Sound, r

\* A run rebuilt from sound fields satisfies Scheduler's invariant, with the
\* answered questions settling.
LEMMA RecoverIInv == StoreIsSound /\ Recover => IInv'
<1> SUFFICES ASSUME StoreIsSound, Recover PROVE IInv'
  OBVIOUS
<1> DEFINE r == store
<1>1. Sound(r)
  BY DEF Recover, StoreIsSound
<1>2. /\ phase' = "answers" /\ outcome' = "running" /\ batch' = {} /\ failures' = {}
      /\ awaiting' = {} /\ settling' = r.awaiting /\ ready' = r.ready
      /\ waves' = r.waves /\ wave' = r.wave /\ branch' = r.branch
      /\ recovered' = r.recovered /\ attempts' = r.attempts
      /\ pending' = r.pending /\ taken' = r.taken
      /\ status' = [n \in Nodes |-> IF n \in r.awaiting THEN "completed" ELSE r.status[n]]
      /\ outputs' = {n \in Nodes : status'[n] = "completed"}
      /\ upstream' = [n \in Nodes |-> {}]
  BY DEF Recover
<1> HIDE DEF r
<1>3. r \in Checkpoints /\ \A n \in Nodes : NodeSound(r, n)
  BY <1>1 DEF Sound
<1>4. /\ r.status \in [Nodes -> Statuses] /\ r.branch \in [Nodes -> Branches]
      /\ r.recovered \in [Nodes -> BOOLEAN] /\ r.attempts \in [Nodes -> Nat]
      /\ r.wave \in [Nodes -> Nat] /\ r.pending \in [Nodes -> Int]
      /\ r.taken \in [Nodes -> Int] /\ r.ready \subseteq Nodes
      /\ r.awaiting \subseteq Nodes /\ r.waves \in Nat
  BY <1>3 DEF Checkpoints
<1>5. \A n \in Nodes : status'[n] = IF r.status[n] = "paused" THEN "completed"
                                    ELSE r.status[n]
  BY <1>2, <1>3 DEF NodeSound
<1>6. TypeOK'
  BY <1>2, <1>3, <1>4 DEF TypeOK, NodeSound, Phases, Outcomes, Statuses
<1>7. PhaseInv'
  BY <1>2 DEF PhaseInv
<1>8. RecordInv'
  BY <1>2, <1>3, <1>4, <1>5 DEF RecordInv, NodeSound, Decided, Lost
<1>9. \A n \in Nodes : /\ n \in Drained' <=> DoneIn(r, n)
                       /\ DoneIn(r, n) => status'[n] = r.status[n]
  BY <1>2, <1>3, <1>4, <1>5 DEF Drained, Decided, DoneIn, NodeSound
<1>10. \A e \in Edges : e.source \in Drained' => (EdgeTaken(e)' <=> TakenIn(r, e))
  BY <1>2, <1>9, EdgesShape DEF EdgeTaken, TakenIn, EdgeShape
<1>11. \A e \in Edges : TakenIn(r, e) => e.source \in Drained'
  BY <1>9, EdgesShape DEF TakenIn, Takes, DoneIn, EdgeShape
<1>12. CountersAgree'
  <2> SUFFICES ASSUME NEW t \in Nodes
               PROVE  /\ pending'[t] = Cardinality({e \in InEdges(t) : e.source \notin Drained'})
                      /\ taken'[t] = Cardinality({e \in InEdges(t) : /\ e.source \in Drained'
                                                                  /\ EdgeTaken(e)'})
    BY DEF CountersAgree
  <2>1. /\ {e \in InEdges(t) : ~DoneIn(r, e.source)}
             = {e \in InEdges(t) : e.source \notin Drained'}
        /\ {e \in InEdges(t) : TakenIn(r, e)}
             = {e \in InEdges(t) : e.source \in Drained' /\ EdgeTaken(e)'}
    BY <1>9, <1>10, <1>11, EdgesShape DEF InEdges, EdgeShape
  <2> QED BY <1>2, <1>3, <2>1 DEF NodeSound
<1>13. PositionInv'
  <2> SUFFICES ASSUME NEW n \in Nodes
               PROVE  /\ InPlay(n)' => AllDrained(n)' /\ (InEdges(n) = {} \/ SomeTaken(n)')
                      /\ status'[n] = "skipped" =>
                            InEdges(n) # {} /\ AllDrained(n)' /\ ~SomeTaken(n)'
                      /\ ~InPlay(n)' /\ status'[n] # "skipped" => ~AllDrained(n)'
    BY DEF PositionInv
  <2>1. InPlay(n)' <=> RanIn(r, n) \/ n \in r.ready
    BY <1>2, <1>3, <1>5 DEF InPlay, Started, RanIn, NodeSound
  <2>2. AllDrained(n)' <=> AllDoneIn(r, n)
    BY <1>9, EdgesShape DEF AllDrained, AllDoneIn, InEdges, EdgeShape
  <2>3. AllDoneIn(r, n) => (SomeTaken(n)' <=> SomeTakenIn(r, n))
    BY <1>9, <1>10, EdgesShape
       DEF SomeTaken, SomeTakenIn, AllDoneIn, InEdges, EdgeShape
  <2>4. status'[n] = "skipped" <=> r.status[n] = "skipped"
    BY <1>5
  <2>5. ~RanIn(r, n) /\ r.status[n] # "skipped" => r.status[n] = "pending"
    BY <1>3, <1>4 DEF RanIn, NodeSound, Statuses
  <2> QED BY <1>3, <2>1, <2>2, <2>3, <2>4, <2>5 DEF NodeSound
<1>14. WaveInv'
  <2>1. \A n \in Nodes : Started(n)' <=> RanIn(r, n)
    BY <1>3, <1>5 DEF Started, RanIn, NodeSound
  <2> QED BY <1>1, <1>2, <2>1, EdgesShape DEF Sound, WavesSound, WaveInv, EdgeShape
<1> QED BY <1>6, <1>7, <1>8, <1>12, <1>13, <1>14 DEF IInv

-----------------------------------------------------------------------------
(* The invariant.                                                          *)

Histories ==
    /\ alive \in BOOLEAN
    /\ executions \in [Nodes -> Nat]

\* With the knob on, a driven run is ahead of the store by the wave in flight,
\* and by no wave before the first dispatch that follows a save.
Saved == IF store = NoCheckpoint THEN 0 ELSE store.waves
InFlight == IF phase \in {"gather", "settle"} \/ failures # {} THEN 1 ELSE 0
WithinOneWave == everyWave /\ alive /\ phase # "done" => waves <= Saved + InFlight

\* A process that holds the run knows at least the fates that are stored.
KnowsTheStore ==
    alive /\ store # NoCheckpoint =>
        \A n \in Nodes : Fixed(n) => status[n] = store.status[n]

DInv == IInv /\ StoreIsSound /\ Histories /\ WithinOneWave /\ KnowsTheStore

\* Nothing is stored at the start.
LEMMA InitDInv == DInit => DInv
BY InitIInv
   DEF DInit, Init, DInv, StoreIsSound, Histories, WithinOneWave, Saved, InFlight,
       KnowsTheStore

\* A crash leaves the variables of a run as they are before its first step.
LEMMA CrashIsInit == Crash => Init'
BY DEF Crash, Init

\* The store is not written: what it says of fates stays true of the run.
LEMMA StillKnows ==
    ASSUME DInv, [Next]_vars, UNCHANGED <<store, alive>>
    PROVE  StoreIsSound' /\ KnowsTheStore'
<1>1. \A n \in Nodes : Decided(n) => status'[n] = status[n]
  BY NextKeepsFates DEF DInv, FateStays
<1> QED BY <1>1 DEF DInv, StoreIsSound, KnowsTheStore, Fixed, Decided

\* Steps that do not touch the store.
LEMMA VolatileDInv == DInv /\ Volatile => DInv'
<1> SUFFICES ASSUME DInv, Volatile PROVE DInv'
  OBVIOUS
<1>1. Next /\ alive /\ UNCHANGED <<everyWave, alive, store>>
  BY DEF Volatile, StartCounted, Next, NodeStep
<1>2. IInv' /\ StoreIsSound' /\ KnowsTheStore'
  BY <1>1, NextIInv, StillKnows DEF DInv
<1>3. Histories'
  BY DEF Volatile, StartCounted, DInv, Histories
<1>4. WithinOneWave'
  <2>0. Saved' = Saved /\ waves \in Nat
    BY <1>1 DEF Saved, DInv, IInv, TypeOK
  <2> USE <1>1, <2>0 DEF DInv, WithinOneWave, InFlight
  <2>1. CASE Dispatch
    <3>1. everyWave => waves <= Saved + 0
      BY <2>1 DEF Dispatch
    <3>2. everyWave => Saved \in Int
      BY DEF Saved, StoreIsSound, Sound, Checkpoints
    <3> QED BY <2>1, <3>1, <3>2 DEF Dispatch
  <2>2. ASSUME NEW n \in Nodes, NodeStep(n) PROVE WithinOneWave'
    BY <2>2 DEF NodeStep, Start, Retry, Complete, Pause, Fail, Executing, UnchangedByNode
  <2>3. CASE EndWave
    BY <2>3 DEF EndWave
  <2>4. ASSUME NEW n \in Nodes, Settle(n) PROVE WithinOneWave'
    BY <2>4 DEF Settle
  <2> QED BY <2>1, <2>2, <2>3, <2>4 DEF Volatile, StartCounted, NodeStep
<1> QED BY <1>2, <1>3, <1>4 DEF DInv

\* What is at rest may be saved; the run goes on with the fates it saved.
LEMMA SavingDInv ==
    ASSUME DInv, AtRest, store' = Checkpoint, UNCHANGED status
    PROVE  StoreIsSound' /\ KnowsTheStore'
<1>1. Sound(Checkpoint) /\ Checkpoint.status = status
  BY RestIsSound DEF DInv, Checkpoint
<1> QED BY <1>1 DEF StoreIsSound, KnowsTheStore

\* The frontier is saved when the drain of a wave is over.
LEMMA SaveFrontierDInv == DInv /\ SaveFrontier => DInv'
<1> SUFFICES ASSUME DInv, SaveFrontier PROVE DInv'
  OBVIOUS
<1> USE DEF DInv
<1>1. /\ Next /\ EndSettle /\ alive /\ UNCHANGED <<everyWave, alive, executions, status>>
      /\ phase' = "loop" /\ UNCHANGED <<waves, failures>>
  BY DEF SaveFrontier, Next, EndSettle, records
<1>2. IInv' /\ Histories'
  BY <1>1, NextIInv DEF Histories
<1>3. AtRest /\ phase \in {"settle", "answers"}
  BY <1>1 DEF EndSettle, AtRest, IInv, PhaseInv
<1>4. CASE everyWave /\ phase = "settle"
  <2>1. store' = Checkpoint
    BY <1>4 DEF SaveFrontier
  <2>2. StoreIsSound' /\ KnowsTheStore'
    BY <1>1, <1>3, <2>1, SavingDInv
  <2>3. Checkpoint # NoCheckpoint /\ Checkpoint.waves = waves /\ waves \in Nat
    BY <1>3, RestIsSound, DurabilityShape DEF Sound, Checkpoint, IInv, TypeOK
  <2>4. WithinOneWave'
    BY <1>1, <1>3, <2>1, <2>3 DEF WithinOneWave, Saved, InFlight, AtRest
  <2> QED BY <1>2, <2>2, <2>4
<1>5. CASE ~(everyWave /\ phase = "settle")
  <2>1. store' = store
    BY <1>5 DEF SaveFrontier
  <2>2. StoreIsSound' /\ KnowsTheStore'
    BY <1>1, <2>1, StillKnows
  <2>3. WithinOneWave'
    BY <1>1, <1>3, <1>5, <2>1 DEF WithinOneWave, Saved, InFlight, AtRest
  <2> QED BY <1>2, <2>2, <2>3
<1> QED BY <1>4, <1>5

\* The result is saved, deleted or left out, and the run is over.
LEMMA ConcludeDInv == DInv /\ Conclude => DInv'
<1> SUFFICES ASSUME DInv, Conclude PROVE DInv'
  OBVIOUS
<1> USE DEF DInv
<1>1. /\ Next /\ Finish /\ UNCHANGED <<everyWave, alive, executions, status>>
      /\ phase' = "done"
  BY DEF Conclude, Next, Finish, records
<1>2. IInv' /\ Histories' /\ WithinOneWave'
  BY <1>1, NextIInv DEF Histories, WithinOneWave
<1>3. CASE outcome' = "paused"
  <2>1. AtRest
    BY <1>1, <1>3 DEF Finish, Verdict, AtRest, IInv, PhaseInv
  <2>2. store' = Checkpoint
    BY <1>3 DEF Conclude
  <2> QED BY <1>1, <1>2, <2>1, <2>2, SavingDInv
<1>4. CASE outcome' # "paused" /\ everyWave
  <2>1. store' = NoCheckpoint
    BY <1>4 DEF Conclude
  <2> QED BY <1>2, <2>1 DEF StoreIsSound, KnowsTheStore
<1>5. CASE outcome' # "paused" /\ ~everyWave
  <2>1. store' = store
    BY <1>5 DEF Conclude
  <2> QED BY <1>1, <1>2, <2>1, StillKnows
<1> QED BY <1>3, <1>4, <1>5

\* The process dies; a later one takes the run up where the store has it.
LEMMA CrashDInv == DInv /\ Crash => DInv'
<1> SUFFICES ASSUME DInv, Crash PROVE DInv'
  OBVIOUS
<1>1. IInv'
  <2>1. Init' => IInv'
    BY InitIInv, PTL
  <2> QED BY <2>1, CrashIsInit
<1>2. alive' = FALSE /\ UNCHANGED <<store, executions>>
  BY DEF Crash
<1> QED BY <1>1, <1>2 DEF DInv, StoreIsSound, Histories, WithinOneWave, KnowsTheStore

\* A process that recovers knows what the store does.
LEMMA RecoverDInv == DInv /\ Recover => DInv'
<1> SUFFICES ASSUME DInv, Recover PROVE DInv'
  OBVIOUS
<1>1. IInv'
  BY RecoverIInv DEF DInv
<1>2. /\ alive' = TRUE /\ UNCHANGED <<everyWave, store, executions>>
      /\ store # NoCheckpoint /\ Sound(store)
      /\ waves' = store.waves /\ phase' = "answers" /\ failures' = {}
      /\ status' = [n \in Nodes |-> IF n \in store.awaiting THEN "completed"
                                     ELSE store.status[n]]
  BY DEF Recover, DInv, StoreIsSound
<1>3. StoreIsSound' /\ Histories'
  BY <1>2 DEF DInv, StoreIsSound, Histories
<1>4. WithinOneWave'
  BY <1>2 DEF WithinOneWave, Saved, InFlight, Sound, Checkpoints
<1>5. KnowsTheStore'
  BY <1>2 DEF KnowsTheStore, Fixed, Sound, NodeSound
<1> QED BY <1>1, <1>3, <1>4, <1>5 DEF DInv

\* The invariant is about the state alone.
LEMMA StutterDInv == DInv /\ UNCHANGED dvars => DInv'
<1> SUFFICES ASSUME DInv, UNCHANGED dvars PROVE DInv'
  OBVIOUS
<1>1. UNCHANGED vars /\ UNCHANGED <<everyWave, alive, store, executions>>
  BY DEF dvars
<1>2. IInv' /\ StoreIsSound' /\ KnowsTheStore'
  BY <1>1, NextIInv, StillKnows DEF DInv
<1>3. Histories' /\ WithinOneWave'
  BY <1>1 DEF DInv, Histories, WithinOneWave, Saved, InFlight, vars
<1> QED BY <1>2, <1>3 DEF DInv

\* No step of the process, the store or a crash leaves the invariant.
LEMMA NextDInv == DInv /\ [DNext]_dvars => DInv'
BY VolatileDInv, SaveFrontierDInv, ConcludeDInv, CrashDInv, RecoverDInv, StutterDInv
   DEF DNext, Over

\* The invariant of the scheduler, and that of the store, hold through any
\* number of crashes, recoveries and repeated resumes of one checkpoint.
THEOREM DurabilityInvariance == DSpec => []DInv
BY InitDInv, NextDInv, PTL DEF DSpec

-----------------------------------------------------------------------------
(* The properties.                                                         *)

\* A reader of sound fields finds counters of zero exactly below fixed nodes.
LEMMA SoundIsConsistent == StoreIsSound => StoredFrontierIsConsistent
<1> SUFFICES ASSUME store # NoCheckpoint, Sound(store) PROVE StoredFrontierIsConsistent
  BY DEF StoreIsSound, StoredFrontierIsConsistent
<1>1. \A n \in Nodes : NodeSound(store, n)
  BY DEF Sound
<1>2. store.awaiting \subseteq Nodes /\ store.ready \subseteq Nodes
  BY DEF Sound, Checkpoints
<1>3. \A n \in Nodes : Fixed(n) <=> DoneIn(store, n)
  BY DEF Fixed, DoneIn
<1>4. ASSUME NEW t \in Nodes
      PROVE  /\ store.pending[t] = Cardinality({e \in InEdges(t) : ~Fixed(e.source)})
             /\ store.taken[t] = Cardinality({e \in InEdges(t) :
                    Takes(e, store.status[e.source], store.branch[e.source])})
             /\ store.pending[t] = 0 <=> AllDoneIn(store, t)
  <2> DEFINE A == {e \in InEdges(t) : ~DoneIn(store, e.source)}
  <2>1. {e \in InEdges(t) : ~Fixed(e.source)} = A
    BY <1>3, EdgesShape DEF InEdges, EdgeShape
  <2>2. IsFiniteSet(A)
    BY EdgeSetsFinite DEF InEdges
  <2>3. Cardinality(A) = 0 <=> A = {}
    BY <2>2, FS_EmptySet
  <2>4. A = {} <=> AllDoneIn(store, t)
    BY DEF AllDoneIn
  <2>5. /\ store.pending[t] = Cardinality(A)
        /\ store.taken[t] = Cardinality({e \in InEdges(t) : TakenIn(store, e)})
    BY <1>1 DEF NodeSound
  <2> QED BY <2>1, <2>3, <2>4, <2>5 DEF TakenIn
<1>5. store.awaiting = {n \in Nodes : store.status[n] = "paused"}
  BY <1>1, <1>2 DEF NodeSound
<1>6. store.ready = {n \in Nodes : store.status[n] = "pending" /\ store.pending[n] = 0}
  BY <1>1, <1>2, <1>4 DEF NodeSound
<1>7. \A n \in Nodes : /\ store.status[n] # "running"
                       /\ store.status[n] = "failed" => store.recovered[n]
  BY <1>1 DEF NodeSound
<1> QED BY <1>4, <1>5, <1>6, <1>7 DEF StoredFrontierIsConsistent

\* Whatever is in the store can be continued from: questions, counters and the
\* ready queue agree with the fates that are stored (_checkpoint, resume).
THEOREM FrontierIsConsistent == DSpec => []StoredFrontierIsConsistent
<1>1. DInv => StoredFrontierIsConsistent
  BY SoundIsConsistent DEF DInv
<1> QED BY <1>1, DurabilityInvariance, PTL

\* With checkpoint_every_wave, a crash costs at most the wave in flight.
THEOREM CrashIsCheap == DSpec => []CrashCostsOneWave
<1>1. DInv => CrashCostsOneWave
  <2> SUFFICES ASSUME DInv, everyWave, alive, phase # "done"
               PROVE  waves <= 1 + Saved
    BY DEF CrashCostsOneWave, Saved
  <2>1. Saved \in Nat /\ waves \in Nat
    BY DEF DInv, IInv, TypeOK, StoreIsSound, Saved, Sound, Checkpoints
  <2>2. waves <= Saved + InFlight /\ InFlight \in {0, 1}
    BY DEF DInv, WithinOneWave, InFlight
  <2> QED BY <2>1, <2>2
<1> QED BY <1>1, DurabilityInvariance, PTL

\* No recovery runs a node whose fate was stored, however often one checkpoint
\* is resumed and wherever the process died in between.
THEOREM SavedWorkStays == DSpec => SavedWorkIsNotRepeated
<1>1. ASSUME DInv, [DNext]_dvars, NEW n \in Nodes, store # NoCheckpoint, Fixed(n)
      PROVE  executions'[n] = executions[n]
  <2>1. ASSUME NEW m \in Nodes, StartCounted(m), alive
        PROVE  executions'[n] = executions[n]
    <3>1. status[m] = "pending" /\ executions' = [executions EXCEPT ![m] = @ + 1]
      BY <2>1 DEF StartCounted, Start
    <3>2. n # m
      BY <1>1, <2>1, <3>1 DEF DInv, KnowsTheStore, Fixed
    <3> QED BY <1>1, <3>1, <3>2 DEF DInv, Histories
  <2>2. CASE UNCHANGED executions
    BY <2>2
  <2> QED BY <1>1, <2>1, <2>2
          DEF DNext, Volatile, SaveFrontier, Conclude, Crash, Recover, Over, dvars
<1>2. DInv /\ [DNext]_dvars
        => [\A n \in Nodes : store # NoCheckpoint /\ Fixed(n)
              => executions'[n] = executions[n]]_dvars
  BY <1>1
<1> QED BY <1>2, DurabilityInvariance, PTL DEF DSpec, SavedWorkIsNotRepeated

\* What holds of an undisturbed run holds of one that was taken up again after
\* any number of crashes: its joins wait for all their edges, nodes run and are
\* skipped by the edges into them, and completing means that all are decided.
THEOREM RecoveredRunsAreRuns ==
    DSpec => [](CountersAgree /\ FateFollowsEdges /\ CompletedRunDecidesAll)
<1>1. DInv => CountersAgree
  BY DEF DInv, IInv
<1>2. DInv => FateFollowsEdges
  BY FatesFromPositions DEF DInv
<1>3. DInv => CompletedRunDecidesAll
  BY CompletedFromIInv DEF DInv
<1> QED BY <1>1, <1>2, <1>3, DurabilityInvariance, PTL

=============================================================================
