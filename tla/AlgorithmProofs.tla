--------------------------- MODULE AlgorithmProofs ----------------------------
(***************************************************************************)
(* The walks of a graph, for every set of nodes, every set of labels and   *)
(* every set of edges between them; and the framing of a model's answer,   *)
(* for every body a server may send and every way to piece and cut it.     *)
(***************************************************************************)
EXTENDS GraphOrder, Framing, FiniteSetTheorems, SequenceTheorems, TLAPS

Types ==
    /\ edges \in SUBSET Edges
    /\ walk \in Walks
    /\ pending \in [Nodes -> Int]
    /\ ready \in Seq(Nodes)
    /\ order \in Seq(Nodes)
    /\ todo \in SUBSET edges
    /\ next \in Seq(Nodes)
    /\ levels \in Seq(Seq(Nodes))
    /\ settled \in Nat
    /\ verdict \in {"walking", "returned", "raised"}

\* The edges into a node that have not been counted off.
Left(n) == {e \in InEdges(n) : e[1] \notin Range(order) \/ e \in todo}

\* A counter is the number of edges that are left.
Counted == \A n \in Nodes : pending[n] = Cardinality(Left(n))

\* A node has been walked, is ready or comes next exactly if its counter is zero,
\* and is in one place of one of the three.
InLine ==
    /\ IsInjective(order) /\ IsInjective(ready) /\ IsInjective(next)
    /\ Range(order) \cap Range(ready) = {}
    /\ Range(order) \cap Range(next) = {}
    /\ Range(ready) \cap Range(next) = {}
    /\ Range(order) \cup Range(ready) \cup Range(next) = Roots

\* The edges at hand are those of the node walked last.
AtHand == \A e \in todo : order # <<>> /\ e[1] = order[Len(order)]

\* A node is walked after its predecessors.
Behind == \A i \in DOMAIN order : \A e \in InEdges(order[i]) : \E j \in 1 .. i - 1 : order[j] = e[1]

\* A set in which nobody is first is not walked into.
Avoids == \A set \in SUBSET Nodes : NeverFirst(set) => set \cap Range(order) = {}

\* What the two walks leave unused, and where a walk ends.
Stages ==
    /\ walk = "order" => next = <<>> /\ levels = <<>> /\ settled = 0
    /\ walk = "levels" => settled = Len(order) + Len(ready)
    /\ verdict # "walking" => todo = {} /\ ready = <<>> /\ next = <<>>
    /\ verdict = "returned" => Count >= Cardinality(Nodes)
    /\ verdict = "raised" => Count < Cardinality(Nodes)
    /\ walk = "levels" => ~IsCyclic

Placed(n, k) == n \in Range(levels[k])

\* The levels have what was walked and what is ready, in one place each.
Levelled ==
    /\ \A n \in Nodes : (n \in Range(order) \cup Range(ready)) <=> \E k \in DOMAIN levels : Placed(n, k)
    /\ \A k, l \in DOMAIN levels : \A i \in DOMAIN levels[k], j \in DOMAIN levels[l] :
           levels[k][i] = levels[l][j] => k = l /\ i = j

\* Where a node's predecessors are.
Stepwise ==
    \A k \in DOMAIN levels : \A n \in Nodes : Placed(n, k) =>
        /\ \A e \in InEdges(n) : \E l \in 1 .. k - 1 : Placed(e[1], l)
        /\ k > 1 => \E e \in InEdges(n) : Placed(e[1], k - 1)

\* What is at hand is on the last level, what comes next is directly behind it.
LastLevel ==
    /\ \A n \in Range(ready) : Placed(n, Len(levels))
    /\ todo # {} => Placed(order[Len(order)], Len(levels))
    /\ levels # <<>> => \A n \in Range(next) : \E e \in InEdges(n) : Placed(e[1], Len(levels))

Lines == Types /\ Counted /\ InLine /\ AtHand /\ Behind /\ Avoids /\ Stages
Layers == Levelled /\ Stepwise /\ LastLevel
WInv == Lines /\ (walk = "levels" => Layers)

-----------------------------------------------------------------------------

\* What Append does to the members of a list.
LEMMA Appended ==
    ASSUME NEW S, NEW s \in Seq(S), NEW x \in S
    PROVE  /\ Append(s, x) \in Seq(S)
           /\ Len(Append(s, x)) = Len(s) + 1
           /\ Append(s, x) # <<>>
           /\ Append(s, x)[Len(s) + 1] = x
           /\ \A i \in DOMAIN s : Append(s, x)[i] = s[i]
           /\ DOMAIN Append(s, x) = DOMAIN s \cup {Len(s) + 1}
           /\ Range(Append(s, x)) = Range(s) \cup {x}
           /\ IsInjective(s) /\ x \notin Range(s) => IsInjective(Append(s, x))
<1>1. /\ Append(s, x) \in Seq(S)
      /\ Len(Append(s, x)) = Len(s) + 1
      /\ Append(s, x) # <<>>
      /\ Append(s, x)[Len(s) + 1] = x
      /\ \A i \in 1 .. Len(s) : Append(s, x)[i] = s[i]
  OBVIOUS
<1>2. DOMAIN s = 1 .. Len(s) /\ DOMAIN Append(s, x) = 1 .. Len(s) + 1 /\ Len(s) \in Nat
  BY <1>1
<1>3. DOMAIN Append(s, x) = DOMAIN s \cup {Len(s) + 1} /\ Len(s) + 1 \notin DOMAIN s
  BY <1>2
<1>4. Range(Append(s, x)) = Range(s) \cup {x}
  BY <1>1, <1>2, <1>3, Zenon DEF Range
<1>5. ASSUME IsInjective(s), x \notin Range(s) PROVE IsInjective(Append(s, x))
  BY <1>1, <1>2, <1>3, <1>5 DEF IsInjective, Range
<1>. QED  BY <1>1, <1>2, <1>3, <1>4, <1>5

\* What Head and Tail do to the members of a list.
LEMMA Beheaded ==
    ASSUME NEW S, NEW s \in Seq(S), s # <<>>
    PROVE  /\ Head(s) \in S
           /\ Tail(s) \in Seq(S)
           /\ Len(s) = Len(Tail(s)) + 1
           /\ Range(s) = Range(Tail(s)) \cup {Head(s)}
           /\ IsInjective(s) => IsInjective(Tail(s)) /\ Head(s) \notin Range(Tail(s))
<1>1. /\ Head(s) \in S /\ Head(s) = s[1]
      /\ Tail(s) \in Seq(S)
      /\ Len(Tail(s)) = Len(s) - 1
      /\ \A i \in 1 .. Len(s) - 1 : Tail(s)[i] = s[i + 1]
      /\ Len(s) \in Nat \ {0}
  OBVIOUS
<1>2. DOMAIN s = 1 .. Len(s) /\ DOMAIN Tail(s) = 1 .. Len(s) - 1
  BY <1>1
<1>3. ASSUME NEW i \in DOMAIN s PROVE s[i] \in Range(Tail(s)) \cup {Head(s)}
  <2>1. CASE i = 1
    BY <1>1, <2>1
  <2>2. CASE i # 1
    <3>1. i - 1 \in DOMAIN Tail(s) /\ Tail(s)[i - 1] = s[i]
      BY <1>1, <1>2, <2>2
    <3>. QED  BY <3>1 DEF Range
  <2>. QED  BY <2>1, <2>2
<1>4. ASSUME NEW i \in DOMAIN Tail(s) PROVE i + 1 \in DOMAIN s /\ Tail(s)[i] = s[i + 1]
  BY <1>1, <1>2
<1>5. 1 \in DOMAIN s
  BY <1>1, <1>2
<1>6. Range(s) = Range(Tail(s)) \cup {Head(s)}
  <2>1. Range(s) \subseteq Range(Tail(s)) \cup {Head(s)}
    BY <1>3 DEF Range
  <2>2. Range(Tail(s)) \subseteq Range(s)
    BY <1>4 DEF Range
  <2>3. Head(s) \in Range(s)
    BY <1>1, <1>5 DEF Range
  <2>. QED  BY <2>1, <2>2, <2>3
<1>7. ASSUME IsInjective(s) PROVE IsInjective(Tail(s)) /\ Head(s) \notin Range(Tail(s))
  <2>1. IsInjective(Tail(s))
    BY <1>1, <1>2, <1>4, <1>7 DEF IsInjective
  <2>2. ASSUME NEW i \in DOMAIN Tail(s), Tail(s)[i] = Head(s) PROVE FALSE
    <3>1. s[i + 1] = s[1] /\ i + 1 \in DOMAIN s /\ i + 1 # 1
      BY <1>1, <1>2, <1>4, <2>2
    <3>. QED  BY <1>5, <1>7, <3>1 DEF IsInjective
  <2>. QED  BY <2>1, <2>2 DEF Range
<1>. QED  BY <1>1, <1>6, <1>7

\* sorted() gives a list of what it is given.
LEMMA ListingLists ==
    ASSUME NEW set \in SUBSET Nodes, NEW s \in Listings(set)
    PROVE  s \in Seq(Nodes) /\ IsInjective(s) /\ Range(s) = set
<1>1. IsFiniteSet(set)
  BY FS_Subset, NodesAreSorted
<1>2. Cardinality(set) \in Nat
  BY <1>1, FS_CardinalityType
<1>3. s \in [1 .. Cardinality(set) -> set] /\ IsInjective(s) /\ \A t \in set : \E i \in 1 .. Cardinality(set) : s[i] = t
  BY DEF Listings, Bijection, Injection, Surjection
<1>4. s \in Seq(Nodes)
  BY <1>2, <1>3
<1>5. Range(s) = set
  BY <1>3, Zenon DEF Range
<1>. QED  BY <1>3, <1>4, <1>5

\* sorted() of a list without repetitions has the same members, each once.
LEMMA SortedRearranges ==
    ASSUME NEW list \in Seq(Nodes), IsInjective(list), NEW s \in Sorted(list)
    PROVE  s \in Seq(Nodes) /\ Len(s) = Len(list) /\ IsInjective(s) /\ Range(s) = Range(list)
<1>1. PICK p \in Bijection(DOMAIN list, DOMAIN list) : s = [i \in DOMAIN list |-> list[p[i]]]
  BY DEF Sorted
<1>2. /\ p \in [DOMAIN list -> DOMAIN list]
      /\ \A i, j \in DOMAIN list : p[i] = p[j] => i = j
      /\ \A t \in DOMAIN list : \E i \in DOMAIN list : p[i] = t
  BY DEF Bijection, Injection, Surjection, IsInjective
<1>3. DOMAIN list = 1 .. Len(list) /\ Len(list) \in Nat /\ \A i \in DOMAIN list : list[i] \in Nodes
  OBVIOUS
<1>4. s \in [1 .. Len(list) -> Nodes]
  BY <1>1, <1>2, <1>3
<1>5. s \in Seq(Nodes) /\ Len(s) = Len(list)
  BY <1>3, <1>4
<1>6. IsInjective(s)
  BY <1>1, <1>2 DEF IsInjective
<1>7. ASSUME NEW i \in DOMAIN s PROVE s[i] \in Range(list)
  BY <1>1, <1>2 DEF Range
<1>8. ASSUME NEW j \in DOMAIN list PROVE list[j] \in Range(s)
  <2>1. PICK i \in DOMAIN list : p[i] = j
    BY <1>2
  <2>2. i \in DOMAIN s /\ s[i] = list[j]
    BY <1>1, <2>1
  <2>. QED  BY <2>2 DEF Range
<1>9. Range(s) = Range(list)
  BY <1>7, <1>8 DEF Range
<1>. QED  BY <1>5, <1>6, <1>9

\* There are finitely many edges.
LEMMA EdgesAreFinite == IsFiniteSet(Edges)
<1>. DEFINE Pairs == Nodes \X Nodes
            Split == [x \in Pairs \X Labels |-> <<x[1][1], x[1][2], x[2]>>]
            All == Nodes \X Nodes \X Labels
<1>1. IsFiniteSet(Pairs)
  BY FS_Product, NodesAreSorted
<1>2. IsFiniteSet(Pairs \X Labels)
  BY <1>1, FS_Product, LabelsAreFinite
<1>3. Split \in [Pairs \X Labels -> All]
  OBVIOUS
<1>4. ASSUME NEW e \in All PROVE \E x \in Pairs \X Labels : Split[x] = e
  <2>1. << <<e[1], e[2]>>, e[3]>> \in Pairs \X Labels /\ e = <<e[1], e[2], e[3]>>
    OBVIOUS
  <2>. QED  BY <2>1
<1>5. Split \in Surjection(Pairs \X Labels, All)
  BY <1>3, <1>4 DEF Surjection
<1>6. IsFiniteSet(All)
  BY <1>2, <1>5, FS_Surjection
<1>7. Edges \in SUBSET All
  BY DEF Edges
<1>. QED  BY <1>6, <1>7, FS_Subset

\* A counter is a natural number, and zero exactly when nothing is left.
LEMMA CountersCount ==
    ASSUME Types, Counted, NEW n \in Nodes
    PROVE  /\ IsFiniteSet(Left(n))
           /\ pending[n] \in Nat
           /\ pending[n] = 0 <=> Left(n) = {}
<1>1. Left(n) \in SUBSET Edges
  BY DEF Left, InEdges, Types
<1>2. IsFiniteSet(Left(n))
  BY <1>1, EdgesAreFinite, FS_Subset
<1>3. Cardinality(Left(n)) \in Nat /\ (Cardinality(Left(n)) = 0 <=> Left(n) = {})
  BY <1>2, FS_CardinalityType, FS_EmptySet
<1>. QED  BY <1>2, <1>3 DEF Counted

\* Before a walk nothing is counted off.
LEMMA IndegreeCounts ==
    ASSUME edges \in SUBSET Edges
    PROVE  Indegree(edges) \in [Nodes -> Int]
<1>1. ASSUME NEW n \in Nodes PROVE Cardinality({e \in edges : e[2] = n}) \in Int
  <2>1. {e \in edges : e[2] = n} \in SUBSET Edges
    OBVIOUS
  <2>2. IsFiniteSet({e \in edges : e[2] = n})
    BY <2>1, EdgesAreFinite, FS_Subset
  <2>. QED  BY <2>2, FS_CardinalityType
<1>. QED  BY <1>1 DEF Indegree

\* What is ready or comes next has had all its edges counted off.
LEMMA ZeroIsFree ==
    ASSUME Types, Counted, InLine, NEW n \in Range(order) \cup Range(ready) \cup Range(next)
    PROVE  n \in Nodes /\ pending[n] = 0 /\ \A e \in InEdges(n) : e[1] \in Range(order) /\ e \notin todo
<1>1. n \in Nodes /\ pending[n] = 0
  BY DEF InLine, Roots
<1>2. Left(n) = {}
  BY <1>1, CountersCount
<1>. QED  BY <1>1, <1>2 DEF Left

-----------------------------------------------------------------------------
(* Lines holds of every behaviour. *)

\* It holds of a walk that begins with the indegrees and no node walked.
LEMMA LinesAtFirst ==
    ASSUME edges \in SUBSET Edges, pending = Indegree(edges), order = <<>>, todo = {}
    PROVE  Counted /\ AtHand /\ Behind /\ Avoids
<1>1. Range(order) = {} /\ DOMAIN order = {}
  BY DEF Range
<1>2. ASSUME NEW n \in Nodes PROVE pending[n] = Cardinality(Left(n))
  <2>1. Left(n) = {e \in edges : e[2] = n}
    BY <1>1 DEF Left, InEdges
  <2>. QED  BY <2>1 DEF Indegree
<1>. QED  BY <1>1, <1>2 DEF Counted, AtHand, Behind, Avoids

\* The constructor's walk begins so.
LEMMA LinesInit == Init => Lines
<1>. SUFFICES ASSUME Init PROVE Lines
  OBVIOUS
<1>1. edges \in SUBSET Edges /\ pending \in [Nodes -> Int]
  BY IndegreeCounts DEF Init
<1>2. ready \in Seq(Nodes) /\ IsInjective(ready) /\ Range(ready) = Roots
  BY ListingLists DEF Init, Roots
<1>3. Types
  BY <1>1, <1>2 DEF Init, Types, Walks
<1>4. Counted /\ AtHand /\ Behind /\ Avoids
  BY <1>1, LinesAtFirst DEF Init
<1>5. InLine
  <2>1. order = <<>> /\ next = <<>>
    BY DEF Init
  <2>2. Range(<<>>) = {} /\ IsInjective(<<>>)
    BY DEF Range, IsInjective
  <2>. QED  BY <1>2, <2>1, <2>2 DEF InLine
<1>6. Stages
  BY DEF Init, Stages
<1>. QED  BY <1>3, <1>4, <1>5, <1>6 DEF Lines

\* The next node is behind its predecessors, and in no set that has no first node.
LEMMA VisitLines == ASSUME Lines, Visit PROVE Lines'
<1>. DEFINE h == Head(ready)
<1>. USE DEF Lines
<1>1. /\ order \in Seq(Nodes) /\ ready \in Seq(Nodes) /\ ready # <<>> /\ todo = {}
      /\ order' = Append(order, h) /\ ready' = Tail(ready) /\ todo' = OutEdges(h)
      /\ edges' = edges /\ pending' = pending /\ next' = next /\ walk' = walk
      /\ levels' = levels /\ settled' = settled /\ verdict' = verdict /\ verdict = "walking"
  BY DEF Visit, Types
<1>2. /\ h \in Nodes /\ ready' \in Seq(Nodes) /\ Len(ready) = Len(ready') + 1
      /\ Range(ready) = Range(ready') \cup {h}
      /\ IsInjective(ready') /\ h \notin Range(ready')
  BY <1>1, Beheaded DEF InLine
<1>3. h \notin Range(order) /\ h \notin Range(next) /\ h \in Range(ready)
  BY <1>2 DEF InLine
<1>4. /\ order' \in Seq(Nodes) /\ Len(order') = Len(order) + 1
      /\ order' # <<>> /\ order'[Len(order')] = h
      /\ \A i \in DOMAIN order : order'[i] = order[i]
      /\ DOMAIN order' = DOMAIN order \cup {Len(order) + 1}
      /\ Range(order') = Range(order) \cup {h} /\ IsInjective(order')
  BY <1>1, <1>2, <1>3, Appended DEF InLine
<1>5. Types'
  BY <1>1, <1>2, <1>4 DEF Types, OutEdges
<1>6. ASSUME NEW n \in Nodes PROVE Left(n)' = Left(n)
  BY <1>1, <1>3, <1>4 DEF Left, InEdges, OutEdges
<1>7. Counted'
  BY <1>1, <1>6 DEF Counted
<1>8. Roots' = Roots
  BY <1>1 DEF Roots
<1>9. InLine'
  BY <1>1, <1>2, <1>3, <1>4, <1>8 DEF InLine
<1>10. AtHand'
  BY <1>1, <1>4 DEF AtHand, OutEdges
<1>11. \A e \in InEdges(h) : e[1] \in Range(order)
  BY <1>3, ZeroIsFree
<1>12. Behind'
  <2>. SUFFICES ASSUME NEW i \in DOMAIN order', NEW e \in edges, e[2] = order'[i]
                PROVE  \E j \in 1 .. i - 1 : order'[j] = e[1]
    BY <1>1 DEF Behind, InEdges
  <2>0. e \in InEdges(order'[i])
    BY DEF InEdges
  <2>1. CASE i \in DOMAIN order
    <3>1. order'[i] = order[i]
      BY <1>4, <2>1
    <3>2. PICK j \in 1 .. i - 1 : order[j] = e[1]
      BY <2>0, <2>1, <3>1 DEF Behind
    <3>3. j \in DOMAIN order
      BY <1>1, <2>1, <3>2
    <3>. QED  BY <1>4, <3>2, <3>3
  <2>2. CASE i \notin DOMAIN order
    <3>1. i = Len(order) + 1 /\ order'[i] = h
      BY <1>4, <2>2
    <3>2. PICK j \in DOMAIN order : order[j] = e[1]
      BY <1>11, <2>0, <3>1 DEF Range
    <3>3. j \in 1 .. i - 1
      BY <1>1, <3>1, <3>2
    <3>. QED  BY <1>4, <3>2, <3>3
  <2>. QED  BY <2>1, <2>2
<1>13. Avoids'
  <2>. SUFFICES ASSUME NEW set \in SUBSET Nodes, NeverFirst(set)', h \in set PROVE FALSE
    <3>1. \A set \in SUBSET Nodes : NeverFirst(set)' <=> NeverFirst(set)
      BY <1>1 DEF NeverFirst, InEdges
    <3>. QED  BY <1>4, <3>1 DEF Avoids
  <2>1. NeverFirst(set)
    BY <1>1 DEF NeverFirst, InEdges
  <2>2. PICK e \in InEdges(h) : e[1] \in set
    BY <2>1 DEF NeverFirst
  <2>. QED  BY <1>11, <2>1, <2>2 DEF Avoids
<1>14. Stages'
  <2>1. Len(order') + Len(ready') = Len(order) + Len(ready)
    BY <1>1, <1>2, <1>4
  <2>2. IsCyclic' <=> IsCyclic
    BY <1>1 DEF IsCyclic, NeverFirst, InEdges
  <2>. QED  BY <1>1, <2>1, <2>2 DEF Stages
<1>. QED  BY <1>5, <1>7, <1>9, <1>10, <1>12, <1>13, <1>14

\* One edge less is left of one node.
LEMMA CountOffLines == ASSUME Lines, NEW e \in todo, CountOff(e) PROVE Lines'
<1>. DEFINE t == e[2]
<1>. USE DEF Lines
<1>1. /\ todo' = todo \ {e} /\ edges' = edges /\ order' = order /\ walk' = walk
      /\ levels' = levels /\ settled' = settled /\ verdict' = verdict
      /\ pending' = [pending EXCEPT ![t] = @ - 1]
      /\ IF pending'[t] = 0 THEN Release(t) ELSE ready' = ready /\ next' = next
  BY DEF CountOff
<1>2. e \in edges /\ t \in Nodes /\ e[1] \in Nodes /\ pending \in [Nodes -> Int]
  BY DEF Types, Edges
<1>3. e[1] \in Range(order)
  <2>1. order # <<>> /\ e[1] = order[Len(order)] /\ order \in Seq(Nodes)
    BY DEF AtHand, Types
  <2>2. Len(order) \in DOMAIN order
    BY <2>1
  <2>. QED  BY <2>1, <2>2 DEF Range
<1>4. e \in Left(t) /\ Left(t)' = Left(t) \ {e}
  BY <1>1, <1>2, <1>3 DEF Left, InEdges
<1>5. ASSUME NEW n \in Nodes, n # t PROVE Left(n)' = Left(n)
  BY <1>1, <1>5 DEF Left, InEdges
<1>6. IsFiniteSet(Left(t)) /\ pending[t] \in Nat /\ pending[t] # 0
  BY <1>2, <1>4, CountersCount
<1>7. pending'[t] = pending[t] - 1 /\ \A n \in Nodes \ {t} : pending'[n] = pending[n]
  BY <1>1, <1>2
<1>8. Counted'
  <2>1. pending'[t] = Cardinality(Left(t)')
    <3>1. Cardinality(Left(t) \ {e}) = Cardinality(Left(t)) - 1
      BY <1>4, <1>6, FS_RemoveElement
    <3>2. pending[t] = Cardinality(Left(t))
      BY <1>2 DEF Counted
    <3>. QED  BY <1>4, <1>7, <3>1, <3>2
  <2>. QED  BY <1>5, <1>7, <2>1 DEF Counted
<1>9. t \notin Range(order) /\ t \notin Range(ready) /\ t \notin Range(next)
  BY <1>2, <1>6 DEF InLine, Roots
<1>10. Roots' = IF pending'[t] = 0 THEN Roots \cup {t} ELSE Roots
  BY <1>2, <1>6, <1>7 DEF Roots
<1>11. /\ ready' \in Seq(Nodes) /\ next' \in Seq(Nodes) /\ IsInjective(ready') /\ IsInjective(next')
       /\ IF pending'[t] # 0 THEN ready' = ready /\ next' = next
          ELSE IF walk = "order" THEN next' = next /\ Range(ready') = Range(ready) \cup {t}
          ELSE ready' = ready /\ Range(next') = Range(next) \cup {t}
  <2>1. ready \in Seq(Nodes) /\ next \in Seq(Nodes) /\ IsInjective(ready) /\ IsInjective(next)
    BY DEF Types, InLine
  <2>2. CASE pending'[t] # 0
    BY <1>1, <2>1, <2>2
  <2>3. CASE pending'[t] = 0 /\ walk = "order"
    <3>1. ready' = Append(ready, t) /\ next' = next
      BY <1>1, <2>3 DEF Release
    <3>2. ready' \in Seq(Nodes) /\ IsInjective(ready') /\ Range(ready') = Range(ready) \cup {t}
      BY <1>2, <1>9, <2>1, <3>1, Appended
    <3>. QED  BY <2>1, <2>3, <3>1, <3>2
  <2>4. CASE pending'[t] = 0 /\ walk # "order"
    <3>1. next' = Append(next, t) /\ ready' = ready
      BY <1>1, <2>4 DEF Release
    <3>2. next' \in Seq(Nodes) /\ IsInjective(next') /\ Range(next') = Range(next) \cup {t}
      BY <1>2, <1>9, <2>1, <3>1, Appended
    <3>. QED  BY <2>1, <2>4, <3>1, <3>2
  <2>. QED  BY <2>2, <2>3, <2>4
<1>12. Types'
  <2>1. pending' \in [Nodes -> Int]
    BY <1>1, <1>2
  <2>. QED  BY <1>1, <1>11, <2>1 DEF Types
<1>13. InLine'
  <2>1. CASE pending'[t] # 0
    BY <1>1, <1>10, <1>11, <2>1 DEF InLine
  <2>2. CASE pending'[t] = 0 /\ walk = "order"
    BY <1>1, <1>9, <1>10, <1>11, <2>2 DEF InLine
  <2>3. CASE pending'[t] = 0 /\ walk # "order"
    BY <1>1, <1>9, <1>10, <1>11, <2>3 DEF InLine
  <2>. QED  BY <2>1, <2>2, <2>3
<1>14. AtHand' /\ Behind' /\ Avoids'
  BY <1>1 DEF AtHand, Behind, Avoids, NeverFirst, InEdges
<1>15. Stages'
  <2>1. verdict = "walking"
    BY DEF Stages
  <2>2. walk = "order" => next' = next
    BY <1>11
  <2>3. walk = "levels" => ready' = ready
    BY <1>11
  <2>4. IsCyclic' <=> IsCyclic
    BY <1>1 DEF IsCyclic, NeverFirst, InEdges
  <2>. QED  BY <1>1, <2>1, <2>2, <2>3, <2>4 DEF Stages
<1>. QED  BY <1>8, <1>12, <1>13, <1>14, <1>15

\* A new level has what came next, in the order of sorted().
LEMMA EnterLevelLines == ASSUME Lines, EnterLevel PROVE Lines'
<1>. USE DEF Lines
<1>1. /\ todo = {} /\ ready = <<>> /\ next # <<>> /\ next' = <<>> /\ verdict = "walking"
      /\ levels' = Append(levels, ready') /\ settled' = settled + Len(ready')
      /\ edges' = edges /\ walk' = walk /\ pending' = pending /\ order' = order
      /\ todo' = todo /\ verdict' = verdict /\ next \in Seq(Nodes) /\ IsInjective(next)
  BY DEF EnterLevel, Types, InLine
<1>2. ready' \in Seq(Nodes) /\ Len(ready') = Len(next) /\ IsInjective(ready') /\ Range(ready') = Range(next)
  BY <1>1, SortedRearranges DEF EnterLevel
<1>3. walk = "levels"
  BY <1>1 DEF Stages, Types, Walks
<1>4. Types'
  <2>1. levels' \in Seq(Seq(Nodes))
    BY <1>1, <1>2 DEF Types
  <2>2. settled' \in Nat
    BY <1>1, <1>2 DEF Types
  <2>. QED  BY <1>1, <1>2, <2>1, <2>2 DEF Types
<1>5. Counted'
  <2>1. \A n \in Nodes : Left(n)' = Left(n)
    BY <1>1 DEF Left, InEdges
  <2>. QED  BY <1>1, <2>1 DEF Counted
<1>6. InLine'
  <2>1. Range(<<>>) = {} /\ IsInjective(<<>>)
    BY DEF Range, IsInjective
  <2>2. Roots' = Roots
    BY <1>1 DEF Roots
  <2>. QED  BY <1>1, <1>2, <2>1, <2>2 DEF InLine
<1>7. AtHand' /\ Behind' /\ Avoids'
  BY <1>1 DEF AtHand, Behind, Avoids, NeverFirst, InEdges
<1>8. Stages'
  <2>1. settled = Len(order) + 0
    BY <1>1, <1>3 DEF Stages
  <2>2. settled' = Len(order') + Len(ready')
    BY <1>1, <1>2, <2>1 DEF Types
  <2>3. IsCyclic' <=> IsCyclic
    BY <1>1 DEF IsCyclic, NeverFirst, InEdges
  <2>. QED  BY <1>1, <1>3, <2>2, <2>3 DEF Stages
<1>. QED  BY <1>4, <1>5, <1>6, <1>7, <1>8

\* A walk ends with what it has counted.
LEMMA ConcludeLines == ASSUME Lines, Conclude PROVE Lines'
<1>. USE DEF Lines
<1>1. /\ todo = {} /\ ready = <<>> /\ next = <<>>
      /\ verdict' = IF Count < Cardinality(Nodes) THEN "raised" ELSE "returned"
      /\ UNCHANGED <<edges, walk, pending, ready, order, todo, next, levels, settled>>
  BY DEF Conclude
<1>2. Types'
  BY <1>1 DEF Types
<1>3. Counted' /\ InLine' /\ AtHand' /\ Behind' /\ Avoids'
  BY <1>1 DEF Counted, Left, InLine, Roots, AtHand, Behind, Avoids, NeverFirst, InEdges
<1>4. Stages'
  <2>1. Count' = Count
    BY <1>1 DEF Count
  <2>2. IsCyclic' <=> IsCyclic
    BY <1>1 DEF IsCyclic, NeverFirst, InEdges
  <2>3. Count \in Nat /\ Cardinality(Nodes) \in Nat
    BY FS_CardinalityType, NodesAreSorted DEF Count, Types
  <2>. QED  BY <1>1, <2>1, <2>2, <2>3 DEF Stages
<1>. QED  BY <1>2, <1>3, <1>4

\* A walk that has returned has walked all nodes.
LEMMA ReturnedWalksAll ==
    ASSUME Lines, verdict = "returned"
    PROVE  Range(order) = Nodes /\ order \in Bijection(1 .. Cardinality(Nodes), Nodes) /\ ~IsCyclic
<1>. USE DEF Lines
<1>1. order \in Seq(Nodes) /\ IsInjective(order) /\ ready = <<>> /\ walk \in Walks
  BY DEF Types, InLine, Stages
<1>2. Count = Len(order) /\ Count >= Cardinality(Nodes)
  BY <1>1 DEF Count, Stages, Walks
<1>3. order \in Injection(1 .. Len(order), Nodes) /\ Len(order) \in Nat
  BY <1>1 DEF Injection
<1>4. Cardinality(1 .. Len(order)) = Len(order) /\ IsFiniteSet(1 .. Len(order))
  BY <1>3, FS_Interval
<1>5. Cardinality(Nodes) \in Nat
  BY FS_CardinalityType, NodesAreSorted
<1>6. /\ Cardinality(1 .. Len(order)) <= Cardinality(Nodes)
      /\ Cardinality(1 .. Len(order)) = Cardinality(Nodes) => order \in Surjection(1 .. Len(order), Nodes)
  BY <1>3, FS_Injection, NodesAreSorted
<1>7. Len(order) = Cardinality(Nodes) /\ order \in Surjection(1 .. Len(order), Nodes)
  BY <1>2, <1>3, <1>4, <1>5, <1>6
<1>8. order \in Bijection(1 .. Cardinality(Nodes), Nodes)
  BY <1>3, <1>7 DEF Bijection
<1>9. Range(order) = Nodes
  BY <1>7, Zenon DEF Surjection, Range
<1>10. ~IsCyclic
  <2>1. ASSUME NEW set \in (SUBSET Nodes) \ {{}}, NeverFirst(set) PROVE FALSE
    <3>1. set \in SUBSET Nodes /\ set # {}
      OBVIOUS
    <3>2. set \cap Range(order) = {}
      BY <2>1, <3>1 DEF Avoids
    <3>. QED  BY <1>9, <3>1, <3>2
  <2>. QED  BY <2>1, Zenon DEF IsCyclic
<1>. QED  BY <1>8, <1>9, <1>10

\* waves begins anew, with a graph that has no cycle.
LEMMA BeginLevelsLines == ASSUME Lines, BeginLevels PROVE Lines'
<1>. USE DEF Lines
<1>1. /\ verdict = "returned" /\ walk = "order" /\ walk' = "levels" /\ verdict' = "walking"
      /\ pending' = Indegree(edges) /\ order' = <<>> /\ ready = <<>> /\ todo = {}
      /\ edges' = edges /\ ready' = ready /\ todo' = todo /\ levels' = levels /\ settled' = settled
      /\ levels = <<>> /\ settled = 0 /\ edges \in SUBSET Edges
  BY DEF BeginLevels, Stages, Types
<1>2. pending' \in [Nodes -> Int]
  BY <1>1, IndegreeCounts
<1>3. next' \in Listings(Roots')
  BY DEF BeginLevels, Roots
<1>4. next' \in Seq(Nodes) /\ IsInjective(next') /\ Range(next') = Roots'
  BY <1>3, ListingLists DEF Roots
<1>5. Types'
  BY <1>1, <1>2, <1>4 DEF Types, Walks
<1>6. Counted' /\ AtHand' /\ Behind' /\ Avoids'
  <2>1. Range(order') = {} /\ DOMAIN order' = {}
    BY <1>1 DEF Range
  <2>2. ASSUME NEW n \in Nodes PROVE pending'[n] = Cardinality(Left(n)')
    <3>1. Left(n)' = {e \in edges : e[2] = n}
      BY <1>1, <2>1 DEF Left, InEdges
    <3>. QED  BY <1>1, <3>1 DEF Indegree
  <2>. QED  BY <1>1, <2>1, <2>2 DEF Counted, AtHand, Behind, Avoids
<1>7. InLine'
  <2>1. Range(<<>>) = {} /\ IsInjective(<<>>)
    BY DEF Range, IsInjective
  <2>. QED  BY <1>1, <1>4, <2>1 DEF InLine
<1>8. Stages'
  <2>1. ~IsCyclic'
    <3>1. ~IsCyclic
      BY <1>1, ReturnedWalksAll
    <3>. QED  BY <1>1, <3>1 DEF IsCyclic, NeverFirst, InEdges
  <2>2. Len(<<>>) = 0
    OBVIOUS
  <2>. QED  BY <1>1, <2>1, <2>2 DEF Stages
<1>. QED  BY <1>5, <1>6, <1>7, <1>8

\* Every step keeps Lines.
LEMMA LinesStep == Lines /\ [Next]_vars => Lines'
<1>. SUFFICES ASSUME Lines, [Next]_vars PROVE Lines'
  OBVIOUS
<1>1. CASE Visit
  BY <1>1, VisitLines
<1>2. CASE \E e \in todo : CountOff(e)
  BY <1>2, CountOffLines
<1>3. CASE EnterLevel
  BY <1>3, EnterLevelLines
<1>4. CASE Conclude
  BY <1>4, ConcludeLines
<1>5. CASE BeginLevels
  BY <1>5, BeginLevelsLines
<1>6. CASE UNCHANGED vars
  <2>1. Types'
    BY <1>6 DEF vars, Lines, Types
  <2>2. Counted' /\ InLine' /\ AtHand' /\ Behind' /\ Avoids'
    BY <1>6 DEF vars, Lines, Counted, Left, InLine, Roots, AtHand, Behind, Avoids, NeverFirst, InEdges
  <2>3. Stages'
    BY <1>6 DEF vars, Lines, Stages, Count, IsCyclic, NeverFirst, InEdges
  <2>. QED  BY <2>1, <2>2, <2>3 DEF Lines
<1>7. CASE Over
  BY <1>6, <1>7 DEF Over
<1>. QED  BY <1>1, <1>2, <1>3, <1>4, <1>5, <1>6, <1>7 DEF Next

\* Nobody is left that is not held up by somebody who is left.
LEMMA StuckHolds ==
    ASSUME Lines, verdict # "walking"
    PROVE  /\ NeverFirst(Stuck)
           /\ \A set \in SUBSET Nodes : NeverFirst(set) => set \subseteq Stuck
           /\ Nodes \ Range(order) = Stuck
<1>. USE DEF Lines
<1>1. todo = {} /\ ready = <<>> /\ next = <<>> /\ Range(<<>>) = {}
  BY DEF Stages, Range
<1>2. ASSUME NEW n \in Nodes PROVE n \in Stuck <=> n \notin Range(order)
  <2>1. pending[n] \in Nat /\ (pending[n] = 0 <=> n \in Range(order))
    BY <1>1, CountersCount DEF InLine, Roots
  <2>. QED  BY <2>1 DEF Stuck
<1>3. Nodes \ Range(order) = Stuck
  BY <1>2 DEF Stuck
<1>4. ASSUME NEW n \in Stuck PROVE \E e \in InEdges(n) : e[1] \in Stuck
  <2>1. n \in Nodes /\ pending[n] # 0
    BY DEF Stuck
  <2>2. PICK e \in Left(n) : TRUE
    BY <2>1, CountersCount
  <2>3. e \in InEdges(n) /\ e[1] \notin Range(order) /\ e[1] \in Nodes
    BY <1>1, <2>2 DEF Left, InEdges, Types, Edges
  <2>. QED  BY <1>3, <2>3
<1>5. ASSUME NEW set \in SUBSET Nodes, NeverFirst(set) PROVE set \subseteq Stuck
  BY <1>3, <1>5 DEF Avoids
<1>. QED  BY <1>3, <1>4, <1>5 DEF NeverFirst

\* Every behaviour keeps Lines (graph.py, both walks).
THEOREM LinesHold == Spec => []Lines
BY LinesInit, LinesStep, PTL DEF Spec

\* A CycleError names the nodes on a cycle and those behind one, and no other.
THEOREM CycleErrorIsExact == Spec => []StuckIsExact
<1>1. Lines => StuckIsExact
  BY StuckHolds DEF StuckIsExact
<1>. QED  BY <1>1, LinesHold, PTL

\* Graph.__init__ accepts a graph exactly when it has no cycle, and the order it
\* has found then is an order.
THEOREM ConstructorIsSound == Spec => []OrderIsSound
<1>1. Lines => OrderIsSound
  <2>. SUFFICES ASSUME Lines PROVE OrderIsSound
    OBVIOUS
  <2>. USE DEF Lines
  <2>1. ASSUME walk = "order", verdict = "raised" PROVE IsCyclic
    <3>1. Stuck # {}
      <4>. SUFFICES ASSUME Range(order) = Nodes PROVE FALSE
        BY <2>1, StuckHolds DEF InLine, Roots
      <4>1. order \in Seq(Nodes) /\ Len(order) \in Nat
        BY DEF Types
      <4>2. order \in Surjection(1 .. Len(order), Nodes)
        BY <4>1 DEF Surjection, Range
      <4>3. Cardinality(Nodes) <= Len(order) /\ Cardinality(Nodes) \in Nat
        <5>1. IsFiniteSet(1 .. Len(order)) /\ Cardinality(1 .. Len(order)) = Len(order)
          BY <4>1, FS_Interval
        <5>2. Cardinality(Nodes) <= Cardinality(1 .. Len(order))
          BY <4>2, <5>1, FS_Surjection
        <5>. QED  BY <5>1, <5>2, FS_CardinalityType, NodesAreSorted
      <4>. QED  BY <2>1, <4>1, <4>3 DEF Stages, Count
    <3>2. NeverFirst(Stuck) /\ Stuck \in SUBSET Nodes
      BY <2>1, StuckHolds DEF Stuck
    <3>3. Stuck \in (SUBSET Nodes) \ {{}}
      BY <3>1, <3>2
    <3>. QED  BY <3>2, <3>3, Zenon DEF IsCyclic
  <2>2. ASSUME walk = "order", verdict = "returned", NEW i \in DOMAIN order, NEW j \in DOMAIN order,
               NEW e \in edges, e[1] = order[i], e[2] = order[j]
        PROVE  i < j
    <3>1. e \in InEdges(order[j])
      BY <2>2 DEF InEdges
    <3>2. PICK k \in 1 .. j - 1 : order[k] = e[1]
      BY <3>1 DEF Behind
    <3>3. order \in Seq(Nodes)
      BY DEF Types
    <3>4. k \in DOMAIN order /\ k < j
      BY <3>2, <3>3
    <3>5. k = i
      BY <2>2, <3>2, <3>4 DEF InLine, IsInjective
    <3>. QED  BY <3>4, <3>5
  <2>3. StuckIsExact
    BY StuckHolds DEF StuckIsExact
  <2>. QED  BY <2>1, <2>2, <2>3, ReturnedWalksAll DEF OrderIsSound
<1>. QED  BY <1>1, LinesHold, PTL

-----------------------------------------------------------------------------
(* The levels of waves. *)

\* Before its first level waves has none.
LEMMA LayersBegin == ASSUME Lines, BeginLevels PROVE Layers'
<1>1. levels' = <<>> /\ order' = <<>> /\ ready' = <<>> /\ todo' = {}
  BY DEF Lines, BeginLevels, Stages
<1>2. DOMAIN levels' = {} /\ Range(order') = {} /\ Range(ready') = {}
  BY <1>1 DEF Range
<1>. QED  BY <1>1, <1>2 DEF Layers, Levelled, Stepwise, LastLevel

\* Visiting a node leaves the levels as they are.
LEMMA LayersVisit == ASSUME Lines, Layers, Visit PROVE Layers'
<1>. DEFINE h == Head(ready)
<1>. USE DEF Lines
<1>1. /\ order \in Seq(Nodes) /\ ready \in Seq(Nodes) /\ ready # <<>>
      /\ order' = Append(order, h) /\ ready' = Tail(ready)
      /\ edges' = edges /\ next' = next /\ levels' = levels
  BY DEF Visit, Types
<1>2. h \in Nodes /\ Range(ready) = Range(ready') \cup {h}
  BY <1>1, Beheaded
<1>3. Range(order') = Range(order) \cup {h} /\ order'[Len(order')] = h
  BY <1>1, <1>2, Appended
<1>4. Levelled'
  <2>1. Range(order') \cup Range(ready') = Range(order) \cup Range(ready)
    BY <1>2, <1>3
  <2>. QED  BY <1>1, <2>1 DEF Levelled, Layers, Placed
<1>5. Stepwise'
  BY <1>1 DEF Stepwise, Layers, Placed, InEdges
<1>6. LastLevel'
  BY <1>1, <1>2, <1>3 DEF LastLevel, Layers, Placed, InEdges
<1>. QED  BY <1>4, <1>5, <1>6 DEF Layers

\* So does counting an edge off: a target goes to the next level, not to this one.
LEMMA LayersCountOff ==
    ASSUME Lines, Layers, walk = "levels", NEW e \in todo, CountOff(e)
    PROVE  Layers'
<1>. DEFINE t == e[2]
<1>. USE DEF Lines
<1>1. /\ todo' = todo \ {e} /\ edges' = edges /\ order' = order /\ levels' = levels
      /\ IF pending'[t] = 0 THEN Release(t) ELSE ready' = ready /\ next' = next
  BY DEF CountOff
<1>2. ready' = ready /\ (next' = next \/ next' = Append(next, t))
  BY <1>1 DEF Release
<1>3. t \in Nodes /\ next \in Seq(Nodes) /\ e \in InEdges(t)
  BY DEF Types, Edges, InEdges
<1>4. Range(next') \subseteq Range(next) \cup {t}
  <2>1. Range(Append(next, t)) = Range(next) \cup {t}
    BY <1>3, Appended
  <2>. QED  BY <1>2, <2>1
<1>5. Placed(e[1], Len(levels))
  BY DEF AtHand, LastLevel, Layers
<1>6. Levelled' /\ Stepwise'
  BY <1>1, <1>2 DEF Levelled, Stepwise, Layers, Placed, InEdges
<1>7. LastLevel'
  <2>1. ASSUME NEW n \in Range(next'), levels # <<>>
        PROVE  \E d \in InEdges(n) : Placed(d[1], Len(levels))
    BY <1>3, <1>4, <1>5, <2>1 DEF LastLevel, Layers
  <2>2. todo # {}
    OBVIOUS
  <2>. QED  BY <1>1, <1>2, <2>1, <2>2 DEF LastLevel, Layers, Placed, InEdges
<1>. QED  BY <1>6, <1>7 DEF Layers

\* What came next is directly behind the level that ends here.
LEMMA LayersEnter == ASSUME Lines, Layers, EnterLevel PROVE Layers'
<1>. DEFINE K == Len(levels)
<1>. USE DEF Lines
<1>1. /\ todo = {} /\ ready = <<>> /\ next' = <<>> /\ levels' = Append(levels, ready')
      /\ edges' = edges /\ order' = order /\ todo' = todo
      /\ next \in Seq(Nodes) /\ IsInjective(next) /\ levels \in Seq(Seq(Nodes))
      /\ Range(order) \cap Range(next) = {}
  BY DEF EnterLevel, Types, InLine
<1>2. ready' \in Seq(Nodes) /\ IsInjective(ready') /\ Range(ready') = Range(next)
  BY <1>1, SortedRearranges DEF EnterLevel
<1>3. /\ Len(levels') = K + 1 /\ levels' # <<>> /\ levels'[K + 1] = ready'
      /\ \A k \in DOMAIN levels : levels'[k] = levels[k]
      /\ DOMAIN levels' = DOMAIN levels \cup {K + 1} /\ DOMAIN levels = 1 .. K /\ K \in Nat
  BY <1>1, <1>2, Appended
<1>4. Range(<<>>) = {}
  BY DEF Range
<1>5. /\ \A n \in Nodes : \A k \in DOMAIN levels : n \in Range(levels'[k]) <=> Placed(n, k)
      /\ \A n \in Nodes : n \in Range(levels'[K + 1]) <=> n \in Range(next)
  BY <1>2, <1>3 DEF Placed
<1>6. \A n \in Nodes : n \in Range(order) <=> \E k \in DOMAIN levels : Placed(n, k)
  BY <1>1, <1>4 DEF Levelled, Layers
<1>7. Levelled'
  <2>1. ASSUME NEW n \in Nodes
        PROVE  (n \in Range(order') \cup Range(ready')) <=> \E k \in DOMAIN levels' : n \in Range(levels'[k])
    BY <1>1, <1>2, <1>3, <1>5, <1>6
  <2>2. ASSUME NEW k \in DOMAIN levels', NEW l \in DOMAIN levels',
               NEW i \in DOMAIN levels'[k], NEW j \in DOMAIN levels'[l], levels'[k][i] = levels'[l][j]
        PROVE  k = l /\ i = j
    <3>1. CASE k \in DOMAIN levels /\ l \in DOMAIN levels
      BY <1>3, <2>2, <3>1 DEF Levelled, Layers
    <3>2. CASE k = K + 1 /\ l = K + 1
      BY <1>2, <1>3, <2>2, <3>2 DEF IsInjective
    <3>3. ASSUME NEW m \in DOMAIN levels, NEW u \in DOMAIN levels[m], levels[m][u] \in Range(next) PROVE FALSE
      <4>1. levels[m][u] \in Nodes
        BY <1>1
      <4>2. Placed(levels[m][u], m)
        BY DEF Placed, Range
      <4>. QED  BY <1>1, <1>6, <3>3, <4>1, <4>2
    <3>4. CASE k \in DOMAIN levels /\ l = K + 1
      <4>1. levels'[l][j] \in Range(next)
        BY <1>2, <1>3, <3>4 DEF Range
      <4>. QED  BY <1>3, <2>2, <3>3, <3>4, <4>1
    <3>5. CASE k = K + 1 /\ l \in DOMAIN levels
      <4>1. levels'[k][i] \in Range(next)
        BY <1>2, <1>3, <3>5 DEF Range
      <4>. QED  BY <1>3, <2>2, <3>3, <3>5, <4>1
    <3>. QED  BY <1>3, <3>1, <3>2, <3>4, <3>5
  <2>. QED  BY <2>1, <2>2 DEF Levelled, Placed
<1>8. Stepwise'
  <2>. SUFFICES ASSUME NEW k \in DOMAIN levels', NEW n \in Nodes, n \in Range(levels'[k])
                PROVE  /\ \A e \in InEdges(n) : \E l \in 1 .. k - 1 : e[1] \in Range(levels'[l])
                       /\ k > 1 => \E e \in InEdges(n) : e[1] \in Range(levels'[k - 1])
    <3>1. \A n \in Nodes : InEdges(n)' = InEdges(n)
      BY <1>1 DEF InEdges
    <3>. QED  BY <3>1 DEF Stepwise, Placed
  <2>1. CASE k \in DOMAIN levels
    <3>0. \A e \in InEdges(n) : e[1] \in Nodes
      BY DEF InEdges, Types, Edges
    <3>1. Placed(n, k)
      BY <1>5, <2>1
    <3>2. /\ \A e \in InEdges(n) : \E l \in 1 .. k - 1 : Placed(e[1], l)
          /\ k > 1 => \E e \in InEdges(n) : Placed(e[1], k - 1)
      BY <2>1, <3>1 DEF Stepwise, Layers
    <3>3. \A l \in 1 .. k - 1 : l \in DOMAIN levels
      BY <1>3, <2>1
    <3>4. k > 1 => k - 1 \in DOMAIN levels
      BY <1>3, <2>1
    <3>. QED  BY <1>5, <3>0, <3>2, <3>3, <3>4
  <2>2. CASE k = K + 1
    <3>1. n \in Range(next)
      BY <1>5, <2>2
    <3>2. \A e \in InEdges(n) : e[1] \in Range(order) /\ e[1] \in Nodes
      BY <3>1, ZeroIsFree DEF InEdges, Types, Edges
    <3>3. ASSUME NEW e \in InEdges(n) PROVE \E l \in 1 .. k - 1 : e[1] \in Range(levels'[l])
      <4>1. PICK l \in DOMAIN levels : Placed(e[1], l)
        BY <1>6, <3>2
      <4>. QED  BY <1>3, <1>5, <2>2, <3>2, <4>1
    <3>4. ASSUME k > 1 PROVE \E e \in InEdges(n) : e[1] \in Range(levels'[k - 1])
      <4>1. levels # <<>> /\ K \in DOMAIN levels
        BY <1>3, <2>2, <3>4
      <4>2. PICK e \in InEdges(n) : Placed(e[1], K)
        BY <3>1, <4>1 DEF LastLevel, Layers
      <4>3. k - 1 = K
        BY <1>3, <2>2
      <4>. QED  BY <1>5, <3>2, <4>1, <4>2, <4>3
    <3>. QED  BY <3>3, <3>4
  <2>. QED  BY <1>3, <2>1, <2>2
<1>9. LastLevel'
  <2>1. Range(next') = {} /\ todo' = {}
    BY <1>1, <1>4
  <2>2. levels'[Len(levels')] = ready'
    BY <1>3
  <2>. QED  BY <2>1, <2>2 DEF LastLevel, Placed
<1>. QED  BY <1>7, <1>8, <1>9 DEF Layers

\* Every step keeps the levels in order.
LEMMA LayersStep == Lines /\ (walk = "levels" => Layers) /\ [Next]_vars => (walk = "levels" => Layers)'
<1>. SUFFICES ASSUME Lines, walk = "levels" => Layers, [Next]_vars, walk' = "levels" PROVE Layers'
  OBVIOUS
<1>1. CASE Visit
  BY <1>1, LayersVisit DEF Visit
<1>2. CASE \E e \in todo : CountOff(e)
  BY <1>2, LayersCountOff DEF CountOff
<1>3. CASE EnterLevel
  BY <1>3, LayersEnter DEF EnterLevel
<1>4. CASE BeginLevels
  BY <1>4, LayersBegin
<1>5. CASE UNCHANGED <<edges, walk, ready, order, todo, next, levels>>
  BY <1>5 DEF Layers, Levelled, Stepwise, LastLevel, Placed, InEdges
<1>6. CASE Conclude
  BY <1>5, <1>6 DEF Conclude
<1>7. CASE Over \/ UNCHANGED vars
  BY <1>5, <1>7 DEF Over, vars
<1>. QED  BY <1>1, <1>2, <1>3, <1>4, <1>6, <1>7 DEF Next

\* The waves of a graph that was accepted are there, and a node's wave is the
\* length of the longest path to it (Graph.waves).
THEOREM WavesAreLongestPaths == Spec => []LevelsAreLongestPaths
<1>1. Init => WInv
  BY LinesInit DEF Init, WInv
<1>2. WInv /\ [Next]_vars => WInv'
  BY LinesStep, LayersStep DEF WInv
<1>3. WInv => LevelsAreLongestPaths
  <2>. SUFFICES ASSUME Lines, Layers, walk = "levels", verdict # "walking" PROVE LevelsAreLongestPaths
    BY DEF LevelsAreLongestPaths, WInv
  <2>. USE DEF Lines
  <2>1. Stuck = {}
    <3>1. NeverFirst(Stuck) /\ ~IsCyclic /\ Stuck \in SUBSET Nodes
      BY StuckHolds DEF Stages, Stuck
    <3>2. Stuck \notin (SUBSET Nodes) \ {{}}
      BY <3>1, Zenon DEF IsCyclic
    <3>. QED  BY <3>1, <3>2
  <2>2. Range(order) = Nodes
    BY <2>1, StuckHolds DEF InLine, Roots
  <2>3. verdict = "returned"
    <3>1. order \in Seq(Nodes) /\ Len(order) \in Nat /\ ready = <<>>
      BY DEF Types, Stages
    <3>2. order \in Surjection(1 .. Len(order), Nodes)
      BY <2>2, <3>1 DEF Surjection, Range
    <3>3. IsFiniteSet(1 .. Len(order)) /\ Cardinality(1 .. Len(order)) = Len(order)
      BY <3>1, FS_Interval
    <3>4. Cardinality(Nodes) <= Len(order) /\ Cardinality(Nodes) \in Nat
      BY <3>2, <3>3, FS_Surjection, FS_CardinalityType, NodesAreSorted
    <3>5. Count = Len(order)
      BY <3>1 DEF Count, Stages
    <3>. QED  BY <3>1, <3>4, <3>5 DEF Stages, Types
  <2>4. \A n \in Nodes : \E k \in DOMAIN levels : n \in Range(levels[k])
    BY <2>2 DEF Layers, Levelled, Placed
  <2>5. \A k \in DOMAIN levels : Range(levels[k]) \subseteq Nodes
    BY DEF Types, Range
  <2>. QED  BY <2>3, <2>4, <2>5 DEF LevelsAreLongestPaths, Layers, Levelled, Stepwise, Placed
<1>. QED  BY <1>1, <1>2, <1>3, PTL DEF Spec

-----------------------------------------------------------------------------
(* The framing of an answer. *)

\* s is what has been received of t.
Starts(s, t) == Len(s) <= Len(t) /\ \A i \in 1 .. Len(s) : s[i] = t[i]

\* Whatever begins before k ends by k.
Chain(f, s, k) == \A i \in Cuts(f, s) : i < k => \E n \in 1 .. k - i : Complete(f, Rest(s, i), n)

Within(f, s, closed, k) == {u \in Units(f, s, closed) : u[2] <= k}

Stops == {"done", "bad"}

\* What is left of a sequence behind a place.
LEMMA RestFacts ==
    ASSUME NEW s \in Seq(Tokens), NEW i \in 0 .. Len(s)
    PROVE  /\ Rest(s, i) \in Seq(Tokens)
           /\ Len(Rest(s, i)) = Len(s) - i
           /\ \A j \in 1 .. Len(s) - i : Rest(s, i)[j] = s[i + j]
<1>1. i + 1 \in Int /\ Len(s) \in Int /\ Len(s) \in Nat
    OBVIOUS
<1>2. \A j \in i + 1 .. Len(s) : s[j] \in Tokens
    BY ElementOfSeq
<1> DEFINE a == i + 1
           b == Len(s)
<1>3. /\ SubSeq(s, a, b) \in Seq(Tokens)
      /\ Len(SubSeq(s, a, b)) = IF a <= b THEN b - a + 1 ELSE 0
      /\ \A j \in 1 .. b - a + 1 : SubSeq(s, a, b)[j] = s[a + j - 1]
    <2> HIDE DEF a, b
    <2>1. a \in Int /\ b \in Int /\ \A j \in a .. b : s[j] \in Tokens
        BY <1>1, <1>2 DEF a, b
    <2> QED BY <2>1, SubSeqProperties
<1>4. b - a + 1 = Len(s) - i /\ \A j \in 1 .. Len(s) - i : a + j - 1 = i + j
    BY <1>1
<1>5. \A j \in 1 .. Len(s) - i : Rest(s, i)[j] = s[i + j]
    BY <1>3, <1>4 DEF Rest
<1> QED BY <1>1, <1>3, <1>5 DEF Rest

\* The first line of a buffer is one line, and so is its first frame.
LEMMA OneUnit ==
    ASSUME NEW f, NEW b \in Seq(Tokens), NEW n, NEW m, Complete(f, b, n), Complete(f, b, m)
    PROVE  n = m
<1>1. n \in Int /\ m \in Int
    BY DEF Complete
<1>2. CASE f = "sse"
    BY <1>1, <1>2 DEF Complete
<1>3. CASE f # "sse"
    BY <1>1, <1>3 DEF Complete
<1> QED BY <1>2, <1>3

\* What is complete stays so, whatever follows.
LEMMA UnitIsLocal ==
    ASSUME NEW f, NEW s \in Seq(Tokens), NEW t \in Seq(Tokens), Starts(s, t),
           NEW i \in 0 .. Len(s), NEW n \in 1 .. Len(s) - i
    PROVE  Complete(f, Rest(s, i), n) <=> Complete(f, Rest(t, i), n)
<1>1. /\ Len(Rest(s, i)) = Len(s) - i
      /\ \A j \in 1 .. Len(s) - i : Rest(s, i)[j] = s[i + j]
    BY RestFacts
<1>2. Len(s) \in Nat /\ Len(t) \in Nat /\ Len(s) <= Len(t) /\ i \in 0 .. Len(t)
    BY DEF Starts
<1>3. /\ Len(Rest(t, i)) = Len(t) - i
      /\ \A j \in 1 .. Len(t) - i : Rest(t, i)[j] = t[i + j]
    BY <1>2, RestFacts
<1>4. \A j \in 1 .. Len(s) - i : Rest(s, i)[j] = Rest(t, i)[j]
    <2> TAKE j \in 1 .. Len(s) - i
    <2>1. i + j \in 1 .. Len(s) /\ j \in 1 .. Len(t) - i
        BY <1>2
    <2> QED BY <2>1, <1>1, <1>3 DEF Starts
<1>5. n \in 1 .. Len(Rest(s, i)) /\ n \in 1 .. Len(Rest(t, i))
    BY <1>1, <1>2, <1>3
<1>6. \A j \in 1 .. n : Rest(s, i)[j] = Rest(t, i)[j]
    BY <1>4, <1>2
<1>7. Rest(s, i)[n] = Rest(t, i)[n] /\ Rest(s, i)[1] = Rest(t, i)[1]
    BY <1>6, <1>2
<1>8. \A j \in 1 .. n - 1 : Rest(s, i)[j] = Rest(t, i)[j]
    BY <1>6, <1>2
<1> QED BY <1>5, <1>7, <1>8 DEF Complete

\* A complete line or frame lies in what was read.
LEMMA UnitsFit ==
    ASSUME NEW f, NEW s \in Seq(Tokens), NEW i \in 0 .. Len(s), NEW n, Complete(f, Rest(s, i), n)
    PROVE  n \in 1 .. Len(s) - i /\ i + n \in 1 .. Len(s) /\ n \in 1 .. Len(s)
<1>1. n \in 1 .. Len(s) - i
    BY RestFacts DEF Complete
<1> QED BY <1>1

\* Cuts is linked itself: it is the least such set.
LEMMA CutsAreLinked ==
    ASSUME NEW f, NEW s \in Seq(Tokens)
    PROVE  Linked(f, s, Cuts(f, s)) /\ Cuts(f, s) \subseteq 0 .. Len(s)
<1>1. Cuts(f, s) \subseteq 0 .. Len(s)
    BY DEF Cuts
<1>2. 0 \in Cuts(f, s)
    BY DEF Cuts, Linked
<1>3. ASSUME NEW i \in Cuts(f, s), NEW n \in 1 .. Len(s), Complete(f, Rest(s, i), n)
      PROVE  i + n \in Cuts(f, s)
    <2>1. i \in 0 .. Len(s) /\ i + n \in 0 .. Len(s)
        BY <1>1, <1>3, UnitsFit
    <2>2. ASSUME NEW S \in SUBSET (0 .. Len(s)), Linked(f, s, S)
          PROVE  i + n \in S
        <3>1. i \in S
            BY <2>2, <1>3 DEF Cuts
        <3> QED BY <3>1, <2>2, <1>3 DEF Linked
    <2> QED BY <2>1, <2>2 DEF Cuts
<1> QED BY <1>1, <1>2, <1>3 DEF Linked

\* A linked set has every cut.
LEMMA CutsAreLeast ==
    ASSUME NEW f, NEW s \in Seq(Tokens), NEW S \in SUBSET (0 .. Len(s)), Linked(f, s, S)
    PROVE  Cuts(f, s) \subseteq S
    BY DEF Cuts

\* What is read later moves no cut.
LEMMA CutsStay ==
    ASSUME NEW f, NEW s \in Seq(Tokens), NEW t \in Seq(Tokens), Starts(s, t)
    PROVE  Cuts(f, t) \cap (0 .. Len(s)) = Cuts(f, s)
<1>0. Len(s) \in Nat /\ Len(t) \in Nat /\ Len(s) <= Len(t)
    BY DEF Starts
<1>1. Cuts(f, s) \subseteq Cuts(f, t)
    <2> DEFINE S == Cuts(f, t) \cap (0 .. Len(s))
    <2>1. 0 \in S
        BY <1>0, CutsAreLinked DEF Linked
    <2>2. ASSUME NEW i \in S, NEW n \in 1 .. Len(s), Complete(f, Rest(s, i), n)
          PROVE  i + n \in S
        <3>1. i \in 0 .. Len(s) /\ n \in 1 .. Len(s) - i /\ i + n \in 0 .. Len(s)
            BY <2>2, UnitsFit
        <3>2. Complete(f, Rest(t, i), n)
            BY <3>1, <2>2, UnitIsLocal
        <3>3. n \in 1 .. Len(t)
            BY <1>0, <3>1
        <3>4. i + n \in Cuts(f, t)
            BY <3>2, <3>3, CutsAreLinked DEF Linked
        <3> QED BY <3>1, <3>4
    <2>3. S \in SUBSET (0 .. Len(s)) /\ Linked(f, s, S)
        BY <2>1, <2>2 DEF Linked
    <2> HIDE DEF S
    <2>4. Cuts(f, s) \subseteq S
        BY <2>3, CutsAreLeast
    <2> QED BY <2>4 DEF S
<1>2. Cuts(f, t) \cap (0 .. Len(s)) \subseteq Cuts(f, s)
    <2> DEFINE S == Cuts(f, s) \cup (Len(s) + 1 .. Len(t))
    <2>1. 0 \in S /\ S \in SUBSET (0 .. Len(t))
        BY <1>0, CutsAreLinked DEF Linked
    <2>2. ASSUME NEW i \in S, NEW n \in 1 .. Len(t), Complete(f, Rest(t, i), n)
          PROVE  i + n \in S
        <3>1. i \in 0 .. Len(t) /\ i + n \in 1 .. Len(t) /\ n \in 1 .. Len(t) - i
            BY <2>1, <2>2, UnitsFit
        <3>2. CASE i + n > Len(s)
            BY <3>1, <3>2, <1>0
        <3>3. CASE i + n <= Len(s)
            <4>1. i \in 0 .. Len(s) /\ n \in 1 .. Len(s) - i /\ i \in Cuts(f, s) /\ n \in 1 .. Len(s)
                BY <3>1, <3>3, <1>0
            <4>2. Complete(f, Rest(s, i), n)
                BY <4>1, <2>2, UnitIsLocal
            <4> QED BY <4>1, <4>2, CutsAreLinked DEF Linked
        <3> QED BY <3>1, <3>2, <3>3, <1>0
    <2>3. Linked(f, t, S)
        BY <2>1, <2>2 DEF Linked
    <2> HIDE DEF S
    <2>4. Cuts(f, t) \subseteq S
        BY <2>1, <2>3, CutsAreLeast
    <2> QED BY <2>4, <1>0 DEF S
<1>3. Cuts(f, s) \subseteq 0 .. Len(s)
    BY CutsAreLinked
<1> QED BY <1>1, <1>2, <1>3

\* Between a cut and the end of what is complete there, or of all if nothing
\* is, there is no other.
LEMMA NoCutBetween ==
    ASSUME NEW f, NEW s \in Seq(Tokens), NEW k \in Cuts(f, s), Chain(f, s, k), NEW e \in k .. Len(s),
           \A n \in 1 .. Len(s) : Complete(f, Rest(s, k), n) => k + n > e
    PROVE  \A i \in Cuts(f, s) : i <= k \/ i > e
<1> DEFINE S == {i \in Cuts(f, s) : i <= k \/ i > e}
<1>1. Cuts(f, s) \subseteq 0 .. Len(s) /\ k \in 0 .. Len(s)
    BY CutsAreLinked
<1>2. 0 \in S
    BY <1>1, CutsAreLinked DEF Linked
<1>3. ASSUME NEW i \in S, NEW n \in 1 .. Len(s), Complete(f, Rest(s, i), n)
      PROVE  i + n \in S
    <2>1. i \in 0 .. Len(s) /\ n \in 1 .. Len(s) - i
        BY <1>1, <1>3, UnitsFit
    <2>2. i + n \in Cuts(f, s)
        BY <1>3, CutsAreLinked DEF Linked
    <2>3. CASE i < k
        <3>1. PICK m \in 1 .. k - i : Complete(f, Rest(s, i), m)
            BY <2>3 DEF Chain
        <3>2. n = m
            BY <3>1, <1>3, <2>1, RestFacts, OneUnit
        <3> QED BY <3>1, <3>2, <2>1, <2>2, <1>1
    <2>4. CASE i = k
        BY <2>4, <2>2, <1>3
    <2>5. CASE i > e
        BY <2>5, <2>1, <2>2
    <2> QED BY <2>3, <2>4, <2>5, <1>1, <2>1
<1>4. S \in SUBSET (0 .. Len(s)) /\ Linked(f, s, S)
    BY <1>1, <1>2, <1>3 DEF Linked
<1> HIDE DEF S
<1>5. Cuts(f, s) \subseteq S
    BY <1>4, CutsAreLeast
<1> QED BY <1>5 DEF S

\* A unit of what is open ends behind its beginning, by what is complete there.
LEMMA OpenUnit ==
    ASSUME NEW f, NEW s \in Seq(Tokens), NEW i, NEW j
    PROVE  <<i, j>> \in Units(f, s, FALSE) <=> i \in Cuts(f, s) /\ j \in 1 .. Len(s) /\ Complete(f, Rest(s, i), j - i)
    BY DEF Units

\* The units up to a place that has been read are those of all that is read later.
LEMMA WithinStays ==
    ASSUME NEW f, NEW s \in Seq(Tokens), NEW t \in Seq(Tokens), Starts(s, t), NEW k \in 0 .. Len(s)
    PROVE  Within(f, t, FALSE, k) = Within(f, s, FALSE, k)
<1>0. Len(s) \in Nat /\ Len(t) \in Nat /\ Len(s) <= Len(t)
    BY DEF Starts
<1>1. ASSUME NEW i, NEW j, j \in 1 .. Len(s)
      PROVE  <<i, j>> \in Units(f, t, FALSE) <=> <<i, j>> \in Units(f, s, FALSE)
    <2>1. CASE i \in 0 .. Len(s) /\ j - i \in 1 .. Len(s) - i
        <3>1. i \in Cuts(f, t) <=> i \in Cuts(f, s)
            BY <2>1, CutsStay
        <3>2. Complete(f, Rest(s, i), j - i) <=> Complete(f, Rest(t, i), j - i)
            BY <2>1, UnitIsLocal
        <3>3. j \in 1 .. Len(t)
            BY <1>0, <1>1
        <3>4. <<i, j>> \in Units(f, t, FALSE) <=> i \in Cuts(f, t) /\ Complete(f, Rest(t, i), j - i)
            BY <3>3, OpenUnit
        <3>5. <<i, j>> \in Units(f, s, FALSE) <=> i \in Cuts(f, s) /\ Complete(f, Rest(s, i), j - i)
            BY <1>1, OpenUnit
        <3> QED BY <3>1, <3>2, <3>4, <3>5
    <2>2. CASE ~(i \in 0 .. Len(s) /\ j - i \in 1 .. Len(s) - i)
        <3>1. <<i, j>> \notin Units(f, s, FALSE)
            BY <2>2, OpenUnit, CutsAreLinked, UnitsFit
        <3>2. ASSUME <<i, j>> \in Units(f, t, FALSE) PROVE FALSE
            <4>1. i \in 0 .. Len(t) /\ j - i \in 1 .. Len(t) - i
                BY <3>2, OpenUnit, CutsAreLinked, UnitsFit
            <4> QED BY <4>1, <2>2, <1>0, <1>1
        <3> QED BY <3>1, <3>2
    <2> QED BY <2>1, <2>2
<1>2. ASSUME NEW u PROVE u \in Within(f, t, FALSE, k) <=> u \in Within(f, s, FALSE, k)
    <2>1. ASSUME u \in Within(f, t, FALSE, k) PROVE u \in Within(f, s, FALSE, k)
        <3>0. u \in Units(f, t, FALSE) /\ u[2] <= k
            BY <2>1 DEF Within
        <3>1. u = <<u[1], u[2]>> /\ u[2] \in 1 .. Len(t)
            BY <3>0 DEF Units
        <3>2. u[2] \in 1 .. Len(s)
            BY <3>0, <3>1, <1>0
        <3>3. <<u[1], u[2]>> \in Units(f, s, FALSE)
            BY <3>0, <3>1, <3>2, <1>1
        <3> QED BY <3>0, <3>1, <3>3 DEF Within
    <2>2. ASSUME u \in Within(f, s, FALSE, k) PROVE u \in Within(f, t, FALSE, k)
        <3>0. u \in Units(f, s, FALSE) /\ u[2] <= k
            BY <2>2 DEF Within
        <3>1. u = <<u[1], u[2]>> /\ u[2] \in 1 .. Len(s)
            BY <3>0 DEF Units
        <3>2. <<u[1], u[2]>> \in Units(f, t, FALSE)
            BY <3>0, <3>1, <1>1
        <3> QED BY <3>0, <3>1, <3>2 DEF Within
    <2> QED BY <2>1, <2>2
<1> QED BY <1>2

\* That the body is closed adds nothing behind which more was read.
LEMMA ClosingAddsNothing ==
    ASSUME NEW f, NEW s \in Seq(Tokens), NEW k \in Cuts(f, s), Chain(f, s, k)
    PROVE  Within(f, s, TRUE, k) = Within(f, s, FALSE, k)
<1>0. k \in 0 .. Len(s)
    BY CutsAreLinked
<1>1. ASSUME NEW u \in Within(f, s, TRUE, k), IsTail(f, s, u[1]), u[2] = Len(s) PROVE FALSE
    <2>1. u[1] \in Cuts(f, s) /\ u[1] < k
        BY <1>0, <1>1 DEF Within, Units, IsTail
    <2>2. PICK n \in 1 .. k - u[1] : Complete(f, Rest(s, u[1]), n)
        BY <2>1 DEF Chain
    <2>3. n \in 1 .. Len(s)
        BY <2>1, <2>2, CutsAreLinked, UnitsFit
    <2> QED BY <2>2, <2>3, <1>1 DEF IsTail
<1> QED BY <1>1 DEF Within, Units

\* Taking what is complete at a cut leads to the next cut, and adds one unit.
LEMMA UnitTaken ==
    ASSUME NEW f, NEW s \in Seq(Tokens), NEW closed \in BOOLEAN, NEW k \in Cuts(f, s), Chain(f, s, k),
           NEW n, Complete(f, Rest(s, k), n)
    PROVE  /\ k + n \in Cuts(f, s)
           /\ Chain(f, s, k + n)
           /\ Within(f, s, closed, k + n) = Within(f, s, closed, k) \cup {<<k, k + n>>}
<1>0. k \in 0 .. Len(s) /\ n \in 1 .. Len(s) - k /\ n \in 1 .. Len(s) /\ k + n \in 1 .. Len(s)
    BY CutsAreLinked, UnitsFit
<1>1. k + n \in Cuts(f, s)
    BY <1>0, CutsAreLinked DEF Linked
<1>2. \A i \in Cuts(f, s) : i <= k \/ i > k + n - 1
    <2>1. \A m \in 1 .. Len(s) : Complete(f, Rest(s, k), m) => m = n
        BY <1>0, RestFacts, OneUnit
    <2>2. \A m \in 1 .. Len(s) : Complete(f, Rest(s, k), m) => k + m > k + n - 1
        BY <2>1, <1>0
    <2>3. k + n - 1 \in k .. Len(s)
        BY <1>0
    <2> QED BY <2>2, <2>3, NoCutBetween
<1>3. Chain(f, s, k + n)
    <2> DEFINE e == k + n
    <2>1. ASSUME NEW i \in Cuts(f, s), i < k + n PROVE \E m \in 1 .. k + n - i : Complete(f, Rest(s, i), m)
        <3>0. i \in 0 .. Len(s)
            BY CutsAreLinked
        <3>1. CASE i < k
            <4>1. PICK m \in 1 .. k - i : Complete(f, Rest(s, i), m)
                BY <3>1 DEF Chain
            <4>2. m \in 1 .. k + n - i
                BY <4>1, <3>0, <1>0
            <4> QED BY <4>1, <4>2
        <3>2. CASE i >= k
            <4>1. i = k
                BY <3>2, <2>1, <1>2, <3>0, <1>0
            <4>2. n \in 1 .. k + n - i
                BY <4>1, <1>0
            <4> QED BY <4>1, <4>2
        <3> QED BY <3>0, <3>1, <3>2, <1>0
    <2>2. \A i \in Cuts(f, s) : i < e => \E m \in 1 .. e - i : Complete(f, Rest(s, i), m)
        BY <2>1, <1>0, CutsAreLinked
    <2> HIDE DEF e
    <2>3. Chain(f, s, e)
        BY <2>2 DEF Chain
    <2> QED BY <2>3 DEF e
<1>4. <<k, k + n>> \in Within(f, s, closed, k + n)
    <2>1. k + n - k = n
        BY <1>0
    <2> QED BY <2>1, <1>0 DEF Within, Units
<1>5. Within(f, s, closed, k) \subseteq Within(f, s, closed, k + n)
    BY <1>0 DEF Within, Units
<1>6. ASSUME NEW u \in Within(f, s, closed, k + n), u[2] > k PROVE u = <<k, k + n>>
    <2>1. u \in Units(f, s, closed) /\ u[2] <= k + n /\ u[1] \in Cuts(f, s) /\ u[2] \in 1 .. Len(s) /\ u = <<u[1], u[2]>>
        BY <1>6 DEF Within, Units
    <2>2. u[1] \in 0 .. Len(s)
        BY <2>1, CutsAreLinked
    <2>3. \/ Complete(f, Rest(s, u[1]), u[2] - u[1])
          \/ IsTail(f, s, u[1])
        BY <2>1 DEF Units
    <2>4. u[1] < k + n
        <3>1. CASE Complete(f, Rest(s, u[1]), u[2] - u[1])
            <4>1. u[2] - u[1] \in 1 .. Len(s) - u[1]
                BY <3>1, <2>2, UnitsFit
            <4> QED BY <4>1, <2>1, <2>2, <1>0
        <3>2. CASE IsTail(f, s, u[1]) /\ ~Complete(f, Rest(s, u[1]), u[2] - u[1])
            <4>1. u[2] = Len(s) /\ u[1] < Len(s)
                BY <3>2, <2>1 DEF Units, IsTail
            <4> QED BY <4>1, <2>1, <2>2, <1>0
        <3> QED BY <3>1, <3>2, <2>3
    <2>5. PICK m \in 1 .. k + n - u[1] : Complete(f, Rest(s, u[1]), m)
        <3> DEFINE e == k + n
        <3>1. Chain(f, s, e) /\ u[1] < e
            BY <2>4, <1>3
        <3> HIDE DEF e
        <3>2. \E m \in 1 .. e - u[1] : Complete(f, Rest(s, u[1]), m)
            BY <3>1, <2>1 DEF Chain
        <3> QED BY <3>2, <1>0, <2>2 DEF e
    <2>6. m \in 1 .. Len(s)
        BY <2>2, <2>5, UnitsFit
    <2>7. Complete(f, Rest(s, u[1]), u[2] - u[1])
        BY <2>3, <2>5, <2>6 DEF IsTail
    <2>8. u[2] - u[1] = m
        BY <2>2, <2>5, <2>7, RestFacts, OneUnit
    <2>9. u[1] >= k
        <3>1. SUFFICES ASSUME u[1] < k PROVE FALSE
            BY <2>2, <1>0
        <3>2. PICK l \in 1 .. k - u[1] : Complete(f, Rest(s, u[1]), l)
            BY <3>1, <2>1 DEF Chain
        <3>3. l = m
            BY <2>2, <2>5, <3>2, RestFacts, OneUnit
        <3> QED BY <3>2, <3>3, <2>8, <2>1, <2>2, <1>0, <1>6
    <2>10. u[1] = k
        BY <2>9, <2>4, <2>1, <2>2, <1>2, <1>0
    <2>11. m = n
        BY <2>5, <2>10, <1>0, RestFacts, OneUnit
    <2> QED BY <2>1, <2>2, <2>8, <2>10, <2>11, <1>0
<1>7. ASSUME NEW u \in Within(f, s, closed, k + n) PROVE u[2] > k \/ u \in Within(f, s, closed, k)
    <2>1. u[2] \in Int
        BY DEF Within, Units
    <2> QED BY <2>1, <1>0 DEF Within
<1> QED BY <1>1, <1>3, <1>4, <1>5, <1>6, <1>7

\* Where nothing is complete, only a last line without its end can follow.
LEMMA NothingFollows ==
    ASSUME NEW f, NEW s \in Seq(Tokens), NEW closed \in BOOLEAN, NEW k \in Cuts(f, s), Chain(f, s, k),
           \A n : ~Complete(f, Rest(s, k), n),
           NEW u \in Units(f, s, closed), u[2] > k
    PROVE  closed /\ f = "sse" /\ u = <<k, Len(s)>>
<1>0. k \in 0 .. Len(s) /\ Len(s) \in k .. Len(s)
    BY CutsAreLinked
<1>1. \A i \in Cuts(f, s) : i <= k \/ i > Len(s)
    BY <1>0, NoCutBetween
<1>2. u[1] \in Cuts(f, s) /\ u[2] \in 1 .. Len(s) /\ u = <<u[1], u[2]>> /\ u[1] \in 0 .. Len(s)
    BY CutsAreLinked DEF Units
<1>3. u[1] <= k
    BY <1>1, <1>2
<1>4. ASSUME u[1] < k PROVE FALSE
    <2>1. PICK m \in 1 .. k - u[1] : Complete(f, Rest(s, u[1]), m)
        BY <1>4, <1>2 DEF Chain
    <2>2. m \in 1 .. Len(s)
        BY <1>2, <2>1, UnitsFit
    <2>3. Complete(f, Rest(s, u[1]), u[2] - u[1])
        BY <2>1, <2>2 DEF Units, IsTail
    <2>4. u[2] - u[1] = m
        BY <1>2, <2>1, <2>3, RestFacts, OneUnit
    <2> QED BY <2>1, <2>4, <1>0, <1>2
<1>5. u[1] = k
    BY <1>0, <1>2, <1>3, <1>4
<1>6. closed /\ IsTail(f, s, k) /\ u[2] = Len(s)
    BY <1>5 DEF Units
<1> QED BY <1>2, <1>5, <1>6 DEF IsTail

Places(s) == (0 .. Len(s)) \X (1 .. Len(s))

\* What is between two places of a sequence.
LEMMA SliceFacts ==
    ASSUME NEW s \in Seq(Tokens), NEW a \in 1 .. Len(s) + 1, NEW b \in 0 .. Len(s)
    PROVE  /\ SubSeq(s, a, b) \in Seq(Tokens)
           /\ Len(SubSeq(s, a, b)) = IF a <= b THEN b - a + 1 ELSE 0
           /\ \A i \in 1 .. b - a + 1 : SubSeq(s, a, b)[i] = s[a + i - 1]
<1>1. a \in Int /\ b \in Int /\ \A i \in a .. b : s[i] \in Tokens
    BY ElementOfSeq
<1> QED BY <1>1, SubSeqProperties

\* What a unit is does not change with what is read later.
LEMMA WhatStays ==
    ASSUME NEW f, NEW s \in Seq(Tokens), NEW t \in Seq(Tokens), Starts(s, t), NEW u \in Places(s)
    PROVE  What(f, s, u) = What(f, t, u)
<1> DEFINE a == u[1] + 1
           b == u[2]
<1>1. /\ Len(s) \in Nat /\ Len(t) \in Nat /\ Len(s) <= Len(t)
      /\ a \in 1 .. Len(s) + 1 /\ b \in 0 .. Len(s) /\ a \in 1 .. Len(t) + 1 /\ b \in 0 .. Len(t)
    BY DEF Starts, Places
<1> HIDE DEF a, b
<1>2. /\ SubSeq(s, a, b) \in Seq(Tokens)
      /\ Len(SubSeq(s, a, b)) = IF a <= b THEN b - a + 1 ELSE 0
      /\ \A i \in 1 .. b - a + 1 : SubSeq(s, a, b)[i] = s[a + i - 1]
    BY <1>1, SliceFacts
<1>3. /\ SubSeq(t, a, b) \in Seq(Tokens)
      /\ Len(SubSeq(t, a, b)) = IF a <= b THEN b - a + 1 ELSE 0
      /\ \A i \in 1 .. b - a + 1 : SubSeq(t, a, b)[i] = t[a + i - 1]
    BY <1>1, SliceFacts
<1>4. \A i \in 1 .. Len(SubSeq(s, a, b)) : SubSeq(s, a, b)[i] = SubSeq(t, a, b)[i]
    <2> TAKE i \in 1 .. Len(SubSeq(s, a, b))
    <2>1. i \in 1 .. b - a + 1 /\ a + i - 1 \in 1 .. Len(s)
        BY <1>1, <1>2
    <2> QED BY <2>1, <1>2, <1>3 DEF Starts
<1>5. SubSeq(s, a, b) = SubSeq(t, a, b)
    BY <1>2, <1>3, <1>4, SeqEqual
<1> QED BY <1>5 DEF What, a, b

\* A piece of text is behind "data:" or a prelude, and is two halves.
LEMMA TextIsLong ==
    ASSUME NEW f, NEW w \in Seq(Tokens), w # <<>>, Reading(f, w) = "text"
    PROVE  Len(w) >= 3
<1>1. PICK v : Payload(f, w) = Halves(v)
    BY DEF Reading
<1>2. Len(Payload(f, w)) = 2
    BY <1>1 DEF Halves
<1> DEFINE e == IF f = "sse" /\ w[Len(w)].is # "end" THEN Len(w) ELSE Len(w) - 1
<1>3. Len(w) \in Nat /\ Len(w) >= 1 /\ e \in 0 .. Len(w)
    BY EmptySeq
<1>4. Payload(f, w) = SubSeq(w, 2, e)
    BY DEF Payload
<1> HIDE DEF e
<1>5. 2 \in 1 .. Len(w) + 1
    BY <1>3
<1>6. Len(SubSeq(w, 2, e)) = IF 2 <= e THEN e - 2 + 1 ELSE 0
    BY <1>3, <1>5, SliceFacts
<1> QED BY <1>2, <1>3, <1>4, <1>6

\* The text of a piece is in what was read.
LEMMA TextPlace ==
    ASSUME NEW f, NEW s \in Seq(Tokens), NEW u \in Places(s), u[1] < u[2], What(f, s, u) = "text"
    PROVE  u[1] + 2 \in 1 .. Len(s) /\ u[1] + 2 < u[2]
<1> DEFINE a == u[1] + 1
           b == u[2]
<1>1. Len(s) \in Nat /\ a \in 1 .. Len(s) + 1 /\ b \in 0 .. Len(s) /\ a <= b
    BY DEF Places
<1> HIDE DEF a, b
<1>2. SubSeq(s, a, b) \in Seq(Tokens) /\ Len(SubSeq(s, a, b)) = b - a + 1
    BY <1>1, SliceFacts
<1>3. SubSeq(s, a, b) # <<>>
    BY <1>1, <1>2
<1>4. Reading(f, SubSeq(s, a, b)) = "text"
    BY DEF What, a, b
<1>5. b - a + 1 >= 3
    BY <1>2, <1>3, <1>4, TextIsLong
<1> QED BY <1>1, <1>5 DEF a, b, Places

\* Whether a unit counts as text depends on the units before it only.
LEMMA TextsWithin ==
    ASSUME NEW f, NEW s \in Seq(Tokens), NEW closed, NEW k \in Int
    PROVE  {u \in Texts(f, s, Units(f, s, closed)) : u[2] <= k} = Texts(f, s, Within(f, s, closed, k))
<1>1. \A u \in Units(f, s, closed) : u[2] \in Int
    BY DEF Units
<1>2. ASSUME NEW u \in Units(f, s, closed), u[2] <= k, NEW v \in Units(f, s, closed), v[2] <= u[2] PROVE v[2] <= k
    BY <1>1, <1>2
<1> QED BY <1>2 DEF Texts, Within

\* What the list should have does not change with what is read later.
LEMMA ListStays ==
    ASSUME NEW f, NEW s \in Seq(Tokens), NEW t \in Seq(Tokens), Starts(s, t), NEW W \in SUBSET Places(s),
           \A u \in W : u[1] < u[2], NEW list, Lists(s, list, Texts(f, s, W))
    PROVE  Lists(t, list, Texts(f, t, W))
<1>1. Texts(f, t, W) = Texts(f, s, W)
    <2>1. \A u \in W : What(f, s, u) = What(f, t, u)
        BY WhatStays
    <2> QED BY <2>1 DEF Texts
<1>2. ASSUME NEW u \in Texts(f, s, W) PROVE t[u[1] + 2] = s[u[1] + 2]
    <2>1. u \in Places(s) /\ u[1] < u[2] /\ What(f, s, u) = "text"
        BY <1>2 DEF Texts
    <2>2. u[1] + 2 \in 1 .. Len(s)
        BY <2>1, TextPlace
    <2> QED BY <2>2 DEF Starts
<1> QED BY <1>1, <1>2 DEF Lists

\* A unit behind the others adds its text if it has one, and nothing else.
LEMMA TextsGrow ==
    ASSUME NEW f, NEW s \in Seq(Tokens), NEW W \in SUBSET Places(s), NEW w \in Places(s),
           \A u \in W : u[2] < w[2], \A u \in W : What(f, s, u) \notin Stops
    PROVE  Texts(f, s, W \cup {w}) = IF What(f, s, w) = "text" THEN Texts(f, s, W) \cup {w} ELSE Texts(f, s, W)
<1>0. w[2] \in Int /\ \A u \in W : u[2] \in Int
    BY DEF Places
<1>1. \A u \in W : ~(w[2] <= u[2])
    BY <1>0
<1>2. \A u \in W : u \in Texts(f, s, W \cup {w}) <=> u \in Texts(f, s, W)
    BY <1>1 DEF Texts
<1>3. w \in Texts(f, s, W \cup {w}) <=> What(f, s, w) = "text"
    BY DEF Texts, Stops
<1>4. w \notin W
    BY <1>0
<1>5. Texts(f, s, W) \subseteq W /\ Texts(f, s, W \cup {w}) \subseteq W \cup {w}
    BY DEF Texts
<1>6. CASE What(f, s, w) = "text"
    BY <1>2, <1>3, <1>5, <1>6
<1>7. CASE What(f, s, w) # "text"
    <2>1. \A u : u \in Texts(f, s, W \cup {w}) <=> u \in Texts(f, s, W)
        BY <1>2, <1>3, <1>5, <1>7, <1>4
    <2> QED BY <2>1, <1>7
<1> QED BY <1>6, <1>7

\* A list that has the texts of some units, and one more, has one unit more.
LEMMA ListGrows ==
    ASSUME NEW s \in Seq(Tokens), NEW P \in SUBSET Places(s), NEW w \in Places(s), \A u \in P : u[2] < w[2],
           NEW list \in Seq(Nat), Lists(s, list, P), s[w[1] + 2].of \in Nat
    PROVE  Lists(s, Append(list, s[w[1] + 2].of), P \cup {w})
<1> DEFINE Upto(Q, j) == {v \in Q : v[2] <= j}
           x == s[w[1] + 2].of
           longer == Append(list, x)
<1>0. w[2] \in Int /\ \A u \in P : u[2] \in Int
    BY DEF Places
<1>1. IsFiniteSet(P) /\ w \notin P
    <2>1. IsFiniteSet(0 .. Len(s)) /\ IsFiniteSet(1 .. Len(s))
        BY FS_Interval
    <2>2. IsFiniteSet(Places(s))
        BY <2>1, FS_Product DEF Places
    <2> QED BY <2>2, <1>0, FS_Subset
<1>2. Cardinality(P) = Len(list) /\ Cardinality(P \cup {w}) = Len(list) + 1 /\ Len(list) \in Nat
    <2>1. Cardinality(P) = Len(list)
        BY DEF Lists
    <2>2. Cardinality(P \cup {w}) = Cardinality(P) + 1
        BY <1>1, FS_AddElement
    <2> QED BY <2>1, <2>2
<1>3. Len(longer) = Len(list) + 1 /\ longer[Len(list) + 1] = x /\ \A i \in 1 .. Len(list) : longer[i] = list[i]
    BY AppendProperties
<1>4. ASSUME NEW u \in P PROVE longer[Cardinality(Upto(P \cup {w}, u[2]))] = s[u[1] + 2].of
    <2>1. Upto(P \cup {w}, u[2]) = Upto(P, u[2])
        BY <1>0, <1>4
    <2>2. Cardinality(Upto(P, u[2])) \in 1 .. Len(list)
        <3>1. IsFiniteSet(Upto(P, u[2])) /\ Cardinality(Upto(P, u[2])) <= Cardinality(P)
            BY <1>1, FS_Subset
        <3>2. u \in Upto(P, u[2])
            BY <1>0
        <3>3. Cardinality(Upto(P, u[2])) \in Nat /\ Cardinality(Upto(P, u[2])) # 0
            BY <3>1, <3>2, FS_EmptySet, FS_CardinalityType
        <3> QED BY <3>1, <3>3, <1>2
    <2>3. list[Cardinality(Upto(P, u[2]))] = s[u[1] + 2].of
        BY DEF Lists
    <2> HIDE DEF Upto, longer
    <2> QED BY <2>1, <2>2, <2>3, <1>3
<1>5. longer[Cardinality(Upto(P \cup {w}, w[2]))] = s[w[1] + 2].of
    <2>1. Upto(P \cup {w}, w[2]) = P \cup {w}
        BY <1>0
    <2> HIDE DEF Upto, longer
    <2> QED BY <2>1, <1>2, <1>3
<1>6. \A u \in P \cup {w} : longer[Cardinality(Upto(P \cup {w}, u[2]))] = s[u[1] + 2].of
    BY <1>4, <1>5
<1> QED BY <1>2, <1>3, <1>6 DEF Lists

\* A unit begins before it ends.
LEMMA UnitsRun ==
    ASSUME NEW f, NEW s \in Seq(Tokens), NEW closed
    PROVE  \A u \in Units(f, s, closed) : u \in Places(s) /\ u[1] < u[2] /\ u = <<u[1], u[2]>>
<1> TAKE u \in Units(f, s, closed)
<1>1. u[1] \in Cuts(f, s) /\ u[2] \in 1 .. Len(s) /\ u = <<u[1], u[2]>> /\ u[1] \in 0 .. Len(s)
    BY CutsAreLinked DEF Units
<1>2. CASE Complete(f, Rest(s, u[1]), u[2] - u[1])
    BY <1>1, <1>2, UnitsFit DEF Places
<1>3. CASE IsTail(f, s, u[1]) /\ u[2] = Len(s)
    BY <1>1, <1>3 DEF Places, IsTail
<1> QED BY <1>2, <1>3 DEF Units

\* What is read later does not undo that all before a cut is whole.
LEMMA ChainStays ==
    ASSUME NEW f, NEW s \in Seq(Tokens), NEW t \in Seq(Tokens), Starts(s, t), NEW k \in Cuts(f, s), Chain(f, s, k)
    PROVE  k \in Cuts(f, t) /\ Chain(f, t, k)
<1>1. k \in 0 .. Len(s) /\ Cuts(f, t) \subseteq 0 .. Len(t)
    BY CutsAreLinked
<1>2. k \in Cuts(f, t)
    BY <1>1, CutsStay
<1>3. ASSUME NEW i \in Cuts(f, t), i < k PROVE \E n \in 1 .. k - i : Complete(f, Rest(t, i), n)
    <2>1. i \in 0 .. Len(s)
        BY <1>1, <1>3
    <2>2. i \in Cuts(f, s)
        BY <2>1, CutsStay
    <2>3. PICK n \in 1 .. k - i : Complete(f, Rest(s, i), n)
        BY <1>3, <2>2 DEF Chain
    <2>4. n \in 1 .. Len(s) - i
        BY <2>1, <2>3, UnitsFit
    <2> QED BY <2>1, <2>3, <2>4, UnitIsLocal
<1> QED BY <1>2, <1>3 DEF Chain

\* What a buffer begins with, and what is left of it behind that.
LEMMA RestOfRest ==
    ASSUME NEW s \in Seq(Tokens), NEW k \in 0 .. Len(s), NEW n \in 1 .. Len(s) - k
    PROVE  /\ SubSeq(Rest(s, k), 1, n) = SubSeq(s, k + 1, k + n)
           /\ SubSeq(Rest(s, k), n + 1, Len(Rest(s, k))) = Rest(s, k + n)
<1> DEFINE r == Rest(s, k)
           a == k + 1
           b == k + n
<1>1. /\ r \in Seq(Tokens)
      /\ Len(r) = Len(s) - k
      /\ \A j \in 1 .. Len(s) - k : r[j] = s[k + j]
    BY RestFacts
<1>2. a \in 1 .. Len(s) + 1 /\ b \in 0 .. Len(s) /\ b - a + 1 = n /\ a <= b /\ n \in 0 .. Len(s) - k /\ n + 1 \in 1 .. (Len(s) - k) + 1
    OBVIOUS
<1> HIDE DEF r, a, b
<1>3. SubSeq(r, 1, n) = SubSeq(s, a, b)
    <2>1. /\ SubSeq(s, a, b) \in Seq(Tokens)
          /\ Len(SubSeq(s, a, b)) = n
          /\ \A i \in 1 .. n : SubSeq(s, a, b)[i] = s[a + i - 1]
        BY <1>2, SliceFacts
    <2>2. /\ SubSeq(r, 1, n) \in Seq(Tokens)
          /\ Len(SubSeq(r, 1, n)) = IF 1 <= n THEN n - 1 + 1 ELSE 0
          /\ \A i \in 1 .. n - 1 + 1 : SubSeq(r, 1, n)[i] = r[1 + i - 1]
        BY <1>1, <1>2, SliceFacts
    <2>3. \A i \in 1 .. n : SubSeq(r, 1, n)[i] = SubSeq(s, a, b)[i]
        <3> TAKE i \in 1 .. n
        <3>1. 1 + i - 1 = i /\ a + i - 1 = k + i /\ i \in 1 .. Len(s) - k /\ i \in 1 .. n - 1 + 1
            BY <1>2 DEF a
        <3> QED BY <3>1, <1>1, <2>1, <2>2
    <2>4. Len(SubSeq(r, 1, n)) = n
        BY <2>2
    <2> QED BY <2>1, <2>2, <2>3, <2>4, SeqEqual
<1>4. SubSeq(r, n + 1, Len(r)) = Rest(s, b)
    <2>1. b \in 0 .. Len(s)
        BY <1>2
    <2>2. /\ Rest(s, b) \in Seq(Tokens)
          /\ Len(Rest(s, b)) = Len(s) - b
          /\ \A j \in 1 .. Len(s) - b : Rest(s, b)[j] = s[b + j]
        BY <2>1, RestFacts
    <2> DEFINE c == n + 1
               d == Len(r)
    <2>3. c \in 1 .. Len(r) + 1 /\ d \in 0 .. Len(r)
        BY <1>1, <1>2
    <2> HIDE DEF c, d
    <2>4. /\ SubSeq(r, c, d) \in Seq(Tokens)
          /\ Len(SubSeq(r, c, d)) = IF c <= d THEN d - c + 1 ELSE 0
          /\ \A i \in 1 .. d - c + 1 : SubSeq(r, c, d)[i] = r[c + i - 1]
        BY <1>1, <2>3, SliceFacts
    <2>5. d - c + 1 = Len(s) - b /\ Len(SubSeq(r, c, d)) = Len(s) - b
        <3>1. d - c + 1 = Len(s) - b /\ (c <= d \/ Len(s) - b = 0) /\ c \in Int /\ d \in Int /\ Len(s) - b \in Nat
            BY <1>1, <2>1 DEF b, c, d
        <3> QED BY <3>1, <2>4
    <2>6. \A i \in 1 .. Len(s) - b : SubSeq(r, c, d)[i] = Rest(s, b)[i]
        <3> TAKE i \in 1 .. Len(s) - b
        <3>1. i \in 1 .. d - c + 1 /\ c + i - 1 \in 1 .. Len(s) - k /\ k + (c + i - 1) = b + i
            BY <2>5, <1>1 DEF b, c
        <3> QED BY <3>1, <2>2, <2>4, <1>1
    <2>7. SubSeq(r, c, d) = Rest(s, b)
        BY <2>2, <2>4, <2>5, <2>6, SeqEqual
    <2> QED BY <2>7 DEF c, d
<1> QED BY <1>3, <1>4 DEF r, a, b

\* A read adds to the buffer what it adds to what was read.
LEMMA RestGrows ==
    ASSUME NEW s \in Seq(Tokens), NEW t \in Seq(Tokens), NEW n \in 1 .. Len(t) - Len(s), Starts(s, t), NEW k \in 0 .. Len(s)
    PROVE  LET more == SubSeq(t, 1, Len(s) + n)
           IN  /\ more \in Seq(Tokens) /\ Len(more) = Len(s) + n
               /\ Starts(s, more) /\ Starts(more, t)
               /\ Rest(s, k) \o SubSeq(t, Len(s) + 1, Len(s) + n) = Rest(more, k)
<1> DEFINE a == Len(s) + 1
           b == Len(s) + n
           more == SubSeq(t, 1, b)
           new == SubSeq(t, a, b)
<1>1. Len(s) \in Nat /\ Len(t) \in Nat /\ a \in 1 .. Len(t) + 1 /\ b \in 1 .. Len(t) /\ b \in 0 .. Len(t) /\ a <= b /\ b - a + 1 = n /\ 1 \in 1 .. Len(t) + 1
    BY DEF Starts
<1>2. more \in Seq(Tokens) /\ Len(more) = b /\ \A i \in 1 .. b : more[i] = t[i]
    <2> HIDE DEF b
    <2>1. /\ SubSeq(t, 1, b) \in Seq(Tokens)
          /\ Len(SubSeq(t, 1, b)) = IF 1 <= b THEN b - 1 + 1 ELSE 0
          /\ \A i \in 1 .. b - 1 + 1 : SubSeq(t, 1, b)[i] = t[1 + i - 1]
        BY <1>1, SliceFacts
    <2>2. \A i \in 1 .. b : i \in 1 .. b - 1 + 1 /\ 1 + i - 1 = i
        BY <1>1
    <2> QED BY <2>1, <2>2, <1>1
<1>3. new \in Seq(Tokens) /\ Len(new) = n /\ \A i \in 1 .. n : new[i] = t[Len(s) + i]
    <2>1. \A i \in 1 .. n : a + i - 1 = Len(s) + i
        BY <1>1
    <2> HIDE DEF a, b
    <2>2. /\ SubSeq(t, a, b) \in Seq(Tokens)
          /\ Len(SubSeq(t, a, b)) = n
          /\ \A i \in 1 .. n : SubSeq(t, a, b)[i] = t[a + i - 1]
        BY <1>1, SliceFacts
    <2> QED BY <2>1, <2>2
<1> HIDE DEF more, new
<1>4. Starts(s, more) /\ Starts(more, t)
    BY <1>1, <1>2 DEF Starts
<1>5. Rest(s, k) \o new = Rest(more, k)
    <2>1. /\ Rest(s, k) \in Seq(Tokens)
          /\ Len(Rest(s, k)) = Len(s) - k
          /\ \A j \in 1 .. Len(s) - k : Rest(s, k)[j] = s[k + j]
        BY RestFacts
    <2>2. k \in 0 .. Len(more)
        BY <1>1, <1>2
    <2>3. /\ Rest(more, k) \in Seq(Tokens)
          /\ Len(Rest(more, k)) = Len(more) - k
          /\ \A j \in 1 .. Len(more) - k : Rest(more, k)[j] = more[k + j]
        BY <1>2, <2>2, RestFacts
    <2>4. /\ Rest(s, k) \o new \in Seq(Tokens)
          /\ Len(Rest(s, k) \o new) = (Len(s) - k) + n
          /\ \A i \in 1 .. (Len(s) - k) + n :
                (Rest(s, k) \o new)[i] = IF i <= Len(s) - k THEN Rest(s, k)[i] ELSE new[i - (Len(s) - k)]
        <3> DEFINE old == Rest(s, k)
        <3>1. old \in Seq(Tokens) /\ Len(old) = Len(s) - k
            BY <2>1
        <3> HIDE DEF old
        <3>2. /\ old \o new \in Seq(Tokens)
              /\ Len(old \o new) = Len(old) + Len(new)
              /\ \A i \in 1 .. Len(old) + Len(new) : (old \o new)[i] = IF i <= Len(old) THEN old[i] ELSE new[i - Len(old)]
            BY <3>1, <1>3, ConcatProperties
        <3>3. /\ old \o new \in Seq(Tokens)
              /\ Len(old \o new) = (Len(s) - k) + n
              /\ \A i \in 1 .. (Len(s) - k) + n :
                    (old \o new)[i] = IF i <= Len(s) - k THEN old[i] ELSE new[i - (Len(s) - k)]
            BY <3>1, <3>2, <1>3
        <3> QED BY <3>3 DEF old
    <2>5. ASSUME NEW i \in 1 .. Len(more) - k PROVE (Rest(s, k) \o new)[i] = Rest(more, k)[i]
        <3>1. k + i \in 1 .. b /\ i \in 1 .. (Len(s) - k) + n
            BY <1>1, <1>2
        <3>2. CASE i <= Len(s) - k
            <4>1. i \in 1 .. Len(s) - k /\ k + i \in 1 .. Len(s)
                BY <3>2
            <4> QED BY <4>1, <3>1, <3>2, <2>1, <2>3, <2>4, <1>4 DEF Starts
        <3>3. CASE ~(i <= Len(s) - k)
            <4>1. i - (Len(s) - k) \in 1 .. n /\ Len(s) + (i - (Len(s) - k)) = k + i
                BY <3>1, <3>3
            <4> QED BY <4>1, <3>1, <3>3, <2>3, <2>4, <1>2, <1>3
        <3> QED BY <3>2, <3>3
    <2>6. Len(Rest(s, k) \o new) = Len(Rest(more, k))
        BY <2>3, <2>4, <1>1, <1>2
    <2> QED BY <2>3, <2>4, <2>5, <2>6, SeqEqual
<1> QED BY <1>1, <1>2, <1>4, <1>5 DEF more, new

FTypes ==
    /\ format \in Formats
    /\ body \in Seq(Tokens)
    /\ sent \in Seq(Tokens)
    /\ buffer \in Seq(Tokens)
    /\ texts \in Seq(Nat)
    /\ wire \in {"open", "complete"}
    /\ answer \in {"open", "completed", "failed"}

Closed == wire = "complete"

\* The units that the node has got so far.
Covered == Within(format, sent, Closed, Taken)

\* What was read is a beginning of the body, and the buffer what is left of it.
InPlace ==
    /\ Starts(sent, body)
    /\ Taken \in 0 .. Len(sent)
    /\ buffer = Rest(sent, Taken)
    /\ Closed /\ mode = "length" => sent = body

\* The buffer begins with a line or frame, but for a last line without its end.
AtCut ==
    \/ Closed /\ buffer = <<>>
    \/ Taken \in Cuts(format, sent) /\ Chain(format, sent, Taken)

Said == Lists(sent, texts, Texts(format, sent, Covered))

NotStopped == answer = "open" => \A u \in Covered : What(format, sent, u) \notin Stops

Stopped ==
    answer = "completed" =>
        \/ \E u \in Covered : What(format, sent, u) = "done"
        \/ Closed /\ \A u \in Units(format, sent, Closed) : u[2] <= Taken

AInv == FTypes /\ InPlace /\ AtCut /\ Said /\ NotStopped /\ Stopped

\* Nothing has been read or said at first.
LEMMA AInvInit == FInit => AInv
<1> SUFFICES ASSUME FInit PROVE AInv
    OBVIOUS
<1>0. PICK b \in Bodies : format = b.format /\ body = b.tokens
    BY DEF FInit
<1>1. FTypes
    <2>1. b \in [format : Formats, tokens : Seq(Tokens)]
        BY BodiesShape
    <2>2. format \in Formats /\ body \in Seq(Tokens)
        BY <2>1, <1>0
    <2> QED BY <2>2 DEF FInit, FTypes
<1>2. sent = <<>> /\ buffer = <<>> /\ Len(sent) = 0 /\ Taken = 0 /\ ~Closed /\ texts = <<>> /\ answer = "open" /\ sent \in Seq(Tokens)
    BY DEF FInit, Taken, Closed
<1>3. InPlace
    <2>1. Rest(sent, 0) = <<>>
        <3>1. Rest(sent, 0) = SubSeq(sent, 1, 0)
            BY <1>2 DEF Rest
        <3> QED BY <3>1, SubSeqEmpty
    <2> QED BY <1>1, <1>2, <2>1 DEF InPlace, Starts, FTypes
<1>4. AtCut
    <2>1. 0 \in Cuts(format, sent) /\ Cuts(format, sent) \subseteq 0 .. 0
        BY <1>2, CutsAreLinked DEF Linked
    <2> QED BY <1>2, <2>1 DEF AtCut, Chain
<1>5. Covered = {}
    BY <1>2 DEF Covered, Within, Units
<1>6. Said
    <2>1. Texts(format, sent, Covered) = {}
        BY <1>5 DEF Texts
    <2> QED BY <1>2, <2>1, FS_EmptySet DEF Said, Lists
<1> QED BY <1>1, <1>2, <1>3, <1>4, <1>5, <1>6 DEF AInv, NotStopped, Stopped

\* A read moves no cut, and what was said stays what was to be said.
LEMMA ReceiveKeeps ==
    ASSUME AInv, NEW n \in 1 .. Len(body) - Len(sent), Receive(n)
    PROVE  AInv'
<1> DEFINE k == Taken
<1>0. /\ sent \in Seq(Tokens) /\ body \in Seq(Tokens) /\ buffer \in Seq(Tokens)
      /\ Starts(sent, body) /\ k \in 0 .. Len(sent) /\ buffer = Rest(sent, k)
      /\ k \in Cuts(format, sent) /\ Chain(format, sent, k)
      /\ wire = "open" /\ wire' = "open" /\ answer = "open" /\ answer' = "open"
      /\ format' = format /\ body' = body /\ texts' = texts /\ mode' = mode
    BY DEF AInv, FTypes, InPlace, AtCut, Closed, Receive
<1>1. /\ sent' \in Seq(Tokens) /\ Len(sent') = Len(sent) + n /\ Starts(sent, sent') /\ Starts(sent', body)
      /\ buffer' = Rest(sent', k)
    <2> HIDE DEF k
    <2>1. sent' = SubSeq(body, 1, Len(sent) + n) /\ buffer' = Rest(sent, k) \o SubSeq(body, Len(sent) + 1, Len(sent) + n)
        BY <1>0 DEF Receive
    <2> QED BY <2>1, <1>0, RestGrows
<1>2. k \in 0 .. Len(sent') /\ Len(sent) \in Nat
    BY <1>0, <1>1
<1>3. buffer' \in Seq(Tokens) /\ Len(buffer') = Len(sent') - k
    <2> HIDE DEF k
    <2> QED BY <1>1, <1>2, RestFacts
<1>4. Taken' = k
    <2>1. Taken' = Len(sent') - Len(buffer')
        BY DEF Taken
    <2> HIDE DEF k
    <2> QED BY <2>1, <1>2, <1>3, <1>1
<1>5. FTypes'
    BY <1>0, <1>1, <1>3 DEF AInv, FTypes
<1>6. InPlace'
    <2> HIDE DEF k
    <2> QED BY <1>0, <1>1, <1>2, <1>4 DEF InPlace, Closed
<1>7. AtCut'
    <2> HIDE DEF k
    <2>1. k \in Cuts(format, sent') /\ Chain(format, sent', k)
        BY <1>0, <1>1, ChainStays
    <2> QED BY <2>1, <1>0, <1>4 DEF AtCut
<1>8. Covered = Within(format, sent, FALSE, k) /\ Covered' = Within(format, sent', FALSE, k) /\ Covered' = Covered
    <2>1. Covered = Within(format, sent, FALSE, k)
        BY <1>0 DEF Covered, Closed
    <2> HIDE DEF k
    <2>2. Covered' = Within(format, sent', FALSE, k)
        BY <1>0, <1>4 DEF Covered, Closed
    <2> QED BY <2>1, <2>2, <1>0, <1>1, WithinStays
<1>9. Covered \in SUBSET Places(sent) /\ \A u \in Covered : u[1] < u[2]
    BY <1>0, UnitsRun DEF Covered, Within
<1>10. Said'
    <2>1. Lists(sent', texts, Texts(format, sent', Covered))
        BY <1>0, <1>1, <1>9, ListStays DEF AInv, Said
    <2> QED BY <2>1, <1>0, <1>8 DEF Said
<1>11. NotStopped'
    <2>1. \A u \in Covered : What(format, sent', u) = What(format, sent, u)
        BY <1>0, <1>1, <1>9, WhatStays
    <2>2. \A u \in Covered : What(format, sent, u) \notin Stops
        BY <1>0 DEF AInv, NotStopped
    <2> QED BY <2>1, <2>2, <1>0, <1>8 DEF NotStopped
<1>12. Stopped'
    BY <1>0 DEF Stopped
<1> QED BY <1>5, <1>6, <1>7, <1>10, <1>11, <1>12 DEF AInv

\* The end of the body turns what is left into a last line at most.
LEMMA EndsKeeps ==
    ASSUME AInv, Ends
    PROVE  AInv'
<1>0. /\ sent \in Seq(Tokens) /\ Taken \in Cuts(format, sent) /\ Chain(format, sent, Taken)
      /\ wire = "open" /\ wire' = "complete" /\ answer = "open" /\ answer' = "open"
      /\ format' = format /\ body' = body /\ texts' = texts /\ mode' = mode /\ sent' = sent /\ buffer' = buffer
      /\ (mode = "length" => sent = body)
    BY DEF AInv, FTypes, AtCut, Closed, Ends
<1>1. Taken' = Taken
    BY <1>0 DEF Taken
<1>2. FTypes'
    BY <1>0 DEF AInv, FTypes
<1>3. InPlace'
    BY <1>0, <1>1 DEF AInv, InPlace
<1>4. AtCut'
    BY <1>0, <1>1 DEF AtCut
<1>5. Covered' = Covered
    <2>1. Covered = Within(format, sent, FALSE, Taken)
        BY <1>0 DEF Covered, Closed
    <2>2. Covered' = Within(format, sent, TRUE, Taken)
        BY <1>0, <1>1 DEF Covered, Closed
    <2> QED BY <2>1, <2>2, <1>0, ClosingAddsNothing
<1>6. Said'
    BY <1>0, <1>5 DEF AInv, Said
<1>7. NotStopped'
    BY <1>0, <1>5 DEF AInv, NotStopped
<1>8. Stopped'
    BY <1>0 DEF Stopped
<1> QED BY <1>2, <1>3, <1>4, <1>6, <1>7, <1>8 DEF AInv

\* A node that fails has said nothing more.
LEMMA BreaksKeeps ==
    ASSUME AInv, Breaks
    PROVE  AInv'
<1>0. /\ answer' = "failed"
      /\ format' = format /\ body' = body /\ texts' = texts /\ mode' = mode /\ sent' = sent /\ buffer' = buffer /\ wire' = wire
    BY DEF Breaks
<1>1. Taken' = Taken /\ Covered' = Covered /\ Closed' = Closed
    BY <1>0 DEF Taken, Covered, Closed
<1> QED BY <1>0, <1>1 DEF AInv, FTypes, InPlace, AtCut, Said, NotStopped, Stopped

\* At the end of the body everything that can be taken has been.
LEMMA CompletesKeeps ==
    ASSUME AInv, Completes
    PROVE  AInv'
<1>0. /\ answer' = "completed" /\ Closed /\ Idle /\ (format = "sse" => buffer = <<>>)
      /\ format' = format /\ body' = body /\ texts' = texts /\ mode' = mode /\ sent' = sent /\ buffer' = buffer /\ wire' = wire
    BY DEF Completes, Closed
<1>1. Taken' = Taken /\ Covered' = Covered /\ Closed' = Closed
    BY <1>0 DEF Taken, Covered, Closed
<1>2. ASSUME NEW u \in Units(format, sent, Closed) PROVE u[2] <= Taken
    <2>0. sent \in Seq(Tokens) /\ Taken \in 0 .. Len(sent) /\ u[2] \in 1 .. Len(sent) /\ Closed \in BOOLEAN
        BY UnitsRun DEF AInv, FTypes, InPlace, Places, Closed
    <2>1. CASE buffer = <<>>
        <3>1. Taken = Len(sent)
            BY <2>0, <2>1 DEF Taken
        <3> QED BY <3>1, <2>0
    <2>2. CASE buffer # <<>>
        <3>1. Taken \in Cuts(format, sent) /\ Chain(format, sent, Taken) /\ buffer = Rest(sent, Taken) /\ format # "sse"
            BY <2>2, <1>0 DEF AInv, AtCut, InPlace
        <3>2. \A n : ~Complete(format, Rest(sent, Taken), n)
            BY <3>1, <1>0 DEF Idle, Complete
        <3>3. ~(u[2] > Taken)
            BY <3>1, <3>2, <2>0, NothingFollows
        <3> QED BY <3>3, <2>0
    <2> QED BY <2>1, <2>2
<1>3. Stopped'
    <2>1. Closed /\ \A u \in Units(format, sent, Closed) : u[2] <= Taken
        BY <1>0, <1>2
    <2>2. Closed' /\ \A u \in Units(format', sent', Closed') : u[2] <= Taken'
        BY <2>1, <1>0, <1>1
    <2> QED BY <2>2 DEF Stopped
<1> QED BY <1>0, <1>1, <1>3 DEF AInv, FTypes, InPlace, AtCut, Said, NotStopped

\* What Absorb does with a unit that lies behind all others.
LEMMA AbsorbSays ==
    ASSUME AInv, answer = "open", NEW w \in Places(sent), w[1] < w[2], \A u \in Covered : u[2] < w[2],
           Absorb(SubSeq(sent, w[1] + 1, w[2]))
    PROVE  LET W == Covered \cup {w}
           IN  /\ texts' \in Seq(Nat)
               /\ answer' \in {"open", "completed", "failed"}
               /\ Lists(sent, texts', Texts(format, sent, W))
               /\ answer' = "open" => \A u \in W : What(format, sent, u) \notin Stops
               /\ answer' = "completed" => \E u \in W : What(format, sent, u) = "done"
<1> DEFINE v == SubSeq(sent, w[1] + 1, w[2])
           r == What(format, sent, w)
           W == Covered \cup {w}
           x == sent[w[1] + 2].of
<1>0. /\ sent \in Seq(Tokens) /\ texts \in Seq(Nat)
      /\ Lists(sent, texts, Texts(format, sent, Covered))
      /\ \A u \in Covered : What(format, sent, u) \notin Stops
    BY DEF AInv, FTypes, Said, NotStopped
<1>1. Covered \in SUBSET Places(sent)
    BY <1>0, UnitsRun DEF Covered, Within
<1>2. /\ texts' = IF r = "text" THEN Append(texts, v[2].of) ELSE texts
      /\ answer' = IF r = "done" THEN "completed" ELSE IF r = "bad" THEN "failed" ELSE answer
    BY DEF Absorb, What
<1>3. ASSUME r = "text" PROVE v[2].of = x /\ x \in Nat
    <2>1. w[1] + 2 \in 1 .. Len(sent) /\ w[1] + 2 < w[2]
        BY <1>0, <1>3, TextPlace
    <2> DEFINE a == w[1] + 1
               b == w[2]
    <2>2. a \in 1 .. Len(sent) + 1 /\ b \in 0 .. Len(sent) /\ 2 \in 1 .. b - a + 1 /\ a + 2 - 1 = w[1] + 2
        BY <2>1 DEF Places
    <2>3. v[2] = sent[w[1] + 2]
        <3> HIDE DEF a, b
        <3>1. \A i \in 1 .. b - a + 1 : SubSeq(sent, a, b)[i] = sent[a + i - 1]
            BY <2>2, <1>0, SliceFacts
        <3>2. SubSeq(sent, a, b)[2] = sent[w[1] + 2]
            BY <3>1, <2>2
        <3> QED BY <3>2 DEF a, b
    <2>4. sent[w[1] + 2] \in Tokens
        BY <2>1, <1>0, ElementOfSeq
    <2> QED BY <2>3, <2>4 DEF Tokens
<1>4. Texts(format, sent, W) = IF r = "text" THEN Texts(format, sent, Covered) \cup {w} ELSE Texts(format, sent, Covered)
    BY <1>0, <1>1, TextsGrow
<1>5. CASE r = "text"
    <2>1. texts' = Append(texts, x) /\ x \in Nat /\ answer' = "open"
        BY <1>2, <1>3, <1>5
    <2>2. Texts(format, sent, Covered) \in SUBSET Places(sent) /\ \A u \in Texts(format, sent, Covered) : u[2] < w[2]
        BY <1>1 DEF Texts
    <2>3. Lists(sent, Append(texts, x), Texts(format, sent, Covered) \cup {w})
        BY <1>0, <2>1, <2>2, ListGrows
    <2>4. r \notin Stops
        BY <1>5 DEF Stops
    <2>5. texts' \in Seq(Nat)
        BY <1>0, <2>1, AppendProperties
    <2> QED BY <2>1, <2>3, <2>4, <2>5, <1>0, <1>4, <1>5
<1>6. CASE r # "text"
    <2>1. texts' = texts /\ Lists(sent, texts', Texts(format, sent, W))
        BY <1>0, <1>2, <1>4, <1>6
    <2>2. answer' = "open" => r \notin Stops
        BY <1>2 DEF Stops
    <2>3. answer' = "completed" => r = "done"
        BY <1>2
    <2>4. answer' \in {"open", "completed", "failed"}
        BY <1>2
    <2> QED BY <2>1, <2>2, <2>3, <2>4, <1>0
<1> QED BY <1>5, <1>6

\* Taking a line or frame says what it says, and no unit is passed over.
LEMMA TakeKeeps ==
    ASSUME AInv, NEW n \in 1 .. Len(buffer), Take(n)
    PROVE  AInv'
<1> DEFINE k == Taken
           w == <<k, k + n>>
<1>0. /\ sent \in Seq(Tokens) /\ buffer \in Seq(Tokens) /\ answer = "open"
      /\ k \in 0 .. Len(sent) /\ buffer = Rest(sent, k) /\ buffer # <<>>
      /\ k \in Cuts(format, sent) /\ Chain(format, sent, k)
      /\ format' = format /\ body' = body /\ sent' = sent /\ mode' = mode /\ wire' = wire
    BY DEF AInv, FTypes, InPlace, AtCut, Take
<1>1. Complete(format, Rest(sent, k), n) /\ n \in 1 .. Len(sent) - k /\ k + n \in 1 .. Len(sent)
    <2>1. Complete(format, Rest(sent, k), n)
        BY <1>0 DEF Take
    <2> HIDE DEF k
    <2> QED BY <2>1, <1>0, UnitsFit
<1>2. Absorb(SubSeq(sent, k + 1, k + n)) /\ buffer' = Rest(sent, k + n)
    <2>1. Absorb(SubSeq(Rest(sent, k), 1, n)) /\ buffer' = SubSeq(Rest(sent, k), n + 1, Len(Rest(sent, k)))
        BY <1>0 DEF Take
    <2> HIDE DEF k
    <2> QED BY <2>1, <1>0, <1>1, RestOfRest
<1>3. buffer' \in Seq(Tokens) /\ Len(buffer') = Len(sent) - (k + n) /\ k + n \in 0 .. Len(sent)
    <2> HIDE DEF k
    <2>1. k + n \in 0 .. Len(sent)
        BY <1>1
    <2> QED BY <2>1, <1>0, <1>2, RestFacts
<1>4. Taken' = k + n
    <2>1. Taken' = Len(sent) - Len(buffer')
        BY <1>0 DEF Taken
    <2> HIDE DEF k
    <2> QED BY <2>1, <1>0, <1>1, <1>3
<1>5. /\ k + n \in Cuts(format, sent) /\ Chain(format, sent, k + n)
      /\ Within(format, sent, Closed, k + n) = Within(format, sent, Closed, k) \cup {w}
    <2>1. Closed \in BOOLEAN
        BY DEF Closed
    <2> HIDE DEF k
    <2> QED BY <2>1, <1>0, <1>1, UnitTaken
<1>6. Covered' = Covered \cup {w}
    <2>1. Covered' = Within(format, sent, Closed, k + n)
        BY <1>0, <1>4 DEF Covered, Closed
    <2> QED BY <2>1, <1>5 DEF Covered
<1>7. w \in Places(sent) /\ w[1] < w[2] /\ \A u \in Covered : u[2] < w[2]
    <2>1. \A u \in Covered : u[2] <= k /\ u[2] \in Int
        BY <1>0, UnitsRun DEF Covered, Within, Places
    <2> HIDE DEF k
    <2> QED BY <2>1, <1>0, <1>1 DEF Places
<1>8. LET W == Covered \cup {w}
      IN  /\ texts' \in Seq(Nat)
          /\ answer' \in {"open", "completed", "failed"}
          /\ Lists(sent, texts', Texts(format, sent, W))
          /\ answer' = "open" => \A u \in W : What(format, sent, u) \notin Stops
          /\ answer' = "completed" => \E u \in W : What(format, sent, u) = "done"
    <2>1. Absorb(SubSeq(sent, w[1] + 1, w[2]))
        BY <1>2
    <2> HIDE DEF w
    <2> QED BY <2>1, <1>0, <1>7, AbsorbSays
<1> HIDE DEF w
<1>9. FTypes'
    BY <1>0, <1>3, <1>8 DEF AInv, FTypes
<1>10. InPlace'
    <2>1. Starts(sent, body) /\ (Closed /\ mode = "length" => sent = body)
        BY DEF AInv, InPlace
    <2>2. Taken' \in 0 .. Len(sent') /\ buffer' = Rest(sent', Taken')
        BY <1>0, <1>2, <1>3, <1>4
    <2>3. Starts(sent', body') /\ (Closed' /\ mode' = "length" => sent' = body')
        BY <2>1, <1>0 DEF Closed
    <2> QED BY <2>2, <2>3 DEF InPlace
<1>11. AtCut'
    <2>1. Taken' \in Cuts(format', sent') /\ Chain(format', sent', Taken')
        BY <1>0, <1>4, <1>5
    <2> QED BY <2>1 DEF AtCut
<1>12. Said'
    BY <1>0, <1>6, <1>8 DEF Said
<1>13. NotStopped'
    BY <1>0, <1>6, <1>8 DEF NotStopped
<1>14. Stopped'
    BY <1>0, <1>6, <1>8 DEF Stopped
<1> QED BY <1>9, <1>10, <1>11, <1>12, <1>13, <1>14 DEF AInv

\* So does taking the last line, behind which there is nothing.
LEMMA TakeTailKeeps ==
    ASSUME AInv, TakeTail
    PROVE  AInv'
<1> DEFINE k == Taken
           e == Len(sent)
           w == <<k, e>>
<1>0. /\ sent \in Seq(Tokens) /\ buffer \in Seq(Tokens) /\ answer = "open" /\ Closed /\ format = "sse"
      /\ k \in 0 .. e /\ buffer = Rest(sent, k) /\ buffer # <<>>
      /\ k \in Cuts(format, sent) /\ Chain(format, sent, k)
      /\ format' = format /\ body' = body /\ sent' = sent /\ mode' = mode /\ wire' = wire /\ buffer' = <<>>
      /\ Absorb(SubSeq(sent, k + 1, e))
    BY DEF AInv, FTypes, InPlace, AtCut, TakeTail, Closed, Rest
<1>1. \A n : ~Complete(format, Rest(sent, k), n)
    BY <1>0 DEF Idle, Complete, TakeTail
<1>2. k < e /\ e \in 1 .. e
    <2>1. Len(buffer) = e - k /\ Len(buffer) > 0
        <3> HIDE DEF k
        <3>1. Len(Rest(sent, k)) = Len(sent) - k
            BY <1>0, RestFacts
        <3> QED BY <3>1, <1>0, EmptySeq
    <2> QED BY <2>1, <1>0
<1>3. Taken' = e
    BY <1>0 DEF Taken
<1>4. Covered' = Covered \cup {w}
    <2>1. Covered' = Within(format, sent, TRUE, e)
        BY <1>0, <1>3 DEF Covered, Closed
    <2>2. Covered = Within(format, sent, TRUE, k)
        BY <1>0 DEF Covered
    <2>3. w \in Units(format, sent, TRUE)
        <3>1. IsTail(format, sent, k)
            BY <1>0, <1>1, <1>2 DEF IsTail
        <3> QED BY <3>1, <1>0, <1>2 DEF Units
    <2>4. ASSUME NEW u \in Units(format, sent, TRUE) PROVE u[2] <= e /\ (u[2] <= k \/ u = w)
        <3>1. u[2] \in 1 .. e
            BY DEF Units
        <3>2. CASE u[2] > k
            <4> HIDE DEF k
            <4>1. u = <<k, Len(sent)>>
                BY <1>0, <1>1, <3>2, NothingFollows
            <4> QED BY <4>1, <3>1, <1>2
        <3> QED BY <3>1, <3>2, <1>0
    <2> HIDE DEF k, e, w
    <2> QED BY <2>1, <2>2, <2>3, <2>4, <1>0, <1>2 DEF Within
<1>5. w \in Places(sent) /\ w[1] < w[2] /\ \A u \in Covered : u[2] < w[2]
    <2>1. \A u \in Covered : u[2] <= k /\ u[2] \in Int
        BY DEF Covered, Within, Units
    <2> HIDE DEF k
    <2> QED BY <2>1, <1>0, <1>2 DEF Places
<1>6. LET W == Covered \cup {w}
      IN  /\ texts' \in Seq(Nat)
          /\ answer' \in {"open", "completed", "failed"}
          /\ Lists(sent, texts', Texts(format, sent, W))
          /\ answer' = "open" => \A u \in W : What(format, sent, u) \notin Stops
          /\ answer' = "completed" => \E u \in W : What(format, sent, u) = "done"
    <2>1. Absorb(SubSeq(sent, w[1] + 1, w[2]))
        BY <1>0
    <2> HIDE DEF w
    <2> QED BY <2>1, <1>0, <1>5, AbsorbSays
<1> HIDE DEF w
<1>7. FTypes'
    BY <1>0, <1>6 DEF AInv, FTypes
<1>8. InPlace'
    <2>1. Starts(sent, body) /\ (Closed /\ mode = "length" => sent = body)
        BY DEF AInv, InPlace
    <2>2. Rest(sent, e) = <<>>
        BY SubSeqEmpty DEF Rest
    <2>3. Taken' \in 0 .. Len(sent') /\ buffer' = Rest(sent', Taken')
        BY <1>0, <1>2, <1>3, <2>2
    <2>4. Starts(sent', body') /\ (Closed' /\ mode' = "length" => sent' = body')
        BY <2>1, <1>0 DEF Closed
    <2> QED BY <2>3, <2>4 DEF InPlace
<1>9. AtCut'
    BY <1>0 DEF AtCut, Closed
<1>10. Said'
    BY <1>0, <1>4, <1>6 DEF Said
<1>11. NotStopped'
    BY <1>0, <1>4, <1>6 DEF NotStopped
<1>12. Stopped'
    BY <1>0, <1>4, <1>6 DEF Stopped
<1> QED BY <1>7, <1>8, <1>9, <1>10, <1>11, <1>12 DEF AInv

\* AInv is inductive: one case per action of FNext.
LEMMA AInvStep == AInv /\ [FNext]_fvars => AInv'
<1> SUFFICES ASSUME AInv, [FNext]_fvars PROVE AInv'
    OBVIOUS
<1>1. ASSUME NEW n \in 1 .. Len(body) - Len(sent), Receive(n) PROVE AInv'
    BY <1>1, ReceiveKeeps
<1>2. CASE Ends
    BY <1>2, EndsKeeps
<1>3. CASE Breaks
    BY <1>3, BreaksKeeps
<1>4. ASSUME NEW n \in 1 .. Len(buffer), Take(n) PROVE AInv'
    BY <1>4, TakeKeeps
<1>5. CASE TakeTail
    BY <1>5, TakeTailKeeps
<1>6. CASE Completes
    BY <1>6, CompletesKeeps
<1>7. CASE UNCHANGED fvars
    <2>1. /\ format' = format /\ body' = body /\ mode' = mode /\ sent' = sent /\ buffer' = buffer
          /\ wire' = wire /\ texts' = texts /\ answer' = answer
        BY <1>7 DEF fvars
    <2>2. Taken' = Taken /\ Covered' = Covered /\ Closed' = Closed
        BY <2>1 DEF Taken, Covered, Closed
    <2> QED BY <2>1, <2>2 DEF AInv, FTypes, InPlace, AtCut, Said, NotStopped, Stopped
<1> QED BY <1>1, <1>2, <1>3, <1>4, <1>5, <1>6, <1>7 DEF FNext, Answered

\* However the body is pieced and wherever it ends, the node stands at the end
\* of a line or frame of what it was sent and has said what is before it.
THEOREM AnswerHolds == FSpec => []AInv
<1>1. FInit => AInv
    BY AInvInit
<1>2. AInv /\ [FNext]_fvars => AInv'
    BY AInvStep
<1> QED BY <1>1, <1>2, PTL DEF FSpec

\* The node emits the pieces that are in what it was sent, in their order, each
\* once, and all of them when it completes (sse_data, _take_frame, deltas).
THEOREM NodeSaysWhatWasSent == FSpec => []PiecesSurviveSplits
<1>1. AInv => PiecesSurviveSplits
    <2> SUFFICES ASSUME AInv PROVE PiecesSurviveSplits
        OBVIOUS
    <2> DEFINE units == Units(format, sent, Closed)
               pieces == Texts(format, sent, units)
    <2>1. sent \in Seq(Tokens) /\ Taken \in Int
        BY DEF AInv, FTypes, InPlace
    <2>2. Lists(sent, texts, {u \in pieces : u[2] <= Taken})
        <3>1. {u \in pieces : u[2] <= Taken} = Texts(format, sent, Covered)
            BY <2>1, TextsWithin DEF Covered
        <3> QED BY <3>1 DEF AInv, Said
    <2>3. ASSUME answer = "completed", NEW u \in pieces PROVE u[2] <= Taken
        <3>1. CASE \E v \in Covered : What(format, sent, v) = "done"
            <4>1. PICK v \in Covered : What(format, sent, v) = "done"
                BY <3>1
            <4>2. v \in units /\ v[2] <= Taken /\ v[2] \in Int /\ u[2] \in Int
                BY <2>1, UnitsRun DEF Covered, Within, Texts, Places
            <4>3. ~(v[2] <= u[2])
                BY <4>1, <4>2, <2>3 DEF Texts
            <4> QED BY <4>2, <4>3, <2>1
        <3>2. CASE \A v \in units : v[2] <= Taken
            BY <3>2 DEF Texts
        <3> QED BY <3>1, <3>2, <2>3 DEF AInv, Stopped
    <2> QED BY <2>2, <2>3 DEF PiecesSurviveSplits, Closed
<1> QED BY <1>1, AnswerHolds, PTL

\* An answer that is cut short of its stated length completes no node, unless
\* the model had said that it was done (stream_body).
THEOREM CutsAreNoticed == FSpec => []CutIsNoticed
<1>1. AInv => CutIsNoticed
    <2> SUFFICES ASSUME AInv, answer = "completed", mode = "length", sent # body
                 PROVE  \E u \in Units(format, sent, Closed) : What(format, sent, u) = "done"
        BY DEF CutIsNoticed, Closed
    <2>1. ~Closed
        BY DEF AInv, InPlace
    <2>2. \E u \in Covered : What(format, sent, u) = "done"
        BY <2>1 DEF AInv, Stopped
    <2> QED BY <2>2 DEF Covered, Within
<1> QED BY <1>1, AnswerHolds, PTL
=============================================================================
