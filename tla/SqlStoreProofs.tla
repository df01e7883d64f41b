---------------------------- MODULE SqlStoreProofs ----------------------------
(***************************************************************************)
(* For any callers and any number of connections: permits are neither made *)
(* nor lost but in the one way PermitsAreExact names, and a row whose time *)
(* is not up is only taken away by a delete, or by the deletion that a     *)
(* load makes after it found the row of an earlier save lapsed.            *)
(***************************************************************************)
EXTENDS SqlStore, FiniteSetTheorems, SequenceTheorems, TLAPS

Kinds == {"save", "load", "delete", "purge"}
Ops == Kinds \cup {"table", "sweep"}
Places == {"idle", "waiting", "opening", "using", "closing"}
Busy == {"opening", "using", "closing"}

Transactions == [conn : Nat, op : Ops, by : Nat, caller : Callers \cup {Gone}]

(* What the arguments need of the types. *)
Types ==
    /\ row \in [by : Nat, lapsed : BOOLEAN]
    /\ closed \in BOOLEAN
    /\ opened \in Nat /\ calls \in Nat
    /\ idle \in SUBSET (1 .. opened) /\ IsFiniteSet(idle)
    /\ capacity \in Nat /\ forgotten \in Nat
    /\ at \in [Callers -> Places]
    /\ todo \in [Callers -> Seq(Ops)]
    /\ held \in [Callers -> 0 .. opened]
    /\ threads \in SUBSET Transactions
    /\ number \in [Callers -> Nat]
    /\ seen \in [Callers -> Nat]

(* A caller that is not at rest has something to do, and a connection while  *)
(* it uses or closes one; a thread that was not left behind is its caller's. *)
Following ==
    /\ \A c \in Callers : /\ at[c] \in {"waiting", "opening", "using"} => todo[c] # <<>>
                          /\ at[c] \in {"using", "closing"} <=> held[c] # 0
    /\ \A t \in threads : t.caller # Gone => at[t.caller] = "using"
    /\ \A t, u \in threads : t.caller = u.caller /\ t.caller # Gone => t = u

QInv == Types /\ Following /\ PermitsAreExact

-----------------------------------------------------------------------------
(* Counting those who are out. *)

(* Whoever is out can be counted. *)
LEMMA OutIsFinite ==
  ASSUME NEW S \in SUBSET Callers
  PROVE  IsFiniteSet(S) /\ Cardinality(S) \in Nat
<1>1. IsFiniteSet(S)
  BY SqlShape, FS_Subset
<1> QED
  BY <1>1, FS_CardinalityType

(* One caller moves: the count follows. *)
LEMMA OneMoves ==
  ASSUME Types, NEW c \in Callers, NEW place \in Places, at' = [at EXCEPT ![c] = place]
  PROVE  /\ at' \in [Callers -> Places] /\ at'[c] = place
         /\ \A d \in Callers : d # c => at'[d] = at[d]
         /\ Cardinality(Out) \in Nat
         /\ (at[c] \in Busy <=> place \in Busy) => Cardinality(Out') = Cardinality(Out)
         /\ at[c] \notin Busy /\ place \in Busy => Cardinality(Out') = Cardinality(Out) + 1
         /\ at[c] \in Busy /\ place \notin Busy => Cardinality(Out') = Cardinality(Out) - 1
<1>1. /\ at' \in [Callers -> Places] /\ at'[c] = place
      /\ \A d \in Callers : d # c => at'[d] = at[d]
  BY DEF Types
<1>2. IsFiniteSet(Out) /\ Cardinality(Out) \in Nat
  BY OutIsFinite DEF Out
<1>3. CASE at[c] \in Busy <=> place \in Busy
  <2>1. Out' = Out
    BY <1>1, <1>3 DEF Out, Busy
  <2> QED
    BY <1>1, <1>2, <1>3, <2>1
<1>4. CASE at[c] \notin Busy /\ place \in Busy
  <2>1. Out' = Out \cup {c} /\ c \notin Out
    BY <1>1, <1>4 DEF Out, Busy
  <2>2. Cardinality(Out') = Cardinality(Out) + 1
    BY <1>2, <2>1, FS_AddElement
  <2> QED
    BY <1>1, <1>2, <1>4, <2>2
<1>5. CASE at[c] \in Busy /\ place \notin Busy
  <2>1. Out' = Out \ {c} /\ c \in Out
    BY <1>1, <1>5 DEF Out, Busy
  <2>2. Cardinality(Out') = Cardinality(Out) - 1
    BY <1>2, <2>1, FS_RemoveElement
  <2> QED
    BY <1>1, <1>2, <1>5, <2>2
<1> QED
  BY <1>3, <1>4, <1>5

(* One connection is taken from the idle ones, or put back. *)
LEMMA IdleCounts ==
  ASSUME Types
  PROVE  /\ Cardinality(idle) \in Nat
         /\ Cardinality({}) = 0
         /\ \A n \in idle : /\ IsFiniteSet(idle \ {n})
                            /\ Cardinality(idle \ {n}) = Cardinality(idle) - 1
         /\ \A n : n \notin idle => /\ IsFiniteSet(idle \cup {n})
                                    /\ Cardinality(idle \cup {n}) = Cardinality(idle) + 1
BY FS_CardinalityType, FS_EmptySet, FS_RemoveElement, FS_AddElement DEF Types

-----------------------------------------------------------------------------
(* The steps. *)

(* A transaction begins. *)
LEMMA Starting ==
  ASSUME Types, Following, NEW c \in Callers, NEW n \in Nat \ {0},
         at[c] \in {"waiting", "opening"}, Start(c, n), todo' = todo
  PROVE  /\ threads' \in SUBSET Transactions
         /\ held' = [held EXCEPT ![c] = n] /\ at' = [at EXCEPT ![c] = "using"]
         /\ Following'
<1>1. held' = [held EXCEPT ![c] = n] /\ at' = [at EXCEPT ![c] = "using"]
  BY DEF Start, Goto
<1>2. todo[c] \in Seq(Ops) /\ todo[c] # <<>>
  BY DEF Types, Following
<1>3. Head(todo[c]) \in Ops
  BY <1>2
<1>4. PICK u \in Transactions : threads' = threads \cup {u} /\ u.caller = c
  <2> DEFINE u == [conn |-> n, op |-> Head(todo[c]),
                   by |-> IF Head(todo[c]) = "sweep" THEN seen[c] ELSE number[c], caller |-> c]
  <2>1. u \in Transactions /\ u.caller = c
    BY <1>3 DEF Transactions, Types
  <2>2. threads' = threads \cup {u}
    BY DEF Start
  <2> QED
    BY <2>1, <2>2
<1>5. \A t \in threads : t.caller # c
  BY SqlShape DEF Following
<1>6. Following'
  <2>1. /\ at'[c] = "using" /\ held'[c] = n /\ n # 0
        /\ \A d \in Callers : d # c => at'[d] = at[d] /\ held'[d] = held[d]
    BY <1>1 DEF Types
  <2>2. \A d \in Callers : /\ at'[d] \in {"waiting", "opening", "using"} => todo'[d] # <<>>
                           /\ at'[d] \in {"using", "closing"} <=> held'[d] # 0
    BY <1>2, <2>1 DEF Following
  <2>3. \A t \in threads' : t.caller # Gone => at'[t.caller] = "using"
    <3>1. \A t \in threads : t.caller \in Callers \cup {Gone}
      BY DEF Types, Transactions
    <3> QED
      BY <1>4, <1>5, <2>1, <3>1 DEF Following
  <2>4. \A t, v \in threads' : t.caller = v.caller /\ t.caller # Gone => t = v
    BY <1>4, <1>5 DEF Following
  <2> QED
    BY <2>2, <2>3, <2>4 DEF Following
<1> QED
  BY <1>1, <1>4, <1>6 DEF Types

(* _release of a connection that can be used again. *)
LEMMA GivingBack ==
  ASSUME QInv, NEW c \in Callers, NEW next \in {"idle", "waiting"}, at[c] = "using",
         GiveBack(c, next), UNCHANGED <<closed, opened, forgotten>>
  PROVE  /\ PermitsAreExact'
         /\ idle' \in SUBSET (1 .. opened') /\ IsFiniteSet(idle') /\ capacity' \in Nat
         /\ held' \in [Callers -> 0 .. opened'] /\ at' \in [Callers -> Places]
         /\ at'[c] \in {"closing", next}
         /\ \A d \in Callers : /\ d # c => at'[d] = at[d] /\ held'[d] = held[d]
                               /\ at'[d] \in {"using", "closing"} <=> held'[d] # 0
<1>1. held[c] # 0 /\ held[c] \in 1 .. opened /\ held[c] \notin idle
  BY DEF QInv, Types, Following, PermitsAreExact, Holders
<1>2. CASE closed
  <2>1. at' = [at EXCEPT ![c] = "closing"] /\ held' = held /\ idle' = idle /\ capacity' = capacity
    BY <1>2 DEF GiveBack, Goto
  <2>2. /\ at' \in [Callers -> Places] /\ at'[c] = "closing"
        /\ \A d \in Callers : d # c => at'[d] = at[d]
        /\ Cardinality(Out') = Cardinality(Out)
    BY <2>1, OneMoves DEF QInv, Places, Busy
  <2>3. PermitsAreExact'
    BY <2>1, <2>2 DEF QInv, PermitsAreExact, Holders
  <2> QED
    BY <1>1, <2>1, <2>2, <2>3 DEF QInv, Types, Following
<1>3. CASE ~closed
  <2>1. /\ at' = [at EXCEPT ![c] = next] /\ held' = [held EXCEPT ![c] = 0]
        /\ idle' = idle \cup {held[c]} /\ capacity' = capacity + 1
    BY <1>3 DEF GiveBack, Goto
  <2>2. next \in Places /\ next \notin Busy /\ at[c] \in Busy
    BY DEF Places, Busy
  <2>3. /\ at' \in [Callers -> Places] /\ at'[c] = next
        /\ \A d \in Callers : d # c => at'[d] = at[d]
        /\ Cardinality(Out) \in Nat /\ Cardinality(Out') = Cardinality(Out) - 1
    BY <2>1, <2>2, OneMoves DEF QInv
  <2>4. /\ held' \in [Callers -> 0 .. opened'] /\ held'[c] = 0
        /\ \A d \in Callers : d # c => held'[d] = held[d]
    BY <2>1 DEF QInv, Types
  <2>5. /\ Cardinality(idle) \in Nat /\ Cardinality(idle') = Cardinality(idle) + 1
        /\ IsFiniteSet(idle')
    BY <1>1, <2>1, IdleCounts DEF QInv
  <2>6. PermitsAreExact'
    <3>1. capacity' + Cardinality(Out') + forgotten' = MaxConnections
      BY <2>1, <2>3 DEF QInv, Types, PermitsAreExact
    <3>2. Cardinality(idle') <= capacity' + forgotten'
      BY <2>1, <2>5 DEF QInv, Types, PermitsAreExact
    <3>3. \A d \in Holders' : d # c /\ d \in Holders /\ held'[d] = held[d]
      BY <2>4 DEF Holders
    <3>4. c \in Holders
      BY <1>1 DEF Holders
    <3>5. \A d \in Holders' : held'[d] \notin idle'
      BY <2>1, <3>3, <3>4 DEF QInv, PermitsAreExact
    <3> QED
      BY <3>1, <3>2, <3>3, <3>5 DEF QInv, PermitsAreExact
  <2>7. idle' \in SUBSET (1 .. opened') /\ capacity' \in Nat
    <3>1. opened' = opened /\ idle \in SUBSET (1 .. opened) /\ capacity \in Nat
      BY DEF QInv, Types
    <3>2. capacity' \in Nat
      BY <2>1, <3>1
    <3>3. idle' \in SUBSET (1 .. opened')
      BY <1>1, <2>1, <3>1
    <3> QED
      BY <3>2, <3>3
  <2>8. ASSUME NEW d \in Callers
        PROVE  at'[d] \in {"using", "closing"} <=> held'[d] # 0
    <3>1. CASE d = c
      BY <2>2, <2>3, <2>4, <3>1 DEF Busy
    <3>2. CASE d # c
      BY <2>3, <2>4, <3>2 DEF QInv, Following
    <3> QED
      BY <3>1, <3>2
  <2> QED
    BY <2>3, <2>4, <2>5, <2>6, <2>7, <2>8
<1> QED
  BY <1>2, <1>3 DEF QInv, Types

(* A call begins. *)
LEMMA CallKeeps ==
  ASSUME QInv, NEW c \in Callers, Call(c)
  PROVE  QInv'
<1>1. PICK place \in {"idle", "waiting"} : at' = [at EXCEPT ![c] = place]
  BY DEF Call, Goto
<1>2. place \in Places /\ place \notin Busy /\ at[c] = "idle" /\ at[c] \notin Busy
  BY DEF Call, Places, Busy
<1>3. /\ at' \in [Callers -> Places] /\ at'[c] = place
      /\ \A d \in Callers : d # c => at'[d] = at[d]
      /\ Cardinality(Out') = Cardinality(Out)
  BY <1>1, <1>2, OneMoves DEF QInv
<1>4. PICK w \in Seq(Ops) : todo' = [todo EXCEPT ![c] = w] /\ w # <<>>
  <2>1. PICK op \in Kinds : todo' = [todo EXCEPT ![c] = IF ready THEN <<op>> ELSE <<"table", op>>]
    BY DEF Call, Kinds
  <2>2. /\ <<op>> \in Seq(Ops) /\ <<op>> # <<>>
        /\ <<"table", op>> \in Seq(Ops) /\ <<"table", op>> # <<>>
    BY DEF Ops
  <2>3. CASE ready
    BY <2>1, <2>2, <2>3
  <2>4. CASE ~ready
    BY <2>1, <2>2, <2>4
  <2> QED
    BY <2>3, <2>4
<1>5. /\ row' = row /\ closed' = closed /\ opened' = opened /\ calls' = calls + 1
      /\ idle' = idle /\ capacity' = capacity /\ forgotten' = forgotten
      /\ held' = held /\ threads' = threads /\ seen' = seen
      /\ number' = [number EXCEPT ![c] = calls + 1]
  BY DEF Call, pool
<1>6. Types'
  BY <1>3, <1>4, <1>5 DEF QInv, Types, Transactions
<1>7. \A d \in Callers : /\ at'[d] \in {"waiting", "opening", "using"} => todo'[d] # <<>>
                         /\ at'[d] \in {"using", "closing"} <=> held'[d] # 0
  <2>1. \A d \in Callers : todo'[d] = todo[d] \/ todo'[d] # <<>>
    BY <1>4 DEF QInv, Types
  <2>2. todo'[c] # <<>>
    BY <1>4 DEF QInv, Types
  <2>3. held'[c] = 0 /\ at'[c] \notin {"using", "closing"}
    BY <1>2, <1>3, <1>5 DEF QInv, Following
  <2> QED
    BY <1>3, <1>5, <2>1, <2>2, <2>3 DEF QInv, Following
<1>8. \A t \in threads : t.caller # Gone => at'[t.caller] = "using"
  <2>1. \A t \in threads : t.caller \in Callers \cup {Gone} /\ t.caller # c
    BY <1>2, SqlShape DEF QInv, Types, Transactions, Following
  <2> QED
    BY <1>3, <2>1 DEF QInv, Following
<1>9. Following'
  BY <1>5, <1>7, <1>8 DEF QInv, Following
<1>10. PermitsAreExact'
  BY <1>3, <1>5 DEF QInv, PermitsAreExact, Holders
<1> QED
  BY <1>6, <1>9, <1>10 DEF QInv

(* A connection is checked out: an idle one. *)
LEMMA TakingIdle ==
  ASSUME QInv, NEW c \in Callers, NEW n \in idle, at[c] = "waiting",
         Start(c, n), idle' = idle \ {n}, capacity > 0, capacity' = capacity - 1,
         UNCHANGED <<row, closed, opened, todo, number, seen, calls, forgotten>>
  PROVE  QInv'
<1>1. n \in Nat \ {0} /\ n \in 1 .. opened
  BY DEF QInv, Types
<1>2. /\ threads' \in SUBSET Transactions /\ Following'
      /\ held' = [held EXCEPT ![c] = n] /\ at' = [at EXCEPT ![c] = "using"]
  BY <1>1, Starting DEF QInv
<1>3. /\ at' \in [Callers -> Places]
      /\ Cardinality(Out) \in Nat /\ Cardinality(Out') = Cardinality(Out) + 1
  <2>1. "using" \in Places /\ "using" \in Busy /\ at[c] \notin Busy
    BY DEF Places, Busy
  <2> QED
    BY <1>2, <2>1, OneMoves DEF QInv
<1>4. /\ Cardinality(idle) \in Nat /\ Cardinality(idle') = Cardinality(idle) - 1
      /\ IsFiniteSet(idle')
  BY IdleCounts DEF QInv
<1>5. Types'
  BY <1>1, <1>2, <1>3, <1>4 DEF QInv, Types
<1>6. capacity' + Cardinality(Out') + forgotten' = MaxConnections
  BY <1>3 DEF QInv, Types, PermitsAreExact
<1>7. Cardinality(idle') <= capacity' + forgotten'
  BY <1>4 DEF QInv, Types, PermitsAreExact
<1>8. \A d \in Holders' : held'[d] = IF d = c THEN n ELSE held[d]
  BY <1>2 DEF Holders, QInv, Types
<1>9. \A d \in Holders' : d # c => d \in Holders /\ held[d] # n
  BY <1>8 DEF Holders, QInv, PermitsAreExact
<1>10. /\ \A d, e \in Holders' : held'[d] = held'[e] => d = e
       /\ \A d \in Holders' : held'[d] \notin idle'
  BY <1>8, <1>9 DEF QInv, PermitsAreExact
<1> QED
  BY <1>2, <1>5, <1>6, <1>7, <1>10 DEF QInv, PermitsAreExact

(* ... or a new one, which is opened first. *)
LEMMA Opening ==
  ASSUME QInv, NEW c \in Callers, at[c] = "waiting", idle = {}, Goto(c, "opening"),
         capacity > 0, capacity' = capacity - 1,
         UNCHANGED <<row, closed, opened, idle, held, threads, todo, number, seen, calls, forgotten>>
  PROVE  QInv'
<1>1. "opening" \in Places /\ "opening" \in Busy /\ at[c] \notin Busy
  BY DEF Places, Busy
<1>2. /\ at' \in [Callers -> Places] /\ at'[c] = "opening"
      /\ \A d \in Callers : d # c => at'[d] = at[d]
      /\ Cardinality(Out) \in Nat /\ Cardinality(Out') = Cardinality(Out) + 1
  BY <1>1, OneMoves DEF QInv, Goto
<1>3. Types'
  BY <1>2 DEF QInv, Types
<1>4. Following'
  <2>1. \A t \in threads : t.caller \in Callers \cup {Gone} /\ t.caller # c
    BY SqlShape DEF QInv, Types, Transactions, Following
  <2>2. \A d \in Callers : /\ at'[d] \in {"waiting", "opening", "using"} => todo[d] # <<>>
                           /\ at'[d] \in {"using", "closing"} <=> held[d] # 0
    BY <1>2 DEF QInv, Following
  <2> QED
    BY <1>2, <2>1, <2>2 DEF QInv, Following
<1>5. capacity' + Cardinality(Out') + forgotten' = MaxConnections
  BY <1>2 DEF QInv, Types, PermitsAreExact
<1>6. Cardinality(idle') <= capacity' + forgotten'
  BY IdleCounts DEF QInv, Types
<1> QED
  BY <1>3, <1>4, <1>5, <1>6 DEF QInv, PermitsAreExact, Holders

(* The new connection is there. *)
LEMMA OpenedKeeps ==
  ASSUME QInv, NEW c \in Callers, Opened(c)
  PROVE  QInv'
<1>1. /\ at[c] = "opening" /\ opened' = opened + 1 /\ Start(c, opened + 1)
      /\ UNCHANGED <<row, closed, idle, capacity, todo, number, seen, calls, forgotten>>
  BY DEF Opened
<1>2. opened + 1 \in Nat \ {0} /\ opened \in Nat
  BY DEF QInv, Types
<1>3. /\ threads' \in SUBSET Transactions /\ Following'
      /\ held' = [held EXCEPT ![c] = opened + 1] /\ at' = [at EXCEPT ![c] = "using"]
  BY <1>1, <1>2, Starting DEF QInv
<1>4. at' \in [Callers -> Places] /\ Cardinality(Out') = Cardinality(Out)
  <2>1. "using" \in Places /\ "using" \in Busy /\ at[c] \in Busy
    BY <1>1 DEF Places, Busy
  <2> QED
    BY <1>3, <2>1, OneMoves DEF QInv
<1>5. Types'
  <2>1. held' \in [Callers -> 0 .. opened']
    BY <1>1, <1>2, <1>3 DEF QInv, Types
  <2>2. idle' \in SUBSET (1 .. opened')
    BY <1>1, <1>2 DEF QInv, Types
  <2> QED
    BY <1>1, <1>2, <1>3, <1>4, <2>1, <2>2 DEF QInv, Types
<1>6. \A d \in Holders' : held'[d] = IF d = c THEN opened + 1 ELSE held[d]
  BY <1>3 DEF Holders, QInv, Types
<1>7. \A d \in Holders' : d # c => d \in Holders /\ held[d] # opened + 1
  BY <1>2, <1>6 DEF Holders, QInv, Types
<1>8. opened + 1 \notin idle
  BY <1>2 DEF QInv, Types
<1>9. /\ \A d, e \in Holders' : held'[d] = held'[e] => d = e
      /\ \A d \in Holders' : held'[d] \notin idle'
  BY <1>1, <1>6, <1>7, <1>8 DEF QInv, PermitsAreExact
<1> QED
  BY <1>1, <1>3, <1>4, <1>5, <1>9 DEF QInv, PermitsAreExact

(* A permit comes back without a connection. *)
LEMMA PermitBack ==
  ASSUME QInv, NEW c \in Callers, at[c] \in {"opening", "closing"}, Goto(c, "idle"),
         held' = [held EXCEPT ![c] = 0],
         \/ capacity' = capacity + 1 /\ forgotten' = forgotten
         \/ capacity' = capacity /\ forgotten' = forgotten + 1,
         UNCHANGED <<row, closed, opened, idle, threads, todo, number, seen, calls>>
  PROVE  QInv'
<1>1. "idle" \in Places /\ "idle" \notin Busy /\ at[c] \in Busy
  BY DEF Places, Busy
<1>2. /\ at' \in [Callers -> Places] /\ at'[c] = "idle"
      /\ \A d \in Callers : d # c => at'[d] = at[d]
      /\ Cardinality(Out) \in Nat /\ Cardinality(Out') = Cardinality(Out) - 1
  BY <1>1, OneMoves DEF QInv, Goto
<1>3. /\ held' \in [Callers -> 0 .. opened] /\ held'[c] = 0
      /\ \A d \in Callers : d # c => held'[d] = held[d]
  BY DEF QInv, Types
<1>4. Types'
  BY <1>2, <1>3 DEF QInv, Types
<1>5. Following'
  <2>1. \A t \in threads : t.caller \in Callers \cup {Gone} /\ t.caller # c
    BY SqlShape DEF QInv, Types, Transactions, Following
  <2>2. \A d \in Callers : /\ at'[d] \in {"waiting", "opening", "using"} => todo[d] # <<>>
                           /\ at'[d] \in {"using", "closing"} <=> held'[d] # 0
    BY <1>2, <1>3 DEF QInv, Following
  <2> QED
    BY <1>2, <2>1, <2>2 DEF QInv, Following
<1>6. /\ capacity' + Cardinality(Out') + forgotten' = MaxConnections
      /\ Cardinality(idle') <= capacity' + forgotten'
  <2>1. capacity \in Nat /\ forgotten \in Nat /\ Cardinality(idle) \in Nat
    BY IdleCounts DEF QInv, Types
  <2>2. /\ capacity + Cardinality(Out) + forgotten = MaxConnections
        /\ Cardinality(idle) <= capacity + forgotten
    BY DEF QInv, PermitsAreExact
  <2> QED
    BY <1>2, <2>1, <2>2
<1>7. \A d \in Holders' : d \in Holders /\ held'[d] = held[d]
  BY <1>3 DEF Holders
<1> QED
  BY <1>4, <1>5, <1>6, <1>7 DEF QInv, PermitsAreExact

(* What a transaction does leaves a row. *)
LEMMA EffectIsARow ==
  ASSUME Types, NEW t \in threads
  PROVE  Effect(t) \in [by : Nat, lapsed : BOOLEAN]
<1>1. t.by \in Nat /\ row \in [by : Nat, lapsed : BOOLEAN]
  BY DEF Types, Transactions
<1> QED
  BY <1>1 DEF Effect, Absent

(* A thread that was left behind ends. *)
LEMMA OrphanEnds ==
  ASSUME QInv, NEW t \in threads, threads' = threads \ {t},
         row' \in [by : Nat, lapsed : BOOLEAN], t.caller = Gone,
         UNCHANGED <<closed, opened, idle, capacity, at, held, todo, number, seen, calls, forgotten>>
  PROVE  QInv'
<1>1. Types'
  BY DEF QInv, Types
<1>2. Following'
  BY DEF QInv, Following
<1>3. PermitsAreExact'
  BY DEF QInv, PermitsAreExact, Out, Holders
<1> QED
  BY <1>1, <1>2, <1>3 DEF QInv

(* A transaction of a caller ends, and the connection is given back. *)
LEMMA TransactionEnds ==
  ASSUME QInv, NEW t \in threads, NEW c \in Callers, t.caller = c,
         NEW next \in {"idle", "waiting"}, GiveBack(c, next),
         NEW rest \in Seq(Ops), todo' = [todo EXCEPT ![c] = rest],
         next = "waiting" => rest # <<>>,
         NEW found \in Nat, seen' = [seen EXCEPT ![c] = found],
         row' \in [by : Nat, lapsed : BOOLEAN], threads' = threads \ {t},
         UNCHANGED <<closed, opened, number, calls, forgotten>>
  PROVE  QInv'
<1>1. at[c] = "using" /\ c # Gone
  BY SqlShape DEF QInv, Following
<1>2. /\ PermitsAreExact'
      /\ idle' \in SUBSET (1 .. opened') /\ IsFiniteSet(idle') /\ capacity' \in Nat
      /\ held' \in [Callers -> 0 .. opened'] /\ at' \in [Callers -> Places]
      /\ at'[c] \in {"closing", next}
      /\ \A d \in Callers : /\ d # c => at'[d] = at[d] /\ held'[d] = held[d]
                            /\ at'[d] \in {"using", "closing"} <=> held'[d] # 0
  BY <1>1, GivingBack
<1>3. Types'
  <2>1. todo' \in [Callers -> Seq(Ops)] /\ seen' \in [Callers -> Nat]
    BY DEF QInv, Types
  <2> QED
    BY <1>2, <2>1 DEF QInv, Types
<1>4. \A d \in Callers : at'[d] \in {"waiting", "opening", "using"} => todo'[d] # <<>>
  <2>1. todo'[c] = rest /\ \A d \in Callers : d # c => todo'[d] = todo[d]
    BY DEF QInv, Types
  <2> QED
    BY <1>2, <2>1 DEF QInv, Following
<1>5. \A u \in threads' : u.caller # Gone => at'[u.caller] = "using"
  <2>1. \A u \in threads' : u.caller # c /\ u.caller \in Callers \cup {Gone}
    BY <1>1 DEF QInv, Types, Transactions, Following
  <2> QED
    BY <1>2, <2>1 DEF QInv, Following
<1>6. \A u, v \in threads' : u.caller = v.caller /\ u.caller # Gone => u = v
  BY DEF QInv, Following
<1>7. Following'
  BY <1>2, <1>4, <1>5, <1>6 DEF Following
<1> QED
  BY <1>2, <1>3, <1>7 DEF QInv

(* A transaction commits. *)
LEMMA CommitKeeps ==
  ASSUME QInv, NEW t \in threads, Commit(t)
  PROVE  QInv'
<1>1. row' \in [by : Nat, lapsed : BOOLEAN]
  BY EffectIsARow DEF QInv, Commit
<1>2. t.caller \in Callers \cup {Gone}
  BY DEF QInv, Types, Transactions
<1>3. CASE t.caller = Gone
  BY <1>1, <1>3, OrphanEnds DEF Commit
<1>4. CASE t.caller # Gone
  <2>1. PICK c \in Callers : t.caller = c
    BY <1>2, <1>4
  <2>2. at[c] = "using" /\ todo[c] \in Seq(Ops) /\ todo[c] # <<>>
    BY <1>4, <2>1 DEF QInv, Types, Following
  <2>3. Rest(t) \in Seq(Ops)
    <3>1. <<"sweep">> \in Seq(Ops) /\ Tail(todo[c]) \in Seq(Ops)
      BY <2>2 DEF Ops
    <3> QED
      BY <2>1, <3>1 DEF Rest
  <2>4. PICK next \in {"idle", "waiting"} :
           next = (IF Rest(t) = <<>> THEN "idle" ELSE "waiting")
    OBVIOUS
  <2>5. /\ GiveBack(c, next) /\ (next = "waiting" => Rest(t) # <<>>)
        /\ todo' = [todo EXCEPT ![c] = Rest(t)] /\ seen' = [seen EXCEPT ![c] = row.by]
        /\ threads' = threads \ {t}
        /\ UNCHANGED <<closed, opened, number, calls, forgotten>>
    BY <1>4, <2>1, <2>4 DEF Commit
  <2>6. row.by \in Nat
    BY DEF QInv, Types
  <2> QED
    BY <1>1, <2>1, <2>3, <2>5, <2>6, TransactionEnds
<1> QED
  BY <1>3, <1>4

(* A transaction fails. *)
LEMMA RaisedKeeps ==
  ASSUME QInv, NEW t \in threads, Raised(t)
  PROVE  QInv'
<1>1. row' \in [by : Nat, lapsed : BOOLEAN]
  BY EffectIsARow DEF QInv, Types, Raised
<1>2. /\ t.caller \in Callers \cup {Gone} /\ threads' = threads \ {t}
      /\ UNCHANGED <<closed, opened, todo, number, seen, calls, forgotten>>
  BY DEF QInv, Types, Transactions, Raised
<1>3. CASE t.caller = Gone
  BY <1>1, <1>2, <1>3, OrphanEnds DEF Raised
<1>4. CASE t.caller # Gone
  <2>1. PICK c \in Callers : t.caller = c
    BY <1>2, <1>4
  <2>2. CASE GiveBack(c, "idle")
    <3>1. todo' = [todo EXCEPT ![c] = todo[c]] /\ todo[c] \in Seq(Ops)
      BY <1>2 DEF QInv, Types
    <3>2. seen' = [seen EXCEPT ![c] = seen[c]] /\ seen[c] \in Nat
      BY <1>2 DEF QInv, Types
    <3>3. ASSUME NEW next \in {"idle", "waiting"}, next = "idle", GiveBack(c, next) PROVE QInv'
      BY <1>1, <1>2, <2>1, <3>1, <3>2, <3>3, TransactionEnds
    <3> QED
      BY <2>2, <3>3
  <2>3. CASE Goto(c, "closing") /\ UNCHANGED <<held, idle, capacity>>
    <3>1. "closing" \in Places /\ "closing" \in Busy /\ at[c] = "using" /\ at[c] \in Busy
      BY <1>4, <2>1 DEF QInv, Following, Places, Busy
    <3>2. /\ at' \in [Callers -> Places] /\ at'[c] = "closing"
          /\ \A d \in Callers : d # c => at'[d] = at[d]
          /\ Cardinality(Out') = Cardinality(Out)
      BY <2>3, <3>1, OneMoves DEF QInv, Goto
    <3>3. Types'
      BY <1>1, <1>2, <2>3, <3>2 DEF QInv, Types
    <3>4. \A u \in threads' : u.caller # c /\ u.caller \in Callers \cup {Gone}
      BY <1>2, <1>4, <2>1 DEF QInv, Types, Transactions, Following
    <3>5. \A d \in Callers : /\ at'[d] \in {"waiting", "opening", "using"} => todo[d] # <<>>
                             /\ at'[d] \in {"using", "closing"} <=> held[d] # 0
      BY <3>1, <3>2 DEF QInv, Following
    <3>6. \A u \in threads' : u.caller # Gone => at'[u.caller] = "using"
      BY <1>2, <3>2, <3>4 DEF QInv, Following
    <3>7. Following'
      BY <1>2, <2>3, <3>5, <3>6 DEF QInv, Following
    <3>8. PermitsAreExact'
      BY <1>2, <2>3, <3>2 DEF QInv, PermitsAreExact, Holders
    <3> QED
      BY <3>3, <3>7, <3>8 DEF QInv
  <2> QED
    BY <1>4, <2>1, <2>2, <2>3 DEF Raised
<1> QED
  BY <1>3, <1>4

(* A caller that gives up leaves its thread behind, and no other. *)
LEMMA OrphanFacts ==
  ASSUME Types, NEW c \in Callers
  PROVE  /\ Orphaned(c) \in SUBSET Transactions
         /\ \A u \in Orphaned(c) : u.caller # Gone => u \in threads /\ u.caller # c
<1>1. ASSUME NEW u \in Orphaned(c)
      PROVE  u \in Transactions /\ (u.caller # Gone => u \in threads /\ u.caller # c)
  <2>1. PICK t \in threads : u = IF t.caller = c THEN [t EXCEPT !.caller = Gone] ELSE t
    BY DEF Orphaned
  <2>2. t \in Transactions
    BY DEF Types
  <2>3. CASE t.caller = c
    BY <2>1, <2>2, <2>3 DEF Transactions
  <2>4. CASE t.caller # c
    BY <2>1, <2>2, <2>4
  <2> QED
    BY <2>3, <2>4
<1> QED
  BY <1>1

(* A call is cancelled. *)
LEMMA CancelKeeps ==
  ASSUME QInv, NEW c \in Callers, Cancel(c)
  PROVE  QInv'
<1>1. /\ threads' = Orphaned(c)
      /\ row' = row /\ closed' = closed /\ opened' = opened /\ todo' = todo
      /\ number' = number /\ seen' = seen /\ calls' = calls
  BY DEF Cancel
<1>2. /\ threads' \in SUBSET Transactions
      /\ \A u \in threads' : u.caller # Gone => u \in threads /\ u.caller # c
  BY <1>1, OrphanFacts DEF QInv
<1>3. ASSUME at' \in [Callers -> Places], at'[c] \in {"idle", "closing"},
             \A d \in Callers : /\ d # c => at'[d] = at[d]
                                /\ at'[d] \in {"using", "closing"} <=> held'[d] # 0
      PROVE  Following'
  <2>1. \A d \in Callers : at'[d] \in {"waiting", "opening", "using"} => todo'[d] # <<>>
    BY <1>1, <1>3 DEF QInv, Following
  <2>2. \A u \in threads' : u.caller # Gone => at'[u.caller] = "using"
    <3>1. \A u \in threads : u.caller \in Callers \cup {Gone}
      BY DEF QInv, Types, Transactions
    <3> QED
      BY <1>2, <1>3, <3>1 DEF QInv, Following
  <2>3. \A u, v \in threads' : u.caller = v.caller /\ u.caller # Gone => u = v
    BY <1>2 DEF QInv, Following
  <2> QED
    BY <1>3, <2>1, <2>2, <2>3 DEF Following
<1>4. CASE at[c] = "waiting" /\ Goto(c, "idle") /\ UNCHANGED <<held, idle, capacity, forgotten>>
  <2>1. "idle" \in Places /\ "idle" \notin Busy /\ at[c] \notin Busy
    BY <1>4 DEF Places, Busy
  <2>2. /\ at' \in [Callers -> Places] /\ at'[c] = "idle"
        /\ \A d \in Callers : d # c => at'[d] = at[d]
        /\ Cardinality(Out') = Cardinality(Out)
    BY <1>4, <2>1, OneMoves DEF QInv, Goto
  <2>3. \A d \in Callers : at'[d] \in {"using", "closing"} <=> held'[d] # 0
    BY <1>4, <2>2 DEF QInv, Following
  <2>4. Types'
    BY <1>1, <1>2, <1>4, <2>2 DEF QInv, Types
  <2>5. PermitsAreExact'
    BY <1>4, <2>2 DEF QInv, PermitsAreExact, Holders
  <2> QED
    BY <1>3, <2>2, <2>3, <2>4, <2>5 DEF QInv
<1>5. CASE /\ at[c] \in {"opening", "closing"} /\ Goto(c, "idle")
           /\ held' = [held EXCEPT ![c] = 0] /\ idle' = idle
           /\ \/ capacity' = capacity + 1 /\ forgotten' = forgotten
              \/ capacity' = capacity /\ forgotten' = forgotten + 1
  <2>1. "idle" \in Places /\ "idle" \notin Busy /\ at[c] \in Busy
    BY <1>5 DEF Places, Busy
  <2>2. /\ at' \in [Callers -> Places] /\ at'[c] = "idle"
        /\ \A d \in Callers : d # c => at'[d] = at[d]
        /\ Cardinality(Out) \in Nat /\ Cardinality(Out') = Cardinality(Out) - 1
    BY <1>5, <2>1, OneMoves DEF QInv, Goto
  <2>3. /\ held' \in [Callers -> 0 .. opened] /\ held'[c] = 0
        /\ \A d \in Callers : d # c => held'[d] = held[d]
    BY <1>5 DEF QInv, Types
  <2>4. \A d \in Callers : at'[d] \in {"using", "closing"} <=> held'[d] # 0
    BY <2>2, <2>3 DEF QInv, Following
  <2>5. Types'
    BY <1>1, <1>2, <1>5, <2>2, <2>3 DEF QInv, Types
  <2>6. /\ capacity' + Cardinality(Out') + forgotten' = MaxConnections
        /\ Cardinality(idle') <= capacity' + forgotten'
    <3>1. capacity \in Nat /\ forgotten \in Nat /\ Cardinality(idle) \in Nat
      BY IdleCounts DEF QInv, Types
    <3>2. /\ capacity + Cardinality(Out) + forgotten = MaxConnections
          /\ Cardinality(idle) <= capacity + forgotten
      BY DEF QInv, PermitsAreExact
    <3> QED
      BY <1>5, <2>2, <3>1, <3>2
  <2>7. \A d \in Holders' : d \in Holders /\ held'[d] = held[d]
    BY <2>3 DEF Holders
  <2>8. PermitsAreExact'
    BY <1>5, <2>6, <2>7 DEF QInv, PermitsAreExact
  <2> QED
    BY <1>3, <2>2, <2>4, <2>5, <2>8 DEF QInv
<1>6. CASE at[c] = "using" /\ GiveBack(c, "idle") /\ forgotten' = forgotten
  <2>1. ASSUME NEW next \in {"idle", "waiting"}, next = "idle", GiveBack(c, next)
        PROVE  QInv'
    <3>1. /\ PermitsAreExact'
          /\ idle' \in SUBSET (1 .. opened') /\ IsFiniteSet(idle') /\ capacity' \in Nat
          /\ held' \in [Callers -> 0 .. opened'] /\ at' \in [Callers -> Places]
          /\ at'[c] \in {"closing", next}
          /\ \A d \in Callers : /\ d # c => at'[d] = at[d] /\ held'[d] = held[d]
                                /\ at'[d] \in {"using", "closing"} <=> held'[d] # 0
      BY <1>1, <1>6, <2>1, GivingBack
    <3>2. Types'
      BY <1>1, <1>2, <1>6, <3>1 DEF QInv, Types
    <3> QED
      BY <1>3, <2>1, <3>1, <3>2 DEF QInv
  <2> QED
    BY <1>6, <2>1
<1>7. at[c] = "opening" /\ held' = held => held' = [held EXCEPT ![c] = 0]
  <2>1. at[c] = "opening" => held[c] = 0
    BY DEF QInv, Following
  <2> QED
    BY <2>1 DEF QInv, Types
<1> QED
  BY <1>4, <1>5, <1>6, <1>7 DEF Cancel

(* close() empties the pool, and time passes. *)
LEMMA ClosingKeeps ==
  ASSUME QInv, Close \/ Lapse
  PROVE  QInv'
<1>1. /\ opened' = opened /\ capacity' = capacity /\ forgotten' = forgotten /\ calls' = calls
      /\ at' = at /\ todo' = todo /\ held' = held /\ threads' = threads
      /\ number' = number /\ seen' = seen
      /\ idle' \in {{}, idle} /\ closed' \in {TRUE, closed}
      /\ row' \in {row, [row EXCEPT !.lapsed = TRUE]}
  BY DEF Close, Lapse, pool
<1>2. IsFiniteSet(idle') /\ Cardinality(idle') \in Nat /\ Cardinality(idle') <= Cardinality(idle)
  <2>1. IsFiniteSet({}) /\ Cardinality({}) = 0 /\ Cardinality(idle) \in Nat /\ IsFiniteSet(idle)
    BY IdleCounts, FS_EmptySet DEF QInv, Types
  <2>2. CASE idle' = {}
    BY <2>1, <2>2
  <2>3. CASE idle' = idle
    BY <2>1, <2>3
  <2> QED
    BY <1>1, <2>2, <2>3
<1>3. Types'
  BY <1>1, <1>2 DEF QInv, Types
<1>4. Following'
  BY <1>1 DEF QInv, Following
<1>5. Cardinality(idle') <= capacity' + forgotten'
  BY <1>1, <1>2, IdleCounts DEF QInv, Types, PermitsAreExact
<1>6. PermitsAreExact'
  BY <1>1, <1>5 DEF QInv, PermitsAreExact, Holders, Out
<1> QED
  BY <1>3, <1>4, <1>6 DEF QInv

(* No step leaves the invariant. *)
LEMMA SqlStep ==
  ASSUME QInv, [Next]_vars
  PROVE  QInv'
<1>1. ASSUME NEW c \in Callers, Checkout(c) PROVE QInv'
  <2>1. /\ at[c] = "waiting" /\ capacity > 0 /\ capacity' = capacity - 1
        /\ UNCHANGED <<row, closed, opened, todo, number, seen, calls, forgotten>>
    BY <1>1 DEF Checkout
  <2> QED
    BY <1>1, <2>1, TakingIdle, Opening DEF Checkout
<1>2. ASSUME NEW c \in Callers, ConnectFails(c) \/ Discard(c) PROVE QInv'
  <2>1. at[c] = "opening" => held[c] = 0
    BY DEF QInv, Following
  <2>2. held' = [held EXCEPT ![c] = 0]
    BY <1>2, <2>1 DEF ConnectFails, Discard, QInv, Types
  <2>3. /\ at[c] \in {"opening", "closing"} /\ Goto(c, "idle")
        /\ capacity' = capacity + 1 /\ forgotten' = forgotten
        /\ UNCHANGED <<row, closed, opened, idle, threads, todo, number, seen, calls>>
    BY <1>2 DEF ConnectFails, Discard
  <2> QED
    BY <2>2, <2>3, PermitBack
<1>3. CASE UNCHANGED vars
  <2>1. /\ row' = row /\ closed' = closed /\ opened' = opened /\ calls' = calls
        /\ idle' = idle /\ capacity' = capacity /\ forgotten' = forgotten
        /\ at' = at /\ todo' = todo /\ held' = held /\ threads' = threads
        /\ number' = number /\ seen' = seen
    BY <1>3 DEF vars, pool
  <2> QED
    BY <2>1 DEF QInv, Types, Following, PermitsAreExact, Out, Holders
<1> QED
  BY <1>1, <1>2, <1>3, CallKeeps, OpenedKeeps, CancelKeeps, CommitKeeps, RaisedKeeps, ClosingKeeps
  DEF Next, Done

(* Nothing is out. *)
LEMMA SqlInit == Init => QInv
<1> SUFFICES ASSUME Init PROVE QInv
  OBVIOUS
<1>1. IsFiniteSet({}) /\ Cardinality({}) = 0
  BY FS_EmptySet
<1>2. MaxConnections \in Nat
  BY SqlShape
<1>3. Types
  <2>1. /\ row \in [by : Nat, lapsed : BOOLEAN] /\ closed \in BOOLEAN
        /\ opened \in Nat /\ calls \in Nat /\ capacity \in Nat /\ forgotten \in Nat
    BY <1>2 DEF Init, Absent
  <2>2. idle \in SUBSET (1 .. opened) /\ IsFiniteSet(idle) /\ threads \in SUBSET Transactions
    BY <1>1 DEF Init
  <2>3. at \in [Callers -> Places] /\ todo \in [Callers -> Seq(Ops)]
    <3>1. <<>> \in Seq(Ops)
      OBVIOUS
    <3> QED
      BY <3>1 DEF Init, Places
  <2>4. held \in [Callers -> 0 .. opened] /\ number \in [Callers -> Nat] /\ seen \in [Callers -> Nat]
    BY DEF Init
  <2> QED
    BY <2>1, <2>2, <2>3, <2>4 DEF Types
<1>4. Following
  BY DEF Init, Following
<1>5. Out = {} /\ Holders = {}
  BY DEF Init, Out, Holders
<1>6. PermitsAreExact
  BY <1>1, <1>2, <1>5 DEF Init, PermitsAreExact
<1> QED
  BY <1>3, <1>4, <1>6 DEF QInv

-----------------------------------------------------------------------------
(* However calls fail, are cancelled or meet close(), a permit is free, out *)
(* with one call, or gone with a call cancelled while it closed what it had.*)
THEOREM PermitsAdd == Spec => []PermitsAreExact
<1>1. QInv => PermitsAreExact
  BY DEF QInv
<1>2. QInv /\ [Next]_vars => QInv'
  BY SqlStep
<1> QED
  BY <1>1, <1>2, SqlInit, PTL DEF Spec

-----------------------------------------------------------------------------
(* Rows.  A save has a number of its own, and its row is written once; so a  *)
(* load that found the row of a save lapsed may have that row deleted.       *)

Active == {"waiting", "opening", "using"}
Due == {"waiting", "opening"}

\* What a call may have left to do.
Plans == {<<op>> : op \in Kinds \cup {"sweep"}} \cup {<<"table", op>> : op \in Kinds}

Planned ==
    /\ \A c \in Callers : at[c] \in Active => todo[c] \in Plans
    /\ \A t \in threads : t.caller # Gone => t.op = Head(todo[t.caller])

\* Callers that have yet to begin a save, or the deletion of a lapsed row.
SaveAhead(c) ==
    \/ at[c] \in Due /\ todo[c] \in {<<"save">>, <<"table", "save">>}
    \/ at[c] = "using" /\ todo[c] = <<"table", "save">>
SweepAhead(c) == at[c] \in Due /\ todo[c] = <<"sweep">>

\* Every number in use has been given out, and to one call only.
Numbered ==
    /\ row.by <= calls
    /\ \A c \in Callers : /\ number[c] <= calls /\ seen[c] <= calls
                          /\ at[c] \in Active => number[c] > 0
    /\ \A c, d \in Callers : number[c] = number[d] /\ number[c] > 0 => c = d
    /\ \A t \in threads : t.by <= calls /\ (t.op = "save" => t.by > 0)

\* A call saves in one transaction.
SavesOnce ==
    /\ \A s, t \in threads : s.op = "save" /\ t.op = "save" /\ s.by = t.by => s = t
    /\ \A t \in threads, c \in Callers : t.op = "save" /\ SaveAhead(c) => t.by # number[c]

\* Save number k is over, or never was one.
Past(k) ==
    /\ \A t \in threads : t.op = "save" => t.by # k
    /\ \A c \in Callers : SaveAhead(c) => number[c] # k

SeenIsPast ==
    /\ Past(row.by)
    /\ \A c \in Callers : Past(seen[c])
    /\ \A t \in threads : t.op = "sweep" => Past(t.by)

\* Nobody is about to sweep a row whose time is not up.
SweepsLapsed ==
    row.by # 0 /\ ~row.lapsed =>
        /\ \A c \in Callers : SweepAhead(c) => seen[c] # row.by
        /\ \A t \in threads : t.op = "sweep" => t.by # row.by

VInv == Planned /\ Numbered /\ SavesOnce /\ SeenIsPast /\ SweepsLapsed

(* How plans go on. *)
LEMMA PlanFacts ==
  ASSUME NEW p \in Plans
  PROVE  /\ Head(p) = "save" => p = <<"save">>
         /\ Head(p) = "sweep" => p = <<"sweep">>
         /\ p # <<>>
         /\ Tail(p) # <<>> => Tail(p) \in Plans /\ Tail(p) # <<"sweep">>
         /\ Tail(p) = <<"save">> => p = <<"table", "save">>
         /\ Tail(p) # <<"table", "save">>
<1>1. CASE \E op \in Kinds \cup {"sweep"} : p = <<op>>
  <2>1. PICK op \in Kinds \cup {"sweep"} : p = <<op>>
    BY <1>1
  <2>2. Head(p) = op /\ Tail(p) = <<>> /\ p # <<>>
    BY <2>1
  <2>3. <<>> # <<"save">> /\ <<>> # <<"table", "save">>
    OBVIOUS
  <2> QED
    BY <2>1, <2>2, <2>3
<1>2. CASE \E op \in Kinds : p = <<"table", op>>
  <2>1. PICK op \in Kinds : p = <<"table", op>>
    BY <1>2
  <2>2. Head(p) = "table" /\ Tail(p) = <<op>> /\ p # <<>>
    BY <2>1
  <2>3. op # "sweep" /\ <<op>> \in Plans
    BY DEF Kinds, Plans
  <2>4. /\ <<op>> # <<"table", "save">>
        /\ <<op>> = <<"sweep">> => op = "sweep"
        /\ <<op>> = <<"save">> => op = "save"
    OBVIOUS
  <2> QED
    BY <2>1, <2>2, <2>3, <2>4
<1> QED
  BY <1>1, <1>2 DEF Plans

(* The short plans and the long ones differ. *)
LEMMA PlansDiffer ==
  /\ <<"save">> # <<"table", "save">>
  /\ \A op \in Kinds : <<op>> # <<"sweep">> /\ <<"table", op>> # <<"sweep">>
  /\ \A op \in Kinds : <<op>> \in Plans /\ <<"table", op>> \in Plans
  /\ <<"sweep">> \in Plans
<1>1. <<"save">> # <<"table", "save">>
  OBVIOUS
<1>2. ASSUME NEW op \in Kinds PROVE <<op>> # <<"sweep">> /\ <<"table", op>> # <<"sweep">>
  <2>1. op # "sweep"
    BY DEF Kinds
  <2>2. <<op>> # <<"sweep">>
    BY <2>1
  <2>3. <<"table", op>> # <<"sweep">>
    OBVIOUS
  <2> QED
    BY <2>2, <2>3
<1> QED
  BY <1>1, <1>2 DEF Plans

(* Numbers begin with 1. *)
LEMMA NoSaveIsZero ==
  ASSUME Numbered
  PROVE  Past(0)
BY DEF Numbered, Past, SaveAhead, Active, Due

(* What is past stays past while no save is added. *)
LEMMA PastStays ==
  ASSUME number' = number,
         \A c \in Callers : SaveAhead(c)' => SaveAhead(c),
         \A u \in threads' : u.op = "save" => \E t \in threads : t.op = "save" /\ t.by = u.by
  PROVE  \A k : Past(k) => Past(k)'
BY DEF Past

(* The steps that neither begin a call or a transaction nor end one by its   *)
(* commit: calls and threads only go away, and so may the row.               *)
LEMMA Fading ==
  ASSUME Types, VInv,
         row'.by \in {row.by, 0}, row'.by = row.by /\ row.by # 0 /\ row.lapsed => row'.lapsed,
         calls' = calls, number' = number, seen' = seen, todo' = todo,
         \A c \in Callers : at'[c] = at[c] \/ at'[c] \notin Active,
         \A u \in threads' : \E t \in threads : /\ t.op = u.op /\ t.by = u.by
                                                /\ u.caller # Gone => u = t,
         \A u, v \in threads' : u.op = "save" /\ v.op = "save" /\ u.by = v.by => u = v
  PROVE  VInv'
<1>1. \A c \in Callers : /\ SaveAhead(c)' => SaveAhead(c)
                         /\ SweepAhead(c)' => SweepAhead(c)
  BY DEF SaveAhead, SweepAhead, Active, Due
<1>2. \A k : Past(k) => Past(k)'
  BY <1>1, PastStays
<1>3. Planned'
  BY DEF VInv, Planned
<1>4. Numbered'
  <2>1. calls \in Nat
    BY DEF Types
  <2>2. row'.by <= calls
    BY <2>1 DEF VInv, Numbered
  <2> QED
    BY <2>2 DEF VInv, Numbered
<1>5. SavesOnce'
  BY <1>1 DEF VInv, SavesOnce
<1>6. SeenIsPast'
  <2>1. \A k \in {row.by, 0} : Past(k)'
    BY <1>2, NoSaveIsZero DEF VInv, SeenIsPast
  <2>2. Past(row.by)'
    BY <2>1 DEF Past
  <2>3. \A c \in Callers : Past(seen[c])'
    BY <1>2 DEF VInv, SeenIsPast
  <2>4. ASSUME NEW u \in threads', u.op = "sweep" PROVE Past(u.by)'
    BY <1>2, <2>4 DEF VInv, SeenIsPast
  <2> QED
    BY <2>2, <2>3, <2>4 DEF SeenIsPast
<1>7. SweepsLapsed'
  BY <1>1 DEF VInv, SweepsLapsed
<1> QED
  BY <1>3, <1>4, <1>5, <1>6, <1>7 DEF VInv

(* A call begins: its number is new. *)
LEMMA CallNumbers ==
  ASSUME QInv, VInv, NEW c \in Callers, Call(c)
  PROVE  VInv'
<1>1. /\ row' = row /\ threads' = threads /\ seen' = seen
      /\ calls' = calls + 1 /\ calls \in Nat /\ at[c] = "idle"
      /\ number' = [number EXCEPT ![c] = calls + 1] /\ number \in [Callers -> Nat]
      /\ seen \in [Callers -> Nat]
  BY DEF Call, QInv, Types
<1>2. /\ number'[c] = calls + 1
      /\ \A d \in Callers : d # c => number'[d] = number[d]
      /\ \A d \in Callers : number[d] <= calls
  BY <1>1 DEF VInv, Numbered
<1>3. PICK op \in Kinds : todo' = [todo EXCEPT ![c] = IF ready THEN <<op>> ELSE <<"table", op>>]
  BY DEF Call, Kinds
<1>4. /\ todo'[c] \in {<<op>>, <<"table", op>>}
      /\ \A d \in Callers : d # c => todo'[d] = todo[d] /\ at'[d] = at[d]
  BY <1>3 DEF Call, Goto, QInv, Types
<1>5. \A d \in Callers : /\ SaveAhead(d)' => d = c \/ SaveAhead(d)
                         /\ SweepAhead(d)' => d # c /\ SweepAhead(d)
  BY <1>4, PlansDiffer DEF SaveAhead, SweepAhead
<1>6. \A k \in Nat : k <= calls /\ Past(k) => Past(k)'
  BY <1>1, <1>2, <1>5 DEF Past
<1>7. Planned'
  <2>1. \A d \in Callers : at'[d] \in Active => todo'[d] \in Plans
    BY <1>4, PlansDiffer DEF VInv, Planned
  <2>2. \A t \in threads : t.caller # Gone => t.caller \in Callers /\ t.caller # c
    BY <1>1 DEF QInv, Types, Transactions, Following
  <2> QED
    BY <1>1, <1>4, <2>1, <2>2 DEF VInv, Planned
<1>8. Numbered'
  <2>1. row.by \in Nat /\ row.by <= calls /\ \A t \in threads : t.by \in Nat /\ t.by <= calls
    BY DEF QInv, Types, Transactions, VInv, Numbered
  <2>2. row'.by <= calls' /\ \A t \in threads' : t.by <= calls' /\ (t.op = "save" => t.by > 0)
    BY <1>1, <2>1 DEF VInv, Numbered
  <2>3. \A d \in Callers : number'[d] <= calls' /\ seen'[d] <= calls'
    BY <1>1, <1>2 DEF VInv, Numbered
  <2>4. \A d \in Callers : at'[d] \in Active => number'[d] > 0
    BY <1>1, <1>2, <1>4 DEF VInv, Numbered
  <2>5. \A d, e \in Callers : number'[d] = number'[e] /\ number'[d] > 0 => d = e
    BY <1>1, <1>2 DEF VInv, Numbered
  <2> QED
    BY <2>2, <2>3, <2>4, <2>5 DEF Numbered
<1>9. SavesOnce'
  <2>1. \A t \in threads : t.by \in Nat /\ t.by <= calls
    BY DEF QInv, Types, Transactions, VInv, Numbered
  <2> QED
    BY <1>1, <1>2, <1>5, <2>1 DEF VInv, SavesOnce
<1>10. SeenIsPast'
  <2>1. /\ row.by \in Nat /\ row.by <= calls
        /\ \A d \in Callers : seen[d] \in Nat /\ seen[d] <= calls
        /\ \A t \in threads : t.by \in Nat /\ t.by <= calls
    BY <1>1 DEF QInv, Types, Transactions, VInv, Numbered
  <2>2. Past(row.by)'
    BY <1>1, <1>6, <2>1 DEF VInv, SeenIsPast
  <2>3. \A d \in Callers : Past(seen[d])'
    BY <1>1, <1>6, <2>1 DEF VInv, SeenIsPast
  <2>4. \A t \in threads' : t.op = "sweep" => Past(t.by)'
    BY <1>1, <1>6, <2>1 DEF VInv, SeenIsPast
  <2> QED
    BY <2>2, <2>3, <2>4 DEF SeenIsPast
<1>11. SweepsLapsed'
  BY <1>1, <1>5 DEF VInv, SweepsLapsed
<1> QED
  BY <1>7, <1>8, <1>9, <1>10, <1>11 DEF VInv

(* A transaction begins: what was ahead is under way. *)
LEMMA StartNumbers ==
  ASSUME QInv, VInv, NEW c \in Callers, at[c] \in Due, NEW n \in Nat, Start(c, n),
         UNCHANGED <<row, todo, number, seen, calls>>
  PROVE  VInv'
<1> DEFINE u == [conn |-> n, op |-> Head(todo[c]),
                 by |-> IF Head(todo[c]) = "sweep" THEN seen[c] ELSE number[c], caller |-> c]
           op == Head(todo[c])
<1>1. threads' = threads \cup {u}
  BY DEF Start
<1>2. /\ at'[c] = "using" /\ \A d \in Callers : d # c => at'[d] = at[d]
  BY DEF Start, Goto, QInv, Types
<1>3. /\ todo[c] \in Plans
      /\ op = "save" => todo[c] = <<"save">>
      /\ op = "sweep" => todo[c] = <<"sweep">>
  BY PlanFacts DEF VInv, Planned, Active, Due
<1>4. /\ u.op = op /\ u.caller = c
      /\ op = "sweep" => u.by = seen[c]
      /\ op # "sweep" => u.by = number[c]
  OBVIOUS
<1>5. \A d \in Callers : /\ SaveAhead(d)' => SaveAhead(d) /\ (d = c => op # "save")
                         /\ SweepAhead(d)' => SweepAhead(d)
  <2>1. SaveAhead(c)' => todo[c] = <<"table", "save">>
    BY <1>2 DEF SaveAhead, Due
  <2>2. ~SweepAhead(c)'
    BY <1>2 DEF SweepAhead, Due
  <2>3. \A d \in Callers : d # c => (SaveAhead(d)' <=> SaveAhead(d)) /\ (SweepAhead(d)' <=> SweepAhead(d))
    BY <1>2 DEF SaveAhead, SweepAhead
  <2>4. SaveAhead(c)' => SaveAhead(c) /\ op # "save"
    BY <1>3, <2>1, PlansDiffer DEF SaveAhead
  <2> QED
    BY <2>2, <2>3, <2>4
<1>6. op = "save" => SaveAhead(c)
  BY <1>3 DEF SaveAhead
<1>7. op = "sweep" => SweepAhead(c)
  BY <1>3 DEF SweepAhead
<1>8. \A d \in Callers : d # c => number[d] # number[c]
  BY DEF VInv, Numbered, Active, Due
<1>9. \A k : Past(k) => Past(k)'
  BY <1>1, <1>4, <1>5, <1>6 DEF Past
<1>10. Planned'
  <2>1. \A d \in Callers : at'[d] \in Active => todo'[d] \in Plans
    BY <1>2, <1>3 DEF VInv, Planned
  <2>2. \A t \in threads : t.caller # Gone => t.op = Head(todo[t.caller])
    BY DEF VInv, Planned
  <2> QED
    BY <1>1, <1>4, <2>1, <2>2 DEF Planned
<1>11. Numbered'
  <2>1. u.by <= calls /\ (u.op = "save" => u.by > 0)
    BY <1>4 DEF VInv, Numbered, Active, Due
  <2>2. \A d \in Callers : at'[d] \in Active => number'[d] > 0
    BY <1>2 DEF VInv, Numbered, Active, Due
  <2> QED
    BY <1>1, <2>1, <2>2 DEF VInv, Numbered
<1>12. SavesOnce'
  <2>1. op = "save" => u.by = number[c] /\ \A t \in threads : t.op = "save" => t.by # u.by
    BY <1>4, <1>6 DEF VInv, SavesOnce
  <2>2. \A s, t \in threads' : s.op = "save" /\ t.op = "save" /\ s.by = t.by => s = t
    BY <1>1, <1>4, <2>1 DEF VInv, SavesOnce
  <2>3. \A t \in threads', d \in Callers : t.op = "save" /\ SaveAhead(d)' => t.by # number[d]
    BY <1>1, <1>4, <1>5, <1>8, <2>1 DEF VInv, SavesOnce
  <2> QED
    BY <2>2, <2>3 DEF SavesOnce
<1>13. SeenIsPast'
  <2>1. Past(row.by)' /\ \A d \in Callers : Past(seen[d])'
    BY <1>9 DEF VInv, SeenIsPast
  <2>2. \A t \in threads' : t.op = "sweep" => Past(t.by)
    BY <1>1, <1>4 DEF VInv, SeenIsPast
  <2>3. \A t \in threads' : t.op = "sweep" => Past(t.by)'
    BY <1>9, <2>2
  <2> QED
    BY <2>1, <2>3 DEF SeenIsPast
<1>14. SweepsLapsed'
  BY <1>1, <1>4, <1>5, <1>7 DEF VInv, SweepsLapsed
<1> QED
  BY <1>10, <1>11, <1>12, <1>13, <1>14 DEF VInv

(* What a transaction does to the row. *)
LEMMA EffectOnRow ==
  ASSUME Types, VInv, NEW t \in threads
  PROVE  /\ Effect(t).by \in {row.by, 0} \/ (t.op = "save" /\ Effect(t).by = t.by)
         /\ t.op # "save" /\ Effect(t).by = row.by => Effect(t) = row \/ row.by = 0
         /\ t.op = "save" => Effect(t).by = t.by
         /\ t.op = "load" => Effect(t) = row
         /\ Effect(t).by = 0 /\ row.by # 0 =>
               t.op \in {"delete", "sweep"} \/ (t.op = "purge" /\ row.lapsed)
<1>1. t.op \in Ops /\ t.by \in Nat /\ (t.op = "save" => t.by # 0)
  BY DEF Types, Transactions, VInv, Numbered
<1>2. Absent.by = 0 /\ [by |-> t.by, lapsed |-> FALSE].by = t.by
  BY DEF Absent
<1>3. CASE t.op = "save"
  BY <1>1, <1>2, <1>3 DEF Effect
<1>4. CASE t.op \in {"delete", "sweep"}
  BY <1>2, <1>4 DEF Effect
<1>5. CASE t.op \in {"load", "table", "purge"}
  BY <1>2, <1>5 DEF Effect
<1> QED
  BY <1>1, <1>3, <1>4, <1>5 DEF Ops, Kinds

(* A transaction commits.  A sweep comes ahead only of a load that found the *)
(* row's time to be up.                                                      *)
LEMMA CommitNumbers ==
  ASSUME QInv, VInv, NEW t \in threads, Commit(t)
  PROVE  VInv'
<1>1. /\ threads' = threads \ {t} /\ row' = Effect(t)
      /\ number' = number /\ calls' = calls
      /\ t.caller \in Callers \cup {Gone}
      /\ seen \in [Callers -> Nat] /\ todo \in [Callers -> Seq(Ops)]
      /\ at \in [Callers -> Places]
  BY DEF Commit, QInv, Types, Transactions
<1>2. \A d \in Callers : d # t.caller => /\ at'[d] = at[d] /\ todo'[d] = todo[d]
                                         /\ seen'[d] = seen[d]
  BY <1>1 DEF Commit, GiveBack, Goto
<1>3. ASSUME NEW c \in Callers, c = t.caller
      PROVE  /\ c # Gone /\ at[c] = "using" /\ todo[c] \in Plans /\ t.op = Head(todo[c])
             /\ todo'[c] = Rest(t) /\ seen'[c] = row.by
             /\ at'[c] \notin {"opening", "using"}
             /\ at'[c] \in Active => Rest(t) # <<>>
  <2>1. c # Gone
    BY SqlShape
  <2>2. at[c] = "using" /\ todo[c] \in Plans /\ t.op = Head(todo[c])
    BY <1>3, <2>1 DEF QInv, Following, VInv, Planned, Active
  <2>3. todo'[c] = Rest(t) /\ seen'[c] = row.by
    BY <1>1, <1>3, <2>1 DEF Commit
  <2>4. GiveBack(c, IF Rest(t) = <<>> THEN "idle" ELSE "waiting")
    BY <1>3, <2>1 DEF Commit
  <2>5. at'[c] \in {"closing", IF Rest(t) = <<>> THEN "idle" ELSE "waiting"}
    BY <1>1, <2>4 DEF GiveBack, Goto
  <2> QED
    BY <2>1, <2>2, <2>3, <2>5 DEF Active
<1>4. ASSUME NEW c \in Callers, c = t.caller, at'[c] \in Active
      PROVE  /\ Rest(t) \in Plans
             /\ Rest(t) \in {<<"save">>, <<"table", "save">>} => SaveAhead(c)
             /\ Rest(t) = <<"sweep">> => t.op = "load" /\ row.lapsed
  <2>1. /\ at[c] = "using" /\ todo[c] \in Plans /\ Rest(t) # <<>>
    BY <1>3, <1>4
  <2>2. CASE t.op = "load" /\ row.lapsed
    <3>1. Rest(t) = <<"sweep">>
      BY <2>2 DEF Rest
    <3>2. <<"sweep">> \notin {<<"save">>, <<"table", "save">>}
      OBVIOUS
    <3> QED
      BY <2>2, <3>1, <3>2, PlansDiffer
  <2>3. CASE ~(t.op = "load" /\ row.lapsed)
    <3>1. Rest(t) = Tail(todo[c])
      BY <1>4, <2>3 DEF Rest
    <3> QED
      BY <2>1, <3>1, PlanFacts DEF SaveAhead
  <2> QED
    BY <2>2, <2>3
<1>5. \A d \in Callers : /\ SaveAhead(d)' => SaveAhead(d)
                         /\ at'[d] \in Active => at[d] \in Active /\ todo'[d] \in Plans
                         /\ SweepAhead(d)' => \/ SweepAhead(d) /\ seen'[d] = seen[d]
                                              \/ t.op = "load" /\ row.lapsed
  <2>1. ASSUME NEW d \in Callers, d # t.caller
        PROVE  /\ SaveAhead(d)' => SaveAhead(d)
               /\ at'[d] \in Active => at[d] \in Active /\ todo'[d] \in Plans
               /\ SweepAhead(d)' => SweepAhead(d) /\ seen'[d] = seen[d]
    BY <1>2, <2>1 DEF SaveAhead, SweepAhead, VInv, Planned
  <2>2. ASSUME NEW d \in Callers, d = t.caller
        PROVE  /\ SaveAhead(d)' => SaveAhead(d)
               /\ at'[d] \in Active => at[d] \in Active /\ todo'[d] \in Plans
               /\ SweepAhead(d)' => t.op = "load" /\ row.lapsed
    <3>1. SaveAhead(d)' => at'[d] \in Active /\ todo'[d] \in {<<"save">>, <<"table", "save">>}
      BY DEF SaveAhead, Active, Due
    <3>2. SweepAhead(d)' => at'[d] \in Active /\ todo'[d] = <<"sweep">>
      BY DEF SweepAhead, Active, Due
    <3> QED
      BY <1>3, <1>4, <2>2, <3>1, <3>2 DEF Active
  <2> QED
    BY <2>1, <2>2
<1>6. \A k : Past(k) => Past(k)'
  BY <1>1, <1>5, PastStays
<1>7. t.op = "save" => Past(t.by)'
  BY <1>1, <1>5 DEF VInv, SavesOnce, Past
<1>8. Planned'
  <2>1. \A u \in threads' : u.caller # Gone => u.caller \in Callers /\ u.caller # t.caller
    BY <1>1 DEF QInv, Types, Transactions, Following
  <2>2. \A u \in threads' : u.caller # Gone => u.op = Head(todo'[u.caller])
    BY <1>1, <1>2, <2>1 DEF VInv, Planned
  <2> QED
    BY <1>5, <2>2 DEF Planned
<1>9. Numbered'
  <2>1. row'.by <= calls
    <3>1. calls \in Nat /\ row.by <= calls /\ t.by <= calls
      BY DEF QInv, Types, VInv, Numbered
    <3>2. row'.by \in {row.by, 0, t.by}
      BY <1>1, EffectOnRow DEF QInv
    <3> QED
      BY <3>1, <3>2
  <2>2. \A d \in Callers : seen'[d] <= calls
    BY <1>2, <1>3 DEF VInv, Numbered
  <2> QED
    BY <1>1, <1>5, <2>1, <2>2 DEF VInv, Numbered
<1>10. SavesOnce'
  BY <1>1, <1>5 DEF VInv, SavesOnce
<1>11. SeenIsPast'
  <2>1. Past(row.by)'
    <3>1. Past(row.by) /\ Past(0)
      BY NoSaveIsZero DEF VInv, SeenIsPast
    <3>2. \A k : k \in {row.by, 0} \/ (t.op = "save" /\ k = t.by) => Past(k)'
      BY <1>6, <1>7, <3>1
    <3>3. row'.by \in {row.by, 0} \/ (t.op = "save" /\ row'.by = t.by)
      BY <1>1, EffectOnRow DEF QInv
    <3> QED
      BY <3>2, <3>3 DEF Past
  <2>2. ASSUME NEW d \in Callers PROVE Past(seen[d])'
    <3>1. Past(row.by) /\ Past(seen[d])
      BY DEF VInv, SeenIsPast
    <3>2. \A k \in {row.by, seen[d]} : Past(k)'
      BY <1>6, <3>1
    <3>3. seen'[d] \in {row.by, seen[d]}
      BY <1>2, <1>3
    <3> QED
      BY <3>2, <3>3 DEF Past
  <2>3. \A u \in threads' : u.op = "sweep" => Past(u.by)'
    BY <1>1, <1>6 DEF VInv, SeenIsPast
  <2> QED
    BY <2>1, <2>2, <2>3 DEF SeenIsPast
<1>12. SweepsLapsed'
  <2> SUFFICES ASSUME row'.by # 0, ~row'.lapsed
               PROVE  /\ \A d \in Callers : SweepAhead(d)' => seen'[d] # row'.by
                      /\ \A u \in threads' : u.op = "sweep" => u.by # row'.by
    BY DEF SweepsLapsed
  <2>1. CASE t.op = "save"
    <3>1. row'.by = t.by
      BY <1>1, <2>1, EffectOnRow DEF QInv
    <3>2. \A d \in Callers : SweepAhead(d)' => seen'[d] = seen[d] /\ Past(seen[d])
      BY <1>5, <2>1 DEF VInv, SeenIsPast
    <3>3. \A u \in threads' : u.op = "sweep" => Past(u.by)
      BY <1>1 DEF VInv, SeenIsPast
    <3> QED
      BY <2>1, <3>1, <3>2, <3>3 DEF Past
  <2>2. CASE t.op # "save"
    <3>1. row' = row
      BY <1>1, <2>2, EffectOnRow DEF QInv
    <3>2. \A d \in Callers : SweepAhead(d)' => SweepAhead(d) /\ seen'[d] = seen[d]
      BY <1>5, <3>1
    <3> QED
      BY <1>1, <3>1, <3>2 DEF VInv, SweepsLapsed
  <2> QED
    BY <2>1, <2>2
<1> QED
  BY <1>8, <1>9, <1>10, <1>11, <1>12 DEF VInv

(* A transaction fails, and its call with it. *)
LEMMA RaisedNumbers ==
  ASSUME QInv, VInv, NEW t \in threads, Raised(t)
  PROVE  VInv'
<1>1. /\ threads' = threads \ {t} /\ row' \in {row, Effect(t)}
      /\ UNCHANGED <<todo, number, seen, calls>>
  BY DEF Raised
<1>2. \A c \in Callers : at'[c] = at[c] \/ at'[c] \notin Active
  BY DEF Raised, GiveBack, Goto, QInv, Types, Active
<1>3. CASE row' = row \/ t.op # "save"
  <2>1. row'.by \in {row.by, 0} /\ (row'.by = row.by /\ row.by # 0 /\ row.lapsed => row'.lapsed)
    BY <1>1, <1>3, EffectOnRow DEF QInv
  <2>2. \A u \in threads' : \E s \in threads : /\ s.op = u.op /\ s.by = u.by
                                               /\ u.caller # Gone => u = s
    BY <1>1
  <2>3. \A u, v \in threads' : u.op = "save" /\ v.op = "save" /\ u.by = v.by => u = v
    BY <1>1 DEF VInv, SavesOnce
  <2> QED
    BY <1>1, <1>2, <2>1, <2>2, <2>3, Fading DEF QInv
<1>4. CASE row' = Effect(t) /\ t.op = "save"
  <2>1. row'.by = t.by
    BY <1>4, EffectOnRow DEF QInv
  <2>2. \A c \in Callers : /\ SaveAhead(c)' => SaveAhead(c)
                           /\ SweepAhead(c)' => SweepAhead(c)
    BY <1>1, <1>2 DEF SaveAhead, SweepAhead, Active, Due
  <2>3. \A k : Past(k) => Past(k)'
    BY <1>1, <2>2, PastStays
  <2>4. Past(row.by)'
    BY <1>1, <1>4, <2>1, <2>2 DEF VInv, SavesOnce, Past
  <2>5. Planned'
    BY <1>1, <1>2 DEF VInv, Planned
  <2>6. Numbered'
    BY <1>1, <1>2, <2>1 DEF VInv, Numbered
  <2>7. SavesOnce'
    BY <1>1, <2>2 DEF VInv, SavesOnce
  <2>8. SeenIsPast'
    BY <1>1, <2>3, <2>4 DEF VInv, SeenIsPast
  <2>9. SweepsLapsed'
    BY <1>1, <1>4, <2>1, <2>2 DEF VInv, SeenIsPast, Past, SweepsLapsed
  <2> QED
    BY <2>5, <2>6, <2>7, <2>8, <2>9 DEF VInv
<1> QED
  BY <1>1, <1>3, <1>4

(* A call is cancelled: its thread goes on for nobody. *)
LEMMA CancelNumbers ==
  ASSUME QInv, VInv, NEW c \in Callers, Cancel(c)
  PROVE  VInv'
<1>1. /\ threads' = Orphaned(c)
      /\ UNCHANGED <<row, todo, number, seen, calls>>
  BY DEF Cancel
<1>2. \A d \in Callers : at'[d] = at[d] \/ at'[d] \notin Active
  BY DEF Cancel, GiveBack, Goto, QInv, Types, Active
<1>3. ASSUME NEW t \in threads
      PROVE  LET u == IF t.caller = c THEN [t EXCEPT !.caller = Gone] ELSE t
             IN  u.op = t.op /\ u.by = t.by /\ (u.caller # Gone => u = t)
  BY DEF QInv, Types, Transactions
<1>4. \A u \in threads' : \E t \in threads :
         /\ t.op = u.op /\ t.by = u.by /\ (u.caller # Gone => u = t)
         /\ u = IF t.caller = c THEN [t EXCEPT !.caller = Gone] ELSE t
  BY <1>1, <1>3 DEF Orphaned
<1>5. \A u, v \in threads' : u.op = "save" /\ v.op = "save" /\ u.by = v.by => u = v
  <2> SUFFICES ASSUME NEW u \in threads', NEW v \in threads',
                      u.op = "save", v.op = "save", u.by = v.by
               PROVE  u = v
    OBVIOUS
  <2>1. PICK s \in threads : /\ s.op = u.op /\ s.by = u.by
                             /\ u = IF s.caller = c THEN [s EXCEPT !.caller = Gone] ELSE s
    BY <1>4
  <2>2. PICK t \in threads : /\ t.op = v.op /\ t.by = v.by
                             /\ v = IF t.caller = c THEN [t EXCEPT !.caller = Gone] ELSE t
    BY <1>4
  <2>3. s = t
    BY <2>1, <2>2 DEF VInv, SavesOnce
  <2> QED
    BY <2>1, <2>2, <2>3
<1>6. row'.by \in {row.by, 0} /\ (row'.by = row.by /\ row.lapsed => row'.lapsed)
  BY <1>1
<1> QED
  BY <1>1, <1>2, <1>4, <1>5, <1>6, Fading DEF QInv

(* No step leaves the invariant. *)
LEMMA RowStep ==
  ASSUME QInv, VInv, [Next]_vars
  PROVE  VInv'
<1>1. ASSUME row'.by \in {row.by, 0}, row'.by = row.by /\ row.by # 0 /\ row.lapsed => row'.lapsed,
             UNCHANGED <<calls, number, seen, todo, threads>>,
             \A c \in Callers : at'[c] = at[c] \/ at'[c] \notin Active
      PROVE  VInv'
  BY <1>1, Fading DEF QInv, VInv, SavesOnce
<1>2. ASSUME NEW c \in Callers, Checkout(c) PROVE VInv'
  <2>1. at[c] = "waiting" /\ at[c] \in Due /\ UNCHANGED <<row, todo, number, seen, calls>>
    BY <1>2 DEF Checkout, Due
  <2>2. CASE \E n \in idle : Start(c, n)
    <3>1. idle \subseteq Nat
      BY DEF QInv, Types
    <3> QED
      BY <2>1, <2>2, <3>1, StartNumbers
  <2>3. CASE Goto(c, "opening") /\ UNCHANGED <<held, threads, idle>>
    <3>1. /\ at'[c] = "opening" /\ todo[c] \in Plans
          /\ \A d \in Callers : d # c => at'[d] = at[d]
      BY <2>1, <2>3 DEF Goto, QInv, Types, VInv, Planned, Active
    <3>2. \A d \in Callers : /\ SaveAhead(d)' <=> SaveAhead(d)
                             /\ SweepAhead(d)' <=> SweepAhead(d)
                             /\ at'[d] \in Active <=> at[d] \in Active
      BY <2>1, <3>1 DEF SaveAhead, SweepAhead, Due, Active
    <3>3. \A k : Past(k) => Past(k)'
      BY <2>1, <2>3, <3>2, PastStays
    <3>4. Planned' /\ Numbered' /\ SavesOnce'
      BY <2>1, <2>3, <3>2 DEF VInv, Planned, Numbered, SavesOnce
    <3>5. SeenIsPast' /\ SweepsLapsed'
      BY <2>1, <2>3, <3>2, <3>3 DEF VInv, SeenIsPast, SweepsLapsed
    <3> QED
      BY <3>4, <3>5 DEF VInv
  <2> QED
    BY <1>2, <2>2, <2>3 DEF Checkout
<1>3. ASSUME NEW c \in Callers, Opened(c) PROVE VInv'
  <2>1. /\ at[c] \in Due /\ opened + 1 \in Nat /\ Start(c, opened + 1)
        /\ UNCHANGED <<row, todo, number, seen, calls>>
    BY <1>3 DEF Opened, Due, QInv, Types
  <2> QED
    BY <2>1, StartNumbers
<1>4. ASSUME NEW c \in Callers, ConnectFails(c) \/ Discard(c) PROVE VInv'
  <2>1. /\ UNCHANGED <<row, calls, number, seen, todo, threads>> /\ Goto(c, "idle")
    BY <1>4 DEF ConnectFails, Discard
  <2>2. \A d \in Callers : at'[d] = at[d] \/ at'[d] \notin Active
    BY <2>1 DEF Goto, QInv, Types, Active
  <2> QED
    BY <1>1, <2>1, <2>2
<1>5. CASE Close \/ Lapse
  <2>1. /\ UNCHANGED <<calls, number, seen, todo, threads, at>>
        /\ row' \in {row, [row EXCEPT !.lapsed = TRUE]}
    BY <1>5 DEF Close, Lapse
  <2>2. row'.by = row.by /\ (row.lapsed => row'.lapsed)
    BY <2>1 DEF QInv, Types
  <2> QED
    BY <1>1, <2>1, <2>2
<1>6. CASE UNCHANGED vars
  BY <1>1, <1>6 DEF vars
<1> QED
  BY <1>2, <1>3, <1>4, <1>5, <1>6, CallNumbers, CancelNumbers, CommitNumbers, RaisedNumbers
  DEF Next, Done

(* No row, no call. *)
LEMMA RowInit == Init => VInv
<1> SUFFICES ASSUME Init PROVE VInv
  OBVIOUS
<1>1. /\ row.by = 0 /\ calls = 0 /\ threads = {}
      /\ \A c \in Callers : at[c] = "idle" /\ number[c] = 0 /\ seen[c] = 0
  BY DEF Init, Absent
<1>2. Planned /\ Numbered
  BY <1>1 DEF Planned, Numbered, Active
<1>3. \A c \in Callers : ~SaveAhead(c)
  BY <1>1 DEF SaveAhead, Due
<1> QED
  BY <1>1, <1>2, <1>3 DEF VInv, SavesOnce, SeenIsPast, Past, SweepsLapsed

(* However calls interleave, fail or leave their threads behind: a row whose *)
(* time is not up goes away only by a delete, or by the deletion that a load *)
(* makes after it found an earlier save's row lapsed (load and purge_expired *)
(* of sql.py).                                                               *)
THEOREM RowsAreKept == Spec => OnlyLapsedRowsVanish
<1> DEFINE Kept == row.by # 0 /\ ~row.lapsed /\ row'.by = 0 =>
                      \E t \in threads : t.op = "delete" \/ (t.op = "sweep" /\ t.by # row.by)
<1>1. ASSUME QInv, VInv, Next PROVE Kept
  <2> SUFFICES ASSUME row.by # 0, ~row.lapsed, row'.by = 0
               PROVE  \E t \in threads : t.op = "delete" \/ (t.op = "sweep" /\ t.by # row.by)
    OBVIOUS
  <2>1. ASSUME NEW t \in threads, row' = Effect(t)
        PROVE  t.op = "delete" \/ (t.op = "sweep" /\ t.by # row.by)
    <3>1. t.op \in {"delete", "sweep"}
      BY <1>1, <2>1, EffectOnRow DEF QInv
    <3>2. t.op = "sweep" => t.by # row.by
      BY <1>1 DEF VInv, SweepsLapsed
    <3> QED
      BY <3>1, <3>2
  <2>2. ASSUME NEW t \in threads, Commit(t) \/ Raised(t) PROVE row' = Effect(t)
    BY <2>2 DEF Commit, Raised
  <2>3. ASSUME row'.by = row.by PROVE FALSE
    BY <2>3
  <2>4. Lapse => row'.by = row.by
    BY DEF Lapse, QInv, Types
  <2>5. \A c \in Callers : Call(c) \/ Checkout(c) \/ Opened(c) \/ ConnectFails(c)
                             \/ Discard(c) \/ Cancel(c) => row' = row
    BY DEF Call, Checkout, Opened, ConnectFails, Discard, Cancel
  <2>6. Close \/ Done => row' = row
    BY DEF Close, Done, vars
  <2> QED
    BY <1>1, <2>1, <2>2, <2>3, <2>4, <2>5, <2>6 DEF Next
<1>2. QInv /\ VInv /\ [Next]_vars => [Kept]_vars
  BY <1>1
<1>3. Spec => [](QInv /\ VInv)
  BY SqlInit, SqlStep, RowInit, RowStep, PTL DEF Spec
<1> QED
  BY <1>2, <1>3, PTL DEF Spec, OnlyLapsedRowsVanish
=============================================================================
