----------------------------- MODULE PoolProofs -----------------------------
(***************************************************************************)
(* For any callers, sizes, failures and cancellations: the pool stays      *)
(* within max_size, a closed pool stays empty, the counts are off by at    *)
(* most one per cancellation, every connection has one owner, and its      *)
(* answers are read by whoever asked for them.                             *)
(*                                                                         *)
(* A permit can be lost but never made: what is free and what is held add  *)
(* up to at most max_size.  That alone does not bound the connections: a   *)
(* caller opens one only when it found the idle list empty, and then those *)
(* in use are all that exist, each with its permit.                        *)
(*                                                                         *)
(* The second half follows a connection: whoever gives one up leaves it    *)
(* idle, closed, or, cancelled, to nobody (Handover).                      *)
(***************************************************************************)
EXTENDS Pool, FiniteSetTheorems, TLAPS

(* What the arguments need of the types. *)
Types ==
    /\ pc \in [Callers -> Places]
    /\ conn \in [Callers -> Sockets \union {Nothing}]
    /\ permits \in Nat
    /\ idle \in Seq(Sockets \union {Nothing})

(* Permits are lost by some cancellations, never made. *)
PermitsAreBounded == permits + Cardinality(WithPermit) <= MaxSize

PInv == Types /\ PermitsAreBounded /\ Bounded /\ ClosedPoolStaysEmpty

-----------------------------------------------------------------------------
(* Counting the callers at some places. *)

In(x, S) == IF x \in S THEN 1 ELSE 0

\* One caller moves: the count changes by what it leaves and what it enters.
LEMMA MoveCount ==
    ASSUME NEW p \in [Callers -> Places], NEW c \in Callers,
           NEW x \in Places, NEW S
    PROVE  /\ Cardinality(At(p, S)) \in Nat
           /\ Cardinality(At([p EXCEPT ![c] = x], S))
                = Cardinality(At(p, S)) + In(x, S) - In(p[c], S)
<1> DEFINE q == [p EXCEPT ![c] = x]
           A == At(p, S)
           B == At(q, S)
<1>1. IsFiniteSet(A) /\ IsFiniteSet(B) /\ Cardinality(A) \in Nat
  BY PoolShape, FS_Subset, FS_CardinalityType DEF At
<1>2. (x \in S /\ p[c] \notin S) => B = A \union {c} /\ c \notin A
  BY DEF At
<1>3. (x \notin S /\ p[c] \in S) => B = A \ {c} /\ c \in A
  BY DEF At
<1>4. (x \in S <=> p[c] \in S) => B = A
  BY DEF At
<1> HIDE DEF A, B
<1>5. Cardinality(A \union {c}) = IF c \in A THEN Cardinality(A) ELSE Cardinality(A) + 1
  BY <1>1, FS_AddElement
<1>6. Cardinality(A \ {c}) = IF c \in A THEN Cardinality(A) - 1 ELSE Cardinality(A)
  BY <1>1, FS_RemoveElement
<1>7. Cardinality(B) = Cardinality(A) + In(x, S) - In(p[c], S)
  <2>1. CASE x \in S /\ p[c] \notin S
    <3>1. In(x, S) = 1 /\ In(p[c], S) = 0
      BY <2>1 DEF In
    <3>2. Cardinality(B) = Cardinality(A) + 1
      BY <1>2, <1>5, <2>1
    <3> QED BY <1>1, <3>1, <3>2
  <2>2. CASE x \notin S /\ p[c] \in S
    <3>1. In(x, S) = 0 /\ In(p[c], S) = 1
      BY <2>2 DEF In
    <3>2. Cardinality(B) = Cardinality(A) - 1
      BY <1>3, <1>6, <2>2
    <3> QED BY <1>1, <3>1, <3>2
  <2>3. CASE x \in S <=> p[c] \in S
    <3>1. In(x, S) = In(p[c], S) /\ In(x, S) \in Nat
      BY <2>3 DEF In
    <3>2. Cardinality(B) = Cardinality(A)
      BY <1>4, <2>3
    <3> QED BY <1>1, <3>1, <3>2
  <2> QED BY <2>1, <2>2, <2>3
<1> QED BY <1>1, <1>7 DEF A, B

\* Whoever has a connection has a permit.
LEMMA OpenHavePermits ==
    ASSUME NEW p
    PROVE  /\ Cardinality(At(p, OpenPlaces)) \in Nat
           /\ Cardinality(At(p, PermitPlaces)) \in Nat
           /\ Cardinality(At(p, OpenPlaces)) <= Cardinality(At(p, PermitPlaces))
<1>1. At(p, OpenPlaces) \subseteq At(p, PermitPlaces)
  BY DEF At, OpenPlaces, PermitPlaces, Places
<1>2. IsFiniteSet(At(p, PermitPlaces)) /\ IsFiniteSet(At(p, OpenPlaces))
  BY PoolShape, FS_Subset DEF At
<1> QED BY <1>1, <1>2, FS_Subset, FS_CardinalityType

\* The arithmetic of one move: what is freed was held.
LEMMA PermitSum ==
    ASSUME NEW m \in Int, NEW f \in Int, NEW f1 \in Int, NEW h \in Int,
           NEW e \in Int, NEW l \in Int, f + h <= m, f1 + e <= f + l
    PROVE  f1 + (h + e - l) <= m
OBVIOUS

\* What a step may do to the permits and the idle list when a caller moves.
LEMMA StepBounds ==
    ASSUME PInv, NEW c \in Callers, NEW x \in Places,
           pc' = [pc EXCEPT ![c] = x],
           permits' \in Nat, Len(idle') \in Nat,
           permits' + In(x, PermitPlaces)
             <= permits + In(pc[c], PermitPlaces),
           \/ Len(idle') = 0
           \/ Len(idle') + In(x, OpenPlaces)
                <= Len(idle) + In(pc[c], OpenPlaces)
    PROVE  PermitsAreBounded' /\ Bounded'
<1> DEFINE P  == Cardinality(At(pc, PermitPlaces))
           P1 == Cardinality(At(pc', PermitPlaces))
           O  == Cardinality(At(pc, OpenPlaces))
           O1 == Cardinality(At(pc', OpenPlaces))
           entersP == In(x, PermitPlaces)
           leavesP == In(pc[c], PermitPlaces)
           entersO == In(x, OpenPlaces)
           leavesO == In(pc[c], OpenPlaces)
           L  == Len(idle)
           L1 == Len(idle')
<1>1. P \in Nat /\ P1 = P + entersP - leavesP
  BY MoveCount DEF PInv, Types
<1>2. O \in Nat /\ O1 = O + entersO - leavesO
  BY MoveCount DEF PInv, Types
<1>3. O1 \in Nat /\ P1 \in Nat /\ O1 <= P1
  BY OpenHavePermits
<1>4. MaxSize \in Nat /\ L \in Nat /\ permits \in Nat /\ L1 \in Nat /\ permits' \in Nat
  BY PoolShape DEF PInv, Types
<1>5. permits + P <= MaxSize /\ L + O <= MaxSize
  BY DEF PInv, PermitsAreBounded, Bounded, WithPermit, Connections
<1>6. /\ permits' + entersP <= permits + leavesP
      /\ L1 = 0 \/ L1 + entersO <= L + leavesO
  OBVIOUS
<1>7. entersP \in Nat /\ leavesP \in Nat /\ entersO \in Nat /\ leavesO \in Nat
  BY DEF In
<1>8. PermitsAreBounded' = (permits' + P1 <= MaxSize)
  BY DEF PermitsAreBounded, WithPermit, At
<1>9. Bounded' = (L1 + O1 <= MaxSize)
  BY DEF Bounded, Connections, At
<1>10. permits' + P1 <= MaxSize
  BY <1>1, <1>4, <1>5, <1>6, <1>7, PermitSum
<1>11. L1 + O1 <= MaxSize
  <2>1. CASE L1 = 0
    BY <1>3, <1>4, <1>10, <2>1
  <2>2. CASE L1 + entersO <= L + leavesO
    BY <1>2, <1>4, <1>5, <1>7, <2>2, PermitSum
  <2> QED BY <1>6, <2>1, <2>2
<1> QED BY <1>8, <1>9, <1>10, <1>11

\* The whole invariant, of a step in which the caller c goes to x.
LEMMA Moves ==
    ASSUME PInv, NEW c \in Callers, NEW x \in Places,
           pc' = [pc EXCEPT ![c] = x],
           conn' \in [Callers -> Sockets \union {Nothing}],
           permits' \in Nat, idle' \in Seq(Sockets \union {Nothing}),
           permits' + In(x, PermitPlaces)
             <= permits + In(pc[c], PermitPlaces),
           \/ Len(idle') = 0
           \/ Len(idle') + In(x, OpenPlaces)
                <= Len(idle) + In(pc[c], OpenPlaces),
           closer' = "done" => idle' = <<>>
    PROVE  PInv'
<1>1. Len(idle') \in Nat
  OBVIOUS
<1>2. PermitsAreBounded' /\ Bounded'
  BY <1>1, StepBounds
<1>3. Types'
  BY DEF Types, PInv
<1> QED BY <1>2, <1>3 DEF PInv, ClosedPoolStaysEmpty

-----------------------------------------------------------------------------
(* The sections under the lock. *)

\* A caller that has its permit, and no connection, looks for one.
LEMMA CheckOutKeepsPInv ==
    ASSUME PInv, NEW c \in Callers, CheckOut(c), pc[c] \notin OpenPlaces,
           permits' \in Nat, permits' + 1 <= permits + In(pc[c], PermitPlaces),
           UNCHANGED closer
    PROVE  PInv'
<1>1. /\ conn \in [Callers -> Sockets \union {Nothing}]
      /\ idle \in Seq(Sockets \union {Nothing}) /\ permits \in Nat
      /\ closer' = "done" => idle = <<>>
  BY DEF PInv, Types, ClosedPoolStaysEmpty
<1>2. /\ In(pc[c], OpenPlaces) = 0
      /\ \A x \in {"connecting", "reaping", "using"} :
           x \in Places /\ In(x, PermitPlaces) = 1
      /\ In("connecting", OpenPlaces) = 1 /\ In("using", OpenPlaces) = 1
      /\ In("reaping", OpenPlaces) = 0
  BY DEF Places, PermitPlaces, OpenPlaces, In
<1>3. CASE /\ idle = <<>> /\ Goto(c, "connecting") /\ UNCHANGED <<conn, idle>>
  <2>1. Len(idle') = 0 /\ idle' \in Seq(Sockets \union {Nothing})
    BY <1>1, <1>3
  <2> QED BY <1>1, <1>2, <1>3, <2>1, Moves DEF Goto
<1>4. ASSUME idle # <<>>, idle' = Tail(idle), UNCHANGED conn, Goto(c, "reaping")
      PROVE  PInv'
  <2>1. /\ Len(idle') + 0 <= Len(idle) + 0
        /\ idle' \in Seq(Sockets \union {Nothing})
    BY <1>1, <1>4
  <2>2. closer' = "done" => idle' = <<>>
    BY <1>1, <1>4
  <2> QED BY <1>1, <1>2, <1>4, <2>1, <2>2, Moves DEF Goto
<1>5. ASSUME idle # <<>>, idle' = Tail(idle), Goto(c, "using"),
             conn' = [conn EXCEPT ![c] = Head(idle)]
      PROVE  PInv'
  <2>1. /\ Len(idle') + 1 <= Len(idle) + 0
        /\ idle' \in Seq(Sockets \union {Nothing})
        /\ conn' \in [Callers -> Sockets \union {Nothing}]
    BY <1>1, <1>5
  <2>2. closer' = "done" => idle' = <<>>
    BY <1>1, <1>5
  <2> QED BY <1>1, <1>2, <1>5, <2>1, <2>2, Moves DEF Goto
<1> QED BY <1>3, <1>4, <1>5 DEF CheckOut

\* What In says of every place, for the steps below.
LEMMA PlaceCounts ==
    ASSUME NEW x \in Places
    PROVE  /\ In(x, PermitPlaces) = IF x \in {"out", "waiting"} THEN 0 ELSE 1
           /\ In(x, OpenPlaces)
                = IF x \in {"connecting", "using", "return", "discard"} THEN 1 ELSE 0
BY DEF Places, PermitPlaces, OpenPlaces, In

\* A caller moves on without touching the idle list.
LEMMA GotoKeepsPInv ==
    ASSUME PInv, NEW c \in Callers, NEW x \in Places, Goto(c, x),
           conn' \in [Callers -> Sockets \union {Nothing}],
           permits' \in Nat,
           permits' + In(x, PermitPlaces) <= permits + In(pc[c], PermitPlaces),
           In(x, OpenPlaces) <= In(pc[c], OpenPlaces),
           UNCHANGED <<idle, closer>>
    PROVE  PInv'
<1>1. /\ idle' \in Seq(Sockets \union {Nothing})
      /\ closer' = "done" => idle' = <<>>
      /\ Len(idle') = Len(idle) /\ Len(idle) \in Nat
  BY DEF PInv, Types, ClosedPoolStaysEmpty
<1>2. In(x, OpenPlaces) \in Nat /\ In(pc[c], OpenPlaces) \in Nat
  BY DEF In
<1>3. Len(idle') + In(x, OpenPlaces) <= Len(idle) + In(pc[c], OpenPlaces)
  BY <1>1, <1>2
<1> QED BY <1>1, <1>3, Moves DEF Goto

\* A caller whose connection failed to open gives its permit back.
LEMMA UndoKeepsPInv ==
    ASSUME PInv, NEW c \in Callers, Undo(c), pc[c] \in PermitPlaces,
           UNCHANGED closer
    PROVE  PInv'
<1>1. /\ conn' \in [Callers -> Sockets \union {Nothing}]
      /\ permits \in Nat /\ permits' = permits + 1
  BY DEF PInv, Types, Undo
<1>2. /\ In(pc[c], PermitPlaces) = 1 /\ In(pc[c], OpenPlaces) \in {0, 1}
      /\ In("out", PermitPlaces) = 0 /\ In("out", OpenPlaces) = 0
      /\ "out" \in Places
  BY DEF Places, PermitPlaces, OpenPlaces, In
<1>3. /\ permits' + In("out", PermitPlaces) <= permits + In(pc[c], PermitPlaces)
      /\ In("out", OpenPlaces) <= In(pc[c], OpenPlaces)
      /\ permits' \in Nat
  BY <1>1, <1>2
<1> QED BY <1>1, <1>2, <1>3, GotoKeepsPInv DEF Undo

\* A connection goes back to the idle list, or is closed with its permit held.
LEMMA CheckInKeepsPInv ==
    ASSUME PInv, NEW c \in Callers, NEW after, NEW reuse,
           pc[c] \in {"using", "return", "discard"}, CheckIn(c, after, reuse),
           UNCHANGED closer
    PROVE  PInv'
<1>1. /\ conn \in [Callers -> Sockets \union {Nothing}]
      /\ idle \in Seq(Sockets \union {Nothing}) /\ permits \in Nat
      /\ closer' = "done" => idle = <<>>
      /\ conn' \in [Callers -> Sockets \union {Nothing}]
  BY DEF PInv, Types, ClosedPoolStaysEmpty, CheckIn
<1>2. /\ In(pc[c], PermitPlaces) = 1 /\ In(pc[c], OpenPlaces) = 1
      /\ In("out", PermitPlaces) = 0 /\ In("out", OpenPlaces) = 0
      /\ In("closing", PermitPlaces) = 1 /\ In("closing", OpenPlaces) = 0
      /\ "out" \in Places /\ "closing" \in Places
  BY DEF Places, PermitPlaces, OpenPlaces, In
<1>3. CASE Keeps(c, reuse)
  <2>1. /\ idle' = <<conn[c]>> \o idle /\ permits' = permits + 1
        /\ Goto(c, "out") /\ closer' # "done"
    BY <1>3 DEF CheckIn, Keeps, Closed
  <2>2. /\ idle' \in Seq(Sockets \union {Nothing})
        /\ Len(idle') = Len(idle) + 1 /\ Len(idle) \in Nat
    BY <1>1, <2>1
  <2>3. /\ permits' + In("out", PermitPlaces) <= permits + In(pc[c], PermitPlaces)
        /\ Len(idle') + In("out", OpenPlaces) <= Len(idle) + In(pc[c], OpenPlaces)
        /\ permits' \in Nat
    BY <1>1, <1>2, <2>1, <2>2
  <2>4. closer' = "done" => idle' = <<>>
    BY <2>1
  <2>5. pc' = [pc EXCEPT ![c] = "out"]
    BY <2>1 DEF Goto
  <2>6. /\ idle' \in Seq(Sockets \union {Nothing}) /\ "out" \in Places
        /\ conn' \in [Callers -> Sockets \union {Nothing}]
    BY <1>1, <1>2, <2>2
  <2> QED BY <2>3, <2>4, <2>5, <2>6, Moves
<1>4. CASE ~Keeps(c, reuse)
  <2>1. UNCHANGED <<idle, permits>> /\ Goto(c, "closing")
    BY <1>4 DEF CheckIn
  <2>2. /\ permits' + In("closing", PermitPlaces) <= permits + In(pc[c], PermitPlaces)
        /\ Len(idle') + In("closing", OpenPlaces) <= Len(idle) + In(pc[c], OpenPlaces)
        /\ permits' \in Nat /\ idle' \in Seq(Sockets \union {Nothing})
        /\ closer' = "done" => idle' = <<>>
    BY <1>1, <1>2, <2>1
  <2> QED BY <1>1, <1>2, <2>1, <2>2, Moves DEF Goto
<1> QED BY <1>3, <1>4

\* A caller is done with its connection.
LEMMA GiveBackKeepsPInv ==
    ASSUME PInv, NEW c \in Callers, NEW after, NEW reuse,
           pc[c] = "using", GiveBack(c, after, reuse), UNCHANGED closer
    PROVE  PInv'
<1>1. CASE LockIsFree(c)
  BY <1>1, CheckInKeepsPInv DEF GiveBack
<1>2. CASE ~LockIsFree(c)
  <2>1. \E x \in {"return", "discard"} : Goto(c, x)
    BY <1>2 DEF GiveBack
  <2>2. PICK x \in {"return", "discard"} : Goto(c, x)
    BY <2>1
  <2>3. /\ conn \in [Callers -> Sockets \union {Nothing}] /\ permits \in Nat
        /\ UNCHANGED <<conn, permits, idle>>
    BY <1>2 DEF PInv, Types, GiveBack
  <2>4. /\ x \in Places /\ In(x, PermitPlaces) = 1 /\ In(x, OpenPlaces) = 1
        /\ In(pc[c], PermitPlaces) = 1 /\ In(pc[c], OpenPlaces) = 1
    BY DEF Places, PermitPlaces, OpenPlaces, In
  <2> QED BY <2>2, <2>3, <2>4, GotoKeepsPInv
<1> QED BY <1>1, <1>2

-----------------------------------------------------------------------------
(* Every step. *)

\* An empty pool.
LEMMA InitPInv == Init => PInv
<1> SUFFICES ASSUME Init PROVE PInv
  OBVIOUS
<1>1. At(pc, PermitPlaces) = {} /\ At(pc, OpenPlaces) = {}
  BY DEF Init, At, PermitPlaces, OpenPlaces
<1>2. Cardinality(WithPermit) = 0 /\ Cardinality(Connections) = 0
  BY <1>1, FS_EmptySet DEF WithPermit, Connections
<1>3. Types
  BY PoolShape DEF Init, Types, Places
<1>4. PermitsAreBounded /\ Bounded
  BY <1>2, PoolShape DEF Init, PermitsAreBounded, Bounded
<1> QED BY <1>3, <1>4 DEF PInv, ClosedPoolStaysEmpty, Init

\* What a caller does on its own.
LEMMA CallerKeepsPInv ==
    ASSUME PInv, NEW c \in Callers,
           \/ WaitForPermit(c) \/ TakePermit(c)
           \/ EntersLock(c) \/ Proceeds(c)
    PROVE  PInv'
<1>1. /\ pc[c] \in Places /\ permits \in Nat
      /\ conn \in [Callers -> Sockets \union {Nothing}]
  BY DEF PInv, Types
<1>2. In(pc[c], PermitPlaces) \in Nat /\ In(pc[c], OpenPlaces) \in Nat
  BY DEF In
<1>3. CASE WaitForPermit(c)
  <2>1. In("waiting", PermitPlaces) = 0 /\ In("waiting", OpenPlaces) = 0 /\ "waiting" \in Places
    BY PlaceCounts DEF Places
  <2> QED BY <1>1, <1>2, <1>3, <2>1, GotoKeepsPInv DEF WaitForPermit
<1>4. CASE TakePermit(c)
  <2>1. /\ permits' \in Nat /\ permits' + 1 = permits
        /\ In(pc[c], PermitPlaces) = 0 /\ In(pc[c], OpenPlaces) = 0
        /\ pc[c] \notin OpenPlaces
    BY <1>1, <1>4, PlaceCounts DEF TakePermit, OpenPlaces
  <2>2. CASE CheckOut(c)
    BY <1>4, <2>1, <2>2, CheckOutKeepsPInv DEF TakePermit
  <2>3. CASE Goto(c, "checkout") /\ UNCHANGED <<conn, lock, idle, inUse, sock>>
    <3>1. In("checkout", PermitPlaces) = 1 /\ In("checkout", OpenPlaces) = 0 /\ "checkout" \in Places
      BY PlaceCounts DEF Places
    <3> QED BY <1>1, <1>4, <2>1, <2>3, <3>1, GotoKeepsPInv DEF TakePermit
  <2> QED BY <1>4, <2>2, <2>3 DEF TakePermit
<1>5. CASE EnterCheckOut(c) \/ Reaped(c)
  <2>1. /\ permits' \in Nat /\ permits' + 1 <= permits + In(pc[c], PermitPlaces)
        /\ pc[c] \notin OpenPlaces /\ CheckOut(c) /\ UNCHANGED closer
    BY <1>1, <1>5, PlaceCounts DEF EnterCheckOut, Reaped, OpenPlaces
  <2> QED BY <2>1, CheckOutKeepsPInv
<1>6. CASE Connected(c)
  <2>1. /\ In("using", PermitPlaces) = 1 /\ In("using", OpenPlaces) = 1 /\ "using" \in Places
        /\ In(pc[c], PermitPlaces) = 1 /\ In(pc[c], OpenPlaces) = 1
    BY <1>6, PlaceCounts DEF Places, Connected
  <2>2. /\ conn' \in [Callers -> Sockets \union {Nothing}]
        /\ Goto(c, "using") /\ UNCHANGED <<permits, idle, closer>>
    <3>1. /\ \E s \in Sockets : conn' = [conn EXCEPT ![c] = s]
          /\ Goto(c, "using") /\ UNCHANGED <<permits, idle, closer>>
      BY <1>6 DEF Connected, Unused
    <3> QED BY <1>1, <3>1
  <2> QED BY <1>1, <2>1, <2>2, GotoKeepsPInv
<1>7. CASE ConnectFails(c)
  <2>1. CASE Undo(c)
    BY <1>7, <2>1, UndoKeepsPInv DEF ConnectFails, PermitPlaces, Places
  <2>2. CASE ~LockIsFree(c)
    <3>1. /\ In("undo", PermitPlaces) = 1 /\ In("undo", OpenPlaces) = 0 /\ "undo" \in Places
          /\ In(pc[c], PermitPlaces) = 1
      BY <1>7, PlaceCounts DEF Places, ConnectFails
    <3> QED BY <1>1, <1>2, <1>7, <2>2, <3>1, GotoKeepsPInv DEF ConnectFails, Handler
  <2> QED BY <1>7, <2>1, <2>2 DEF ConnectFails, Handler
<1>8. CASE EnterUndo(c)
  BY <1>8, UndoKeepsPInv DEF EnterUndo, PermitPlaces, Places
<1>9. ASSUME NEW after, NEW reuse, pc[c] = "using", GiveBack(c, after, reuse), UNCHANGED closer
      PROVE  PInv'
  BY <1>9, GiveBackKeepsPInv
<1>10. CASE Answered(c) \/ Fails(c)
  BY <1>9, <1>10 DEF Answered, Fails
<1>11. CASE EnterCheckIn(c)
  BY <1>11, CheckInKeepsPInv DEF EnterCheckIn
<1>12. CASE Discarded(c)
  <2>1. /\ In("out", PermitPlaces) = 0 /\ In("out", OpenPlaces) = 0 /\ "out" \in Places
        /\ In(pc[c], PermitPlaces) = 1
        /\ permits' = permits + 1 /\ Goto(c, "out") /\ UNCHANGED <<conn, idle, closer>>
    BY <1>12, PlaceCounts DEF Places, Discarded
  <2> QED BY <1>1, <1>2, <2>1, GotoKeepsPInv
<1> QED BY <1>3, <1>4, <1>5, <1>6, <1>7, <1>8, <1>10, <1>11, <1>12 DEF EntersLock, Proceeds

\* A cancellation, wherever it hits.
LEMMA CancelKeepsPInv ==
    ASSUME PInv, NEW c \in Callers, Cancel(c)
    PROVE  PInv'
<1>1. /\ pc[c] \in Places /\ permits \in Nat
      /\ conn \in [Callers -> Sockets \union {Nothing}] /\ UNCHANGED closer
  BY DEF PInv, Types, Cancel
<1>2. /\ In("out", PermitPlaces) = 0 /\ In("out", OpenPlaces) = 0 /\ "out" \in Places
      /\ In("undo", PermitPlaces) = 1 /\ In("undo", OpenPlaces) = 0 /\ "undo" \in Places
      /\ In(pc[c], PermitPlaces) \in Nat /\ In(pc[c], OpenPlaces) \in Nat
  BY DEF Places, PermitPlaces, OpenPlaces, In
<1>3. CASE \/ CancelOutsideTheTry(c) \/ CancelInHandler(c)
           \/ CancelBeforeRelease(c) \/ CancelInRelease(c)
  <2>1. /\ Goto(c, "out") /\ UNCHANGED <<permits, idle>>
        /\ conn' \in [Callers -> Sockets \union {Nothing}]
    BY <1>1, <1>3
       DEF CancelOutsideTheTry, CancelInHandler, CancelBeforeRelease, CancelInRelease
  <2> QED BY <1>1, <1>2, <2>1, GotoKeepsPInv
<1>4. CASE CancelInAcquire(c)
  <2>1. CASE Undo(c)
    BY <1>1, <1>4, <2>1, UndoKeepsPInv DEF CancelInAcquire, PermitPlaces, Places
  <2>2. CASE ~LockIsFree(c)
    <3>1. Goto(c, "undo") /\ UNCHANGED <<conn, permits, idle>>
      BY <1>4, <2>2 DEF CancelInAcquire, Handler
    <3>2. In(pc[c], PermitPlaces) = 1
      BY <1>4 DEF CancelInAcquire, In, PermitPlaces, Places
    <3> QED BY <1>1, <1>2, <3>1, <3>2, GotoKeepsPInv
  <2> QED BY <1>4, <2>1, <2>2 DEF CancelInAcquire, Handler
<1>5. CASE CancelInUse(c)
  BY <1>1, <1>5, GiveBackKeepsPInv DEF CancelInUse
<1> QED BY <1>3, <1>4, <1>5 DEF Cancel

\* close() empties the idle list; the far end and time do not touch it.
LEMMA RestKeepsPInv ==
    ASSUME PInv,
           \/ Close \/ EnterClose
           \/ \E s \in Sockets : PeerCloses(s) \/ Ages(s)
           \/ UNCHANGED vars
    PROVE  PInv'
<1>1. UNCHANGED <<pc, conn, permits>>
  BY DEF Close, EnterClose, PeerCloses, Ages, vars
<1>2. \/ idle' = <<>>
      \/ idle' = idle /\ (closer' = closer \/ closer' = "waiting")
  BY DEF Close, EnterClose, PeerCloses, Ages, vars, TakeIdle
<1>3. /\ idle' \in Seq(Sockets \union {Nothing})
      /\ Len(idle') <= Len(idle) /\ Len(idle') \in Nat /\ Len(idle) \in Nat
  <2>1. idle \in Seq(Sockets \union {Nothing}) /\ Len(idle) \in Nat
    BY DEF PInv, Types
  <2>2. CASE idle' = <<>>
    BY <2>1, <2>2
  <2>3. CASE idle' = idle
    BY <2>1, <2>3
  <2> QED BY <1>2, <2>2, <2>3
<1>4. WithPermit' = WithPermit /\ Connections' = Connections
  BY <1>1 DEF WithPermit, Connections, At
<1>5. Cardinality(Connections) \in Nat
  BY OpenHavePermits DEF Connections
<1>6. Bounded'
  BY <1>3, <1>4, <1>5, PoolShape DEF PInv, Bounded
<1>7. PermitsAreBounded'
  BY <1>1, <1>4 DEF PInv, PermitsAreBounded
<1>8. Types' /\ ClosedPoolStaysEmpty'
  BY <1>1, <1>2, <1>3 DEF PInv, Types, ClosedPoolStaysEmpty
<1> QED BY <1>6, <1>7, <1>8 DEF PInv

\* The permits, the bound and the empty closed pool, together, in every state.
THEOREM PoolInvariance == Spec => []PInv
<1>1. PInv /\ [Next]_vars => PInv'
  BY CallerKeepsPInv, CancelKeepsPInv, RestKeepsPInv DEF Next
<1> QED BY InitPInv, <1>1, PTL DEF Spec

\* Idle connections, those checked out and those being opened are never more
\* than max_size (ConnectionPool.acquire, release), whatever fails or is cancelled.
THEOREM PoolIsBounded == Spec => []Bounded
<1>1. PInv => Bounded
  BY DEF PInv
<1> QED BY PoolInvariance, <1>1, PTL

\* Once close() has emptied the pool, no release puts a connection back.
THEOREM ClosedIsClosed == Spec => []ClosedPoolStaysEmpty
<1>1. PInv => ClosedPoolStaysEmpty
  BY DEF PInv
<1> QED BY PoolInvariance, <1>1, PTL

-----------------------------------------------------------------------------
(* Exact counts, but for one per cancellation. *)

CountedPlaces == OpenPlaces \union {"undo"}
Counts ==
    /\ inUse \in Nat /\ cancels \in Nat
    /\ permits + Cardinality(WithPermit) >= MaxSize - cancels
    /\ inUse - Cardinality(At(pc, CountedPlaces)) \in -cancels .. cancels

\* The places at which a caller counts as using a connection.
LEMMA CountedIn ==
    ASSUME NEW x \in Places
    PROVE  In(x, CountedPlaces)
             = IF x \in {"connecting", "using", "return", "discard", "undo"} THEN 1 ELSE 0
BY DEF Places, CountedPlaces, OpenPlaces, In

\* What a step may do to the counts when a caller moves.  lost is 1 when the
\* caller is cancelled.
LEMMA CountStep ==
    ASSUME Types, Counts, NEW c \in Callers, NEW x \in Places,
           pc' = [pc EXCEPT ![c] = x], permits' \in Nat, inUse' \in Nat,
           NEW lost \in {0, 1}, cancels' = cancels + lost,
           permits' + In(x, PermitPlaces) + lost >= permits + In(pc[c], PermitPlaces),
           NEW d \in Int,
           inUse' + In(pc[c], CountedPlaces) = inUse + In(x, CountedPlaces) + d,
           \/ d \in -lost .. lost
           \/ inUse' = 0 /\ In(x, CountedPlaces) <= In(pc[c], CountedPlaces)
              /\ inUse = 0
    PROVE  Counts'
<1> DEFINE P  == Cardinality(At(pc, PermitPlaces))
           P1 == Cardinality(At(pc', PermitPlaces))
           U  == Cardinality(At(pc, CountedPlaces))
           U1 == Cardinality(At(pc', CountedPlaces))
<1>1. P \in Nat /\ P1 = P + In(x, PermitPlaces) - In(pc[c], PermitPlaces)
  BY MoveCount DEF Types
<1>2. U \in Nat /\ U1 = U + In(x, CountedPlaces) - In(pc[c], CountedPlaces)
  BY MoveCount DEF Types
<1>3. U1 \in Nat
  BY PoolShape, FS_Subset, FS_CardinalityType DEF At
<1>4. /\ In(x, PermitPlaces) \in Nat /\ In(pc[c], PermitPlaces) \in Nat
      /\ In(x, CountedPlaces) \in Nat /\ In(pc[c], CountedPlaces) \in Nat
      /\ MaxSize \in Nat /\ permits \in Nat
  BY PoolShape DEF In, Types
<1>5. /\ inUse \in Nat /\ cancels \in Nat
      /\ permits + P >= MaxSize - cancels /\ inUse - U \in -cancels .. cancels
  BY DEF Counts, WithPermit
<1>6. Counts' = (/\ inUse' \in Nat /\ cancels' \in Nat
                 /\ permits' + P1 >= MaxSize - cancels'
                 /\ inUse' - U1 \in -cancels' .. cancels')
  BY DEF Counts, WithPermit, At
<1> HIDE DEF P, P1, U, U1
<1>7. permits' + P1 >= MaxSize - cancels'
  BY <1>1, <1>4, <1>5
<1>8. inUse' - U1 \in -cancels' .. cancels'
  <2>1. CASE d \in -lost .. lost
    <3>1. inUse' - U1 = inUse - U + d
      BY <1>2, <1>4, <1>5
    <3> QED BY <1>2, <1>3, <1>5, <2>1, <3>1
  <2>2. CASE inUse' = 0 /\ In(x, CountedPlaces) <= In(pc[c], CountedPlaces) /\ inUse = 0
    <3>1. U1 <= U /\ U <= cancels
      BY <1>2, <1>4, <1>5, <2>2
    <3> QED BY <1>2, <1>3, <1>5, <2>2, <3>1
  <2> QED BY <2>1, <2>2
<1> QED BY <1>5, <1>6, <1>7, <1>8

\* A caller moves and _in_use stays.
LEMMA StayCount ==
    ASSUME Types, Counts, NEW c \in Callers, NEW x \in Places, Goto(c, x),
           permits' \in Nat, inUse' = inUse, NEW lost \in {0, 1},
           cancels' = cancels + lost,
           permits' + In(x, PermitPlaces) + lost >= permits + In(pc[c], PermitPlaces),
           In(pc[c], CountedPlaces) - In(x, CountedPlaces) \in -lost .. lost
    PROVE  Counts'
<1>1. In(pc[c], CountedPlaces) \in Nat /\ In(x, CountedPlaces) \in Nat /\ inUse \in Nat
  BY DEF In, Counts
<1>2. inUse' + In(pc[c], CountedPlaces) = inUse + In(x, CountedPlaces)
        + (In(pc[c], CountedPlaces) - In(x, CountedPlaces))
  BY <1>1
<1>3. In(pc[c], CountedPlaces) - In(x, CountedPlaces) \in Int
  BY <1>1
<1>4. pc' = [pc EXCEPT ![c] = x]
  BY DEF Goto
<1> QED BY <1>1, <1>2, <1>3, <1>4, CountStep

\* A caller moves and takes itself off _in_use.
LEMMA LeaveCount ==
    ASSUME Types, Counts, NEW c \in Callers, NEW x \in {"out", "closing"}, Goto(c, x),
           permits' \in Nat, inUse' = Max0(inUse - 1), NEW lost \in {0, 1},
           cancels' = cancels + lost,
           permits' + In(x, PermitPlaces) + lost >= permits + In(pc[c], PermitPlaces),
           lost = 1 \/ In(pc[c], CountedPlaces) = 1
    PROVE  Counts'
<1>1. In(x, CountedPlaces) = 0 /\ x \in Places /\ pc' = [pc EXCEPT ![c] = x]
  BY CountedIn DEF Places, Goto
<1>2. inUse \in Nat /\ In(pc[c], CountedPlaces) \in {0, 1}
  BY DEF Counts, In
<1>3. inUse' \in Nat
  BY <1>2 DEF Max0
<1>4. CASE inUse = 0
  <2>1. inUse' = 0
    BY <1>4 DEF Max0
  <2>2. /\ In(pc[c], CountedPlaces) \in Int
        /\ inUse' + In(pc[c], CountedPlaces)
             = inUse + In(x, CountedPlaces) + In(pc[c], CountedPlaces)
    BY <1>1, <1>2, <1>4, <2>1
  <2>3. In(x, CountedPlaces) <= In(pc[c], CountedPlaces)
    BY <1>1, <1>2
  <2> DEFINE d == In(pc[c], CountedPlaces)
  <2>4. /\ d \in Int
        /\ inUse' + In(pc[c], CountedPlaces) = inUse + In(x, CountedPlaces) + d
    BY <2>2
  <2> HIDE DEF d
  <2> QED BY <1>1, <1>3, <1>4, <2>1, <2>3, <2>4, CountStep
<1>5. CASE inUse > 0
  <2>1. inUse' = inUse - 1
    BY <1>2, <1>5 DEF Max0
  <2>2. /\ In(pc[c], CountedPlaces) - 1 \in Int
        /\ In(pc[c], CountedPlaces) - 1 \in -lost .. lost
        /\ inUse' + In(pc[c], CountedPlaces)
             = inUse + In(x, CountedPlaces) + (In(pc[c], CountedPlaces) - 1)
    BY <1>1, <1>2, <1>5, <2>1
  <2> QED BY <1>1, <1>3, <2>2, CountStep
<1> QED BY <1>2, <1>4, <1>5

\* acquire's handler takes the caller off the count and returns the permit,
LEMMA UndoCounts ==
    ASSUME Types, Counts, NEW c \in Callers, Undo(c), NEW lost \in {0, 1},
           cancels' = cancels + lost, pc[c] \in PermitPlaces,
           lost = 1 \/ pc[c] \in {"connecting", "undo"}
    PROVE  Counts'
<1>1. pc[c] \in Places /\ permits \in Nat /\ permits' = permits + 1
  BY DEF Types, Undo
<1>2. In(pc[c], PermitPlaces) = 1 /\ In("out", PermitPlaces) = 0
  BY DEF In, PermitPlaces
<1>3. lost = 1 \/ In(pc[c], CountedPlaces) = 1
  BY <1>1, CountedIn
<1>4. permits' \in Nat
      /\ permits' + In("out", PermitPlaces) + lost >= permits + In(pc[c], PermitPlaces)
  BY <1>1, <1>2
<1> QED BY <1>3, <1>4, LeaveCount DEF Undo

\* at once or after a wait for the lock.
LEMMA HandlerCounts ==
    ASSUME Types, Counts, NEW c \in Callers, Handler(c), NEW lost \in {0, 1},
           cancels' = cancels + lost, pc[c] \in {"checkout", "reaping", "connecting"},
           lost = 1 \/ pc[c] = "connecting"
    PROVE  Counts'
<1>1. CASE Undo(c)
  BY <1>1, UndoCounts DEF PermitPlaces, Places
<1>2. CASE Goto(c, "undo") /\ UNCHANGED <<permits, inUse>>
  <2>1. "undo" \in Places /\ pc[c] \in Places /\ permits' \in Nat
    BY <1>2 DEF Places, Types
  <2>2. In("undo", PermitPlaces) = 1 /\ In(pc[c], PermitPlaces) = 1
    BY <2>1, PlaceCounts
  <2>3. In("undo", CountedPlaces) = 1
        /\ In(pc[c], CountedPlaces) = IF pc[c] = "connecting" THEN 1 ELSE 0
    BY <2>1, CountedIn
  <2>4. In(pc[c], CountedPlaces) - In("undo", CountedPlaces) \in -lost .. lost
    BY <2>3
  <2>5. permits' + In("undo", PermitPlaces) + lost >= permits + In(pc[c], PermitPlaces)
    BY <1>2, <2>1, <2>2
  <2> QED BY <1>2, <2>1, <2>4, <2>5, StayCount
<1> QED BY <1>1, <1>2 DEF Handler

\* A caller that checks out is counted, unless it closes an expired connection first.
LEMMA CheckOutCounts ==
    ASSUME Types, Counts, NEW c \in Callers, CheckOut(c), cancels' = cancels,
           permits' \in Nat, permits' + 1 >= permits + In(pc[c], PermitPlaces),
           pc[c] \in {"out", "waiting", "checkout", "reaping"}
    PROVE  Counts'
<1>1. pc[c] \in Places /\ inUse \in Nat /\ cancels \in Nat
      /\ \A x \in {"connecting", "using", "reaping"} : x \in Places
  BY DEF Types, Counts, Places
<1>2. In(pc[c], CountedPlaces) = 0
  BY <1>1, CountedIn
<1>3. /\ In("connecting", PermitPlaces) = 1 /\ In("connecting", CountedPlaces) = 1
      /\ In("using", PermitPlaces) = 1 /\ In("using", CountedPlaces) = 1
      /\ In("reaping", PermitPlaces) = 1 /\ In("reaping", CountedPlaces) = 0
  BY <1>1, PlaceCounts, CountedIn
<1>4. In(pc[c], PermitPlaces) \in Nat /\ permits \in Nat
  BY DEF In, Types
<1>5. CASE Goto(c, "reaping") /\ inUse' = inUse
  BY <1>1, <1>2, <1>3, <1>4, <1>5, StayCount
<1>6. ASSUME NEW x \in {"connecting", "using"}, Goto(c, x), inUse' = inUse + 1
      PROVE  Counts'
  <2>1. In(x, PermitPlaces) = 1 /\ In(x, CountedPlaces) = 1 /\ x \in Places
        /\ pc' = [pc EXCEPT ![c] = x] /\ inUse' \in Nat
    BY <1>1, <1>3, <1>6 DEF Goto
  <2>2. inUse' + In(pc[c], CountedPlaces) = inUse + In(x, CountedPlaces) + 0
    BY <1>1, <1>2, <1>6, <2>1
  <2>3. permits' + In(x, PermitPlaces) + 0 >= permits + In(pc[c], PermitPlaces)
    BY <1>4, <2>1
  <2> DEFINE none == 0
  <2>4. /\ cancels' = cancels + none /\ none \in -none .. none
        /\ none \in {0, 1} /\ none \in Int
        /\ inUse' + In(pc[c], CountedPlaces) = inUse + In(x, CountedPlaces) + none
        /\ permits' + In(x, PermitPlaces) + none >= permits + In(pc[c], PermitPlaces)
    BY <1>1, <2>2, <2>3
  <2> HIDE DEF none
  <2> QED BY <2>1, <2>4, CountStep
<1> QED BY <1>5, <1>6 DEF CheckOut

\* release takes its caller off the count.
LEMMA CheckInCounts ==
    ASSUME Types, Counts, NEW c \in Callers, NEW after, NEW reuse,
           pc[c] \in {"using", "return", "discard"}, CheckIn(c, after, reuse),
           NEW lost \in {0, 1}, cancels' = cancels + lost
    PROVE  Counts'
<1>1. pc[c] \in Places /\ "out" \in Places /\ "closing" \in Places
      /\ inUse' = Max0(inUse - 1) /\ permits \in Nat
  BY DEF Types, Places, CheckIn
<1>2. /\ In(pc[c], PermitPlaces) = 1 /\ In(pc[c], CountedPlaces) = 1
      /\ In("out", PermitPlaces) = 0 /\ In("closing", PermitPlaces) = 1
  BY <1>1, PlaceCounts, CountedIn
<1>3. CASE permits' = permits + 1 /\ Goto(c, "out")
  BY <1>1, <1>2, <1>3, LeaveCount
<1>4. CASE permits' = permits /\ Goto(c, "closing")
  BY <1>1, <1>2, <1>4, LeaveCount
<1> QED BY <1>3, <1>4 DEF CheckIn

\* A caller that waits for the lock in release is still counted.
LEMMA GiveBackCounts ==
    ASSUME Types, Counts, NEW c \in Callers, NEW after, NEW reuse,
           pc[c] = "using", GiveBack(c, after, reuse),
           NEW lost \in {0, 1}, cancels' = cancels + lost
    PROVE  Counts'
<1>1. CASE CheckIn(c, after, reuse)
  BY <1>1, CheckInCounts
<1>2. ASSUME NEW x \in {"return", "discard"}, Goto(c, x), UNCHANGED <<permits, inUse>>
      PROVE  Counts'
  <2>1. x \in Places /\ pc[c] \in Places /\ permits \in Nat
    BY DEF Places, Types
  <2>2. /\ In(x, PermitPlaces) = 1 /\ In(pc[c], PermitPlaces) = 1
        /\ In(x, CountedPlaces) = 1 /\ In(pc[c], CountedPlaces) = 1
    BY <2>1, PlaceCounts, CountedIn
  <2> QED BY <1>2, <2>1, <2>2, StayCount
<1> QED BY <1>1, <1>2 DEF GiveBack

\* No step leaves the counts.
LEMMA CountsStep ==
    ASSUME Types, Counts, [Next]_vars
    PROVE  Counts'
<1>0. permits \in Nat /\ inUse \in Nat /\ cancels \in Nat /\ cancels + 0 = cancels
      /\ "out" \in Places /\ "waiting" \in Places /\ "checkout" \in Places
      /\ "using" \in Places
  BY DEF Types, Counts, Places
<1>1. /\ In("out", PermitPlaces) = 0 /\ In("out", CountedPlaces) = 0
      /\ In("waiting", PermitPlaces) = 0 /\ In("waiting", CountedPlaces) = 0
      /\ In("checkout", PermitPlaces) = 1 /\ In("checkout", CountedPlaces) = 0
      /\ In("using", PermitPlaces) = 1 /\ In("using", CountedPlaces) = 1
  BY <1>0, PlaceCounts, CountedIn
<1>2. ASSUME NEW c \in Callers
      PROVE  /\ pc[c] \in Places
             /\ In(pc[c], PermitPlaces) = IF pc[c] \in {"out", "waiting"} THEN 0 ELSE 1
             /\ In(pc[c], CountedPlaces) =
                  IF pc[c] \in {"connecting", "using", "return", "discard", "undo"}
                  THEN 1 ELSE 0
  <2>1. pc[c] \in Places
    BY DEF Types
  <2> QED BY <2>1, PlaceCounts, CountedIn
<1>3. ASSUME NEW c \in Callers, WaitForPermit(c) PROVE Counts'
  BY <1>0, <1>1, <1>2, <1>3, StayCount DEF WaitForPermit
<1>4. ASSUME NEW c \in Callers, TakePermit(c) PROVE Counts'
  <2>1. permits' = permits - 1 /\ permits' \in Nat /\ UNCHANGED cancels
        /\ pc[c] \in {"out", "waiting"}
    BY <1>0, <1>4 DEF TakePermit
  <2>2. CASE CheckOut(c)
    BY <1>0, <1>2, <2>1, <2>2, CheckOutCounts
  <2>3. CASE Goto(c, "checkout") /\ UNCHANGED inUse
    BY <1>0, <1>1, <1>2, <2>1, <2>3, StayCount
  <2> QED BY <1>4, <2>2, <2>3 DEF TakePermit
<1>5. ASSUME NEW c \in Callers, EnterCheckOut(c) \/ Reaped(c) PROVE Counts'
  BY <1>0, <1>2, <1>5, CheckOutCounts DEF EnterCheckOut, Reaped
<1>6. ASSUME NEW c \in Callers, Connected(c) PROVE Counts'
  BY <1>0, <1>1, <1>2, <1>6, StayCount DEF Connected
<1>7. ASSUME NEW c \in Callers, ConnectFails(c) PROVE Counts'
  BY <1>0, <1>7, HandlerCounts DEF ConnectFails
<1>8. ASSUME NEW c \in Callers, EnterUndo(c) PROVE Counts'
  BY <1>0, <1>8, UndoCounts DEF EnterUndo, PermitPlaces, Places
<1>9. ASSUME NEW c \in Callers, Answered(c) \/ Fails(c) PROVE Counts'
  BY <1>0, <1>9, GiveBackCounts DEF Answered, Fails
<1>10. ASSUME NEW c \in Callers, EnterCheckIn(c) PROVE Counts'
  BY <1>0, <1>10, CheckInCounts DEF EnterCheckIn
<1>11. ASSUME NEW c \in Callers, Discarded(c) PROVE Counts'
  BY <1>0, <1>1, <1>2, <1>11, StayCount DEF Discarded
<1>12. ASSUME NEW c \in Callers, Cancel(c) PROVE Counts'
  <2>1. cancels' = cancels + 1
    BY <1>12 DEF Cancel
  <2>2. CASE CancelInAcquire(c)
    BY <2>1, <2>2, HandlerCounts DEF CancelInAcquire
  <2>3. CASE CancelInUse(c)
    BY <2>1, <2>3, GiveBackCounts DEF CancelInUse
  <2>4. CASE \/ CancelOutsideTheTry(c) \/ CancelInHandler(c)
             \/ CancelBeforeRelease(c) \/ CancelInRelease(c)
    <3>1. Goto(c, "out") /\ UNCHANGED <<permits, inUse>>
      BY <2>4 DEF CancelOutsideTheTry, CancelInHandler, CancelBeforeRelease, CancelInRelease
    <3> QED BY <1>0, <1>1, <1>2, <2>1, <3>1, StayCount
  <2> QED BY <1>12, <2>2, <2>3, <2>4 DEF Cancel
<1>13. ASSUME \/ Close \/ EnterClose \/ UNCHANGED vars
              \/ \E s \in Sockets : PeerCloses(s) \/ Ages(s)
       PROVE  Counts'
  <2>1. UNCHANGED <<pc, permits, inUse, cancels>>
    BY <1>13 DEF Close, EnterClose, PeerCloses, Ages, vars
  <2> QED BY <2>1 DEF Counts, WithPermit, At
<1> QED BY <1>3, <1>4, <1>5, <1>6, <1>7, <1>8, <1>9, <1>10, <1>11, <1>12, <1>13
        DEF Next, EntersLock, Proceeds

\* Permits and _in_use are off by at most one for each cancellation (acquire and
\* release of pool.py).
THEOREM CountsHold == Spec => []Counts
<1>1. Init => Counts
  <2> SUFFICES ASSUME Init PROVE Counts
    OBVIOUS
  <2>1. At(pc, PermitPlaces) = {} /\ At(pc, CountedPlaces) = {}
    BY DEF Init, At, PermitPlaces, OpenPlaces, CountedPlaces
  <2>2. Cardinality(WithPermit) = 0 /\ Cardinality(At(pc, CountedPlaces)) = 0
    BY <2>1, FS_EmptySet DEF WithPermit
  <2> QED BY <2>2, PoolShape DEF Init, Counts
<1>2. PInv /\ Counts /\ [Next]_vars => Counts'
  BY CountsStep DEF PInv
<1> QED BY PoolInvariance, <1>1, <1>2, PTL DEF Spec

\* No permit is made, and none is lost but by a cancellation, one each.
THEOREM PermitsConserved == Spec => []PermitsAreConserved
<1>1. PInv /\ Counts => PermitsAreConserved
  <2> SUFFICES ASSUME PInv, Counts PROVE PermitsAreConserved
    OBVIOUS
  <2>1. permits \in Nat /\ Cardinality(WithPermit) \in Nat /\ MaxSize \in Nat
        /\ cancels \in Nat
    BY PoolShape, OpenHavePermits DEF PInv, Types, WithPermit, Counts
  <2> QED BY <2>1 DEF PInv, PermitsAreBounded, Counts, PermitsAreConserved
<1> QED BY PoolInvariance, CountsHold, <1>1, PTL

\* _in_use is right but for one per cancellation, although it stops at zero.
THEOREM InUseIsCounted == Spec => []InUseIsExact
<1>1. Counts => InUseIsExact
  BY DEF Counts, InUseIsExact, CountedPlaces
<1> QED BY CountsHold, <1>1, PTL

\* The semaphore and _in_use, the two counters of the pool, can both be relied on.
THEOREM CountersCanBeReliedOn == Spec => []CountsAreExact
BY PermitsConserved, InUseIsCounted, PTL DEF CountsAreExact

-----------------------------------------------------------------------------
(* Who has which connection, and which answers are unread on it.           *)

SocketRecords ==
    [state : {"none", "open", "dead"}, uses : Nat, aged : BOOLEAN, owed : Seq(Callers)]
HasConn == {"using", "return", "discard"}
InList(q, s) == \E i \in DOMAIN q : q[i] = s
Distinct(q) == \A i, j \in DOMAIN q : q[i] = q[j] => i = j
Owned(s) == IsIdle(s) \/ \E c \in Callers : conn[c] = s
Orphans == {s \in Sockets : sock[s].state # "none" /\ ~Owned(s)}

\* Nobody gives a connection back with its answer unread.
Careful == \A c \in Callers : Kind[c] # "request"

Ownership ==
    /\ pc \in [Callers -> Places]
    /\ conn \in [Callers -> Sockets \union {Nothing}]
    /\ idle \in Seq(Sockets) /\ Distinct(idle)
    /\ sock \in [Sockets -> SocketRecords]
    /\ \A c \in Callers : conn[c] # Nothing <=> pc[c] \in HasConn
    /\ \A c, d \in Callers : conn[c] = conn[d] /\ conn[c] # Nothing => c = d
    /\ \A c \in Callers : ~IsIdle(conn[c])
    /\ \A s \in Sockets : Owned(s) => sock[s].state # "none"

Lost ==
    /\ cancels \in Nat
    /\ IsFiniteSet(Orphans) /\ Cardinality(Orphans) <= cancels

Answers ==
    /\ \A c \in Callers : pc[c] = "using" => sock[conn[c]].owed # <<>>
    /\ Careful =>
          /\ \A s \in Sockets : IsIdle(s) => sock[s].owed = <<>>
          /\ \A c \in Callers :
                /\ pc[c] = "using" => sock[conn[c]].owed = <<c>>
                /\ pc[c] = "return" => sock[conn[c]].owed = <<>>

Own == Ownership /\ Lost /\ Answers

\* Nobody is no connection.
LEMMA SocketFacts ==
    ASSUME Ownership
    PROVE  /\ \A s : IsIdle(s) => s \in Sockets
           /\ ~IsIdle(Nothing)
           /\ \A c \in Callers : pc[c] \in HasConn => conn[c] \in Sockets
           /\ Nothing \notin Sockets
<1>1. Nothing \notin Sockets
  BY PoolShape DEF PoolShape
<1>2. \A s : IsIdle(s) => s \in Sockets
  BY DEF Ownership, IsIdle
<1> QED BY <1>1, <1>2 DEF Ownership

\* The idle list without its head, and with one more in front.
LEMMA IdleTail ==
    ASSUME Ownership, idle # <<>>, idle' = Tail(idle)
    PROVE  /\ idle' \in Seq(Sockets) /\ Distinct(idle')
           /\ IsIdle(Head(idle)) /\ Head(idle) \in Sockets
           /\ \A s : InList(idle', s) <=> IsIdle(s) /\ s # Head(idle)
<1>1. /\ idle \in Seq(Sockets) /\ idle' \in Seq(Sockets) /\ Len(idle) \in Nat
      /\ DOMAIN idle = 1 .. Len(idle) /\ DOMAIN idle' = 1 .. Len(idle) - 1
      /\ Head(idle) = idle[1] /\ 1 \in DOMAIN idle
      /\ \A i \in 1 .. Len(idle) - 1 : idle'[i] = idle[i + 1]
  BY DEF Ownership
<1>2. \A i \in DOMAIN idle' : i + 1 \in DOMAIN idle /\ i + 1 # 1 /\ idle'[i] = idle[i + 1]
  BY <1>1
<1>3. \A i \in DOMAIN idle : i # 1 => i - 1 \in DOMAIN idle' /\ idle'[i - 1] = idle[i]
  BY <1>1
<1>4. Distinct(idle')
  BY <1>1, <1>2 DEF Ownership, Distinct
<1>5. \A s : InList(idle', s) => IsIdle(s) /\ s # Head(idle)
  BY <1>1, <1>2 DEF IsIdle, InList, Ownership, Distinct
<1>6. \A s : IsIdle(s) /\ s # Head(idle) => InList(idle', s)
  BY <1>1, <1>3 DEF IsIdle, InList
<1>7. IsIdle(Head(idle)) /\ Head(idle) \in Sockets
  BY <1>1 DEF IsIdle, InList
<1> QED BY <1>1, <1>4, <1>5, <1>6, <1>7

\* The list with one more connection in front.
LEMMA IdlePush ==
    ASSUME Ownership, NEW t \in Sockets, ~IsIdle(t), idle' = <<t>> \o idle
    PROVE  /\ idle' \in Seq(Sockets) /\ Distinct(idle')
           /\ \A s : InList(idle', s) <=> IsIdle(s) \/ s = t
<1>1. /\ idle \in Seq(Sockets) /\ idle' \in Seq(Sockets) /\ Len(idle) \in Nat
      /\ DOMAIN idle = 1 .. Len(idle) /\ DOMAIN idle' = 1 .. Len(idle) + 1
      /\ idle'[1] = t
      /\ \A i \in 1 .. Len(idle) : idle'[i + 1] = idle[i]
  BY DEF Ownership
<1>2. \A i \in DOMAIN idle' : i # 1 => i - 1 \in DOMAIN idle /\ idle'[i] = idle[i - 1]
  <2> SUFFICES ASSUME NEW i \in DOMAIN idle', i # 1
               PROVE  i - 1 \in DOMAIN idle /\ idle'[i] = idle[i - 1]
    OBVIOUS
  <2>1. i - 1 \in 1 .. Len(idle) /\ (i - 1) + 1 = i
    BY <1>1
  <2> QED BY <1>1, <2>1
<1>3. \A i \in DOMAIN idle : i + 1 \in DOMAIN idle' /\ idle'[i + 1] = idle[i]
  BY <1>1
<1>4. \A i \in DOMAIN idle : idle[i] # t
  BY DEF IsIdle, InList
<1>5. Distinct(idle')
  <2> SUFFICES ASSUME NEW i \in DOMAIN idle', NEW j \in DOMAIN idle', idle'[i] = idle'[j]
               PROVE  i = j
    BY DEF Distinct
  <2>1. CASE i = 1 \/ j = 1
    BY <1>1, <1>2, <1>4, <2>1
  <2>2. CASE i # 1 /\ j # 1
    <3>1. i - 1 = j - 1
      BY <1>2, <2>2 DEF Ownership, Distinct
    <3> QED BY <1>1, <3>1
  <2> QED BY <2>1, <2>2
<1>6. \A s : InList(idle', s) => IsIdle(s) \/ s = t
  BY <1>1, <1>2 DEF IsIdle, InList
<1>7. \A s : IsIdle(s) \/ s = t => InList(idle', s)
  <2>1. 1 \in DOMAIN idle'
    BY <1>1
  <2> QED BY <1>1, <1>3, <2>1 DEF IsIdle, InList
<1> QED BY <1>1, <1>5, <1>6, <1>7

\* A caller goes to x and from the connection it had to y.  lost is 1 when it
\* was cancelled and may have left its connection to nobody.
Handover(c, x, y, lost) ==
    /\ pc' = [pc EXCEPT ![c] = x] /\ conn' = [conn EXCEPT ![c] = y]
    /\ y # Nothing <=> x \in HasConn
    /\ idle' \in Seq(Sockets) /\ Distinct(idle')
    /\ sock' \in [Sockets -> SocketRecords]
    /\ cancels' = cancels + lost
    /\ y # Nothing => y = conn[c] \/ IsIdle(y) \/ sock[y].state = "none"
    /\ \A s \in Sockets :
          /\ InList(idle', s) => s # y /\ (IsIdle(s) \/ s = conn[c])
          /\ InList(idle', s) \/ s = y => sock'[s].state # "none"
          /\ s # conn[c] /\ s # y /\ (IsIdle(s) => InList(idle', s)) => sock'[s] = sock[s]
          /\ (s = conn[c] /\ lost = 0) \/ IsIdle(s) =>
                s = y \/ InList(idle', s) \/ sock'[s].state = "none"
    /\ x = "using" => sock'[y].owed # <<>>
    /\ Careful => /\ x = "using" => sock'[y].owed = <<c>>
                  /\ x = "return" => sock'[y].owed = <<>>
                  /\ InList(idle', conn[c]) => sock'[conn[c]].owed = <<>>

\* A handover keeps the ownership, the count of lost connections and the answers.
LEMMA Transfer ==
    ASSUME Own, NEW c \in Callers, NEW x \in Places, NEW y \in Sockets \union {Nothing},
           NEW lost \in {0, 1}, Handover(c, x, y, lost)
    PROVE  Own'
<1> USE DEF Handover
<1>0. /\ pc \in [Callers -> Places] /\ conn \in [Callers -> Sockets \union {Nothing}]
      /\ cancels \in Nat
  BY DEF Own, Ownership, Lost
<1>1. /\ \A d \in Callers : pc'[d] = IF d = c THEN x ELSE pc[d]
      /\ \A d \in Callers : conn'[d] = IF d = c THEN y ELSE conn[d]
  BY <1>0
<1>2. /\ Nothing \notin Sockets /\ ~IsIdle(Nothing) /\ ~InList(idle', Nothing)
      /\ \A s : InList(idle', s) => s \in Sockets
      /\ \A s : IsIdle(s) => s \in Sockets
  <2>1. Nothing \notin Sockets
    BY PoolShape DEF PoolShape
  <2>2. \A s : InList(idle', s) => s \in Sockets
    BY DEF IsIdle, InList
  <2>3. \A s : IsIdle(s) => s \in Sockets
    BY SocketFacts DEF Own
  <2> QED BY <2>1, <2>2, <2>3
\* What the others have is neither what c had nor what it gets.
<1>3. ASSUME NEW d \in Callers, d # c, conn[d] # Nothing
      PROVE  /\ conn[d] \in Sockets /\ conn[d] # conn[c] /\ conn[d] # y
             /\ ~IsIdle(conn[d]) /\ ~InList(idle', conn[d]) /\ sock'[conn[d]] = sock[conn[d]]
             /\ sock[conn[d]].state # "none"
  <2>1. conn[d] \in Sockets /\ conn[d] # conn[c] /\ ~IsIdle(conn[d])
    BY <1>0, <1>3 DEF Own, Ownership
  <2>2. sock[conn[d]].state # "none"
    BY <2>1 DEF Own, Ownership, Owned
  <2>3. conn[d] # y
    BY <1>3, <2>1, <2>2
  <2> QED BY <2>1, <2>2, <2>3
<1>4. Ownership'
  <2>1. pc' \in [Callers -> Places] /\ conn' \in [Callers -> Sockets \union {Nothing}]
    BY <1>0
  <2>2. \A d \in Callers : conn'[d] # Nothing <=> pc'[d] \in HasConn
    BY <1>1 DEF Own, Ownership
  <2>3. \A d, e \in Callers : conn'[d] = conn'[e] /\ conn'[d] # Nothing => d = e
    BY <1>1, <1>3 DEF Own, Ownership
  <2>4. \A d \in Callers : ~InList(idle', conn'[d])
    <3>1. ~InList(idle', y)
      BY <1>2
    <3> QED BY <1>1, <1>2, <1>3, <3>1
  <2>5. ASSUME NEW s \in Sockets, Owned(s)' PROVE sock'[s].state # "none"
    <3>1. CASE InList(idle', s)
      BY <3>1
    <3>2. CASE \E d \in Callers : conn'[d] = s
      BY <1>1, <1>2, <1>3, <3>2
    <3> QED BY <2>5, <3>1, <3>2 DEF Owned, IsIdle, InList
  <2>6. \A d \in Callers : ~IsIdle(conn[d])'
    BY <2>4 DEF IsIdle, InList
  <2> QED BY <2>1, <2>2, <2>3, <2>5, <2>6 DEF Ownership
<1>5. Orphans' \subseteq Orphans \union (IF lost = 1 THEN {conn[c]} ELSE {})
  <2> SUFFICES ASSUME NEW s \in Sockets, sock'[s].state # "none", ~Owned(s)',
                      ~(lost = 1 /\ s = conn[c])
               PROVE  sock[s].state # "none" /\ ~Owned(s)
    BY DEF Orphans
  <2>1. s # y /\ ~InList(idle', s)
    BY <1>1 DEF Owned, IsIdle, InList
  <2>2. s # conn[c] /\ ~IsIdle(s)
    BY <2>1
  <2>3. sock'[s] = sock[s]
    BY <2>1, <2>2
  <2>4. \A d \in Callers : conn[d] # s
    BY <1>1, <2>2 DEF Owned
  <2> QED BY <2>2, <2>3, <2>4 DEF Owned
<1>6. Lost'
  <2>1. IsFiniteSet(Orphans) /\ Cardinality(Orphans) \in Nat /\ Cardinality(Orphans) <= cancels
    BY FS_CardinalityType DEF Own, Lost
  <2>2. CASE lost = 0
    <3>1. Orphans' \subseteq Orphans
      BY <1>5, <2>2
    <3>2. IsFiniteSet(Orphans') /\ Cardinality(Orphans') <= Cardinality(Orphans)
          /\ Cardinality(Orphans') \in Nat
      BY <2>1, <3>1, FS_Subset, FS_CardinalityType
    <3> QED BY <1>0, <2>1, <2>2, <3>2 DEF Lost
  <2>3. CASE lost = 1
    <3>1. Orphans' \subseteq Orphans \union {conn[c]}
      BY <1>5, <2>3
    <3>2. IsFiniteSet(Orphans \union {conn[c]})
          /\ Cardinality(Orphans \union {conn[c]}) <= Cardinality(Orphans) + 1
          /\ Cardinality(Orphans \union {conn[c]}) \in Nat
      <4>1. /\ IsFiniteSet(Orphans \union {conn[c]})
            /\ Cardinality(Orphans \union {conn[c]})
                 = IF conn[c] \in Orphans THEN Cardinality(Orphans) ELSE Cardinality(Orphans) + 1
        BY <2>1, FS_AddElement
      <4> QED BY <2>1, <4>1
    <3>3. IsFiniteSet(Orphans')
          /\ Cardinality(Orphans') <= Cardinality(Orphans \union {conn[c]})
          /\ Cardinality(Orphans') \in Nat
      BY <3>1, <3>2, FS_Subset, FS_CardinalityType
    <3> QED BY <1>0, <2>1, <2>3, <3>2, <3>3 DEF Lost
  <2> QED BY <2>2, <2>3
<1>7. Answers'
  <2>1. \A d \in Callers : d # c /\ pc[d] \in HasConn => sock'[conn[d]] = sock[conn[d]]
    BY <1>3 DEF Own, Ownership
  <2>2. \A d \in Callers : pc'[d] = "using" => sock'[conn'[d]].owed # <<>>
    BY <1>1, <2>1 DEF Own, Answers, HasConn
  <2>3. ASSUME Careful
        PROVE  /\ \A s \in Sockets : InList(idle', s) => sock'[s].owed = <<>>
               /\ \A d \in Callers :
                    /\ pc'[d] = "using" => sock'[conn'[d]].owed = <<d>>
                    /\ pc'[d] = "return" => sock'[conn'[d]].owed = <<>>
    <3>1. ASSUME NEW s \in Sockets, InList(idle', s) PROVE sock'[s].owed = <<>>
      <4>1. CASE s = conn[c]
        BY <2>3, <3>1, <4>1
      <4>2. CASE s # conn[c]
        BY <2>3, <3>1, <4>2 DEF Own, Answers
      <4> QED BY <4>1, <4>2
    <3>2. \A d \in Callers : /\ pc'[d] = "using" => sock'[conn'[d]].owed = <<d>>
                             /\ pc'[d] = "return" => sock'[conn'[d]].owed = <<>>
      <4> SUFFICES ASSUME NEW d \in Callers
                   PROVE  /\ pc'[d] = "using" => sock'[conn'[d]].owed = <<d>>
                          /\ pc'[d] = "return" => sock'[conn'[d]].owed = <<>>
        OBVIOUS
      <4>1. CASE d = c
        BY <1>1, <2>3, <4>1
      <4>2. CASE d # c
        <5>1. /\ pc[d] = "using" => sock[conn[d]].owed = <<d>>
              /\ pc[d] = "return" => sock[conn[d]].owed = <<>>
          BY <2>3 DEF Own, Answers
        <5>2. pc'[d] = pc[d] /\ conn'[d] = conn[d]
          BY <1>1, <4>2
        <5>3. pc[d] \in HasConn => sock'[conn[d]] = sock[conn[d]]
          BY <2>1, <4>2
        <5> QED BY <5>1, <5>2, <5>3 DEF HasConn
      <4> QED BY <4>1, <4>2
    <3> QED BY <3>1, <3>2
  <2> QED BY <2>2, <2>3 DEF Answers, Careful, IsIdle, InList
<1> QED BY <1>4, <1>6, <1>7 DEF Own

\* A caller that has no connection goes where it needs none.
LEMMA PlainMove ==
    ASSUME Own, NEW c \in Callers, NEW x \in Places \ HasConn, pc[c] \notin HasConn,
           Goto(c, x), UNCHANGED <<conn, idle, sock>>,
           NEW lost \in {0, 1}, cancels' = cancels + lost
    PROVE  Own'
<1> DEFINE y == Nothing
<1>1. /\ conn[c] = Nothing /\ conn \in [Callers -> Sockets \union {Nothing}]
      /\ idle \in Seq(Sockets) /\ Distinct(idle) /\ sock \in [Sockets -> SocketRecords]
      /\ Nothing \notin Sockets
  BY SocketFacts DEF Own, Ownership
<1>2. conn' = [conn EXCEPT ![c] = y] /\ pc' = [pc EXCEPT ![c] = x]
  BY <1>1 DEF Goto
<1>3. \A s \in Sockets : InList(idle', s) <=> IsIdle(s)
  BY DEF IsIdle, InList
<1>4. \A s \in Sockets : IsIdle(s) => sock[s].state # "none"
  BY DEF Own, Ownership, Owned
<1>5. x # "using" /\ x # "return" /\ y \in Sockets \union {Nothing}
      /\ (y # Nothing <=> x \in HasConn) /\ x \in Places
  BY DEF HasConn
<1>6. idle' \in Seq(Sockets) /\ Distinct(idle') /\ sock' \in [Sockets -> SocketRecords]
  BY <1>1
<1>7. ~InList(idle', conn[c])
  BY <1>1, SocketFacts DEF Own, IsIdle, InList
<1>8. \A s \in Sockets : s # y /\ s # conn[c]
  BY <1>1
<1> HIDE DEF y
<1>9. Handover(c, x, y, lost)
  BY <1>2, <1>3, <1>4, <1>5, <1>6, <1>7, <1>8 DEF Handover
<1> QED BY <1>5, <1>9, Transfer

\* A connection that is not there.
LEMMA NoSocketRecord == NoSocket \in SocketRecords
BY DEF NoSocket, SocketRecords

\* A connection on which one more answer is due.
LEMMA UsedRecord ==
    ASSUME NEW c \in Callers, NEW r \in SocketRecords
    PROVE  /\ UsedBy(c, r) \in SocketRecords /\ UsedBy(c, r).state = r.state
           /\ UsedBy(c, r).owed # <<>>
           /\ r.owed = <<>> => UsedBy(c, r).owed = <<c>>
<1>1. MaxUses \in Nat /\ r.uses \in Nat /\ r.owed \in Seq(Callers)
  BY PoolShape DEF SocketRecords
<1>2. Append(r.owed, c) \in Seq(Callers) /\ Append(r.owed, c) # <<>>
      /\ (r.owed = <<>> => Append(r.owed, c) = <<c>>)
  <2>1. \A q \in Seq(Callers) :
            /\ Append(q, c) \in Seq(Callers) /\ Append(q, c) # <<>>
            /\ q = <<>> => Append(q, c) = <<c>>
    <3>1. ASSUME NEW q \in Seq(Callers)
          PROVE  Append(q, c) \in Seq(Callers) /\ Append(q, c) # <<>>
      <4>1. Append(q, c) \in Seq(Callers) /\ Len(Append(q, c)) = Len(q) + 1 /\ Len(q) \in Nat
        OBVIOUS
      <4>2. Len(<<>>) = 0
        OBVIOUS
      <4> QED BY <4>1, <4>2
    <3>2. Append(<<>>, c) = <<c>>
      OBVIOUS
    <3> QED BY <3>1, <3>2
  <2> QED BY <1>1, <2>1
<1>3. UsedBy(c, r).owed = Append(r.owed, c) /\ UsedBy(c, r).state = r.state
  BY DEF UsedBy, SocketRecords
<1>4. UsedBy(c, r) \in SocketRecords
  <2>1. (IF MaxUses = 0 THEN 0 ELSE r.uses + 1) \in Nat
    BY <1>1
  <2> QED BY <1>1, <1>2, <2>1 DEF UsedBy, SocketRecords
<1> QED BY <1>2, <1>3, <1>4

\* acquire hands over the head of the idle list, or nothing.
LEMMA CheckOutOwn ==
    ASSUME Own, NEW c \in Callers, CheckOut(c), pc[c] \notin HasConn, pc[c] \in Places,
           cancels' = cancels
    PROVE  Own'
<1>0. /\ conn[c] = Nothing /\ conn \in [Callers -> Sockets \union {Nothing}]
      /\ idle \in Seq(Sockets) /\ sock \in [Sockets -> SocketRecords]
      /\ Nothing \notin Sockets /\ cancels \in Nat
  BY SocketFacts DEF Own, Ownership, Lost
<1> DEFINE none == 0
<1>1. none \in {0, 1} /\ cancels' = cancels + none /\ none = 0
  BY <1>0
<1> HIDE DEF none
<1>2. CASE Goto(c, "connecting") /\ UNCHANGED <<conn, idle, sock>>
  <2>1. "connecting" \in Places \ HasConn
    BY DEF Places, HasConn
  <2> QED BY <1>1, <1>2, <2>1, PlainMove
<1>3. CASE /\ idle # <<>> /\ idle' = Tail(idle) /\ Goto(c, "reaping")
           /\ sock' = [sock EXCEPT ![Head(idle)] = NoSocket] /\ UNCHANGED conn
  <2> DEFINE y == Nothing
             x == "reaping"
  <2>1. /\ idle' \in Seq(Sockets) /\ Distinct(idle') /\ IsIdle(Head(idle))
        /\ Head(idle) \in Sockets
        /\ \A s : InList(idle', s) <=> IsIdle(s) /\ s # Head(idle)
    BY <1>3, IdleTail DEF Own
  <2>2. /\ sock' \in [Sockets -> SocketRecords]
        /\ \A s \in Sockets : sock'[s] = IF s = Head(idle) THEN NoSocket ELSE sock[s]
    BY <1>0, <1>3, NoSocketRecord
  <2>3. \A s \in Sockets : InList(idle', s) => sock'[s].state # "none"
    BY <2>1, <2>2 DEF Own, Ownership, Owned
  <2>4. sock'[Head(idle)].state = "none"
    BY <2>1, <2>2 DEF NoSocket
  <2>5. conn' = [conn EXCEPT ![c] = y] /\ pc' = [pc EXCEPT ![c] = x]
    BY <1>0, <1>3 DEF Goto
  <2>6. x \in Places /\ x # "using" /\ x # "return" /\ y \in Sockets \union {Nothing}
        /\ (y # Nothing <=> x \in HasConn) /\ y = Nothing
    BY DEF Places, HasConn
  <2>7. ~InList(idle', conn[c]) /\ \A s \in Sockets : s # y /\ s # conn[c]
    BY <1>0, <2>1, <2>6, SocketFacts DEF Own
  <2> HIDE DEF x, y
  <2>10. Handover(c, x, y, none)
    BY <1>1, <2>1, <2>2, <2>3, <2>4, <2>5, <2>6, <2>7 DEF Handover
  <2> QED BY <1>1, <2>6, <2>10, Transfer
<1>4. CASE /\ idle # <<>> /\ idle' = Tail(idle) /\ Goto(c, "using")
           /\ ~Expired(Head(idle), Tail(idle))
           /\ sock' = [sock EXCEPT ![Head(idle)] = UsedBy(c, @)]
           /\ conn' = [conn EXCEPT ![c] = Head(idle)]
  <2> DEFINE y == Head(idle)
             x == "using"
  <2>1. /\ idle' \in Seq(Sockets) /\ Distinct(idle') /\ IsIdle(y)
        /\ y \in Sockets
        /\ \A s : InList(idle', s) <=> IsIdle(s) /\ s # y
    BY <1>4, IdleTail DEF Own
  <2>2. /\ sock[y] \in SocketRecords /\ sock[y].state # "none"
        /\ Careful => sock[y].owed = <<>>
    BY <1>0, <2>1 DEF Own, Ownership, Owned, Answers
  <2>3. /\ sock' \in [Sockets -> SocketRecords]
        /\ \A s \in Sockets : sock'[s] = IF s = y THEN UsedBy(c, sock[y]) ELSE sock[s]
    BY <1>0, <1>4, <2>1, <2>2, UsedRecord
  <2>4. /\ sock'[y].state # "none" /\ sock'[y].owed # <<>>
        /\ Careful => sock'[y].owed = <<c>>
    BY <2>1, <2>2, <2>3, UsedRecord
  <2>5. \A s \in Sockets : InList(idle', s) \/ s = y => sock'[s].state # "none"
    BY <2>1, <2>3, <2>4 DEF Own, Ownership, Owned
  <2>6. conn' = [conn EXCEPT ![c] = y] /\ pc' = [pc EXCEPT ![c] = x]
    BY <1>4 DEF Goto
  <2>7. x \in Places /\ x = "using" /\ y # Nothing /\ x \in HasConn
    BY <1>0, <2>1 DEF Places, HasConn
  <2>8. ~InList(idle', conn[c]) /\ \A s \in Sockets : s # conn[c]
    BY <1>0, <2>1, SocketFacts DEF Own
  <2> HIDE DEF x, y
  <2>10. Handover(c, x, y, none)
    BY <1>1, <2>1, <2>3, <2>4, <2>5, <2>6, <2>7, <2>8 DEF Handover
  <2> QED BY <1>1, <2>1, <2>7, <2>10, Transfer
<1> QED BY <1>2, <1>3, <1>4 DEF CheckOut

\* release puts the connection back or closes it.
LEMMA CheckInOwn ==
    ASSUME Own, NEW c \in Callers, pc[c] \in HasConn, NEW after \in SocketRecords,
           NEW reuse \in BOOLEAN, CheckIn(c, after, reuse),
           after.state = sock[conn[c]].state,
           Careful /\ reuse => after.owed = <<>>,
           NEW lost \in {0, 1}, cancels' = cancels + lost
    PROVE  Own'
<1> DEFINE k == conn[c]
           y == Nothing
<1>0. /\ k \in Sockets /\ ~IsIdle(k) /\ conn \in [Callers -> Sockets \union {Nothing}]
      /\ idle \in Seq(Sockets) /\ Distinct(idle) /\ sock \in [Sockets -> SocketRecords]
      /\ Nothing \notin Sockets
  BY SocketFacts DEF Own, Ownership
<1>1. conn' = [conn EXCEPT ![c] = y] /\ y = Nothing /\ \A s \in Sockets : s # y
  BY <1>0 DEF CheckIn
<1>2. sock[k].state # "none"
  BY <1>0 DEF Own, Ownership, Owned
<1>3. CASE Keeps(c, reuse)
  <2> DEFINE x == "out"
             r == [after EXCEPT !.aged = FALSE]
  <2>1. /\ idle' = <<k>> \o idle /\ pc' = [pc EXCEPT ![c] = x]
        /\ sock' = [sock EXCEPT ![k] = r] /\ reuse
    BY <1>3 DEF CheckIn, Goto, Keeps
  <2>2. /\ idle' \in Seq(Sockets) /\ Distinct(idle')
        /\ \A s : InList(idle', s) <=> IsIdle(s) \/ s = k
    BY <1>0, <2>1, IdlePush DEF Own
  <2>3. r \in SocketRecords /\ r.state # "none" /\ r.owed = after.owed
    BY <1>2 DEF SocketRecords
  <2> HIDE DEF r
  <2>4. /\ sock' \in [Sockets -> SocketRecords]
        /\ \A s \in Sockets : sock'[s] = IF s = k THEN r ELSE sock[s]
    BY <1>0, <2>1, <2>3
  <2>5. \A s \in Sockets : InList(idle', s) => sock'[s].state # "none"
    BY <2>2, <2>3, <2>4 DEF Own, Ownership, Owned
  <2>6. Careful => sock'[k].owed = <<>>
    BY <1>0, <2>1, <2>3, <2>4
  <2>7. x \in Places /\ x # "using" /\ x # "return" /\ x \notin HasConn
        /\ y \in Sockets \union {Nothing}
    BY DEF Places, HasConn
  <2> HIDE DEF x, y
  <2>10. Handover(c, x, y, lost)
    BY <1>1, <2>1, <2>2, <2>4, <2>5, <2>6, <2>7 DEF Handover
  <2> QED BY <2>7, <2>10, Transfer
<1>4. CASE ~Keeps(c, reuse)
  <2> DEFINE x == "closing"
  <2>1. /\ idle' = idle /\ pc' = [pc EXCEPT ![c] = x]
        /\ sock' = [sock EXCEPT ![k] = NoSocket]
    BY <1>4 DEF CheckIn, Goto
  <2>2. /\ idle' \in Seq(Sockets) /\ Distinct(idle')
        /\ \A s : InList(idle', s) <=> IsIdle(s)
    BY <1>0, <2>1 DEF IsIdle, InList
  <2>3. /\ sock' \in [Sockets -> SocketRecords]
        /\ \A s \in Sockets : sock'[s] = IF s = k THEN NoSocket ELSE sock[s]
    BY <1>0, <2>1, NoSocketRecord
  <2>4. \A s \in Sockets : InList(idle', s) => sock'[s].state # "none"
    BY <1>0, <2>2, <2>3 DEF Own, Ownership, Owned
  <2>5. sock'[k].state = "none" /\ ~InList(idle', k)
    BY <1>0, <2>2, <2>3 DEF NoSocket
  <2>6. x \in Places /\ x # "using" /\ x # "return" /\ x \notin HasConn
        /\ y \in Sockets \union {Nothing}
    BY DEF Places, HasConn
  <2> HIDE DEF x, y
  <2>10. Handover(c, x, y, lost)
    BY <1>1, <2>1, <2>2, <2>3, <2>4, <2>5, <2>6 DEF Handover
  <2> QED BY <2>6, <2>10, Transfer
<1> QED BY <1>3, <1>4

\* A caller that waits for the lock in release keeps its connection.
LEMMA GiveBackOwn ==
    ASSUME Own, NEW c \in Callers, pc[c] = "using", NEW after \in SocketRecords,
           NEW reuse \in BOOLEAN, GiveBack(c, after, reuse),
           after.state = sock[conn[c]].state,
           Careful /\ reuse => after.owed = <<>>,
           NEW lost \in {0, 1}, cancels' = cancels + lost
    PROVE  Own'
<1>1. CASE LockIsFree(c)
  BY <1>1, CheckInOwn DEF GiveBack, HasConn
<1>2. CASE ~LockIsFree(c)
  <2> DEFINE x == IF reuse THEN "return" ELSE "discard"
             y == conn[c]
  <2>1. /\ y \in Sockets /\ ~IsIdle(y) /\ y # Nothing
        /\ conn \in [Callers -> Sockets \union {Nothing}]
        /\ idle \in Seq(Sockets) /\ Distinct(idle) /\ sock \in [Sockets -> SocketRecords]
    BY SocketFacts DEF Own, Ownership, HasConn
  <2>2. sock[y].state # "none"
    BY <2>1 DEF Own, Ownership, Owned
  <2>3. /\ pc' = [pc EXCEPT ![c] = x] /\ conn' = [conn EXCEPT ![c] = y]
        /\ idle' = idle /\ sock' = [sock EXCEPT ![y] = after]
    BY <1>2, <2>1 DEF GiveBack, Goto
  <2>4. /\ sock' \in [Sockets -> SocketRecords]
        /\ \A s \in Sockets : sock'[s] = IF s = y THEN after ELSE sock[s]
    BY <2>1, <2>3
  <2>5. \A s : InList(idle', s) <=> IsIdle(s)
    BY <2>3 DEF IsIdle, InList
  <2>6. \A s \in Sockets : InList(idle', s) \/ s = y => sock'[s].state # "none"
    BY <2>1, <2>2, <2>4, <2>5 DEF Own, Ownership, Owned
  <2>7. x \in Places /\ x # "using" /\ x \in HasConn /\ (x = "return" => reuse)
    BY DEF Places, HasConn
  <2>8. Careful => (x = "return" => sock'[y].owed = <<>>)
    BY <2>1, <2>4, <2>7
  <2>9. y = conn[c] /\ idle' \in Seq(Sockets) /\ Distinct(idle') /\ ~InList(idle', y)
        /\ \A s \in Sockets : InList(idle', s) => s # y
    BY <2>1, <2>3, <2>5
  <2> HIDE DEF x, y
  <2>10. Handover(c, x, y, lost)
    BY <2>1, <2>3, <2>4, <2>5, <2>6, <2>7, <2>8, <2>9 DEF Handover
  <2> QED BY <2>1, <2>7, <2>10, Transfer
<1> QED BY <1>1, <1>2

\* A new connection is one that nobody has.
LEMMA ConnectedOwn ==
    ASSUME Own, NEW c \in Callers, Connected(c)
    PROVE  Own'
<1> DEFINE fresh == [NoSocket EXCEPT !.state = "open"]
           x == "using"
           none == 0
<1>1. PICK y \in Sockets : /\ sock[y].state = "none" /\ Goto(c, "using")
                          /\ sock' = [sock EXCEPT ![y] = UsedBy(c, fresh)]
                          /\ conn' = [conn EXCEPT ![c] = y]
                          /\ UNCHANGED <<idle, cancels>>
  BY DEF Connected, Unused
<1>2. /\ conn[c] = Nothing /\ y # Nothing /\ \A s \in Sockets : s # conn[c]
      /\ idle \in Seq(Sockets) /\ Distinct(idle) /\ sock \in [Sockets -> SocketRecords]
      /\ cancels \in Nat
  BY SocketFacts DEF Own, Ownership, Lost, Connected, HasConn
<1>3. fresh \in SocketRecords /\ fresh.state = "open" /\ fresh.owed = <<>>
  <2>1. NoSocket \in SocketRecords /\ NoSocket.owed = <<>>
    BY NoSocketRecord DEF NoSocket
  <2> QED BY <2>1 DEF SocketRecords
<1> HIDE DEF fresh
<1>4. /\ sock' \in [Sockets -> SocketRecords]
      /\ \A s \in Sockets : sock'[s] = IF s = y THEN UsedBy(c, fresh) ELSE sock[s]
  BY <1>1, <1>2, <1>3, UsedRecord
<1>5. /\ sock'[y].state # "none" /\ sock'[y].owed # <<>> /\ sock'[y].owed = <<c>>
  BY <1>3, <1>4, UsedRecord
<1>6. \A s : InList(idle', s) <=> IsIdle(s)
  BY <1>1 DEF IsIdle, InList
<1>7. \A s \in Sockets : IsIdle(s) => s # y /\ sock[s].state # "none"
  BY <1>1 DEF Own, Ownership, Owned
<1>8. \A s \in Sockets : InList(idle', s) \/ s = y => sock'[s].state # "none"
  BY <1>4, <1>5, <1>6, <1>7
<1>9. ~InList(idle', conn[c])
  BY <1>2, <1>6, SocketFacts DEF Own
<1>10. pc' = [pc EXCEPT ![c] = x] /\ x \in Places /\ x = "using" /\ x \in HasConn
       /\ none \in {0, 1} /\ cancels' = cancels + none
  BY <1>1, <1>2 DEF Goto, Places, HasConn
<1>11. idle' \in Seq(Sockets) /\ Distinct(idle')
  BY <1>1, <1>2
<1> HIDE DEF x, none
<1>12. Handover(c, x, y, none)
  BY <1>1, <1>2, <1>4, <1>5, <1>6, <1>7, <1>8, <1>9, <1>10, <1>11 DEF Handover
<1> QED BY <1>10, <1>12, Transfer

\* A cancelled release forgets the connection: nobody has it, and it is open.
LEMMA ForgottenOwn ==
    ASSUME Own, NEW c \in Callers, CancelBeforeRelease(c), cancels' = cancels + 1
    PROVE  Own'
<1> DEFINE x == "out"
           y == Nothing
           lost == 1
<1>1. /\ Goto(c, "out") /\ conn' = [conn EXCEPT ![c] = Nothing]
      /\ UNCHANGED <<idle, sock>> /\ pc[c] \in HasConn
  BY DEF CancelBeforeRelease, HasConn
<1>2. /\ ~IsIdle(conn[c]) /\ \A s \in Sockets : s # Nothing
      /\ idle \in Seq(Sockets) /\ Distinct(idle) /\ sock \in [Sockets -> SocketRecords]
  BY SocketFacts DEF Own, Ownership
<1>3. \A s : InList(idle', s) <=> IsIdle(s)
  BY <1>1 DEF IsIdle, InList
<1>4. \A s \in Sockets : IsIdle(s) => sock[s].state # "none"
  BY DEF Own, Ownership, Owned
<1>5. /\ pc' = [pc EXCEPT ![c] = x] /\ conn' = [conn EXCEPT ![c] = y]
      /\ x \in Places /\ x # "using" /\ x # "return" /\ x \notin HasConn
      /\ y = Nothing /\ lost = 1 /\ cancels' = cancels + lost
  BY <1>1 DEF Goto, Places, HasConn
<1> HIDE DEF x, y, lost
<1>6. Handover(c, x, y, lost)
  BY <1>1, <1>2, <1>3, <1>4, <1>5 DEF Handover
<1> QED BY <1>5, <1>6, Transfer

\* acquire's handler has no connection.
LEMMA HandlerOwn ==
    ASSUME Own, NEW c \in Callers, Handler(c), pc[c] \notin HasConn,
           NEW lost \in {0, 1}, cancels' = cancels + lost
    PROVE  Own'
<1>1. "out" \in Places \ HasConn /\ "undo" \in Places \ HasConn
  BY DEF Places, HasConn
<1>2. (Goto(c, "out") \/ Goto(c, "undo")) /\ UNCHANGED <<conn, idle, sock>>
  BY DEF Handler, Undo
<1> QED BY <1>1, <1>2, PlainMove

\* Sockets whose place does not change.
LEMMA RestOwn ==
    ASSUME Own, UNCHANGED <<pc, conn, cancels>>,
           idle' \in Seq(Sockets), Distinct(idle'),
           sock' \in [Sockets -> SocketRecords],
           \A s \in Sockets : InList(idle', s) => IsIdle(s),
           \A s \in Sockets :
               IF IsIdle(s) /\ ~InList(idle', s) THEN sock'[s].state = "none"
               ELSE /\ sock'[s].owed = sock[s].owed
                    /\ sock'[s].state = "none" <=> sock[s].state = "none"
    PROVE  Own'
<1>1. \A s : IsIdle(s)' <=> InList(idle', s)
  BY DEF IsIdle, InList
<1>2. \A s : InList(idle', s) => s \in Sockets
  BY DEF InList
<1>3. \A c \in Callers : ~IsIdle(conn[c]) /\ ~IsIdle(conn[c])'
  <2>1. \A c \in Callers : ~IsIdle(conn[c]) /\ ~InList(idle', conn[c])
    BY <1>2 DEF Own, Ownership
  <2> QED BY <2>1 DEF IsIdle, InList
<1>4. \A s \in Sockets : Owned(s)' => Owned(s) /\ ~(IsIdle(s) /\ ~InList(idle', s))
  <2> SUFFICES ASSUME NEW s \in Sockets, Owned(s)'
               PROVE  Owned(s) /\ ~(IsIdle(s) /\ ~InList(idle', s))
    OBVIOUS
  <2>1. InList(idle', s) \/ \E c \in Callers : conn[c] = s
    BY DEF Owned, IsIdle, InList
  <2> QED BY <1>3, <2>1 DEF Owned
<1>5. \A s \in Sockets : Owned(s)' => sock'[s].state # "none"
  BY <1>4 DEF Own, Ownership
<1>6. Ownership'
  BY <1>3, <1>5 DEF Own, Ownership
<1>7. Orphans' \subseteq Orphans
  <2> SUFFICES ASSUME NEW s \in Sockets, sock'[s].state # "none", ~Owned(s)'
               PROVE  sock[s].state # "none" /\ ~Owned(s)
    BY DEF Orphans
  <2>1. ~InList(idle', s) /\ \A c \in Callers : conn[c] # s
    BY DEF Owned, IsIdle, InList
  <2> QED BY <2>1 DEF Owned
<1>8. Lost'
  <2>1. IsFiniteSet(Orphans) /\ Cardinality(Orphans) \in Nat /\ Cardinality(Orphans) <= cancels
        /\ cancels \in Nat
    BY FS_CardinalityType DEF Own, Lost
  <2>2. IsFiniteSet(Orphans') /\ Cardinality(Orphans') <= Cardinality(Orphans)
        /\ Cardinality(Orphans') \in Nat
    BY <1>7, <2>1, FS_Subset, FS_CardinalityType
  <2> QED BY <2>1, <2>2 DEF Lost
<1>9. Answers'
  <2>1. \A c \in Callers : pc[c] \in HasConn => sock'[conn[c]].owed = sock[conn[c]].owed
    BY <1>3, SocketFacts DEF Own
  <2>2. \A s \in Sockets : IsIdle(s)' => IsIdle(s) /\ sock'[s].owed = sock[s].owed
    BY <1>1
  <2>3. \A c \in Callers : pc[c] \in {"using", "return"} => pc[c] \in HasConn
    BY DEF HasConn
  <2> QED BY <2>1, <2>2, <2>3 DEF Own, Answers, Careful
<1> QED BY <1>6, <1>8, <1>9 DEF Own

\* close() closes what is idle.
LEMMA CloseOwn ==
    ASSUME Own, TakeIdle, UNCHANGED <<pc, conn, cancels>>
    PROVE  Own'
<1>1. /\ idle' = <<>>
      /\ sock' = [s \in Sockets |-> IF IsIdle(s) THEN NoSocket ELSE sock[s]]
      /\ sock \in [Sockets -> SocketRecords]
  BY DEF TakeIdle, IsIdle, Own, Ownership
<1>2. /\ sock' \in [Sockets -> SocketRecords]
      /\ \A s \in Sockets : sock'[s] = IF IsIdle(s) THEN NoSocket ELSE sock[s]
  BY <1>1, NoSocketRecord
<1>3. idle' \in Seq(Sockets) /\ Distinct(idle') /\ \A s : ~InList(idle', s)
  BY <1>1 DEF Distinct, InList
<1>4. NoSocket.state = "none"
  BY DEF NoSocket
<1> QED BY <1>2, <1>3, <1>4, RestOwn

\* No step leaves the ownership.
LEMMA OwnStep ==
    ASSUME Own, [Next]_vars
    PROVE  Own'
<1>0. /\ cancels \in Nat /\ cancels + 0 = cancels /\ sock \in [Sockets -> SocketRecords]
      /\ idle \in Seq(Sockets) /\ Distinct(idle)
      /\ \A x \in {"out", "waiting", "checkout", "reaping", "connecting", "undo", "closing"} :
            x \in Places \ HasConn
  BY DEF Own, Ownership, Lost, Places, HasConn
<1>1. ASSUME NEW c \in Callers
      PROVE  /\ pc[c] \in Places
             /\ pc[c] \in HasConn =>
                   conn[c] \in Sockets /\ sock[conn[c]] \in SocketRecords
  BY <1>0, SocketFacts DEF Own, Ownership
<1>2. ASSUME NEW c \in Callers,
             \/ WaitForPermit(c) \/ Discarded(c) \/ EnterUndo(c)
             \/ TakePermit(c) /\ Goto(c, "checkout") /\ UNCHANGED <<conn, idle, sock>>
      PROVE  Own'
  BY <1>0, <1>2, PlainMove DEF WaitForPermit, Discarded, EnterUndo, Undo, TakePermit
<1>3. ASSUME NEW c \in Callers, CheckOut(c), UNCHANGED cancels,
             pc[c] \in {"out", "waiting", "checkout", "reaping"}
      PROVE  Own'
  BY <1>0, <1>1, <1>3, CheckOutOwn
<1>4. ASSUME NEW c \in Callers, TakePermit(c) PROVE Own'
  BY <1>2, <1>3, <1>4 DEF TakePermit
<1>5. ASSUME NEW c \in Callers, EnterCheckOut(c) \/ Reaped(c) PROVE Own'
  BY <1>3, <1>5 DEF EnterCheckOut, Reaped
<1>6. ASSUME NEW c \in Callers, ConnectFails(c) PROVE Own'
  BY <1>0, <1>6, HandlerOwn DEF ConnectFails
<1>7. ASSUME NEW c \in Callers, Answered(c) PROVE Own'
  <2> DEFINE after == [sock[conn[c]] EXCEPT !.owed = Tail(@)]
  <2>1. pc[c] = "using" /\ pc[c] \in HasConn
    BY <1>7 DEF Answered, HasConn
  <2>2. sock[conn[c]].owed \in Seq(Callers) /\ sock[conn[c]].owed # <<>>
        /\ (Careful => sock[conn[c]].owed = <<c>>)
    BY <1>1, <2>1 DEF SocketRecords, Own, Answers
  <2>3. \A q \in Seq(Callers) : q # <<>> => Tail(q) \in Seq(Callers)
    OBVIOUS
  <2>4. Careful => Tail(sock[conn[c]].owed) = <<>>
    <3>1. Tail(<<c>>) = <<>>
      OBVIOUS
    <3> QED BY <2>2, <3>1
  <2>5. after \in SocketRecords /\ after.state = sock[conn[c]].state
        /\ after.owed = Tail(sock[conn[c]].owed)
    BY <1>1, <2>1, <2>2, <2>3 DEF SocketRecords
  <2>6. UNCHANGED cancels /\ \E reuse \in BOOLEAN : GiveBack(c, after, reuse)
    BY <1>7 DEF Answered
  <2> HIDE DEF after
  <2> QED BY <1>0, <2>1, <2>4, <2>5, <2>6, GiveBackOwn
<1>8. ASSUME NEW c \in Callers, Fails(c) PROVE Own'
  BY <1>0, <1>1, <1>8, GiveBackOwn DEF Fails, HasConn
<1>9. ASSUME NEW c \in Callers, EnterCheckIn(c) PROVE Own'
  <2>1. /\ pc[c] \in HasConn /\ UNCHANGED cancels
        /\ CheckIn(c, sock[conn[c]], pc[c] = "return")
    BY <1>9 DEF EnterCheckIn, HasConn
  <2>2. Careful /\ pc[c] = "return" => sock[conn[c]].owed = <<>>
    BY DEF Own, Answers
  <2> DEFINE reuse == pc[c] = "return"
  <2>3. reuse \in BOOLEAN
    OBVIOUS
  <2> QED BY <1>0, <1>1, <2>1, <2>2, <2>3, CheckInOwn
<1>10. ASSUME NEW c \in Callers, Cancel(c) PROVE Own'
  <2>1. cancels' = cancels + 1
    BY <1>10 DEF Cancel
  <2>2. CASE CancelOutsideTheTry(c) \/ CancelInHandler(c) \/ CancelInRelease(c)
    BY <1>0, <2>1, <2>2, PlainMove DEF CancelOutsideTheTry, CancelInHandler, CancelInRelease
  <2>3. CASE CancelInAcquire(c)
    BY <1>0, <2>1, <2>3, HandlerOwn DEF CancelInAcquire
  <2>4. CASE CancelInUse(c)
    <3>1. /\ pc[c] = "using" /\ pc[c] \in HasConn
          /\ GiveBack(c, sock[conn[c]], ReusedAfterCancel(c))
      BY <2>4 DEF CancelInUse, HasConn
    <3>2. ReusedAfterCancel(c) \in BOOLEAN /\ (Careful => ~ReusedAfterCancel(c))
      BY DEF ReusedAfterCancel, Careful
    <3> QED BY <1>1, <2>1, <3>1, <3>2, GiveBackOwn
  <2>5. CASE CancelBeforeRelease(c)
    BY <2>1, <2>5, ForgottenOwn
  <2> QED BY <1>10, <2>2, <2>3, <2>4, <2>5 DEF Cancel
<1>11. ASSUME \/ Close \/ EnterClose \/ UNCHANGED vars
              \/ \E s \in Sockets : PeerCloses(s) \/ Ages(s)
       PROVE  Own'
  <2>1. UNCHANGED <<pc, conn, cancels>>
    BY <1>11 DEF Close, EnterClose, PeerCloses, Ages, vars
  <2>2. CASE TakeIdle
    BY <2>1, <2>2, CloseOwn
  <2>3. CASE UNCHANGED <<idle, sock>>
    BY <1>0, <2>1, <2>3, RestOwn DEF IsIdle, InList
  <2>4. ASSUME NEW s \in Sockets, PeerCloses(s) \/ Ages(s) PROVE Own'
    <3>1. idle' = idle /\ \A t : InList(idle', t) <=> IsIdle(t)
      BY <2>4 DEF PeerCloses, Ages, IsIdle, InList
    <3>2. \/ sock[s].state = "open" /\ sock' = [sock EXCEPT ![s].state = "dead"]
          \/ sock' = [sock EXCEPT ![s].aged = TRUE]
      BY <2>4 DEF PeerCloses, Ages
    <3>3. sock[s] \in SocketRecords
      BY <1>0
    <3>6. /\ sock'[s] \in SocketRecords /\ sock'[s].owed = sock[s].owed
          /\ sock'[s].state = "none" <=> sock[s].state = "none"
      <4>1. CASE sock[s].state = "open" /\ sock' = [sock EXCEPT ![s].state = "dead"]
        <5>1. sock'[s] = [sock[s] EXCEPT !.state = "dead"]
          BY <1>0, <4>1
        <5> QED BY <3>3, <4>1, <5>1 DEF SocketRecords
      <4>2. CASE sock' = [sock EXCEPT ![s].aged = TRUE]
        <5>1. sock'[s] = [sock[s] EXCEPT !.aged = TRUE]
          BY <1>0, <4>2
        <5> QED BY <3>3, <5>1 DEF SocketRecords
      <4> QED BY <3>2, <4>1, <4>2
    <3>4. sock' \in [Sockets -> SocketRecords]
      BY <1>0, <3>2, <3>6
    <3>5. \A t \in Sockets :
              /\ sock'[t].owed = sock[t].owed
              /\ sock'[t].state = "none" <=> sock[t].state = "none"
      <4>1. \A t \in Sockets : sock'[t] = IF t = s THEN sock'[s] ELSE sock[t]
        BY <1>0, <3>2
      <4>2. /\ sock'[s].owed = sock[s].owed
            /\ sock'[s].state = "none" <=> sock[s].state = "none"
        BY <3>6
      <4> QED BY <4>1, <4>2
    <3> QED BY <1>0, <2>1, <3>1, <3>4, <3>5, RestOwn
  <2> QED BY <1>11, <2>2, <2>3, <2>4 DEF Close, EnterClose, vars
<1> QED BY <1>2, <1>4, <1>5, <1>6, <1>7, <1>8, <1>9, <1>10, <1>11, ConnectedOwn
        DEF Next, EntersLock, Proceeds

\* A connection is idle, with one caller, or lost by a cancellation, and the answers
\* due on it are those of whoever has it (pool.py, store.py).
THEOREM OwnershipHolds == Spec => []Own
<1>1. Init => Own
  <2> SUFFICES ASSUME Init PROVE Own
    OBVIOUS
  <2>1. /\ \A c \in Callers : pc[c] = "out" /\ conn[c] = Nothing
        /\ idle = <<>> /\ sock = [s \in Sockets |-> NoSocket] /\ cancels = 0
        /\ Nothing \notin Sockets
    BY PoolShape DEF Init, PoolShape
  <2>2. \A s : ~IsIdle(s)
    BY <2>1 DEF IsIdle
  <2>3. \A s \in Sockets : sock[s].state = "none" /\ ~Owned(s)
    BY <2>1, <2>2 DEF NoSocket, Owned
  <2>4. sock \in [Sockets -> SocketRecords] /\ idle \in Seq(Sockets) /\ Distinct(idle)
    BY <2>1, NoSocketRecord DEF Distinct
  <2>5. Ownership
    BY <2>1, <2>2, <2>3, <2>4 DEF Ownership, Init, HasConn, Places
  <2>6. Orphans = {}
    BY <2>3 DEF Orphans
  <2>7. Lost
    BY <2>1, <2>6, FS_EmptySet DEF Lost
  <2>8. Answers
    BY <2>1, <2>2 DEF Answers
  <2> QED BY <2>5, <2>7, <2>8 DEF Own
<1>2. Own /\ [Next]_vars => Own'
  BY OwnStep
<1> QED BY <1>1, <1>2, PTL DEF Spec

\* The owners of a connection, counted.
LEMMA OwnersCount ==
    ASSUME Own, NEW s \in Sockets
    PROVE  Owners(s) = IF Owned(s) THEN 1 ELSE 0
<1> DEFINE I == {i \in DOMAIN idle : idle[i] = s}
           C == {c \in Callers : conn[c] = s}
<1>1. /\ Distinct(idle) /\ s # Nothing
      /\ \A c, d \in Callers : conn[c] = conn[d] /\ conn[c] # Nothing => c = d
      /\ \A c \in Callers : ~IsIdle(conn[c])
  BY SocketFacts DEF Own, Ownership
<1>2. CASE IsIdle(s)
  <2>1. PICK i \in DOMAIN idle : idle[i] = s
    BY <1>2 DEF IsIdle
  <2>2. I = {i} /\ C = {}
    BY <1>1, <1>2, <2>1 DEF Distinct
  <2>3. Cardinality(I) = 1 /\ Cardinality(C) = 0
    BY <2>2, FS_Singleton, FS_EmptySet
  <2> QED BY <1>2, <2>3 DEF Owners, Owned
<1>3. CASE ~IsIdle(s) /\ \E c \in Callers : conn[c] = s
  <2>1. PICK c \in Callers : conn[c] = s
    BY <1>3
  <2>2. I = {} /\ C = {c}
    BY <1>1, <1>3, <2>1 DEF IsIdle
  <2>3. Cardinality(I) = 0 /\ Cardinality(C) = 1
    BY <2>2, FS_Singleton, FS_EmptySet
  <2> QED BY <1>3, <2>3 DEF Owners, Owned
<1>4. CASE ~Owned(s)
  <2>1. I = {} /\ C = {}
    BY <1>4 DEF Owned, IsIdle
  <2>2. Cardinality(I) = 0 /\ Cardinality(C) = 0
    BY <2>1, FS_EmptySet
  <2> QED BY <1>4, <2>2 DEF Owners
<1> QED BY <1>2, <1>3, <1>4 DEF Owned

\* No connection is ever with two callers, or idle and with one, and the ones
\* that nobody has are no more than the cancellations.
THEOREM ConnectionsHaveOneOwner == Spec => []OneOwner
<1>1. Own => OneOwner
  <2> SUFFICES ASSUME Own PROVE OneOwner
    OBVIOUS
  <2>1. \A s \in Sockets : Owners(s) <= 1
    BY OwnersCount
  <2>2. {s \in Sockets : sock[s].state # "none" /\ Owners(s) = 0} = Orphans
    BY OwnersCount DEF Orphans
  <2> QED BY <2>1, <2>2 DEF OneOwner, Own, Lost
<1> QED BY OwnershipHolds, <1>1, PTL

\* Unless a cancelled request may give its connection back, which only
\* HTTPConnectionPool.request does, every answer is read by who asked for it.
THEOREM AnswersAreOwn ==
    ASSUME Careful
    PROVE  Spec => []ReadsItsOwnAnswer
<1>1. Own => ReadsItsOwnAnswer
  <2> SUFFICES ASSUME Own, NEW c \in Callers, pc[c] = "using"
               PROVE  Head(sock[conn[c]].owed) = c
    BY DEF ReadsItsOwnAnswer
  <2>1. sock[conn[c]].owed = <<c>>
    BY DEF Own, Answers
  <2> QED BY <2>1
<1> QED BY OwnershipHolds, <1>1, PTL

=============================================================================
