--------------------------- MODULE KafkaSinkProofs ---------------------------
(***************************************************************************)
(* For any number of emitters, any queue and batch size and any faults:    *)
(* what counts as published is in the topic, flush() waits for all that    *)
(* was queued, and every event that is not settled is in one place.        *)
(***************************************************************************)
EXTENDS KafkaSink, FiniteSetTheorems, TLAPS

Whereabouts == {"none", "idle", "died", "linger", "connecting",
           "versions", "metadata", "create", "poll", "produce"}

(* What the arguments need of the types. *)
Types ==
    /\ batch \in [Tasks -> Seq(Events)]
    /\ queue \in Seq(Events)
    /\ log \in Seq(Events)
    /\ fate \in [Events -> Fates]
    /\ at \in [Tasks -> Whereabouts]

(* A task of the engine that is in the sink has its event in hand. *)
EventInHand == \A p \in Emitters : at[p] # "idle" => batch[p] # <<>>

KInv == Types /\ EventInHand /\ PublishedIsInTopic /\ FlushMeansSent

-----------------------------------------------------------------------------
(* The ends of a batch. *)

(* A batch of t is over; its events have become f. *)
Settles(t, f) ==
    /\ \E place \in {"idle", "died"} :
          at' = [at EXCEPT ![t] = place] /\ (t = Flusher \/ place = "idle")
    /\ batch' = [batch EXCEPT ![t] = <<>>]
    /\ fate' = Becomes(batch[t], f)
    /\ idle' = IdleAgain(t)
    /\ queue' = queue

(* Nothing but the fates of this batch changes for the worse. *)
LEMMA Settling ==
  ASSUME Types, EventInHand, FlushMeansSent, NEW t \in Tasks, NEW f \in Fates, Settles(t, f)
  PROVE  /\ batch' \in [Tasks -> Seq(Events)]
         /\ queue' \in Seq(Events)
         /\ fate' \in [Events -> Fates]
         /\ at' \in [Tasks -> Whereabouts]
         /\ EventInHand' /\ FlushMeansSent'
         /\ \A e \in Events : fate'[e] = "published" =>
               \/ fate[e] = "published"
               \/ f = "published" /\ e \in Range(batch[t])
<1>1. batch' \in [Tasks -> Seq(Events)] /\ at' \in [Tasks -> Whereabouts]
  BY DEF Settles, Types, Whereabouts
<1>2. fate' \in [Events -> Fates]
  BY DEF Settles, Becomes, Types
<1>3. FlushMeansSent'
  BY DEF Settles, IdleAgain, FlushMeansSent, Types, Tasks
<1>4. EventInHand'
  BY SinkShape DEF Settles, EventInHand, Types, Tasks
<1> QED
  BY <1>1, <1>2, <1>3, <1>4 DEF Settles, Becomes, Types

(* Neither a failure nor a broken connection publishes. *)
LEMMA FailedSettles ==
  ASSUME NEW t, Failed(t) PROVE \E f \in Fates \ {"open", "published"} : Settles(t, f)
BY DEF Failed, Settles, Fates, Goto

(* The same for the error that ends the flusher. *)
LEMMA BrokenSettles ==
  ASSUME NEW t, Broken(t) PROVE \E f \in Fates \ {"open", "published"} : Settles(t, f)
<1>1. CASE t = Flusher
  BY <1>1 DEF Broken, Settles, Fates, Goto
<1>2. CASE t # Flusher
  BY <1>2 DEF Broken, Settles, Fates, Goto
<1> QED
  BY <1>1, <1>2

(* And for an emitting task that is cancelled. *)
LEMMA CancelledSettles ==
  ASSUME NEW p \in Emitters, Cancelled(p)
  PROVE  /\ Settles(p, "cancelled") /\ p \in Tasks
         /\ Performed(p) \/ log' = log
<1>1. p # Flusher
  BY SinkShape
<1>2. Performed(p) \/ log' = log
  BY DEF Cancelled, broker
<1>3. Settles(p, "cancelled")
  BY <1>1 DEF Cancelled, Settles, Goto, IdleAgain
<1> QED
  BY <1>2, <1>3 DEF Tasks

(* An offer queues the event or drops it; a queued one holds up flush(). *)
LEMMA Offering ==
  ASSUME Types, FlushMeansSent, NEW e \in Events, NEW others, Offer(e, others),
         batch' \in [Tasks -> Seq(Events)], batch'[Flusher] = batch[Flusher]
  PROVE  /\ queue' \in Seq(Events)
         /\ fate' \in [Events -> Fates]
         /\ FlushMeansSent'
         /\ \A d \in Events : fate'[d] = "published" => fate[d] = "published"
<1>1. queue' \in Seq(Events)
  <2>1. Append(queue, e) \in Seq(Events)
    BY DEF Types
  <2> QED
    BY <2>1 DEF Offer, Types
<1>2. fate' \in [Events -> Fates]
  BY DEF Offer, Types, Fates
<1>3. FlushMeansSent'
  BY DEF Offer, FlushMeansSent
<1> QED
  BY <1>1, <1>2, <1>3 DEF Offer, Types

-----------------------------------------------------------------------------
(* The log grows, and whatever becomes published is in it. *)

(* What it takes to keep PublishedIsInTopic. *)
LEMMA Published ==
  ASSUME PublishedIsInTopic, \A e \in Range(log) : e \in Range(log)',
         \A e \in Events : fate'[e] = "published" =>
            fate[e] = "published" \/ e \in Range(log)'
  PROVE  PublishedIsInTopic'
BY DEF PublishedIsInTopic

(* A request the broker performs leaves its batch in the log. *)
LEMMA Performing ==
  ASSUME Types, NEW t \in Tasks, Performed(t) \/ log' = log
  PROVE  /\ log' \in Seq(Events)
         /\ \A e \in Range(log) : e \in Range(log)'
         /\ Performed(t) /\ at[t] = "produce" => \A e \in Range(batch[t]) : e \in Range(log)'
<1>1. CASE log' = log /\ ~(Performed(t) /\ at[t] = "produce")
  BY <1>1 DEF Types
<1>2. CASE log' = log \o batch[t]
  <2>1. batch[t] \in Seq(Events) /\ log \in Seq(Events)
    BY DEF Types
  <2>2. /\ Len(log') = Len(log) + Len(batch[t]) /\ log' \in Seq(Events)
        /\ \A i \in 1 .. Len(log) : log'[i] = log[i]
        /\ \A i \in 1 .. Len(batch[t]) : log'[Len(log) + i] = batch[t][i]
    BY <1>2, <2>1
  <2>3. /\ DOMAIN log' = 1 .. Len(log') /\ DOMAIN log = 1 .. Len(log)
        /\ DOMAIN batch[t] = 1 .. Len(batch[t])
    BY <2>1, <2>2
  <2>4. \A e \in Range(log) : e \in Range(log)'
    BY <2>1, <2>2, <2>3 DEF Range
  <2>5. \A e \in Range(batch[t]) : e \in Range(log)'
    <3> SUFFICES ASSUME NEW i \in 1 .. Len(batch[t]) PROVE batch[t][i] \in Range(log)'
      BY <2>3 DEF Range
    <3>1. Len(log) + i \in DOMAIN log'
      BY <2>1, <2>2, <2>3
    <3> QED
      BY <2>2, <3>1 DEF Range
  <2> QED
    BY <2>2, <2>4, <2>5
<1> QED
  BY <1>1, <1>2 DEF Performed

-----------------------------------------------------------------------------
(* The steps. *)

(* A request that ends without having published anything. *)
LEMMA Ending ==
  ASSUME KInv, NEW t \in Tasks, Performed(t) \/ log' = log,
         NEW f \in Fates \ {"open", "published"}, Settles(t, f)
  PROVE  KInv'
<1>1. Types' /\ EventInHand' /\ FlushMeansSent'
  BY Settling, Performing DEF KInv, Types
<1>2. \A e \in Events : fate'[e] = "published" => fate[e] = "published"
  BY Settling DEF KInv
<1>3. PublishedIsInTopic'
  BY <1>2, Performing, Published DEF KInv
<1> QED
  BY <1>1, <1>3 DEF KInv

(* A task goes on with its batch. *)
LEMMA GoingOn ==
  ASSUME KInv, UNCHANGED <<batch, queue, idle, fate>>,
         NEW t \in Tasks, Performed(t) \/ log' = log,
         at' \in [Tasks -> Whereabouts], \A p \in Emitters : at'[p] # "idle" => at[p] # "idle"
  PROVE  KInv'
<1>1. Types' /\ FlushMeansSent' /\ EventInHand'
  BY Performing DEF KInv, Types, FlushMeansSent, EventInHand
<1>2. PublishedIsInTopic'
  BY Performing, Published DEF KInv
<1> QED
  BY <1>1, <1>2 DEF KInv

(* The end of start(): the caller sends its batch, or queues its event. *)
LEMMA Starting ==
  ASSUME KInv, NEW t \in Tasks, at[t] # "idle", Started(t), Performed(t) \/ log' = log
  PROVE  KInv'
<1>1. /\ at' \in [Tasks -> Whereabouts]
      /\ \A p \in Emitters : p # t => at'[p] = at[p]
      /\ required \/ t = Flusher \/ at'[t] = "idle"
  BY SinkShape DEF Started, KInv, Types, Tasks, Whereabouts
<1>2. CASE UNCHANGED <<batch, queue, idle, fate>>
  <2>1. \A p \in Emitters : at'[p] # "idle" => at[p] # "idle"
    BY <1>1
  <2> QED
    BY <1>1, <1>2, <2>1, GoingOn
<1>3. CASE /\ t # Flusher /\ at'[t] = "idle"
           /\ batch' = [batch EXCEPT ![t] = <<>>]
           /\ Offer(Head(batch[t]), TRUE)
  <2>1. batch' \in [Tasks -> Seq(Events)] /\ batch'[Flusher] = batch[Flusher]
    BY <1>3 DEF KInv, Types, Tasks
  <2>2. Head(batch[t]) \in Events
    <3>1. batch[t] # <<>> /\ batch[t] \in Seq(Events)
      BY <1>3 DEF KInv, EventInHand, Types, Tasks
    <3> QED
      BY <3>1
  <2>3. /\ queue' \in Seq(Events) /\ fate' \in [Events -> Fates] /\ FlushMeansSent'
        /\ \A d \in Events : fate'[d] = "published" => fate[d] = "published"
    BY <1>3, <2>1, <2>2, Offering DEF KInv
  <2>4. EventInHand'
    BY <1>1, <1>3 DEF KInv, EventInHand, Types, Tasks
  <2>5. PublishedIsInTopic'
    BY <2>3, Performing, Published DEF KInv
  <2> QED
    BY <1>1, <2>1, <2>3, <2>4, <2>5, Performing DEF KInv, Types
<1> QED
  BY <1>1, <1>2, <1>3 DEF Started

(* A request that was answered. *)
LEMMA Answering ==
  ASSUME KInv, NEW t \in Tasks, Performed(t), GoesOn(t)
  PROVE  KInv'
<1>1. ASSUME NEW place \in Whereabouts, Goto(t, place), Stay, at[t] # "idle" PROVE KInv'
  BY <1>1, GoingOn DEF Goto, Stay, KInv, Types, Tasks
<1>2. CASE at[t] = "versions" /\ Goto(t, "metadata") /\ Stay
  BY <1>1, <1>2 DEF Whereabouts
<1>3. CASE at[t] \in {"metadata", "poll"} /\ topic = "ready" /\ Started(t)
  BY <1>3, Starting
<1>4. CASE at[t] = "metadata" /\ topic # "ready" /\ Goto(t, "create") /\ Stay
  BY <1>1, <1>4 DEF Whereabouts
<1>5. CASE at[t] = "create" /\ Goto(t, "poll") /\ Stay
  BY <1>1, <1>5 DEF Whereabouts
<1>6. CASE at[t] = "poll" /\ topic # "ready" /\ (Failed(t) \/ (UNCHANGED at /\ Stay))
  <2>1. CASE Failed(t)
    BY <2>1, FailedSettles, Ending
  <2>2. CASE UNCHANGED at /\ Stay
    BY <2>2, GoingOn DEF Stay, KInv, Types
  <2> QED
    BY <1>6, <2>1, <2>2
<1>7. CASE at[t] = "produce" /\ Sent(t)
  <2>1. Settles(t, "published")
    BY <1>7 DEF Sent, Settles, Goto
  <2>2. /\ Types' /\ EventInHand' /\ FlushMeansSent'
        /\ \A e \in Events : fate'[e] = "published" =>
              fate[e] = "published" \/ e \in Range(batch[t])
    BY <2>1, Settling, Performing DEF KInv, Types, Fates
  <2>3. PublishedIsInTopic'
    BY <1>7, <2>2, Performing, Published DEF KInv
  <2> QED
    BY <2>2, <2>3 DEF KInv
<1> QED
  BY <1>2, <1>3, <1>4, <1>5, <1>6, <1>7 DEF GoesOn

(* Every step keeps the invariant. *)
LEMMA KInvStep == KInv /\ [Next]_vars => KInv'
<1> SUFFICES ASSUME KInv, [Next]_vars PROVE KInv'
  OBVIOUS
<1>1. ASSUME NEW p \in Emitters, Emit(p) PROVE KInv'
  <2>1. log' = log
    BY <1>1 DEF Emit, broker
  <2>2. PICK e \in Events : \/ Offer(e, ready) /\ UNCHANGED <<at, batch>>
                            \/ /\ at' = [at EXCEPT ![p] = FirstStep]
                               /\ batch' = [batch EXCEPT ![p] = <<e>>]
                               /\ fate' = [fate EXCEPT ![e] = "open"]
                               /\ UNCHANGED <<queue, idle>>
    BY <1>1 DEF Emit
  <2>3. CASE Offer(e, ready) /\ UNCHANGED <<at, batch>>
    <3>1. /\ queue' \in Seq(Events) /\ fate' \in [Events -> Fates] /\ FlushMeansSent'
          /\ \A d \in Events : fate'[d] = "published" => fate[d] = "published"
      BY <2>3, Offering DEF KInv, Types
    <3> QED
      BY <2>1, <2>3, <3>1 DEF KInv, Types, EventInHand, PublishedIsInTopic
  <2>4. CASE /\ at' = [at EXCEPT ![p] = FirstStep]
             /\ batch' = [batch EXCEPT ![p] = <<e>>]
             /\ fate' = [fate EXCEPT ![e] = "open"]
             /\ UNCHANGED <<queue, idle>>
    <3>1. FirstStep \in Whereabouts
      BY DEF FirstStep, Whereabouts
    <3>2. <<e>> \in Seq(Events) /\ <<e>> # <<>>
      OBVIOUS
    <3>3. p \in Tasks /\ p # Flusher
      BY SinkShape DEF Tasks
    <3>4. Types'
      BY <2>1, <2>4, <3>1, <3>2, <3>3 DEF KInv, Types, Fates
    <3>5. EventInHand'
      BY <2>4, <3>2, <3>3 DEF KInv, EventInHand, Types, Tasks
    <3>6. PublishedIsInTopic'
      BY <2>1, <2>4 DEF KInv, PublishedIsInTopic, Types
    <3>7. FlushMeansSent'
      BY <2>4, <3>3 DEF KInv, FlushMeansSent, Types, Tasks
    <3> QED
      BY <3>4, <3>5, <3>6, <3>7 DEF KInv
  <2> QED
    BY <2>2, <2>3, <2>4
<1>2. ASSUME NEW t \in Tasks, Request(t) PROVE KInv'
  <2>1. CASE Connected(t)
    BY <2>1, GoingOn DEF Connected, Goto, Stay, broker, KInv, Types, Tasks, Whereabouts
  <2>2. CASE ConnectFails(t)
    BY <2>2, FailedSettles, Ending DEF ConnectFails, broker
  <2>3. CASE Send(t)
    <3>1. CASE Stay /\ UNCHANGED at
      BY <2>3, <3>1, GoingOn DEF Send, Stay, broker, KInv, Types
    <3>2. CASE Failed(t)
      BY <2>3, <3>2, FailedSettles, Ending DEF Send, broker
    <3> QED
      BY <2>3, <3>1, <3>2 DEF Send
  <2>4. CASE Answered(t)
    BY <2>4, Answering DEF Answered
  <2>5. CASE Mismatched(t)
    BY <2>5, FailedSettles, Ending DEF Mismatched, broker
  <2>6. CASE Refused(t)
    BY <2>6, FailedSettles, Ending DEF Refused, broker
  <2>7. CASE TimesOut(t)
    BY <2>7, FailedSettles, Ending DEF TimesOut, broker
  <2>8. CASE CutOff(t)
    BY <2>8, FailedSettles, BrokenSettles, Ending DEF CutOff, broker
  <2> QED
    BY <1>2, <2>1, <2>2, <2>3, <2>4, <2>5, <2>6, <2>7, <2>8 DEF Request
<1>3. CASE Take
  <2>1. queue \in Seq(Events) /\ queue # <<>> /\ batch[Flusher] \in Seq(Events)
    BY <1>3 DEF Take, KInv, Types, Tasks
  <2>2. Tail(queue) \in Seq(Events) /\ Append(batch[Flusher], Head(queue)) \in Seq(Events)
    BY <2>1
  <2>3. Types'
    BY <1>3, <2>2 DEF Take, Goto, broker, KInv, Types, Tasks, Whereabouts
  <2>4. EventInHand'
    BY <1>3, SinkShape DEF Take, Goto, KInv, Types, EventInHand, Tasks
  <2>5. PublishedIsInTopic'
    BY <1>3 DEF Take, broker, KInv, PublishedIsInTopic
  <2>6. FlushMeansSent'
    BY <1>3, <2>1 DEF Take, KInv, FlushMeansSent
  <2> QED
    BY <2>3, <2>4, <2>5, <2>6 DEF KInv
<1>4. CASE StopLingering
  <2>1. FirstStep \in Whereabouts
    BY DEF FirstStep, Whereabouts
  <2> QED
    BY <1>4, <2>1, GoingOn, SinkShape DEF StopLingering, Goto, Stay, broker, KInv, Types, Tasks
<1>5. CASE \/ BrokerCloses \/ Reset \/ BrokerStalls \/ BrokerReads \/ Elected
           \/ Closed \/ UNCHANGED vars
  <2>1. UNCHANGED <<batch, queue, idle, fate, at, log>>
    BY <1>5 DEF BrokerCloses, Reset, BrokerStalls, BrokerReads, Elected, Elsewhere,
                Closed, vars, broker
  <2> QED
    BY <2>1 DEF KInv, Types, EventInHand, PublishedIsInTopic, FlushMeansSent
<1>6. CASE Close
  <2>1. UNCHANGED <<queue, log>> /\ \A p \in Emitters : at[p] = "idle"
    BY <1>6 DEF Close, broker
  <2>2. CASE at[Flusher] = "died" /\ UNCHANGED <<at, batch, fate>>
    <3>1. idle' = idle
      BY <1>6, <2>2 DEF Close, Requests
    <3> QED
      BY <2>1, <2>2, <3>1 DEF KInv, Types, EventInHand, PublishedIsInTopic, FlushMeansSent
  <2>3. CASE /\ Goto(Flusher, "none")
             /\ fate' = Becomes(batch[Flusher], "lost")
             /\ batch' = [batch EXCEPT ![Flusher] = <<>>]
    <3>1. Types'
      BY <2>1, <2>3 DEF Goto, Becomes, KInv, Types, Fates, Tasks, Whereabouts
    <3>2. EventInHand'
      BY <2>1, <2>3, SinkShape DEF Goto, KInv, Types, EventInHand, Tasks
    <3>3. PublishedIsInTopic'
      BY <2>1, <2>3 DEF Becomes, KInv, PublishedIsInTopic
    <3>4. FlushMeansSent'
      BY <1>6, <2>1, <2>3 DEF Close, IdleAgain, KInv, FlushMeansSent, Types, Tasks
    <3> QED
      BY <3>1, <3>2, <3>3, <3>4 DEF KInv
  <2> QED
    BY <1>6, <2>2, <2>3 DEF Close
<1>7. ASSUME NEW p \in Emitters, Cancelled(p) PROVE KInv'
  BY <1>7, CancelledSettles, Ending DEF Fates
<1>8. ASSUME NEW t \in Tasks, Drained(t) PROVE KInv'
  BY <1>8, GoingOn DEF Drained, Stay, broker, KInv, Types
<1> QED
  BY <1>1, <1>2, <1>3, <1>4, <1>5, <1>6, <1>7, <1>8 DEF Next

(* It holds at first. *)
LEMMA KInvInit == Init => KInv
<1> SUFFICES ASSUME Init PROVE KInv
  OBVIOUS
<1>1. Types
  BY DEF Init, Types, Whereabouts, Fates, Tasks
<1> QED
  BY <1>1, SinkShape DEF Init, KInv, EventInHand, PublishedIsInTopic, FlushMeansSent, Tasks

(* The invariant of the sink. *)
LEMMA KInvAlways == Spec => []KInv
BY KInvInit, KInvStep, PTL DEF Spec

\* What KafkaEventSink counts as published is in the topic (kafka.py, _send and
\* KafkaClient._roundtrip), for every interleaving of senders and faults.
THEOREM PublishedIsThere == Spec => []PublishedIsInTopic
<1>1. KInv => PublishedIsInTopic
  BY DEF KInv
<1> QED
  BY <1>1, KInvAlways, PTL

\* While flush() may return, nothing that was queued is still to be sent
\* (kafka.py, publish and _flush_forever).
THEOREM FlushWaits == Spec => []FlushMeansSent
<1>1. KInv => FlushMeansSent
  BY DEF KInv
<1> QED
  BY <1>1, KInvAlways, PTL

-----------------------------------------------------------------------------
(* Where the events are. *)

Once(q) == \A i, k \in 1 .. Len(q) : q[i] = q[k] => i = k

(* Positions and members when an event is put behind the others. *)
LEMMA AppendOnce ==
  ASSUME NEW q \in Seq(Events), Once(q), NEW e \in Events, e \notin Range(q)
  PROVE  /\ Append(q, e) \in Seq(Events) /\ Len(Append(q, e)) = Len(q) + 1
         /\ Once(Append(q, e))
         /\ Range(Append(q, e)) = Range(q) \cup {e}
<1> DEFINE r == Append(q, e)
<1>1. /\ r \in Seq(Events) /\ Len(r) = Len(q) + 1 /\ Len(q) \in Nat
      /\ r[Len(q) + 1] = e /\ \A i \in 1 .. Len(q) : r[i] = q[i]
      /\ DOMAIN q = 1 .. Len(q) /\ DOMAIN r = 1 .. Len(q) + 1
  OBVIOUS
<1>2. \A i \in 1 .. Len(q) : q[i] # e
  BY <1>1 DEF Range
<1>3. Once(r)
  BY <1>1, <1>2 DEF Once
<1>4. Range(r) = Range(q) \cup {e}
  <2>1. \A i \in DOMAIN r : r[i] \in Range(q) \cup {e}
    BY <1>1 DEF Range
  <2>2. \A i \in DOMAIN q : q[i] \in Range(r)
    BY <1>1 DEF Range
  <2>3. e \in Range(r)
    BY <1>1 DEF Range
  <2> QED
    BY <2>1, <2>2, <2>3 DEF Range
<1> QED
  BY <1>1, <1>3, <1>4

(* An event on its own. *)
LEMMA SingleFacts ==
  ASSUME NEW q \in Seq(Events), q # <<>>, Len(q) <= 1
  PROVE  Head(q) \in Events /\ Range(q) = {Head(q)}
<1>1. Len(q) \in Nat /\ Len(q) # 0
  OBVIOUS
<1>2. Len(q) = 1
  BY <1>1
<1>3. DOMAIN q = {1} /\ Head(q) = q[1] /\ q[1] \in Events
  BY <1>2
<1> QED
  BY <1>3 DEF Range

(* The same when the first one is taken. *)
LEMMA TailOnce ==
  ASSUME NEW q \in Seq(Events), Once(q), q # <<>>
  PROVE  /\ Tail(q) \in Seq(Events) /\ Head(q) \in Events
         /\ Once(Tail(q))
         /\ Head(q) \notin Range(Tail(q))
         /\ Range(q) = Range(Tail(q)) \cup {Head(q)}
<1> DEFINE r == Tail(q)
<1>1. /\ r \in Seq(Events) /\ Len(r) = Len(q) - 1 /\ Len(q) \in Nat \ {0}
      /\ Head(q) = q[1] /\ \A i \in 1 .. Len(r) : r[i] = q[i + 1]
      /\ DOMAIN q = 1 .. Len(q) /\ DOMAIN r = 1 .. Len(r)
      /\ Head(q) \in Events
  OBVIOUS
<1>2. Once(r)
  BY <1>1 DEF Once
<1>3. Head(q) \notin Range(r)
  BY <1>1 DEF Once, Range
<1>4. Range(q) = Range(r) \cup {Head(q)}
  <2>1. \A i \in DOMAIN q : q[i] \in Range(r) \cup {Head(q)}
    <3> TAKE i \in DOMAIN q
    <3>1. CASE i = 1
      BY <1>1, <3>1
    <3>2. CASE i # 1
      <4>1. i - 1 \in DOMAIN r /\ r[i - 1] = q[i]
        BY <1>1, <3>2
      <4> QED
        BY <4>1 DEF Range
    <3> QED
      BY <3>1, <3>2
  <2>2. \A i \in DOMAIN r : r[i] \in Range(q)
    BY <1>1 DEF Range
  <2>3. Head(q) \in Range(q)
    BY <1>1 DEF Range
  <2> QED
    BY <2>1, <2>2, <2>3 DEF Range
<1> QED
  BY <1>1, <1>2, <1>3, <1>4

(* The fate of an event, and the queue or the batch it is in. *)
OnePlace ==
    /\ Once(queue) /\ \A t \in Tasks : Once(batch[t])
    /\ \A t, u \in Tasks : t # u => Range(batch[t]) \cap Range(batch[u]) = {}
    /\ \A t \in Tasks : Range(batch[t]) \cap Range(queue) = {}
    /\ \A e \in Events : fate[e] = "open" <=>
          e \in Range(queue) \/ \E t \in Tasks : e \in Range(batch[t])

(* A task that rests has nothing in its hands, and nobody takes too much. *)
Hands ==
    /\ \A t \in Tasks : at[t] \in {"none", "idle", "died"} => batch[t] = <<>>
    /\ \A t \in Tasks : Len(batch[t]) <= BatchSize /\ (t = Flusher \/ Len(batch[t]) <= 1)

AInv == KInv /\ Hands /\ OnePlace

(* An empty batch. *)
LEMMA EmptyFacts == Once(<<>>) /\ Range(<<>>) = {} /\ Len(<<>>) = 0
BY DEF Once, Range

(* Accounting follows from the places. *)
LEMMA Accounting == AInv => EveryEventIsAccounted
<1> SUFFICES ASSUME AInv, NEW e \in Events
             PROVE  Places(e) = IF fate[e] = "open" THEN 1 ELSE 0
  BY DEF EveryEventIsAccounted
<1> DEFINE Q == {i \in DOMAIN queue : queue[i] = e}
           B == {x \in Tasks \X (1 .. BatchSize) :
                      x[2] \in DOMAIN batch[x[1]] /\ batch[x[1]][x[2]] = e}
<1>1. queue \in Seq(Events) /\ \A t \in Tasks : batch[t] \in Seq(Events)
  BY DEF AInv, KInv, Types
<1>2. /\ DOMAIN queue = 1 .. Len(queue) /\ Len(queue) \in Nat
      /\ \A t \in Tasks : DOMAIN batch[t] = 1 .. Len(batch[t]) /\ Len(batch[t]) \in Nat
      /\ \A t \in Tasks : Len(batch[t]) <= BatchSize
  BY <1>1 DEF AInv, Hands
<1> HIDE DEF Q, B
<1>6. Places(e) = Cardinality(Q) + Cardinality(B)
  BY DEF Places, Q, B
<1> USE DEF Q, B
<1>3. CASE e \in Range(queue)
  <2>1. PICK i \in DOMAIN queue : queue[i] = e
    BY <1>3 DEF Range
  <2>2. Q = {i}
    BY <1>2, <2>1 DEF AInv, OnePlace, Once
  <2>3. B = {}
    BY <1>3 DEF AInv, OnePlace, Range
  <2>4. fate[e] = "open"
    BY <1>3 DEF AInv, OnePlace
  <2>5. Cardinality(Q) = 1 /\ Cardinality(B) = 0
    <3> HIDE DEF Q, B
    <3> QED  BY <2>2, <2>3, FS_EmptySet, FS_Singleton
  <2> HIDE DEF Q, B
  <2> QED
    BY <1>6, <2>4, <2>5
<1>4. CASE e \notin Range(queue) /\ \E t \in Tasks : e \in Range(batch[t])
  <2>1. Q = {}
    BY <1>4 DEF Range
  <2>2. PICK t \in Tasks : e \in Range(batch[t])
    BY <1>4
  <2>3. PICK i \in DOMAIN batch[t] : batch[t][i] = e
    BY <2>2 DEF Range
  <2>4. \A x \in B : x[1] = t /\ x[2] = i
    <3> TAKE x \in B
    <3>1. x[1] \in Tasks /\ x[2] \in DOMAIN batch[x[1]] /\ batch[x[1]][x[2]] = e
      OBVIOUS
    <3>2. e \in Range(batch[x[1]])
      BY <3>1 DEF Range
    <3>3. x[1] = t
      BY <2>2, <3>1, <3>2 DEF AInv, OnePlace
    <3> QED
      BY <1>2, <2>3, <3>1, <3>3 DEF AInv, OnePlace, Once
  <2>5. <<t, i>> \in B
    <3>1. i \in 1 .. BatchSize
      BY <1>2, <2>3, SinkShape
    <3> QED
      BY <2>2, <2>3, <3>1
  <2>6. B = {<<t, i>>}
    BY <2>4, <2>5
  <2>7. fate[e] = "open"
    BY <1>4 DEF AInv, OnePlace
  <2>8. Cardinality(Q) = 0 /\ Cardinality(B) = 1
    <3> HIDE DEF Q, B
    <3> QED  BY <2>1, <2>6, FS_EmptySet, FS_Singleton
  <2> HIDE DEF Q, B
  <2> QED
    BY <1>6, <2>7, <2>8
<1>5. CASE e \notin Range(queue) /\ ~ \E t \in Tasks : e \in Range(batch[t])
  <2>1. Q = {}
    BY <1>5 DEF Range
  <2>2. B = {}
    BY <1>5 DEF Range
  <2>3. fate[e] # "open"
    BY <1>5 DEF AInv, OnePlace
  <2>4. Cardinality(Q) = 0 /\ Cardinality(B) = 0
    <3> HIDE DEF Q, B
    <3> QED  BY <2>1, <2>2, FS_EmptySet
  <2> HIDE DEF Q, B
  <2> QED
    BY <1>6, <2>3, <2>4
<1> QED
  BY <1>3, <1>4, <1>5

(* The end of a batch takes its events off the books. *)
LEMMA EndingPlaces ==
  ASSUME AInv, NEW t \in Tasks, NEW f \in Fates \ {"open"}, Settles(t, f)
  PROVE  Hands' /\ OnePlace'
<1>1. /\ batch'[t] = <<>> /\ \A u \in Tasks : u # t => batch'[u] = batch[u] /\ at'[u] = at[u]
      /\ queue' = queue
      /\ \A e \in Events : fate'[e] = IF e \in Range(batch[t]) THEN f ELSE fate[e]
  BY DEF Settles, Becomes, AInv, KInv, Types
<1>2. Hands'
  BY <1>1, EmptyFacts, SinkShape DEF AInv, Hands
<1>3. /\ Once(queue') /\ \A u \in Tasks : Once(batch'[u])
      /\ \A u \in Tasks : Range(batch'[u]) = IF u = t THEN {} ELSE Range(batch[u])
  <2>1. Once(batch'[t]) /\ Range(batch'[t]) = {}
    BY <1>1, EmptyFacts
  <2>2. \A u \in Tasks : u # t => Once(batch'[u]) /\ Range(batch'[u]) = Range(batch[u])
    BY <1>1 DEF AInv, OnePlace
  <2>3. Once(queue')
    BY <1>1 DEF AInv, OnePlace
  <2> QED
    BY <2>1, <2>2, <2>3
<1>4. OnePlace'
  BY <1>1, <1>3 DEF AInv, OnePlace
<1> QED
  BY <1>2, <1>4

Resting == {"none", "idle", "died"}

(* Going on with it leaves everything in its place. *)
LEMMA GoingOnPlaces ==
  ASSUME AInv, UNCHANGED <<batch, queue, fate>>,
         \A t \in Tasks : at'[t] \in Resting => at[t] \in Resting
  PROVE  Hands' /\ OnePlace'
BY DEF AInv, Hands, OnePlace, Resting

(* An event that is nowhere, or only with the task that offers it, is queued or
   dropped. *)
LEMMA OfferingPlaces ==
  ASSUME AInv, NEW e \in Events, NEW others, Offer(e, others), e \notin Range(queue),
         \A u \in Tasks : \/ batch'[u] = batch[u] /\ e \notin Range(batch[u])
                          \/ batch'[u] = <<>> /\ Range(batch[u]) = {e}
  PROVE  OnePlace'
<1>1. /\ \A u \in Tasks : Once(batch'[u]) /\ Range(batch'[u]) = Range(batch[u]) \ {e}
  BY EmptyFacts DEF AInv, OnePlace
<1>2. CASE queue' = Append(queue, e) /\ fate' = [fate EXCEPT ![e] = "open"]
  <2>1. Once(queue') /\ Range(queue') = Range(queue) \cup {e}
    BY <1>2, AppendOnce DEF AInv, KInv, Types, OnePlace
  <2>2. \A d \in Events : fate'[d] = IF d = e THEN "open" ELSE fate[d]
    BY <1>2 DEF AInv, KInv, Types
  <2>9. /\ \A u, v \in Tasks : u # v => Range(batch'[u]) \cap Range(batch'[v]) = {}
        /\ \A u \in Tasks : Range(batch'[u]) \cap Range(queue') = {}
    <3>1. /\ \A u, v \in Tasks : u # v => Range(batch[u]) \cap Range(batch[v]) = {}
          /\ \A u \in Tasks : Range(batch[u]) \cap Range(queue) = {}
      BY DEF AInv, OnePlace
    <3>2. ASSUME NEW u \in Tasks, NEW d \in Range(batch'[u]) PROVE d \notin Range(queue')
      BY <1>1, <2>1, <3>1, <3>2
    <3> QED
      BY <1>1, <3>1, <3>2
  <2>8. \A d \in Events : fate'[d] = "open" <=>
           d \in Range(queue') \/ \E u \in Tasks : d \in Range(batch'[u])
    <3> TAKE d \in Events
    <3>1. d \in Range(queue) \/ (\E u \in Tasks : d \in Range(batch[u])) <=> fate[d] = "open"
      BY DEF AInv, OnePlace
    <3>2. CASE d = e
      BY <1>1, <2>1, <2>2, <3>2
    <3>3. CASE d # e
      <4>1. \A u \in Tasks : d \in Range(batch'[u]) <=> d \in Range(batch[u])
        BY <1>1, <3>3
      <4> QED
        BY <1>1, <2>1, <2>2, <3>1, <3>3, <4>1
    <3> QED
      BY <3>2, <3>3
  <2> QED
    BY <1>1, <2>1, <2>2, <2>9, <2>8 DEF AInv, OnePlace
<1>3. CASE queue' = queue /\ fate' = [fate EXCEPT ![e] = "dropped"]
  <2>1. \A d \in Events : fate'[d] = IF d = e THEN "dropped" ELSE fate[d]
    BY <1>3 DEF AInv, KInv, Types
  <2>9. /\ \A u, v \in Tasks : u # v => Range(batch'[u]) \cap Range(batch'[v]) = {}
        /\ \A u \in Tasks : Range(batch'[u]) \cap Range(queue') = {}
    BY <1>1, <1>3, <2>1 DEF AInv, OnePlace
  <2>8. \A d \in Events : fate'[d] = "open" <=>
           d \in Range(queue') \/ \E u \in Tasks : d \in Range(batch'[u])
    <3> TAKE d \in Events
    <3>1. d \in Range(queue) \/ (\E u \in Tasks : d \in Range(batch[u])) <=> fate[d] = "open"
      BY DEF AInv, OnePlace
    <3>2. CASE d = e
      BY <1>1, <1>3, <2>1, <3>2
    <3>3. CASE d # e
      <4>1. \A u \in Tasks : d \in Range(batch'[u]) <=> d \in Range(batch[u])
        BY <1>1, <3>3
      <4> QED
        BY <1>1, <1>3, <2>1, <3>1, <3>3, <4>1
    <3> QED
      BY <3>2, <3>3
  <2> QED
    BY <1>1, <1>3, <2>1, <2>9, <2>8 DEF AInv, OnePlace
<1> QED
  BY <1>2, <1>3 DEF Offer

(* The end of start(). *)
LEMMA StartingPlaces ==
  ASSUME AInv, NEW t \in Tasks, at[t] \notin Resting, Started(t)
  PROVE  Hands' /\ OnePlace'
<1>1. /\ at'[t] = IF required \/ t = Flusher THEN "produce" ELSE "idle"
      /\ \A u \in Tasks : u # t => at'[u] = at[u] \/ (at[u] \in Resting)
  BY DEF Started, AInv, KInv, Types, Tasks, Resting
<1>2. CASE (required \/ t = Flusher) /\ UNCHANGED <<batch, queue, idle, fate>>
  <2>1. \A u \in Tasks : at'[u] \in Resting => at[u] \in Resting
    BY <1>1, <1>2 DEF Resting
  <2> QED
    BY <1>2, <2>1, GoingOnPlaces
<1>3. CASE /\ ~(required \/ t = Flusher)
           /\ batch' = [batch EXCEPT ![t] = <<>>]
           /\ Offer(Head(batch[t]), TRUE)
  <2>1. batch[t] \in Seq(Events) /\ batch[t] # <<>> /\ Len(batch[t]) <= 1
    BY <1>3 DEF AInv, KInv, Types, EventInHand, Hands, Tasks, Resting
  <2>2. PICK e \in Events : e = Head(batch[t]) /\ Range(batch[t]) = {e}
    BY <2>1, SingleFacts
  <2>3. \A u \in Tasks : \/ u # t /\ batch'[u] = batch[u] /\ e \notin Range(batch[u])
                         \/ u = t /\ batch'[u] = <<>> /\ Range(batch[u]) = {e}
    BY <1>3, <2>2 DEF AInv, KInv, Types, OnePlace
  <2>4. e \notin Range(queue)
    BY <2>2 DEF AInv, OnePlace
  <2>5. OnePlace'
    BY <1>3, <2>2, <2>3, <2>4, OfferingPlaces
  <2>6. Hands'
    BY <1>1, <2>3, EmptyFacts, SinkShape DEF AInv, Hands, Resting
  <2> QED
    BY <2>5, <2>6
<1> QED
  BY <1>2, <1>3 DEF Started

(* A request that was answered. *)
LEMMA AnsweringPlaces ==
  ASSUME AInv, NEW t \in Tasks, GoesOn(t)
  PROVE  Hands' /\ OnePlace'
<1>1. ASSUME NEW place \in Whereabouts \ Resting, Goto(t, place), Stay
      PROVE  Hands' /\ OnePlace'
  BY <1>1, GoingOnPlaces DEF Goto, Stay, AInv, KInv, Types, Resting
<1>2. CASE at[t] = "versions" /\ Goto(t, "metadata") /\ Stay
  BY <1>1, <1>2 DEF Whereabouts, Resting
<1>3. CASE at[t] \in {"metadata", "poll"} /\ topic = "ready" /\ Started(t)
  BY <1>3, StartingPlaces DEF Resting
<1>4. CASE at[t] = "metadata" /\ topic # "ready" /\ Goto(t, "create") /\ Stay
  BY <1>1, <1>4 DEF Whereabouts, Resting
<1>5. CASE at[t] = "create" /\ Goto(t, "poll") /\ Stay
  BY <1>1, <1>5 DEF Whereabouts, Resting
<1>6. CASE at[t] = "poll" /\ topic # "ready" /\ (Failed(t) \/ (UNCHANGED at /\ Stay))
  <2>1. CASE Failed(t)
    BY <2>1, FailedSettles, EndingPlaces
  <2>2. CASE UNCHANGED at /\ Stay
    BY <2>2, GoingOnPlaces DEF Stay
  <2> QED
    BY <1>6, <2>1, <2>2
<1>7. CASE at[t] = "produce" /\ Sent(t)
  <2>1. Settles(t, "published")
    BY <1>7 DEF Sent, Settles, Goto
  <2> QED
    BY <2>1, EndingPlaces DEF Fates
<1> QED
  BY <1>2, <1>3, <1>4, <1>5, <1>6, <1>7 DEF GoesOn

(* Every step keeps the places. *)
LEMMA PlacesStep == ASSUME AInv, [Next]_vars PROVE Hands' /\ OnePlace'
<1>1. ASSUME NEW p \in Emitters, Emit(p) PROVE Hands' /\ OnePlace'
  <2>1. PICK e \in Events :
           /\ fate[e] = "new"
           /\ \/ Offer(e, ready) /\ UNCHANGED <<at, batch>>
              \/ /\ at' = [at EXCEPT ![p] = FirstStep]
                 /\ batch' = [batch EXCEPT ![p] = <<e>>]
                 /\ fate' = [fate EXCEPT ![e] = "open"]
                 /\ UNCHANGED <<queue, idle>>
    BY <1>1 DEF Emit
  <2>2. e \notin Range(queue) /\ \A u \in Tasks : e \notin Range(batch[u])
    BY <2>1 DEF AInv, OnePlace
  <2>3. CASE Offer(e, ready) /\ UNCHANGED <<at, batch>>
    <3>1. OnePlace'
      BY <2>2, <2>3, OfferingPlaces
    <3>2. Hands'
      BY <2>3 DEF AInv, Hands
    <3> QED
      BY <3>1, <3>2
  <2>4. CASE /\ at' = [at EXCEPT ![p] = FirstStep]
             /\ batch' = [batch EXCEPT ![p] = <<e>>]
             /\ fate' = [fate EXCEPT ![e] = "open"]
             /\ UNCHANGED <<queue, idle>>
    <3>1. FirstStep \notin Resting
      BY DEF FirstStep, Resting
    <3>2. Len(<<e>>) = 1 /\ Once(<<e>>) /\ Range(<<e>>) = {e} /\ 1 <= BatchSize
      BY SinkShape DEF Once, Range
    <3>3. /\ p \in Tasks /\ p # Flusher
          /\ batch'[p] = <<e>> /\ at'[p] = FirstStep
          /\ \A u \in Tasks : u # p => batch'[u] = batch[u] /\ at'[u] = at[u]
          /\ \A d \in Events : fate'[d] = IF d = e THEN "open" ELSE fate[d]
      BY <2>4, SinkShape DEF Tasks, AInv, KInv, Types
    <3>4. batch[p] = <<>>
      BY <1>1, <3>3 DEF Emit, AInv, Hands
    <3>5. Hands'
      BY <3>1, <3>2, <3>3 DEF AInv, Hands, Resting
    <3>6. \A u \in Tasks : /\ Once(batch'[u])
                           /\ Range(batch'[u]) = IF u = p THEN {e} ELSE Range(batch[u])
      <4>1. Once(batch'[p]) /\ Range(batch'[p]) = {e}
        BY <3>2, <3>3
      <4>2. \A u \in Tasks : u # p => Once(batch'[u]) /\ Range(batch'[u]) = Range(batch[u])
        BY <3>3 DEF AInv, OnePlace
      <4> QED
        BY <4>1, <4>2
    <3>7. Range(batch[p]) = {}
      BY <3>4, EmptyFacts
    <3>8. OnePlace'
      BY <2>2, <2>4, <3>3, <3>6, <3>7 DEF AInv, OnePlace
    <3> QED
      BY <3>5, <3>8
  <2> QED
    BY <2>1, <2>3, <2>4
<1>2. ASSUME NEW t \in Tasks, Request(t) PROVE Hands' /\ OnePlace'
  <2>1. CASE Connected(t)
    BY <2>1, GoingOnPlaces DEF Connected, Goto, Stay, AInv, KInv, Types, Resting
  <2>2. CASE ConnectFails(t)
    BY <2>2, FailedSettles, EndingPlaces DEF ConnectFails
  <2>3. CASE Send(t)
    <3>1. CASE Stay /\ UNCHANGED at
      BY <3>1, GoingOnPlaces DEF Stay
    <3>2. CASE Failed(t)
      BY <3>2, FailedSettles, EndingPlaces
    <3> QED
      BY <2>3, <3>1, <3>2 DEF Send
  <2>4. CASE Answered(t)
    BY <2>4, AnsweringPlaces DEF Answered
  <2>5. CASE Mismatched(t)
    BY <2>5, FailedSettles, EndingPlaces DEF Mismatched
  <2>6. CASE Refused(t)
    BY <2>6, FailedSettles, EndingPlaces DEF Refused
  <2>7. CASE TimesOut(t)
    BY <2>7, FailedSettles, EndingPlaces DEF TimesOut
  <2>8. CASE CutOff(t)
    BY <2>8, FailedSettles, BrokenSettles, EndingPlaces DEF CutOff
  <2> QED
    BY <1>2, <2>1, <2>2, <2>3, <2>4, <2>5, <2>6, <2>7, <2>8 DEF Request
<1>3. CASE Take
  <2>1. /\ queue \in Seq(Events) /\ queue # <<>> /\ queue' = Tail(queue)
        /\ batch[Flusher] \in Seq(Events) /\ Flusher \in Tasks
        /\ at' = [at EXCEPT ![Flusher] = "linger"] /\ fate' = fate
        /\ batch' = [batch EXCEPT ![Flusher] = Append(@, Head(queue))]
    BY <1>3 DEF Take, Goto, AInv, KInv, Types, Tasks
  <2>2. PICK e \in Events :
           /\ e = Head(queue) /\ Once(queue') /\ e \notin Range(queue')
           /\ Range(queue) = Range(queue') \cup {e}
    BY <2>1, TailOnce DEF AInv, OnePlace
  <2>3. e \in Range(queue) /\ e \notin Range(batch[Flusher])
    BY <2>1, <2>2 DEF AInv, OnePlace
  <2>4. /\ batch'[Flusher] = Append(batch[Flusher], e)
        /\ \A u \in Tasks : u # Flusher => batch'[u] = batch[u] /\ at'[u] = at[u]
        /\ at'[Flusher] = "linger"
    BY <2>1, <2>2 DEF AInv, KInv, Types
  <2>5. /\ Once(batch'[Flusher]) /\ Len(batch'[Flusher]) = Len(batch[Flusher]) + 1
        /\ Range(batch'[Flusher]) = Range(batch[Flusher]) \cup {e}
    BY <2>1, <2>3, <2>4, AppendOnce DEF AInv, OnePlace
  <2>6. Len(batch[Flusher]) < BatchSize
    <3>1. CASE at[Flusher] = "idle"
      BY <2>1, <3>1, EmptyFacts, SinkShape DEF AInv, Hands
    <3>2. CASE at[Flusher] # "idle"
      BY <1>3, <3>2 DEF Take
    <3> QED
      BY <3>1, <3>2
  <2>7. Hands'
    <3>1. Len(batch'[Flusher]) <= BatchSize
      BY <2>1, <2>5, <2>6, SinkShape
    <3> QED
      BY <2>4, <3>1 DEF AInv, Hands
  <2>8. OnePlace'
    <3>1. \A u \in Tasks : /\ Once(batch'[u])
                           /\ Range(batch'[u]) = IF u = Flusher THEN Range(batch[u]) \cup {e}
                                                                ELSE Range(batch[u])
      BY <2>4, <2>5 DEF AInv, OnePlace
    <3>2. \A u \in Tasks : e \notin Range(batch[u])
      BY <2>3 DEF AInv, OnePlace
    <3>3. /\ \A u, v \in Tasks : u # v => Range(batch'[u]) \cap Range(batch'[v]) = {}
          /\ \A u \in Tasks : Range(batch'[u]) \cap Range(queue') = {}
      <4>1. /\ \A u, v \in Tasks : u # v => Range(batch[u]) \cap Range(batch[v]) = {}
            /\ \A u \in Tasks : Range(batch[u]) \cap Range(queue) = {}
        BY DEF AInv, OnePlace
      <4>2. ASSUME NEW u \in Tasks, NEW v \in Tasks, u # v, NEW d \in Range(batch'[u])
            PROVE  d \notin Range(batch'[v])
        BY <3>1, <3>2, <4>1, <4>2
      <4>3. ASSUME NEW u \in Tasks, NEW d \in Range(batch'[u]) PROVE d \notin Range(queue')
        BY <2>2, <3>1, <4>1, <4>3
      <4> QED
        BY <4>2, <4>3
    <3>4. \A d \in Events : fate'[d] = "open" <=>
             d \in Range(queue') \/ \E u \in Tasks : d \in Range(batch'[u])
      <4> TAKE d \in Events
      <4>1. d \in Range(queue) \/ (\E u \in Tasks : d \in Range(batch[u])) <=> fate[d] = "open"
        BY DEF AInv, OnePlace
      <4>2. CASE d = e
        <5>1. Flusher \in Tasks /\ d \in Range(batch'[Flusher])
          BY <2>1, <2>5, <4>2
        <5>2. fate[d] = "open" /\ fate' = fate
          BY <2>1, <2>3, <4>1, <4>2
        <5> QED
          BY <5>1, <5>2
      <4>3. CASE d # e
        <5>1. \A u \in Tasks : d \in Range(batch'[u]) <=> d \in Range(batch[u])
          BY <3>1, <4>3
        <5> QED
          BY <2>1, <2>2, <4>1, <4>3, <5>1
      <4> QED
        BY <4>2, <4>3
    <3> QED
      BY <2>2, <3>1, <3>3, <3>4 DEF OnePlace
  <2> QED
    BY <2>7, <2>8
<1>4. CASE StopLingering
  <2>1. FirstStep \notin Resting
    BY DEF FirstStep, Resting
  <2>2. \A t \in Tasks : at'[t] \in Resting => at[t] \in Resting
    BY <1>4, <2>1 DEF StopLingering, Goto, AInv, KInv, Types
  <2> QED
    BY <1>4, <2>2, GoingOnPlaces DEF StopLingering, Stay
<1>5. CASE \/ BrokerCloses \/ Reset \/ BrokerStalls \/ BrokerReads \/ Elected
           \/ Closed \/ UNCHANGED vars
  <2>1. UNCHANGED <<batch, queue, fate, at>>
    BY <1>5 DEF BrokerCloses, Reset, BrokerStalls, BrokerReads, Elected, Elsewhere,
                Closed, vars
  <2> QED
    BY <2>1, GoingOnPlaces
<1>6. CASE Close
  <2>1. CASE UNCHANGED <<at, batch, fate>>
    BY <1>6, <2>1, GoingOnPlaces DEF Close
  <2>2. CASE /\ Goto(Flusher, "none")
             /\ fate' = Becomes(batch[Flusher], "lost")
             /\ batch' = [batch EXCEPT ![Flusher] = <<>>]
    <3>1. /\ Flusher \in Tasks /\ batch'[Flusher] = <<>> /\ queue' = queue
          /\ \A u \in Tasks : u # Flusher => batch'[u] = batch[u] /\ at'[u] = at[u]
          /\ \A e \in Events : fate'[e] = IF e \in Range(batch[Flusher]) THEN "lost" ELSE fate[e]
      BY <1>6, <2>2 DEF Close, Goto, Becomes, AInv, KInv, Types, Tasks
    <3>2. Hands'
      BY <3>1, EmptyFacts, SinkShape DEF AInv, Hands
    <3>3. \A u \in Tasks : /\ Once(batch'[u])
                           /\ Range(batch'[u]) = IF u = Flusher THEN {} ELSE Range(batch[u])
      <4>1. Once(batch'[Flusher]) /\ Range(batch'[Flusher]) = {}
        BY <3>1, EmptyFacts
      <4>2. \A u \in Tasks : u # Flusher => Once(batch'[u]) /\ Range(batch'[u]) = Range(batch[u])
        BY <3>1 DEF AInv, OnePlace
      <4> QED
        BY <4>1, <4>2
    <3>4. OnePlace'
      BY <3>1, <3>3 DEF AInv, OnePlace
    <3> QED
      BY <3>2, <3>4
  <2> QED
    BY <1>6, <2>1, <2>2 DEF Close
<1>7. ASSUME NEW p \in Emitters, Cancelled(p) PROVE Hands' /\ OnePlace'
  BY <1>7, CancelledSettles, EndingPlaces DEF Fates
<1>8. ASSUME NEW t \in Tasks, Drained(t) PROVE Hands' /\ OnePlace'
  BY <1>8, GoingOnPlaces DEF Drained, Stay
<1> QED
  BY <1>1, <1>2, <1>3, <1>4, <1>5, <1>6, <1>7, <1>8 DEF Next

\* Every event the sink has taken and not settled is in the queue or in the
\* hands of one task, once, also when emitting tasks are cancelled at any await:
\* what goes with them, or with the flusher, is "cancelled" or "lost", and in no
\* counter (kafka.py, __call__, _flush_forever, close).
THEOREM EventsAreAccounted == Spec => []EveryEventIsAccounted
<1>1. Init => AInv
  <2> SUFFICES ASSUME Init PROVE AInv
    OBVIOUS
  <2>1. KInv
    BY KInvInit
  <2>2. Hands /\ OnePlace
    BY EmptyFacts, SinkShape DEF Init, Hands, OnePlace
  <2> QED
    BY <2>1, <2>2 DEF AInv
<1>2. AInv /\ [Next]_vars => AInv'
  BY KInvStep, PlacesStep DEF AInv
<1> QED
  BY <1>1, <1>2, Accounting, PTL DEF Spec
=============================================================================
