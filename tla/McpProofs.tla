------------------------------ MODULE McpProofs ------------------------------
(***************************************************************************)
(* For any callers, servers, tools, cancellations and ends of processes:   *)
(* a server is greeted by one task at a time and not again once that is    *)
(* done, work reaches a process only after a greeting, and whoever holds   *)
(* a transport's lock has an answer or the end of the output to read.      *)
(***************************************************************************)
EXTENDS Mcp, FiniteSetTheorems, TLAPS

Steps == {"none", "greet", "initialize", "notify", "list", "call", "ok", "error"}

(* What the arguments need of the types. *)
Types ==
    /\ step \in [Callers -> [Servers -> Steps]]
    /\ pc \in [Callers -> {"idle", "gathering", "calling"}]
    /\ target \in [Callers -> Servers \cup {Nobody}]
    /\ greeter \in [Servers -> Callers \cup {Nobody}]
    /\ initialized \in [Servers -> BOOLEAN]
    /\ lock \in [Servers -> Callers \cup {Nobody}]
    /\ process \in [Servers -> {"none", "up", "ended", "reaped"}]
    /\ hello \in [Servers -> {"new", "asked", "ready"}]
    /\ respawned \in [Servers -> BOOLEAN]
    /\ owed \in [Servers -> Seq(Callers \cup {Stale})]

(* A caller at rest has no task, one that calls has a task with its target. *)
TasksFollowCaller ==
    \A c \in Callers :
        /\ pc[c] = "idle" => \A s \in Servers : step[c][s] = "none"
        /\ pc[c] = "calling" => /\ target[c] \in Servers
                                /\ \A s \in Servers \ {target[c]} : step[c][s] = "none"

(* Who is in the handshake holds its lock, and the rest follows it. *)
Handshake ==
    \A c \in Callers, s \in Servers :
        /\ step[c][s] \in {"initialize", "notify"} => greeter[s] = c /\ ~initialized[s]
        /\ step[c][s] \in Toolwork => initialized[s]

(* What the process a greeting went to has seen of it. *)
Heard ==
    \A s \in Servers :
        /\ process[s] = "none" => hello[s] = "new" /\ lock[s] = Nobody
        /\ initialized[s] => hello[s] = "ready" \/ respawned[s]
        /\ \A c \in Callers :
              step[c][s] = "notify" \/ (step[c][s] = "initialize" /\ lock[s] = c)
                 => hello[s] = "asked" \/ respawned[s]

MInv == Types /\ TasksFollowCaller /\ Handshake /\ Heard /\ LockIsServed

-----------------------------------------------------------------------------
(* What the helpers do to the tasks. *)

(* One task goes on. *)
LEMMA GotoOne ==
  ASSUME Types, NEW c \in Callers, NEW s \in Servers, NEW place \in Steps, Goto(c, s, place)
  PROVE  /\ step' \in [Callers -> [Servers -> Steps]]
         /\ step'[c][s] = place
         /\ \A d \in Callers, r \in Servers : d # c \/ r # s => step'[d][r] = step[d][r]
BY DEF Types, Goto

(* All tasks of a caller are begun or over. *)
LEMMA AllOfOne ==
  ASSUME Types, NEW c \in Callers, NEW place \in Steps, step' = AllAt(c, place)
  PROVE  /\ step' \in [Callers -> [Servers -> Steps]]
         /\ \A s \in Servers : step'[c][s] = place
         /\ \A d \in Callers, s \in Servers : d # c => step'[d][s] = step[d][s]
BY DEF Types, AllAt

(* Positions do not matter for who is owed an answer. *)
LEMMA OwedFacts ==
  ASSUME NEW S, NEW q \in Seq(S)
  PROVE  /\ \A x \in S : Append(q, x) \in Seq(S) /\ Range(Append(q, x)) = Range(q) \cup {x}
         /\ q # <<>> => /\ Tail(q) \in Seq(S) /\ Head(q) \in S
                        /\ \A x \in Range(q) : x = Head(q) \/ x \in Range(Tail(q))
<1>1. /\ Len(q) \in Nat /\ DOMAIN q = 1 .. Len(q)
  OBVIOUS
<1>2. ASSUME NEW x \in S PROVE Append(q, x) \in Seq(S) /\ Range(Append(q, x)) = Range(q) \cup {x}
  <2> DEFINE r == Append(q, x)
  <2>1. /\ r \in Seq(S) /\ DOMAIN r = 1 .. Len(q) + 1 /\ r[Len(q) + 1] = x
        /\ \A i \in 1 .. Len(q) : r[i] = q[i]
    OBVIOUS
  <2>2. \A i \in DOMAIN r : r[i] \in Range(q) \cup {x}
    BY <1>1, <2>1 DEF Range
  <2>3. \A i \in DOMAIN q : q[i] \in Range(r)
    BY <1>1, <2>1 DEF Range
  <2>4. x \in Range(r)
    BY <1>1, <2>1 DEF Range
  <2> QED
    BY <2>1, <2>2, <2>3, <2>4 DEF Range
<1>3. ASSUME q # <<>> PROVE /\ Tail(q) \in Seq(S) /\ Head(q) \in S
                            /\ \A x \in Range(q) : x = Head(q) \/ x \in Range(Tail(q))
  <2> DEFINE r == Tail(q)
  <2>1. /\ r \in Seq(S) /\ Head(q) = q[1] /\ q[1] \in S /\ DOMAIN r = 1 .. Len(q) - 1
        /\ \A i \in 1 .. Len(q) - 1 : r[i] = q[i + 1]
    BY <1>1, <1>3
  <2>2. ASSUME NEW i \in DOMAIN q, i # 1 PROVE q[i] \in Range(r)
    <3>1. i - 1 \in DOMAIN r /\ r[i - 1] = q[i]
      BY <1>1, <2>1, <2>2
    <3> QED
      BY <3>1 DEF Range
  <2> QED
    BY <2>1, <2>2 DEF Range
<1> QED
  BY <1>2, <1>3

(* A caller that gives up leaves the others' answers where they are. *)
LEMMA ForsakenFacts ==
  ASSUME Types, NEW c \in Callers
  PROVE  /\ Forsaken(c) \in [Servers -> Seq(Callers \cup {Stale})]
         /\ \A s \in Servers, d \in Callers :
               d # c /\ d \in Range(owed[s]) => d \in Range(Forsaken(c)[s])
<1>1. ASSUME NEW s \in Servers
      PROVE  /\ Forsaken(c)[s] \in Seq(Callers \cup {Stale})
             /\ \A d \in Callers : d # c /\ d \in Range(owed[s]) => d \in Range(Forsaken(c)[s])
  <2> DEFINE q == owed[s]
             r == [i \in DOMAIN q |-> IF q[i] = c THEN Stale ELSE q[i]]
  <2>1. q \in Seq(Callers \cup {Stale})
    BY DEF Types
  <2>2. r \in Seq(Callers \cup {Stale})
    BY <2>1
  <2>3. \A d : d # c /\ d \in Range(q) => d \in Range(r)
    BY DEF Range
  <2>4. Forsaken(c)[s] = r
    BY DEF Forsaken
  <2> QED
    BY <2>2, <2>3, <2>4
<1> QED
  BY <1>1 DEF Forsaken

-----------------------------------------------------------------------------
(* The steps. *)

(* A task that raises gives both locks back. *)
LEMMA Raising ==
  ASSUME MInv, NEW c \in Callers, NEW s \in Servers, step[c][s] # "none",
         lock[s] \in {c, Nobody}, Raise(c, s), UNCHANGED <<pc, target, initialized, servers>>,
         owed' \in [Servers -> Seq(Callers \cup {Stale})],
         \A r \in Servers \ {s} : owed'[r] = owed[r]
  PROVE  MInv'
<1>1. /\ step' \in [Callers -> [Servers -> Steps]] /\ step'[c][s] = "error"
      /\ \A d \in Callers, r \in Servers : d # c \/ r # s => step'[d][r] = step[d][r]
  BY GotoOne DEF Raise, MInv, Steps
<1>2. /\ lock' \in [Servers -> Callers \cup {Nobody}] /\ lock'[s] = Nobody
      /\ \A r \in Servers \ {s} : lock'[r] = lock[r]
  BY DEF Raise, MInv, Types
<1>3. /\ greeter' \in [Servers -> Callers \cup {Nobody}]
      /\ \A r \in Servers : greeter[r] # c => greeter'[r] = greeter[r]
      /\ \A r \in Servers : r # s => greeter'[r] = greeter[r]
  BY DEF Raise, MInv, Types
<1>4. Types'
  BY <1>1, <1>2, <1>3 DEF MInv, Types, servers
<1>5. TasksFollowCaller'
  <2>1. \A d \in Callers, r \in Servers : step[d][r] = "none" => step'[d][r] = "none"
    BY <1>1
  <2> QED
    BY <2>1 DEF MInv, TasksFollowCaller
<1>6. Handshake'
  <2>1. \A d \in Callers, r \in Servers : step'[d][r] = step[d][r] \/ step'[d][r] = "error"
    BY <1>1
  <2>2. \A d \in Callers, r \in Servers :
           step'[d][r] \in {"initialize", "notify"} => greeter'[r] = greeter[r]
    <3> TAKE d \in Callers, r \in Servers
    <3>1. CASE r # s
      BY <1>3, <3>1
    <3>2. CASE r = s /\ d # c
      BY <1>1, <1>3, <3>2 DEF MInv, Handshake
    <3>3. CASE r = s /\ d = c
      BY <1>1, <3>3
    <3> QED
      BY <3>1, <3>2, <3>3
  <2> QED
    BY <2>1, <2>2 DEF MInv, Handshake, Toolwork
<1>7. Heard'
  <2>1. \A d \in Callers, r \in Servers : step'[d][r] = step[d][r] \/ step'[d][r] = "error"
    BY <1>1
  <2>2. \A r \in Servers : lock'[r] = lock[r] \/ lock'[r] = Nobody
    BY <1>2
  <2>3. \A d \in Callers : d # Nobody
    BY McpShape
  <2> QED
    BY <2>1, <2>2, <2>3 DEF MInv, Heard, servers
<1>8. LockIsServed'
  BY <1>1, <1>2, McpShape DEF MInv, LockIsServed, servers
<1> QED
  BY <1>4, <1>5, <1>6, <1>7, <1>8 DEF MInv

(* _ensure and the message it is called for. *)
LEMMA Ensuring ==
  ASSUME MInv, NEW c \in Callers, NEW s \in Servers, NEW answers \in Seq(Callers \cup {Stale}),
         Ensure(s, Greeting(c, s), answers)
  PROVE  /\ process' \in [Servers -> {"none", "up", "ended", "reaped"}]
         /\ hello' \in [Servers -> {"new", "asked", "ready"}]
         /\ respawned' \in [Servers -> BOOLEAN]
         /\ owed' \in [Servers -> Seq(Callers \cup {Stale})]
         /\ \A r \in Servers \ {s} : /\ process'[r] = process[r] /\ hello'[r] = hello[r]
                                     /\ respawned'[r] = respawned[r] /\ owed'[r] = owed[r]
         /\ process'[s] # "none"
         /\ respawned[s] => respawned'[s]
         /\ hello'[s] = Greeting(c, s)
         /\ Spawns(s) => process[s] = "none" \/ respawned'[s]
         /\ owed'[s] = (IF Spawns(s) THEN <<>> ELSE owed[s]) \o answers
<1>1. Greeting(c, s) \in {"new", "asked", "ready"}
  BY DEF Greeting, MInv, Types
<1>2. /\ process' \in [Servers -> {"none", "up", "ended", "reaped"}] /\ process'[s] # "none"
      /\ \A r \in Servers \ {s} : process'[r] = process[r]
  BY DEF Ensure, MInv, Types, Spawns
<1>3. /\ respawned' = [respawned EXCEPT ![s] = respawned[s] \/ process[s] = "reaped"]
      /\ respawned \in [Servers -> BOOLEAN] /\ respawned[s] \in BOOLEAN
  BY DEF Ensure, MInv, Types
<1>4. /\ respawned' \in [Servers -> BOOLEAN]
      /\ respawned[s] => respawned'[s]
      /\ process[s] = "reaped" => respawned'[s]
      /\ \A r \in Servers \ {s} : respawned'[r] = respawned[r]
  BY <1>3, Zenon
<1>5. /\ hello' \in [Servers -> {"new", "asked", "ready"}] /\ hello'[s] = Greeting(c, s)
      /\ \A r \in Servers \ {s} : hello'[r] = hello[r]
  BY <1>1 DEF Ensure, MInv, Types
<1>6. /\ owed'[s] = (IF Spawns(s) THEN <<>> ELSE owed[s]) \o answers
      /\ \A r \in Servers \ {s} : owed'[r] = owed[r]
      /\ owed' \in [Servers -> Seq(Callers \cup {Stale})]
  <2>1. (IF Spawns(s) THEN <<>> ELSE owed[s]) \in Seq(Callers \cup {Stale})
    BY DEF MInv, Types
  <2>2. (IF Spawns(s) THEN <<>> ELSE owed[s]) \o answers \in Seq(Callers \cup {Stale})
    BY <2>1
  <2> QED
    BY <2>2 DEF Ensure, MInv, Types
<1>7. Spawns(s) => process[s] = "none" \/ respawned'[s]
  BY <1>4 DEF Spawns
<1>8. \A r \in Servers \ {s} : /\ process'[r] = process[r] /\ hello'[r] = hello[r]
                                /\ respawned'[r] = respawned[r] /\ owed'[r] = owed[r]
  BY <1>2, <1>4, <1>5, <1>6, Zenon
<1>9. respawned[s] => respawned'[s]
  BY <1>4
<1>10. respawned' \in [Servers -> BOOLEAN]
  BY <1>4
<1> QED
  BY <1>2, <1>5, <1>6, <1>7, <1>8, <1>9, <1>10

Waiting == Requests \cup {"notify"}

(* A caller whose tasks have ended or are about to begin rearranges them. *)
LEMMA Rearranging ==
  ASSUME MInv, NEW c \in Callers, UNCHANGED <<clients, transport>>,
         \A s \in Servers : step[c][s] \notin Waiting /\ step'[c][s] \notin Waiting,
         step' \in [Callers -> [Servers -> Steps]],
         \A d \in Callers, s \in Servers : d # c => step'[d][s] = step[d][s],
         pc' \in [Callers -> {"idle", "gathering", "calling"}],
         target' \in [Callers -> Servers \cup {Nobody}],
         \A d \in Callers : d # c => pc'[d] = pc[d] /\ target'[d] = target[d],
         pc'[c] = "idle" => \A s \in Servers : step'[c][s] = "none",
         pc'[c] = "calling" => /\ target'[c] \in Servers
                               /\ \A s \in Servers \ {target'[c]} : step'[c][s] = "none"
  PROVE  MInv'
<1>1. Types'
  BY DEF MInv, Types, clients, transport, servers
<1>2. TasksFollowCaller'
  <2>1. ASSUME NEW d \in Callers, d # c
        PROVE  /\ pc'[d] = "idle" => \A s \in Servers : step'[d][s] = "none"
               /\ pc'[d] = "calling" => /\ target'[d] \in Servers
                                        /\ \A s \in Servers \ {target'[d]} : step'[d][s] = "none"
    <3>1. pc'[d] = pc[d] /\ target'[d] = target[d]
      BY <2>1
    <3>2. \A s \in Servers : step'[d][s] = step[d][s]
      BY <2>1
    <3>3. /\ pc[d] = "idle" => \A s \in Servers : step[d][s] = "none"
          /\ pc[d] = "calling" => /\ target[d] \in Servers
                                  /\ \A s \in Servers \ {target[d]} : step[d][s] = "none"
      BY DEF MInv, TasksFollowCaller
    <3> QED
      BY <3>1, <3>2, <3>3
  <2> QED
    BY <2>1 DEF TasksFollowCaller
<1>3. \A d \in Callers, s \in Servers :
         step'[d][s] = step[d][s] \/ (d = c /\ step'[d][s] \notin Waiting)
  OBVIOUS
<1>4. Handshake'
  BY <1>3 DEF MInv, Handshake, clients, Waiting, Requests, Toolwork
<1>5. Heard'
  BY <1>3 DEF MInv, Heard, clients, transport, servers, Waiting, Requests
<1>6. LockIsServed'
  BY <1>3 DEF MInv, LockIsServed, transport, servers, Waiting
<1> QED
  BY <1>1, <1>2, <1>4, <1>5, <1>6 DEF MInv

(* What call() does once the catalogue is there. *)
LEMMA Directing ==
  ASSUME MInv, NEW c \in Callers, NEW w, NEW from \in SUBSET Servers, Direct(c, w, from),
         UNCHANGED <<clients, transport>>,
         \A s \in Servers : step[c][s] \notin Waiting
  PROVE  MInv'
<1>1. CASE /\ \E s \in Owners(w, from) :
                 /\ target' = [target EXCEPT ![c] = s]
                 /\ step' = [step EXCEPT ![c] = [r \in Servers |-> IF r = s THEN "greet" ELSE "none"]]
           /\ pc' = [pc EXCEPT ![c] = "calling"]
  <2>1. PICK s \in Servers :
           /\ target' = [target EXCEPT ![c] = s]
           /\ step' = [step EXCEPT ![c] = [r \in Servers |-> IF r = s THEN "greet" ELSE "none"]]
    BY <1>1 DEF Owners
  <2>2. /\ step' \in [Callers -> [Servers -> Steps]]
        /\ \A r \in Servers : step'[c][r] = IF r = s THEN "greet" ELSE "none"
        /\ \A d \in Callers, r \in Servers : d # c => step'[d][r] = step[d][r]
    BY <2>1 DEF MInv, Types, Steps
  <2>3. /\ pc' \in [Callers -> {"idle", "gathering", "calling"}] /\ pc'[c] = "calling"
        /\ target' \in [Callers -> Servers \cup {Nobody}] /\ target'[c] = s
        /\ \A d \in Callers : d # c => pc'[d] = pc[d] /\ target'[d] = target[d]
    BY <1>1, <2>1 DEF MInv, Types
  <2>4. \A r \in Servers : step'[c][r] \notin Waiting
    BY <2>2 DEF Waiting, Requests
  <2> QED
    BY <2>2, <2>3, <2>4, Rearranging
<1>2. CASE /\ pc' = [pc EXCEPT ![c] = "idle"]
           /\ step' = AllAt(c, "none")
           /\ UNCHANGED target
  <2>1. /\ step' \in [Callers -> [Servers -> Steps]]
        /\ \A s \in Servers : step'[c][s] = "none"
        /\ \A d \in Callers, s \in Servers : d # c => step'[d][s] = step[d][s]
    BY <1>2, AllOfOne DEF MInv, Steps
  <2>2. \A r \in Servers : step'[c][r] \notin Waiting
    BY <2>1 DEF Waiting, Requests
  <2>3. /\ pc' \in [Callers -> {"idle", "gathering", "calling"}] /\ pc'[c] = "idle"
        /\ \A d \in Callers : d # c => pc'[d] = pc[d]
    BY <1>2 DEF MInv, Types
  <2> QED
    BY <1>2, <2>1, <2>2, <2>3, Rearranging DEF MInv, Types
<1> QED
  BY <1>1, <1>2 DEF Direct

(* A message that asks for an answer. *)
LEMMA Requesting ==
  ASSUME MInv, NEW c \in Callers, NEW s \in Servers, Request(c, s)
  PROVE  MInv'
<1>1. /\ step' = step /\ pc' = pc /\ target' = target
      /\ greeter' = greeter /\ initialized' = initialized
      /\ step[c][s] \in Requests
  BY DEF Request, callers, clients
<1>2. /\ lock' \in [Servers -> Callers \cup {Nobody}] /\ lock'[s] = c
      /\ \A r \in Servers \ {s} : lock'[r] = lock[r]
  BY DEF Request, MInv, Types
<1>3. <<c>> \in Seq(Callers \cup {Stale})
  OBVIOUS
<1>4. Ensure(s, Greeting(c, s), <<c>>)
  BY DEF Request
<1>5. /\ process' \in [Servers -> {"none", "up", "ended", "reaped"}]
      /\ hello' \in [Servers -> {"new", "asked", "ready"}]
      /\ respawned' \in [Servers -> BOOLEAN]
      /\ owed' \in [Servers -> Seq(Callers \cup {Stale})]
  BY <1>3, <1>4, Ensuring
<1>6. \A r \in Servers \ {s} : /\ process'[r] = process[r] /\ hello'[r] = hello[r]
                              /\ respawned'[r] = respawned[r] /\ owed'[r] = owed[r]
  BY <1>3, <1>4, Ensuring
<1>7. /\ process'[s] # "none"
      /\ respawned[s] => respawned'[s]
      /\ hello'[s] = Greeting(c, s)
      /\ Spawns(s) => process[s] = "none" \/ respawned'[s]
  BY <1>3, <1>4, Ensuring
<1>8. c \in Range(owed'[s])
  <2>1. owed'[s] = (IF Spawns(s) THEN <<>> ELSE owed[s]) \o <<c>>
    BY <1>3, <1>4, Ensuring
  <2>2. owed[s] \in Seq(Callers \cup {Stale}) /\ <<>> \in Seq(Callers \cup {Stale})
    BY DEF MInv, Types
  <2>3. PICK q \in Seq(Callers \cup {Stale}) : owed'[s] = q \o <<c>>
    <3>1. CASE Spawns(s)
      BY <2>1, <2>2, <3>1
    <3>2. CASE ~Spawns(s)
      BY <2>1, <2>2, <3>2
    <3> QED
      BY <3>1, <3>2
  <2>4. q \o <<c>> = Append(q, c)
    BY <2>3
  <2>5. c \in Callers \cup {Stale}
    OBVIOUS
  <2>6. Range(Append(q, c)) = Range(q) \cup {c}
    BY <2>5, OwedFacts
  <2> QED
    BY <2>3, <2>4, <2>6
<1>9. Types'
  BY <1>1, <1>2, <1>5 DEF MInv, Types
<1>10. TasksFollowCaller'
  BY <1>1 DEF MInv, TasksFollowCaller
<1>11. Handshake'
  BY <1>1 DEF MInv, Handshake
<1>12. Heard'
  <2>1. ASSUME initialized[s] PROVE hello'[s] = "ready" \/ respawned'[s]
    <3>1. step[c][s] \in Toolwork
      BY <1>1, <2>1 DEF MInv, Handshake, Requests, Toolwork
    <3>2. hello'[s] = IF Spawns(s) THEN "new" ELSE hello[s]
      BY <1>7, <3>1 DEF Greeting, Toolwork
    <3>3. hello[s] = "ready" \/ respawned[s]
      BY <2>1 DEF MInv, Heard
    <3>4. process[s] = "none" => hello[s] = "new"
      BY DEF MInv, Heard
    <3> QED
      BY <1>7, <3>2, <3>3, <3>4
  <2>2. ASSUME NEW d \in Callers, step[d][s] = "notify" PROVE FALSE
    BY <1>1, <2>2 DEF MInv, Handshake, Requests, Toolwork
  <2>3. ASSUME NEW d \in Callers, step[d][s] = "initialize", lock'[s] = d
        PROVE  hello'[s] = "asked"
    BY <1>2, <1>7, <2>3 DEF Greeting
  <2>4. ASSUME NEW r \in Servers
        PROVE  /\ process'[r] = "none" => hello'[r] = "new" /\ lock'[r] = Nobody
               /\ initialized[r] => hello'[r] = "ready" \/ respawned'[r]
               /\ \A d \in Callers :
                     step[d][r] = "notify" \/ (step[d][r] = "initialize" /\ lock'[r] = d)
                        => hello'[r] = "asked" \/ respawned'[r]
    <3>1. CASE r = s
      BY <1>7, <2>1, <2>2, <2>3, <3>1
    <3>2. CASE r # s
      BY <1>2, <1>6, <3>2 DEF MInv, Heard
    <3> QED
      BY <3>1, <3>2
  <2> QED
    BY <1>1, <2>4 DEF Heard
<1>13. LockIsServed'
  <2>1. ASSUME NEW r \in Servers, NEW d \in Callers, lock'[r] = d
        PROVE  /\ step[d][r] \in Requests
               /\ d \in Range(owed'[r]) \/ process'[r] \in {"ended", "reaped"}
    <3>1. CASE r = s
      BY <1>1, <1>2, <1>8, <2>1, <3>1
    <3>2. CASE r # s
      BY <1>2, <1>6, <2>1, <3>2 DEF MInv, LockIsServed
    <3> QED
      BY <3>1, <3>2
  <2> QED
    BY <1>1, <2>1 DEF LockIsServed
<1> QED
  BY <1>9, <1>10, <1>11, <1>12, <1>13 DEF MInv

(* The notification that ends a handshake. *)
LEMMA Notifying ==
  ASSUME MInv, NEW c \in Callers, NEW s \in Servers, Notify(c, s)
  PROVE  MInv'
<1>1. /\ pc' = pc /\ target' = target /\ lock' = lock
      /\ step[c][s] = "notify" /\ lock[s] = Nobody
  BY DEF Notify, callers
<1>2. /\ step' \in [Callers -> [Servers -> Steps]] /\ step'[c][s] \in Toolwork
      /\ \A d \in Callers, r \in Servers : d # c \/ r # s => step'[d][r] = step[d][r]
  <2>1. Work(c) \in Toolwork /\ Work(c) \in Steps
    BY DEF Work, Toolwork, Steps
  <2> QED
    BY <2>1, GotoOne DEF Notify, MInv
<1>3. /\ initialized' \in [Servers -> BOOLEAN] /\ initialized'[s] = TRUE
      /\ \A r \in Servers \ {s} : initialized'[r] = initialized[r]
  BY DEF Notify, MInv, Types
<1>4. /\ greeter' \in [Servers -> Callers \cup {Nobody}]
      /\ \A r \in Servers \ {s} : greeter'[r] = greeter[r]
  BY DEF Notify, MInv, Types
<1>5. <<>> \in Seq(Callers \cup {Stale}) /\ Ensure(s, Greeting(c, s), <<>>)
  BY DEF Notify
<1>6. /\ process' \in [Servers -> {"none", "up", "ended", "reaped"}]
      /\ hello' \in [Servers -> {"new", "asked", "ready"}]
      /\ respawned' \in [Servers -> BOOLEAN]
      /\ owed' \in [Servers -> Seq(Callers \cup {Stale})]
  BY <1>5, Ensuring
<1>7. \A r \in Servers \ {s} : /\ process'[r] = process[r] /\ hello'[r] = hello[r]
                              /\ respawned'[r] = respawned[r] /\ owed'[r] = owed[r]
  BY <1>5, Ensuring
<1>8. /\ process'[s] # "none"
      /\ respawned[s] => respawned'[s]
      /\ hello'[s] = Greeting(c, s)
      /\ Spawns(s) => process[s] = "none" \/ respawned'[s]
  BY <1>5, Ensuring
<1>9. /\ greeter[s] = c /\ ~initialized[s]
      /\ \A d \in Callers : d # c => step[d][s] \notin {"initialize", "notify"}
  BY <1>1 DEF MInv, Handshake
<1>10. Types'
  BY <1>1, <1>2, <1>3, <1>4, <1>6 DEF MInv, Types
<1>11. TasksFollowCaller'
  <2>1. \A d \in Callers, r \in Servers : step[d][r] = "none" => step'[d][r] = "none"
    BY <1>1, <1>2
  <2> QED
    BY <1>1, <2>1 DEF MInv, TasksFollowCaller
<1>12. \A d \in Callers : step'[d][s] \notin {"initialize", "notify"}
  BY <1>2, <1>9 DEF Toolwork
<1>13. Handshake'
  <2>1. ASSUME NEW d \in Callers, NEW r \in Servers
        PROVE  /\ step'[d][r] \in {"initialize", "notify"} => greeter'[r] = d /\ ~initialized'[r]
               /\ step'[d][r] \in Toolwork => initialized'[r]
    <3>1. CASE r = s
      BY <1>3, <1>12, <3>1
    <3>2. CASE r # s
      BY <1>2, <1>3, <1>4, <3>2 DEF MInv, Handshake
    <3> QED
      BY <3>1, <3>2
  <2> QED
    BY <2>1 DEF Handshake
<1>14. Heard'
  <2>1. hello'[s] = "ready" \/ respawned'[s]
    <3>1. hello[s] = "asked" \/ respawned[s]
      BY <1>1 DEF MInv, Heard
    <3>2. process[s] = "none" => hello[s] = "new"
      BY DEF MInv, Heard
    <3>3. ~Spawns(s) /\ hello[s] = "asked" => hello'[s] = "ready"
      BY <1>1, <1>8 DEF Greeting
    <3> QED
      BY <1>8, <3>1, <3>2, <3>3
  <2>2. ASSUME NEW r \in Servers
        PROVE  /\ process'[r] = "none" => hello'[r] = "new" /\ lock'[r] = Nobody
               /\ initialized'[r] => hello'[r] = "ready" \/ respawned'[r]
               /\ \A d \in Callers :
                     step'[d][r] = "notify" \/ (step'[d][r] = "initialize" /\ lock'[r] = d)
                        => hello'[r] = "asked" \/ respawned'[r]
    <3>1. CASE r = s
      BY <1>8, <1>12, <2>1, <3>1
    <3>2. CASE r # s
      BY <1>1, <1>2, <1>3, <1>7, <3>2 DEF MInv, Heard
    <3> QED
      BY <3>1, <3>2
  <2> QED
    BY <2>2 DEF Heard
<1>15. LockIsServed'
  <2>1. ASSUME NEW r \in Servers, NEW d \in Callers, lock[r] = d
        PROVE  /\ step'[d][r] \in Requests
               /\ d \in Range(owed'[r]) \/ process'[r] \in {"ended", "reaped"}
    <3>1. r # s
      BY <1>1, <2>1, McpShape
    <3> QED
      BY <1>2, <1>7, <2>1, <3>1 DEF MInv, LockIsServed
  <2> QED
    BY <1>1, <2>1 DEF LockIsServed
<1> QED
  BY <1>10, <1>11, <1>13, <1>14, <1>15 DEF MInv

(* The check and the lock of the handshake. *)
LEMMA GreetingStep ==
  ASSUME MInv, NEW c \in Callers, NEW s \in Servers, Greet(c, s)
  PROVE  MInv'
<1>1. /\ pc' = pc /\ target' = target /\ initialized' = initialized /\ lock' = lock
      /\ process' = process /\ hello' = hello /\ respawned' = respawned /\ owed' = owed
      /\ step[c][s] = "greet" /\ greeter[s] = Nobody
  BY DEF Greet, callers, transport, servers
<1>2. PICK place \in Toolwork \cup {"initialize"} :
         /\ Goto(c, s, place)
         /\ IF place = "initialize" THEN ~initialized[s] /\ greeter' = [greeter EXCEPT ![s] = c]
            ELSE initialized[s] /\ greeter' = greeter
  BY DEF Greet, Work, Toolwork
<1>3. /\ step' \in [Callers -> [Servers -> Steps]] /\ step'[c][s] = place
      /\ \A d \in Callers, r \in Servers : d # c \/ r # s => step'[d][r] = step[d][r]
  <2>1. place \in Steps
    BY DEF Toolwork, Steps
  <2> QED
    BY <1>2, <2>1, GotoOne DEF MInv
<1>4. /\ greeter' \in [Servers -> Callers \cup {Nobody}]
      /\ \A r \in Servers \ {s} : greeter'[r] = greeter[r]
      /\ place = "initialize" => greeter'[s] = c
  BY <1>2 DEF MInv, Types
<1>5. lock[s] # c
  BY <1>1 DEF MInv, LockIsServed, Requests
<1>6. \A d \in Callers : step[d][s] \notin {"initialize", "notify"}
  BY <1>1, McpShape DEF MInv, Handshake
<1>7. Types'
  BY <1>1, <1>3, <1>4 DEF MInv, Types
<1>8. TasksFollowCaller'
  <2>1. \A d \in Callers, r \in Servers : step[d][r] = "none" => step'[d][r] = "none"
    BY <1>1, <1>3
  <2> QED
    BY <1>1, <2>1 DEF MInv, TasksFollowCaller
<1>9. Handshake'
  <2>1. ASSUME NEW d \in Callers, NEW r \in Servers
        PROVE  /\ step'[d][r] \in {"initialize", "notify"} => greeter'[r] = d /\ ~initialized'[r]
               /\ step'[d][r] \in Toolwork => initialized'[r]
    <3>1. CASE r = s /\ d = c
      BY <1>1, <1>2, <1>3, <1>4, <3>1 DEF Toolwork
    <3>2. CASE r = s /\ d # c
      BY <1>1, <1>3, <1>6, <3>2 DEF MInv, Handshake
    <3>3. CASE r # s
      BY <1>1, <1>3, <1>4, <3>3 DEF MInv, Handshake
    <3> QED
      BY <3>1, <3>2, <3>3
  <2> QED
    BY <2>1 DEF Handshake
<1>10. Heard'
  <2>1. \A d \in Callers, r \in Servers :
           \/ step'[d][r] = step[d][r]
           \/ step'[d][r] # "notify" /\ lock'[r] # d
    BY <1>1, <1>2, <1>3, <1>5 DEF Toolwork
  <2> QED
    BY <1>1, <2>1 DEF MInv, Heard
<1>11. LockIsServed'
  <2>1. \A d \in Callers, r \in Servers : step'[d][r] = step[d][r] \/ lock'[r] # d
    BY <1>1, <1>3, <1>5
  <2> QED
    BY <1>1, <2>1 DEF MInv, LockIsServed
<1> QED
  BY <1>7, <1>8, <1>9, <1>10, <1>11 DEF MInv

(* An answer, or another request's. *)
LEMMA Answering ==
  ASSUME MInv, NEW c \in Callers, NEW s \in Servers, Answered(c, s) \/ Skip(c, s)
  PROVE  MInv'
<1>1. /\ pc' = pc /\ target' = target /\ initialized' = initialized
      /\ process' = process /\ hello' = hello /\ respawned' = respawned
      /\ lock[s] = c /\ owed[s] # <<>>
      /\ owed' = [owed EXCEPT ![s] = Tail(owed[s])]
  BY DEF Answered, Skip, callers, clients, servers
<1>2. step[c][s] \in Requests
  BY <1>1 DEF MInv, LockIsServed
<1>3. owed[s] \in Seq(Callers \cup {Stale})
  BY DEF MInv, Types
<1>4. /\ Tail(owed[s]) \in Seq(Callers \cup {Stale})
      /\ \A x \in Range(owed[s]) : x = Head(owed[s]) \/ x \in Range(Tail(owed[s]))
  BY <1>1, <1>3, OwedFacts
<1>5. /\ owed' \in [Servers -> Seq(Callers \cup {Stale})] /\ owed'[s] = Tail(owed[s])
      /\ \A r \in Servers \ {s} : owed'[r] = owed[r]
  BY <1>1, <1>4 DEF MInv, Types
<1>6. CASE Skip(c, s)
  <2>1. step' = step /\ greeter' = greeter /\ lock' = lock /\ Head(owed[s]) = Stale
    BY <1>6 DEF Skip, clients
  <2>2. Types'
    BY <1>1, <1>5, <2>1 DEF MInv, Types
  <2>3. TasksFollowCaller' /\ Handshake' /\ Heard'
    BY <1>1, <2>1 DEF MInv, TasksFollowCaller, Handshake, Heard
  <2>4. ASSUME NEW r \in Servers, NEW d \in Callers, lock[r] = d
        PROVE  /\ step[d][r] \in Requests
               /\ d \in Range(owed'[r]) \/ process[r] \in {"ended", "reaped"}
    <3>1. CASE r = s
      BY <1>2, <1>4, <1>5, <2>1, <2>4, <3>1, McpShape DEF MInv, LockIsServed
    <3>2. CASE r # s
      BY <1>5, <2>4, <3>2 DEF MInv, LockIsServed
    <3> QED
      BY <3>1, <3>2
  <2>5. LockIsServed'
    BY <1>1, <2>1, <2>4 DEF LockIsServed
  <2> QED
    BY <2>2, <2>3, <2>5 DEF MInv
<1>7. CASE Answered(c, s) /\ Raise(c, s)
  <2>1. UNCHANGED <<pc, target, initialized, servers>>
    BY <1>1 DEF servers
  <2>2. step[c][s] # "none" /\ lock[s] \in {c, Nobody}
    BY <1>1, <1>2 DEF Requests
  <2> QED
    BY <1>5, <1>7, <2>1, <2>2, Raising
<1>8. CASE /\ lock' = [lock EXCEPT ![s] = Nobody]
           /\ Goto(c, s, IF step[c][s] = "initialize" THEN "notify" ELSE "ok")
           /\ greeter' = greeter
  <2>1. PICK place \in {"notify", "ok"} :
           Goto(c, s, place) /\ (place = "notify" => step[c][s] = "initialize")
    BY <1>8
  <2>2. /\ step' \in [Callers -> [Servers -> Steps]] /\ step'[c][s] = place
        /\ \A d \in Callers, r \in Servers : d # c \/ r # s => step'[d][r] = step[d][r]
    <3>1. place \in Steps
      BY DEF Steps
    <3> QED
      BY <2>1, <3>1, GotoOne DEF MInv
  <2>3. /\ lock' \in [Servers -> Callers \cup {Nobody}] /\ lock'[s] = Nobody
        /\ \A r \in Servers \ {s} : lock'[r] = lock[r]
    BY <1>8 DEF MInv, Types
  <2>4. Types'
    BY <1>1, <1>5, <1>8, <2>2, <2>3 DEF MInv, Types
  <2>5. TasksFollowCaller'
    <3>1. \A d \in Callers, r \in Servers : step[d][r] = "none" => step'[d][r] = "none"
      BY <1>2, <2>2 DEF Requests
    <3> QED
      BY <1>1, <3>1 DEF MInv, TasksFollowCaller
  <2>6. \A d \in Callers, r \in Servers :
           \/ step'[d][r] = step[d][r]
           \/ d = c /\ r = s /\ step'[d][r] = "ok"
           \/ d = c /\ r = s /\ step'[d][r] = "notify" /\ step[d][r] = "initialize" /\ lock[r] = d
    BY <1>1, <2>1, <2>2
  <2>7. Handshake'
    BY <1>1, <1>8, <2>6 DEF MInv, Handshake, Toolwork
  <2>8. Heard'
    <3>1. \A r \in Servers : lock'[r] = lock[r] \/ lock'[r] = Nobody
      BY <2>3
    <3>2. \A d \in Callers : d # Nobody
      BY McpShape
    <3> QED
      BY <1>1, <2>6, <3>1, <3>2 DEF MInv, Heard
  <2>9. ASSUME NEW r \in Servers, NEW d \in Callers, lock'[r] = d
        PROVE  /\ step'[d][r] \in Requests
               /\ d \in Range(owed'[r]) \/ process[r] \in {"ended", "reaped"}
    <3>1. r # s
      BY <2>3, <2>9, McpShape
    <3> QED
      BY <1>5, <2>2, <2>3, <2>9, <3>1 DEF MInv, LockIsServed
  <2>10. LockIsServed'
    BY <1>1, <2>9 DEF LockIsServed
  <2> QED
    BY <2>4, <2>5, <2>7, <2>8, <2>10 DEF MInv
<1> QED
  BY <1>6, <1>7, <1>8 DEF Answered

(* A caller that gives up leaves its locks. *)
LEMMA Cancelling ==
  ASSUME MInv, NEW c \in Callers, Cancel(c)
  PROVE  MInv'
<1>1. /\ target' = target /\ initialized' = initialized
      /\ process' = process /\ hello' = hello /\ respawned' = respawned
      /\ owed' = Forsaken(c)
  BY DEF Cancel, servers
<1>2. /\ pc' \in [Callers -> {"idle", "gathering", "calling"}]
      /\ \A d \in Callers : d # c => pc'[d] = pc[d]
  BY DEF Cancel, MInv, Types
<1>3. /\ step' \in [Callers -> [Servers -> Steps]]
      /\ \A s \in Servers : step'[c][s] = "none"
      /\ \A d \in Callers, s \in Servers : d # c => step'[d][s] = step[d][s]
  BY AllOfOne DEF Cancel, MInv, Steps
<1>4. /\ greeter' \in [Servers -> Callers \cup {Nobody}]
      /\ \A s \in Servers : greeter[s] # c => greeter'[s] = greeter[s]
  BY DEF Cancel, Free, MInv, Types
<1>5. /\ lock' \in [Servers -> Callers \cup {Nobody}]
      /\ \A s \in Servers : lock'[s] # c /\ (lock'[s] = lock[s] \/ lock'[s] = Nobody)
  BY McpShape DEF Cancel, Free, MInv, Types
<1>6. /\ Forsaken(c) \in [Servers -> Seq(Callers \cup {Stale})]
      /\ \A s \in Servers, d \in Callers :
            d # c /\ d \in Range(owed[s]) => d \in Range(Forsaken(c)[s])
  BY ForsakenFacts DEF MInv
<1>7. Types'
  BY <1>1, <1>2, <1>3, <1>4, <1>5, <1>6 DEF MInv, Types
<1>8. TasksFollowCaller'
  <2>1. pc'[c] = "idle"
    BY DEF Cancel, MInv, Types
  <2>2. \A d \in Callers : d # c => /\ pc'[d] = pc[d]
                                   /\ \A s \in Servers : step'[d][s] = step[d][s]
    BY <1>2, <1>3
  <2> QED
    BY <1>1, <1>3, <2>1, <2>2 DEF MInv, TasksFollowCaller
<1>9. \A d \in Callers, s \in Servers :
         step'[d][s] = "none" \/ (d # c /\ step'[d][s] = step[d][s])
  BY <1>3
<1>10. Handshake'
  BY <1>1, <1>4, <1>9 DEF MInv, Handshake, Toolwork
<1>11. Heard'
  BY <1>1, <1>5, <1>9, McpShape DEF MInv, Heard
<1>12. ASSUME NEW s \in Servers, NEW d \in Callers, lock'[s] = d
       PROVE  /\ step'[d][s] \in Requests
              /\ d \in Range(owed'[s]) \/ process[s] \in {"ended", "reaped"}
  <2>1. lock[s] = d /\ d # c
    BY <1>5, <1>12, McpShape
  <2> QED
    BY <1>1, <1>3, <1>6, <2>1 DEF MInv, LockIsServed
<1>13. LockIsServed'
  BY <1>1, <1>12 DEF LockIsServed
<1> QED
  BY <1>7, <1>8, <1>10, <1>11, <1>13 DEF MInv

(* A process ends, and asyncio notices. *)
LEMMA Ending ==
  ASSUME MInv, NEW s \in Servers, ProcessEnds(s) \/ Reap(s)
  PROVE  MInv'
<1>1. /\ step' = step /\ pc' = pc /\ target' = target
      /\ greeter' = greeter /\ initialized' = initialized /\ lock' = lock
      /\ hello' = hello /\ respawned' = respawned /\ owed' = owed
  BY DEF ProcessEnds, Reap, callers, clients
<1>2. /\ process' \in [Servers -> {"none", "up", "ended", "reaped"}]
      /\ process'[s] \in {"ended", "reaped"}
      /\ \A r \in Servers \ {s} : process'[r] = process[r]
  BY DEF ProcessEnds, Reap, MInv, Types
<1>3. Types'
  BY <1>1, <1>2 DEF MInv, Types
<1>4. \A r \in Servers : process'[r] = process[r] \/ process'[r] \in {"ended", "reaped"}
  BY <1>2
<1>5. TasksFollowCaller' /\ Handshake'
  BY <1>1 DEF MInv, TasksFollowCaller, Handshake
<1>6. Heard'
  BY <1>1, <1>4 DEF MInv, Heard
<1>7. LockIsServed'
  BY <1>1, <1>4 DEF MInv, LockIsServed
<1> QED
  BY <1>3, <1>5, <1>6, <1>7 DEF MInv

(* The caller's own steps: a call, the end of discovery, the result. *)
LEMMA Calling ==
  ASSUME MInv, listed \in SUBSET Servers, NEW c \in Callers,
         Call(c) \/ Gathered(c) \/ Return(c)
  PROVE  MInv' /\ listed' \in SUBSET Servers
<1>1. UNCHANGED <<clients, transport>>
  BY DEF Call, Gathered, Return
<1>2. CASE Call(c)
  <2>1. pc[c] = "idle" /\ listed' = listed
    BY <1>2 DEF Call, gateway
  <2>2. \A s \in Servers : step[c][s] \notin Waiting
    BY <2>1 DEF MInv, TasksFollowCaller, Waiting, Requests
  <2>3. PICK w : \/ Direct(c, w, listed)
                 \/ /\ pc' = [pc EXCEPT ![c] = "gathering"]
                    /\ step' = AllAt(c, "greet")
                    /\ UNCHANGED target
    BY <1>2 DEF Call
  <2>4. CASE Direct(c, w, listed)
    BY <1>1, <2>1, <2>2, <2>4, Directing
  <2>5. CASE /\ pc' = [pc EXCEPT ![c] = "gathering"]
             /\ step' = AllAt(c, "greet")
             /\ UNCHANGED target
    <3>1. /\ step' \in [Callers -> [Servers -> Steps]]
          /\ \A s \in Servers : step'[c][s] = "greet"
          /\ \A d \in Callers, s \in Servers : d # c => step'[d][s] = step[d][s]
      BY <2>5, AllOfOne DEF MInv, Steps
    <3>2. /\ pc' \in [Callers -> {"idle", "gathering", "calling"}] /\ pc'[c] = "gathering"
          /\ \A d \in Callers : d # c => pc'[d] = pc[d]
      BY <2>5 DEF MInv, Types
    <3>3. \A s \in Servers : step'[c][s] \notin Waiting
      BY <3>1 DEF Waiting, Requests
    <3>4. MInv'
      BY <1>1, <2>2, <2>5, <3>1, <3>2, <3>3, Rearranging DEF MInv, Types
    <3> QED
      BY <2>1, <3>4
  <2> QED
    BY <2>3, <2>4, <2>5
<1>3. CASE Gathered(c)
  <2>1. \A s \in Servers : step[c][s] \notin Waiting
    BY <1>3 DEF Gathered, Ended, Waiting, Requests
  <2>2. PICK from \in SUBSET Servers :
           \/ /\ pc' = [pc EXCEPT ![c] = "idle"]
              /\ step' = AllAt(c, "none")
              /\ UNCHANGED <<target, listed>>
           \/ Direct(c, want[c], from) /\ listed' = from
    <3>1. {s \in Servers : step[c][s] = "ok"} \in SUBSET Servers
      OBVIOUS
    <3> QED
      BY <1>3, <3>1 DEF Gathered, gateway
  <2>3. CASE /\ pc' = [pc EXCEPT ![c] = "idle"]
             /\ step' = AllAt(c, "none")
             /\ UNCHANGED <<target, listed>>
    <3>1. /\ step' \in [Callers -> [Servers -> Steps]]
          /\ \A s \in Servers : step'[c][s] = "none"
          /\ \A d \in Callers, s \in Servers : d # c => step'[d][s] = step[d][s]
      BY <2>3, AllOfOne DEF MInv, Steps
    <3>2. /\ pc' \in [Callers -> {"idle", "gathering", "calling"}] /\ pc'[c] = "idle"
          /\ \A d \in Callers : d # c => pc'[d] = pc[d]
      BY <2>3 DEF MInv, Types
    <3>3. \A s \in Servers : step'[c][s] \notin Waiting
      BY <3>1 DEF Waiting, Requests
    <3>4. MInv'
      BY <1>1, <2>1, <2>3, <3>1, <3>2, <3>3, Rearranging DEF MInv, Types
    <3> QED
      BY <2>3, <3>4
  <2>4. CASE Direct(c, want[c], from) /\ listed' = from
    BY <1>1, <2>1, <2>4, Directing
  <2> QED
    BY <2>2, <2>3, <2>4
<1>4. CASE Return(c)
  <2>1. /\ pc[c] = "calling" /\ step[c][target[c]] \in Ended /\ target' = target
        /\ listed' = listed /\ target[c] \in Servers
        /\ \A s \in Servers \ {target[c]} : step[c][s] = "none"
    BY <1>4 DEF Return, gateway, MInv, TasksFollowCaller
  <2>2. /\ step' \in [Callers -> [Servers -> Steps]]
        /\ \A s \in Servers : step'[c][s] = "none"
        /\ \A d \in Callers, s \in Servers : d # c => step'[d][s] = step[d][s]
    BY <1>4, <2>1 DEF Return, MInv, Types, Steps
  <2>3. /\ pc' \in [Callers -> {"idle", "gathering", "calling"}] /\ pc'[c] = "idle"
        /\ \A d \in Callers : d # c => pc'[d] = pc[d]
    BY <1>4 DEF Return, MInv, Types
  <2>4. \A s \in Servers : step[c][s] \notin Waiting /\ step'[c][s] \notin Waiting
    BY <2>1, <2>2 DEF Ended, Waiting, Requests
  <2>5. MInv'
    BY <1>1, <2>1, <2>2, <2>3, <2>4, Rearranging DEF MInv, Types
  <2> QED
    BY <2>1, <2>5
<1> QED
  BY <1>2, <1>3, <1>4

(* A message that cannot be written, or will not be answered. *)
LEMMA Breaking ==
  ASSUME MInv, NEW c \in Callers, NEW s \in Servers, BrokenPipe(c, s) \/ EndOfOutput(c, s)
  PROVE  MInv'
<1>1. UNCHANGED <<pc, target, initialized, servers>> /\ Raise(c, s)
  BY DEF BrokenPipe, EndOfOutput, callers
<1>2. step[c][s] # "none" /\ lock[s] \in {c, Nobody}
  <2>1. CASE BrokenPipe(c, s)
    BY <2>1 DEF BrokenPipe, Requests
  <2>2. CASE EndOfOutput(c, s)
    BY <2>2 DEF EndOfOutput, MInv, LockIsServed, Requests
  <2> QED
    BY <2>1, <2>2
<1>3. /\ owed' \in [Servers -> Seq(Callers \cup {Stale})]
      /\ \A r \in Servers \ {s} : owed'[r] = owed[r]
  <2>1. <<>> \in Seq(Callers \cup {Stale})
    OBVIOUS
  <2> QED
    BY <2>1 DEF BrokenPipe, EndOfOutput, MInv, Types
<1> QED
  BY <1>1, <1>2, <1>3, Raising

(* No step leaves the invariant. *)
LEMMA McpStep ==
  ASSUME MInv, listed \in SUBSET Servers, [Next]_vars
  PROVE  MInv' /\ listed' \in SUBSET Servers
<1>1. ASSUME NEW c \in Callers, NEW s \in Servers, TaskStep(c, s)
      PROVE  MInv' /\ listed' = listed
  <2>1. listed' = listed
    BY <1>1 DEF TaskStep, Greet, Request, Notify, BrokenPipe, Answered, Skip, EndOfOutput, gateway
  <2> QED
    BY <1>1, <2>1, GreetingStep, Requesting, Notifying, Answering, Breaking DEF TaskStep
<1>2. ASSUME NEW c \in Callers, Call(c) \/ Gathered(c) \/ Return(c)
      PROVE  MInv' /\ listed' \in SUBSET Servers
  BY <1>2, Calling
<1>3. ASSUME NEW c \in Callers, Cancel(c)
      PROVE  MInv' /\ listed' = listed
  BY <1>3, Cancelling DEF Cancel, gateway
<1>4. ASSUME NEW s \in Servers, ProcessEnds(s) \/ Reap(s)
      PROVE  MInv' /\ listed' = listed
  BY <1>4, Ending DEF ProcessEnds, Reap, gateway
<1>5. CASE UNCHANGED vars
  <2>1. /\ step' = step /\ pc' = pc /\ target' = target /\ listed' = listed
        /\ greeter' = greeter /\ initialized' = initialized /\ lock' = lock
        /\ process' = process /\ hello' = hello /\ respawned' = respawned /\ owed' = owed
    BY <1>5 DEF vars, callers, gateway, clients, transport, servers
  <2>2. Types'
    BY <2>1 DEF MInv, Types
  <2>3. TasksFollowCaller' /\ Handshake'
    BY <2>1 DEF MInv, TasksFollowCaller, Handshake
  <2>4. Heard' /\ LockIsServed'
    BY <2>1 DEF MInv, Heard, LockIsServed
  <2> QED
    BY <2>1, <2>2, <2>3, <2>4 DEF MInv
<1> QED
  BY <1>1, <1>2, <1>3, <1>4, <1>5 DEF Next, Done

(* Nothing has begun. *)
LEMMA McpInit == Init => MInv /\ listed \in SUBSET Servers
<1> SUFFICES ASSUME Init PROVE MInv /\ listed \in SUBSET Servers
  OBVIOUS
<1>1. Types
  BY DEF Init, Types, Steps
<1>2. TasksFollowCaller /\ Handshake
  BY DEF Init, TasksFollowCaller, Handshake, Toolwork
<1>3. Heard
  BY DEF Init, Heard
<1>4. LockIsServed
  BY McpShape DEF Init, LockIsServed
<1> QED
  BY <1>1, <1>2, <1>3, <1>4 DEF MInv, Init

(* The invariant holds for any callers, servers, tools and faults. *)
THEOREM McpInvariance == Spec => []MInv
<1>1. MInv /\ listed \in SUBSET Servers /\ [Next]_vars => (MInv /\ listed \in SUBSET Servers)'
  BY McpStep
<1> QED
  BY <1>1, McpInit, PTL DEF Spec

-----------------------------------------------------------------------------
(* _handshake_lock and the second look at _initialized let one task greet  *)
(* a server at a time, whoever is cancelled, and nobody once it is done.   *)
THEOREM ServersAreGreetedOnce == Spec => []OneHandshake
<1>1. ASSUME MInv PROVE OneHandshake
  <2>1. ASSUME NEW s \in Servers PROVE Cardinality(Greeting1(s)) <= 1
    <3>1. \A c \in Greeting1(s) : c = greeter[s]
      BY <1>1 DEF MInv, Handshake, Greeting1
    <3>2. CASE Greeting1(s) = {}
      BY <3>2, FS_EmptySet
    <3>3. CASE Greeting1(s) # {}
      <4>1. Greeting1(s) = {greeter[s]}
        BY <3>1, <3>3
      <4>2. Cardinality({greeter[s]}) = 1
        BY FS_Singleton
      <4> QED
        BY <4>1, <4>2
    <3> QED
      BY <3>2, <3>3
  <2>2. ASSUME NEW s \in Servers, initialized[s] PROVE Greeting1(s) = {}
    BY <1>1, <2>2 DEF MInv, Handshake, Greeting1
  <2> QED
    BY <2>1, <2>2 DEF OneHandshake
<1> QED
  BY <1>1, McpInvariance, PTL

(* A list or a call never reaches the process a client started until that  *)
(* process was greeted: only one that took its place can be met unprepared.*)
THEOREM WorkFollowsGreeting == Spec => []GreetedBeforeWork
<1>1. ASSUME MInv PROVE GreetedBeforeWork
  BY <1>1 DEF MInv, Handshake, Heard, GreetedBeforeWork
<1> QED
  BY <1>1, McpInvariance, PTL

(* No task holds a transport's lock with nothing left to read: an answer   *)
(* given up is skipped by the next, and the lock is left on every path.    *)
THEOREM LocksAreServed == Spec => []LockIsServed
<1>1. MInv => LockIsServed
  BY DEF MInv
<1> QED
  BY <1>1, McpInvariance, PTL
=============================================================================
