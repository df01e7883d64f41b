--------------------------- MODULE MCEventStream ----------------------------
(***************************************************************************)
(* Instances of EventStream for TLC, the first three read to the end if    *)
(* nobody leaves: a bounded queue that a wave of three overruns; a queue   *)
(* of one, where a node with something to tell from inside its run times   *)
(* out in the line; an unbounded queue whose consumer may leave at any     *)
(* time, with a sink that suspends and may raise; a bounded one that is    *)
(* left.  Every node emits a first and a last event; one that is given     *)
(* none is not there.                                                      *)
(***************************************************************************)
EXTENDS EventStream

Teller == CHOOSE e \in Emitters : TRUE
Absent == CHOOSE e \in Emitters \ {Teller} : TRUE
TwoEach == [e \in Emitters |-> 2]
OneTells == [e \in Emitters |-> IF e = Absent THEN 0 ELSE IF e = Teller THEN 3 ELSE 2]

Wide == [size |-> 2, events |-> TwoEach,
         limits |-> FALSE, awaits |-> FALSE, fails |-> FALSE, leaves |-> FALSE]
Narrow == [Wide EXCEPT !.size = 1, !.events = OneTells, !.limits = TRUE]
Left == [size |-> 0, events |-> OneTells,
         limits |-> TRUE, awaits |-> TRUE, fails |-> TRUE, leaves |-> TRUE]
LeftFull == [Wide EXCEPT !.leaves = TRUE]

WideNarrowOrLeft == {Wide, Narrow, Left}
OnlyLeftFull == {LeftFull}
=============================================================================
