------------------------------- MODULE MCPool -------------------------------
(***************************************************************************)
(* Three tasks over one origin.  Streams give back what commands do, and   *)
(* more, so three streams stand for both.                                  *)
(***************************************************************************)
EXTENDS Pool

CONSTANTS a, b, d

Streams  == [c \in {a, b, d} |-> "stream"]
Requests == [c \in {a, b, d} |-> "request"]

(* acquire serves a waiting caller: the callers are alike, one is enough.  *)
CallerIsServed == IsServed(a)
=============================================================================
