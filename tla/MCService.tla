----------------------------- MODULE MCService -----------------------------
(***************************************************************************)
(* Service with its workers, its clients and its jobs interchangeable.     *)
(* Only invariants are checked of it.                                      *)
(***************************************************************************)
EXTENDS Service, TLC

MCSymmetry == Permutations(Workers) \cup Permutations(Clients) \cup Permutations(Jobs)
=============================================================================
