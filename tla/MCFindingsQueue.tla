-------------------------- MODULE MCFindingsQueue --------------------------
(* Constants with which TLC checks FindingsQueue. *)
EXTENDS FindingsQueue, TLC

CONSTANTS c1, c2, d1, d2, a1, a2

ProducerSymmetry ==
  Permutations(Checkers) \cup Permutations(Diverters) \cup Permutations(Auditors)
=============================================================================
