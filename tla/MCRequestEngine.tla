-------------------------- MODULE MCRequestEngine --------------------------
(* Instances of RequestEngine for TLC. *)
EXTENDS RequestEngine, TLC

CONSTANTS p1

OneProvider == [c \in Callers |-> p1]

Symmetry == Permutations(Callers) \cup Permutations(Tokens) \cup Permutations(CallIds)
=============================================================================
