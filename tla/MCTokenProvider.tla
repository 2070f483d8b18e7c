-------------------------- MODULE MCTokenProvider --------------------------
(* Instances of TokenProvider for TLC. *)
EXTENDS TokenProvider, TLC

CONSTANTS p1

OneProvider == [c \in Callers |-> p1]
=============================================================================
