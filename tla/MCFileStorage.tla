--------------------------- MODULE MCFileStorage ---------------------------
\* Two goroutines share a FileStorage; a third uses another one.
EXTENDS FileStorage, TLC

CONSTANTS w1, w2, w3, h1, h2

MCHandleOf == [w \in Workers |-> IF w = w3 THEN h2 ELSE h1]
Symmetry == Permutations({w1, w2})
=============================================================================
