--------------------------- MODULE MCMPMCBounded ---------------------------
(* MPMCBounded on small sets of threads, for TLC. *)
EXTENDS MPMCBounded, TLC

CONSTANTS p1, p2, c1, c2, a, b

Twins == Permutations(Producers) \union Permutations(Consumers) \union Permutations(Values)
=============================================================================
