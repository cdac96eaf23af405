--------------------------- MODULE MCSPMCBounded ---------------------------
(* SPMCBounded on small sets of threads, for TLC. *)
EXTENDS SPMCBounded, TLC

CONSTANTS w, c1, c2

Twins == Permutations(Consumers)
=============================================================================
