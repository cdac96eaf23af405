-------------------------- MODULE MCSPMCUnbounded --------------------------
(* SPMCUnbounded on small sets of threads, for TLC. *)
EXTENDS SPMCUnbounded, TLC

CONSTANTS w, c1, c2

Twins == Permutations(Consumers)
Ids   == Nat
=============================================================================
