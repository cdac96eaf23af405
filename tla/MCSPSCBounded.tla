--------------------------- MODULE MCSPSCBounded ---------------------------
(* SPSCBounded on small sets, for TLC. *)
EXTENDS SPSCBounded, TLC

CONSTANTS a, b

Twins == Permutations(Values)
=============================================================================
