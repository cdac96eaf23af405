-------------------------- MODULE MCSPSCUnbounded --------------------------
(* SPSCUnbounded with its two threads, for TLC. *)
EXTENDS SPSCUnbounded, TLC

CONSTANTS p, c
=============================================================================
