------------------------------ MODULE QueueLog ------------------------------
(***************************************************************************)
(* What a bounded ring queue of parcoll promises, with no buffer in it.    *)
(*                                                                         *)
(* A push appends a batch of values to a log.  A take claims the oldest    *)
(* unclaimed entries of the log, and later hands the values of those       *)
(* entries, and of no others, to the thread that claimed them.  At most    *)
(* Capacity entries are pushed and not yet claimed.  So every pushed value *)
(* is delivered at most once, claims follow the order of the pushes, and   *)
(* the pushes never outrun the claims by more than the size of the ring.   *)
(***************************************************************************)
EXTENDS Integers, Sequences

CONSTANTS
    Batches,    \* the sequences of values one push may append
    Capacity    \* the CAPACITY of the ring

VARIABLES
    log,        \* every value pushed, oldest first
    claimed,    \* how many entries have been claimed
    delivered   \* the values handed out, by entry number (from 0)

absVars == <<log, claimed, delivered>>

Init ==
    /\ log = <<>>
    /\ claimed = 0
    /\ delivered = [n \in {} |-> n]

Push(batch) ==
    /\ Len(log) + Len(batch) - claimed <= Capacity
    /\ log' = log \o batch
    /\ UNCHANGED <<claimed, delivered>>

Claim(k) ==
    /\ claimed + k <= Len(log)
    /\ claimed' = claimed + k
    /\ UNCHANGED <<log, delivered>>

(* The claimed entries in S reach their claimers: once each, with the       *)
(* values that were pushed.                                                 *)
Deliver(S) ==
    /\ \A n \in S : n < claimed /\ n \notin DOMAIN delivered
    /\ delivered' = [n \in DOMAIN delivered \union S |->
                        IF n \in S THEN log[n + 1] ELSE delivered[n]]
    /\ UNCHANGED <<log, claimed>>

Next ==
    \/ \E batch \in Batches : Push(batch)
    \/ \E k \in 1 .. Capacity : Claim(k)
    \/ \E S \in SUBSET (0 .. claimed - 1) : Deliver(S)

Spec == Init /\ [][Next]_absVars
=============================================================================
