-------------------------- MODULE MPMCEmptyAnswer --------------------------
(* MPMCBounded with a history variable, for what "Empty" says of the time    *)
(* between a pop's call and its return.                                      *)
EXTENDS MPMCBounded, TLC

CONSTANTS p1, p2, c1, a

VARIABLE
    heldSince       \* history: has a pushed value been there ever since c's operation began?

(* A push has returned, and its value has not been claimed by a pop.         *)
HoldsPushedValue == \E t \in head .. tail - 1 : state[Slot(t)] = OccupiedMark(t)

HistoryInit == Init /\ heldSince = [c \in Consumers |-> FALSE]

HistoryNext ==
    /\ Next
    /\ heldSince' = [c \in Consumers |->
                        (pc[c] = "idle" \/ heldSince[c]) /\ HoldsPushedValue']

HistorySpec == HistoryInit /\ [][HistoryNext]_<<vars, heldSince>>

(* "The queue was empty" says lock_free_errors.rs of the answer Empty: at    *)
(* some moment of the pop that answers it, no value whose push had returned  *)
(* was waiting.                                                              *)
EmptyWasTrue ==
    [][\A c \in Consumers : ReportsEmpty(c) => ~heldSince[c]]_<<vars, heldSince>>
=============================================================================
