---------------------------- MODULE NaiveRWLock ----------------------------
(***************************************************************************)
(* naive_rw_lock.rs, and the SyncCell that sync_cell.rs makes of it: one   *)
(* value behind one counter, -1 for a writer and otherwise the number of   *)
(* readers.                                                                *)
(*                                                                         *)
(* The accesses to the counter and to the value are steps of their own.    *)
(* The value is an Arc in the code: taking it out, putting the new one in  *)
(* and copying it are separate accesses to plain memory, which only the    *)
(* lock keeps apart.                                                       *)
(***************************************************************************)
EXTENDS Integers, FiniteSets

CONSTANTS
    Threads,        \* who uses the cell
    Cells,          \* the values it may hold
    Moved           \* its contents while a writer has taken the value out

ASSUME ThreadsFinite == IsFiniteSet(Threads)
ASSUME MovedAssumption == Moved \notin Cells

VARIABLES
    state,          \* the counter
    cell,           \* the value
    lpc,            \* where each thread stands in try_with or try_store
    seen            \* the counter as a reader has loaded it

lockVars == <<state, cell, lpc, seen>>

LockInit ==
    /\ state = 0
    /\ cell \in Cells
    /\ lpc = [t \in Threads |-> "out"]
    /\ seen = [t \in Threads |-> 0]

LockGoto(t, from, to) == lpc[t] = from /\ lpc' = [lpc EXCEPT ![t] = to]
See(t, s) == seen' = [seen EXCEPT ![t] = s]

-----------------------------------------------------------------------------
(* try_read; answering None leaves nothing behind                            *)

TryRead(t) ==
    /\ state # -1
    /\ LockGoto(t, "out", "readCas")
    /\ See(t, state)
    /\ UNCHANGED <<state, cell>>

ReadIsLocked(t) ==
    /\ state = -1
    /\ lpc[t] = "out"
    /\ UNCHANGED lockVars

(* mutant: the counter is added to without being compared                    *)
ReadCasBlind(t) ==
    /\ LockGoto(t, "readCas", "reading")
    /\ state' = state + 1
    /\ See(t, 0)
    /\ UNCHANGED cell

ReadCas(t) ==
    /\ state = seen[t]
    /\ LockGoto(t, "readCas", "reading")
    /\ state' = state + 1
    /\ See(t, 0)
    /\ UNCHANGED cell

(* A weak CAS may fail for no reason.                                        *)
ReadMiss(t) ==
    /\ state # -1
    /\ lpc[t] = "readCas"
    /\ See(t, state)
    /\ UNCHANGED <<state, cell, lpc>>

ReadMissLocked(t) ==
    /\ state = -1
    /\ LockGoto(t, "readCas", "out")
    /\ See(t, 0)
    /\ UNCHANGED <<state, cell>>

(* The closure of try_with has run; the guard is dropped.                    *)
ReadUnlock(t) ==
    /\ LockGoto(t, "reading", "out")
    /\ state' = state - 1
    /\ UNCHANGED <<cell, seen>>

-----------------------------------------------------------------------------
(* try_write, and try_store under its guard.  When it answers None nothing   *)
(* has changed, and swap and write() try again.                              *)

(* mutant: a reader does not keep a writer out                               *)
TryWriteAnyway(t) ==
    /\ LockGoto(t, "out", "writing")
    /\ state # -1
    /\ state' = -1
    /\ UNCHANGED <<cell, seen>>

TryWrite(t) ==
    /\ state = 0
    /\ LockGoto(t, "out", "writing")
    /\ state' = -1
    /\ UNCHANGED <<cell, seen>>

(* mem::replace                                                              *)
TakeOut(t) ==
    /\ LockGoto(t, "writing", "replacing")
    /\ cell' = Moved
    /\ UNCHANGED <<state, seen>>

PutIn(t, value) ==
    /\ LockGoto(t, "replacing", "replaced")
    /\ cell' = value
    /\ UNCHANGED <<state, seen>>

(* mutant: the guard is not dropped                                          *)
WriteNoUnlock(t) ==
    /\ LockGoto(t, "replaced", "out")
    /\ UNCHANGED <<state, cell, seen>>

WriteUnlock(t) ==
    /\ LockGoto(t, "replaced", "out")
    /\ state' = 0
    /\ UNCHANGED <<cell, seen>>

-----------------------------------------------------------------------------
LockNext ==
    \E t \in Threads :
        \/ TryRead(t) \/ ReadIsLocked(t) \/ ReadCas(t) \/ ReadMiss(t) \/ ReadMissLocked(t)
        \/ ReadUnlock(t)
        \/ TryWrite(t) \/ TakeOut(t) \/ WriteUnlock(t)
        \/ \E value \in Cells : PutIn(t, value)

LockSpec == LockInit /\ [][LockNext]_lockVars

-----------------------------------------------------------------------------
Readers == {t \in Threads : lpc[t] = "reading"}
Writers == {t \in Threads : lpc[t] \in {"writing", "replacing", "replaced"}}

LockPlaces == {"out", "readCas", "reading", "writing", "replacing", "replaced"}

LockTypeOK ==
    /\ state \in Int
    /\ cell \in Cells \union {Moved}
    /\ lpc \in [Threads -> LockPlaces]
    /\ seen \in [Threads -> Int]

(* The counter says who holds the lock: a writer alone, or so many readers.  *)
CounterIsTrue ==
    \/ state = -1 /\ Readers = {} /\ \E t \in Threads : Writers = {t}
    \/ state = Cardinality(Readers) /\ Writers = {}

(* No reader looks at the cell while a writer is exchanging its value.       *)
ReaderSeesAValue == Readers # {} => cell \in Cells

(* The inductive invariant: only a writer between taking out and putting in  *)
(* leaves the cell without a value, and a reader's CAS is never from -1.     *)
LockIInv ==
    /\ LockTypeOK /\ CounterIsTrue
    /\ cell = Moved => \E t \in Threads : lpc[t] = "replacing"
    /\ \A t \in Threads : lpc[t] = "readCas" => seen[t] # -1
=============================================================================
