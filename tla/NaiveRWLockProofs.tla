------------------------- MODULE NaiveRWLockProofs -------------------------
(***************************************************************************)
(* Theorems about NaiveRWLock for any finite set of threads and any values *)
(* in the cell: the one counter keeps writers and readers apart.           *)
(***************************************************************************)
EXTENDS NaiveRWLock, FiniteSetTheorems, TLAPS

(* A thread that goes from one place to another is a reader or a writer      *)
(* afterwards by its new place alone, and nobody else changes.               *)
LEMMA ThreadMoves ==
    ASSUME LockTypeOK, NEW t \in Threads, NEW from \in LockPlaces, NEW to \in LockPlaces,
           LockGoto(t, from, to)
    PROVE  /\ lpc' \in [Threads -> LockPlaces]
           /\ Readers' = IF to = "reading" THEN Readers \union {t} ELSE Readers \ {t}
           /\ Writers' = IF to \in {"writing", "replacing", "replaced"}
                           THEN Writers \union {t} ELSE Writers \ {t}
BY DEF LockTypeOK, LockGoto, Readers, Writers, LockPlaces

LEMMA ReadersCounted ==
    LockTypeOK => IsFiniteSet(Readers) /\ Cardinality(Readers) \in Nat
<1> SUFFICES ASSUME LockTypeOK PROVE IsFiniteSet(Readers) /\ Cardinality(Readers) \in Nat
  OBVIOUS
<1>1. Readers \subseteq Threads
  BY DEF Readers
<1>2. IsFiniteSet(Readers)
  BY <1>1, ThreadsFinite, FS_Subset
<1> QED
  BY <1>2, FS_CardinalityType

(* A thread outside of the lock is neither in Readers nor in Writers. *)
LEMMA RoleByPlace ==
    ASSUME NEW t \in Threads
    PROVE  /\ t \in Readers <=> lpc[t] = "reading"
           /\ t \in Writers <=> lpc[t] \in {"writing", "replacing", "replaced"}
BY DEF Readers, Writers

LEMMA ThreadKeepsRole ==
    ASSUME LockTypeOK, NEW t \in Threads, NEW from \in LockPlaces, NEW to \in LockPlaces,
           LockGoto(t, from, to),
           from = "reading" <=> to = "reading",
           from \in {"writing", "replacing", "replaced"} <=> to \in {"writing", "replacing", "replaced"}
    PROVE  Readers' = Readers /\ Writers' = Writers /\ lpc' \in [Threads -> LockPlaces]
<1>1. t \in Readers <=> to = "reading"
  BY RoleByPlace DEF LockGoto
<1>2. t \in Writers <=> to \in {"writing", "replacing", "replaced"}
  BY RoleByPlace DEF LockGoto
<1>3. Readers' = IF to = "reading" THEN Readers \union {t} ELSE Readers \ {t}
  BY ThreadMoves
<1>4. Writers' = IF to \in {"writing", "replacing", "replaced"}
                   THEN Writers \union {t} ELSE Writers \ {t}
  BY ThreadMoves
<1>5. lpc' \in [Threads -> LockPlaces]
  BY ThreadMoves
<1> QED
  BY <1>1, <1>2, <1>3, <1>4, <1>5

LEMMA LockInitInv == LockInit => LockIInv
<1> SUFFICES ASSUME LockInit PROVE LockIInv
  OBVIOUS
<1>1. LockTypeOK
  BY DEF LockInit, LockTypeOK, LockPlaces
<1>2. Readers = {} /\ Writers = {}
  BY DEF LockInit, Readers, Writers
<1>3. CounterIsTrue
  BY <1>2, FS_EmptySet DEF LockInit, CounterIsTrue
<1> QED
  BY <1>1, <1>3, MovedAssumption DEF LockInit, LockIInv

(* While somebody reads or nobody is inside, the counter is the number of    *)
(* the readers; while somebody writes it is -1.                              *)
LEMMA CounterByRole ==
    ASSUME LockIInv, NEW t \in Threads
    PROVE  /\ t \in Readers => state = Cardinality(Readers) /\ Writers = {}
           /\ t \in Writers => state = -1 /\ Readers = {} /\ Writers = {t}
           /\ state # -1 => state = Cardinality(Readers) /\ Writers = {}
           /\ state = 0 => Readers = {} /\ Writers = {}
<1>1. IsFiniteSet(Readers) /\ Cardinality(Readers) \in Nat
  BY ReadersCounted DEF LockIInv
<1>2. Cardinality(Readers) = 0 <=> Readers = {}
  BY <1>1, FS_EmptySet
<1> QED
  BY <1>1, <1>2 DEF LockIInv, CounterIsTrue

LEMMA LockNextInv == LockIInv /\ [LockNext]_lockVars => LockIInv'
<1> SUFFICES ASSUME LockIInv, [LockNext]_lockVars PROVE LockIInv'
  OBVIOUS
<1>0. LockTypeOK /\ IsFiniteSet(Readers) /\ Cardinality(Readers) \in Nat
  BY ReadersCounted DEF LockIInv
<1> DEFINE MovedInv == cell = Moved => \E t \in Threads : lpc[t] = "replacing"
           SeenInv  == \A t \in Threads : lpc[t] = "readCas" => seen[t] # -1
<1>1. CASE UNCHANGED lockVars
  BY <1>1 DEF LockIInv, LockTypeOK, CounterIsTrue, Readers, Writers, lockVars
<1>2. ASSUME NEW t \in Threads, TryRead(t) PROVE LockIInv'
  <2>1. Readers' = Readers /\ Writers' = Writers /\ lpc' \in [Threads -> LockPlaces]
    BY <1>0, <1>2, ThreadKeepsRole DEF TryRead, LockPlaces
  <2>2. LockTypeOK'
    BY <1>0, <1>2, <2>1 DEF TryRead, LockTypeOK, See
  <2>3. CounterIsTrue'
    BY <1>2, <2>1 DEF TryRead, CounterIsTrue, LockIInv
  <2>4. MovedInv' /\ SeenInv'
    BY <1>0, <1>2 DEF TryRead, LockIInv, LockTypeOK, LockGoto, See
  <2> QED
    BY <2>2, <2>3, <2>4 DEF LockIInv
<1>3. ASSUME NEW t \in Threads, ReadIsLocked(t) PROVE LockIInv'
  BY <1>1, <1>3 DEF ReadIsLocked
<1>4. ASSUME NEW t \in Threads, ReadCas(t) PROVE LockIInv'
  <2>1. Readers' = Readers \union {t} /\ Writers' = Writers \ {t} /\ t \notin Readers
    BY <1>0, <1>4, ThreadMoves, RoleByPlace DEF ReadCas, LockGoto, LockPlaces
  <2>2. lpc' \in [Threads -> LockPlaces]
    BY <1>0, <1>4, ThreadMoves DEF ReadCas, LockPlaces
  <2>3. LockTypeOK'
    <3>1. seen' \in [Threads -> Int]
      BY <1>0, <1>4 DEF ReadCas, LockTypeOK, See
    <3>2. state' \in Int /\ cell' \in Cells \union {Moved}
      BY <1>0, <1>4 DEF ReadCas, LockTypeOK
    <3> QED
      BY <2>2, <3>1, <3>2 DEF LockTypeOK
  <2>4. state # -1
    BY <1>4 DEF ReadCas, LockGoto, LockIInv
  <2>5. state = Cardinality(Readers) /\ Writers = {}
    BY <2>4, CounterByRole
  <2>6. Cardinality(Readers') = Cardinality(Readers) + 1
    BY <1>0, <2>1, FS_AddElement
  <2>7. CounterIsTrue'
    BY <1>4, <2>1, <2>5, <2>6 DEF ReadCas, CounterIsTrue
  <2>8. MovedInv' /\ SeenInv'
    BY <1>0, <1>4 DEF ReadCas, LockIInv, LockTypeOK, LockGoto, See
  <2> QED
    BY <2>3, <2>7, <2>8 DEF LockIInv
<1>5. ASSUME NEW t \in Threads, ReadMiss(t) PROVE LockIInv'
  <2>1. LockTypeOK' /\ CounterIsTrue'
    BY <1>0, <1>5 DEF ReadMiss, LockIInv, LockTypeOK, CounterIsTrue, Readers, Writers, See
  <2>2. MovedInv' /\ SeenInv'
    BY <1>0, <1>5 DEF ReadMiss, LockIInv, LockTypeOK, See
  <2> QED
    BY <2>1, <2>2 DEF LockIInv
<1>6. ASSUME NEW t \in Threads, ReadMissLocked(t) PROVE LockIInv'
  <2>1. Readers' = Readers /\ Writers' = Writers /\ lpc' \in [Threads -> LockPlaces]
    BY <1>0, <1>6, ThreadKeepsRole DEF ReadMissLocked, LockPlaces
  <2>2. LockTypeOK'
    <3>1. seen' \in [Threads -> Int]
      BY <1>0, <1>6 DEF ReadMissLocked, LockTypeOK, See
    <3>2. state' \in Int /\ cell' \in Cells \union {Moved}
      BY <1>0, <1>6 DEF ReadMissLocked, LockTypeOK
    <3> QED
      BY <2>1, <3>1, <3>2 DEF LockTypeOK
  <2>3. CounterIsTrue'
    BY <1>6, <2>1 DEF ReadMissLocked, CounterIsTrue, LockIInv
  <2>4. MovedInv' /\ SeenInv'
    BY <1>0, <1>6 DEF ReadMissLocked, LockIInv, LockTypeOK, LockGoto, See
  <2> QED
    BY <2>2, <2>3, <2>4 DEF LockIInv
<1>7. ASSUME NEW t \in Threads, ReadUnlock(t) PROVE LockIInv'
  <2>1. Readers' = Readers \ {t} /\ Writers' = Writers \ {t} /\ t \in Readers
    BY <1>0, <1>7, ThreadMoves, RoleByPlace DEF ReadUnlock, LockGoto, LockPlaces
  <2>2. lpc' \in [Threads -> LockPlaces]
    BY <1>0, <1>7, ThreadMoves DEF ReadUnlock, LockPlaces
  <2>3. LockTypeOK'
    BY <1>0, <1>7, <2>2 DEF ReadUnlock, LockTypeOK
  <2>4. state = Cardinality(Readers) /\ Writers = {}
    BY <2>1, CounterByRole
  <2>5. Cardinality(Readers') = Cardinality(Readers) - 1
    BY <1>0, <2>1, FS_RemoveElement
  <2>6. CounterIsTrue'
    BY <1>7, <2>1, <2>4, <2>5 DEF ReadUnlock, CounterIsTrue
  <2>7. MovedInv' /\ SeenInv'
    BY <1>0, <1>7 DEF ReadUnlock, LockIInv, LockTypeOK, LockGoto
  <2> QED
    BY <2>3, <2>6, <2>7 DEF LockIInv
<1>8. ASSUME NEW t \in Threads, TryWrite(t) PROVE LockIInv'
  <2>1. Readers' = Readers \ {t} /\ Writers' = Writers \union {t}
    BY <1>0, <1>8, ThreadMoves DEF TryWrite, LockPlaces
  <2>2. lpc' \in [Threads -> LockPlaces]
    BY <1>0, <1>8, ThreadMoves DEF TryWrite, LockPlaces
  <2>3. LockTypeOK'
    BY <1>0, <1>8, <2>2 DEF TryWrite, LockTypeOK
  <2>4. Readers = {} /\ Writers = {}
    BY <1>8, CounterByRole DEF TryWrite
  <2>5. CounterIsTrue'
    BY <1>8, <2>1, <2>4 DEF TryWrite, CounterIsTrue
  <2>6. MovedInv' /\ SeenInv'
    BY <1>0, <1>8 DEF TryWrite, LockIInv, LockTypeOK, LockGoto
  <2> QED
    BY <2>3, <2>5, <2>6 DEF LockIInv
<1>9. ASSUME NEW t \in Threads, TakeOut(t) PROVE LockIInv'
  <2>1. Readers' = Readers /\ Writers' = Writers /\ lpc' \in [Threads -> LockPlaces]
    BY <1>0, <1>9, ThreadKeepsRole DEF TakeOut, LockPlaces
  <2>2. LockTypeOK'
    BY <1>0, <1>9, <2>1 DEF TakeOut, LockTypeOK
  <2>3. CounterIsTrue'
    BY <1>9, <2>1 DEF TakeOut, CounterIsTrue, LockIInv
  <2>4. MovedInv' /\ SeenInv'
    BY <1>0, <1>9 DEF TakeOut, LockIInv, LockTypeOK, LockGoto
  <2> QED
    BY <2>2, <2>3, <2>4 DEF LockIInv
<1>10. ASSUME NEW t \in Threads, NEW value \in Cells, PutIn(t, value) PROVE LockIInv'
  <2>1. Readers' = Readers /\ Writers' = Writers /\ lpc' \in [Threads -> LockPlaces]
    BY <1>0, <1>10, ThreadKeepsRole DEF PutIn, LockPlaces
  <2>2. LockTypeOK'
    BY <1>0, <1>10, <2>1 DEF PutIn, LockTypeOK
  <2>3. CounterIsTrue'
    BY <1>10, <2>1 DEF PutIn, CounterIsTrue, LockIInv
  <2>4. MovedInv' /\ SeenInv'
    BY <1>0, <1>10, MovedAssumption DEF PutIn, LockIInv, LockTypeOK, LockGoto
  <2> QED
    BY <2>2, <2>3, <2>4 DEF LockIInv
<1>11. ASSUME NEW t \in Threads, WriteUnlock(t) PROVE LockIInv'
  <2>1. Readers' = Readers \ {t} /\ Writers' = Writers \ {t} /\ t \in Writers
    BY <1>0, <1>11, ThreadMoves, RoleByPlace DEF WriteUnlock, LockGoto, LockPlaces
  <2>2. lpc' \in [Threads -> LockPlaces]
    BY <1>0, <1>11, ThreadMoves DEF WriteUnlock, LockPlaces
  <2>3. LockTypeOK'
    BY <1>0, <1>11, <2>2 DEF WriteUnlock, LockTypeOK
  <2>4. Readers' = {} /\ Writers' = {}
    BY <2>1, CounterByRole
  <2>5. CounterIsTrue'
    BY <1>11, <2>4, FS_EmptySet DEF WriteUnlock, CounterIsTrue
  <2>6. MovedInv' /\ SeenInv'
    BY <1>0, <1>11 DEF WriteUnlock, LockIInv, LockTypeOK, LockGoto
  <2> QED
    BY <2>3, <2>5, <2>6 DEF LockIInv
<1> QED
  BY <1>1, <1>2, <1>3, <1>4, <1>5, <1>6, <1>7, <1>8, <1>9, <1>10, <1>11 DEF LockNext

-----------------------------------------------------------------------------
(* The counter, the cell and the threads stay what the lock assumes. *)
THEOREM LockInvariance == LockSpec => []LockIInv
BY LockInitInv, LockNextInv, PTL DEF LockSpec

(* The counter and the cell keep their types: naive_rw_lock.rs.              *)
THEOREM LockTypeCorrect == LockSpec => []LockTypeOK
<1>1. LockIInv => LockTypeOK
  BY DEF LockIInv
<1> QED
  BY <1>1, LockInvariance, PTL

(* The counter of naive_rw_lock.rs is -1 exactly while one thread writes,    *)
(* and otherwise the number of the threads that read.                        *)
THEOREM CounterIsTrueHolds == LockSpec => []CounterIsTrue
<1>1. LockIInv => CounterIsTrue
  BY DEF LockIInv
<1> QED
  BY <1>1, LockInvariance, PTL

(* try_with never finds the cell without a value, which it is while          *)
(* try_store replaces one.                                                   *)
THEOREM ReaderSeesAValueHolds == LockSpec => []ReaderSeesAValue
<1>1. LockIInv => ReaderSeesAValue
  <2> SUFFICES ASSUME LockIInv, Readers # {} PROVE cell \in Cells
    BY DEF ReaderSeesAValue
  <2>1. PICK t \in Threads : t \in Readers
    BY DEF Readers
  <2>2. Writers = {}
    BY <2>1, CounterByRole
  <2>3. cell # Moved
    BY <2>2 DEF LockIInv, Writers
  <2> QED
    BY <2>3 DEF LockIInv, LockTypeOK
<1> QED
  BY <1>1, LockInvariance, PTL
=============================================================================
