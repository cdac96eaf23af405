------------------------ MODULE SPSCUnboundedProofs ------------------------
(***************************************************************************)
(* Theorems about SPSCUnbounded for every capacity to begin with, every    *)
(* slice, any number of growths, and loads that may be stale.              *)
(*                                                                         *)
(* The order of the growth is what counts: the values are copied, the cell *)
(* is exchanged, the new values are written, and only then the word names  *)
(* the new version.  So every version from that of the word on has the     *)
(* values that the word counts, and the consumer may work in any of them.  *)
(***************************************************************************)
EXTENDS SPSCUnbounded, BufferTheorems

-----------------------------------------------------------------------------
(* The parts of TypeOK *)

SharedType ==
    /\ tail \in Nat /\ wordId \in Nat /\ past \subseteq WordType /\ head \in Nat
    /\ log \in Seq(Nat) /\ DOMAIN delivered \subseteq Nat

VersionType ==
    /\ DOMAIN buffers = DOMAIN caps
    /\ caps \in [DOMAIN caps -> Nat \ {0}]
    /\ refs \in [DOMAIN caps -> Nat]
    /\ \A v \in DOMAIN caps : buffers[v] \in [0 .. caps[v] - 1 -> Nat \union {Empty}]

LockType == lpc \in [Threads -> LockPlaces] /\ seen \in [Threads -> Int]

ProducerType ==
    /\ cachedHead \in Nat /\ pver \in Nat
    /\ ppc \in {"idle", "refresh", "grow", "swap", "write", "publish"}
    /\ op \in {"none", "push", "pushMany", "pushManyUnchecked", "copyAndCommitIf", "reserve"}
    /\ batch \in Seq(Nat) /\ base \in Nat /\ written \in Nat /\ newCap \in Nat /\ issued \in Nat

ConsumerType ==
    /\ cver \in Nat
    /\ cpc \in {"idle", "load", "read", "store", "return", "update", "clone", "updated"}
    /\ cop \in {"none", "pop", "steal", "query"}
    /\ want \in Nat /\ n \in Nat /\ copied \in Seq(Nat \union {Empty})

LEMMA TypeParts ==
    TypeOK <=> SharedType /\ VersionType /\ LockType /\ ProducerType /\ ConsumerType
BY DEF TypeOK, SharedType, VersionType, LockType, ProducerType, ConsumerType

LEMMA TypePartsNext ==
    TypeOK' <=> SharedType' /\ VersionType' /\ LockType' /\ ProducerType' /\ ConsumerType'
BY DEF TypeOK, SharedType, VersionType, LockType, ProducerType, ConsumerType

-----------------------------------------------------------------------------
(* What IInv says of the counters and the versions *)

LEMMA Counters ==
    ASSUME IInv
    PROVE  /\ head \in Nat /\ tail \in Nat /\ cachedHead \in Nat /\ n \in Nat
           /\ Taken \in Nat /\ cachedHead <= head /\ head <= Taken /\ Taken <= tail
           /\ Len(log) = tail /\ log \in Seq(Nat)
<1>1. head \in Nat /\ tail \in Nat /\ cachedHead \in Nat /\ n \in Nat /\ log \in Seq(Nat)
  BY DEF IInv, TypeOK
<1>2. Word \in past \union {Word} /\ Word.tail = tail
  BY DEF Word
<1>3. Taken <= tail /\ Len(log) = tail
  BY <1>2 DEF IInv, RingInv
<1>4. Taken \in Nat /\ head <= Taken
  BY <1>1 DEF Taken
<1> QED
  BY <1>1, <1>3, <1>4 DEF IInv, ProducerInv

LEMMA Versions ==
    ASSUME IInv
    PROVE  /\ pver \in Nat /\ cver \in Nat /\ wordId = pver
           /\ Newest \in Nat /\ cver <= Newest /\ pver <= Newest /\ Newest \in DOMAIN caps
           /\ pver \in DOMAIN caps /\ cver \in DOMAIN caps
           /\ refs[pver] > 0 /\ refs[cver] > 0
           /\ \A v \in DOMAIN caps : caps[v] \in Nat \ {0} /\ refs[v] \in Nat
<1>1. pver \in Nat /\ cver \in Nat /\ wordId = pver /\ cver <= Newest
  BY DEF IInv, TypeOK, VersionInv
<1>2. Newest \in Nat /\ pver <= Newest
  BY <1>1 DEF Newest
<1>3. DOMAIN caps = 0 .. (IF Grew THEN pver + 1 ELSE pver)
  BY DEF IInv, VersionInv
<1>4. Newest \in DOMAIN caps /\ pver \in DOMAIN caps /\ cver \in DOMAIN caps
  BY <1>1, <1>2, <1>3 DEF Newest, Swapped
<1>5. \A v \in DOMAIN caps : caps[v] \in Nat \ {0} /\ refs[v] \in Nat
  BY DEF IInv, TypeOK
<1>6. refs[pver] > 0 /\ refs[cver] > 0
  BY <1>4 DEF IInv, VersionsAreHeld, Holders, One
<1> QED
  BY <1>1, <1>2, <1>4, <1>5, <1>6

LEMMA WordsAreTyped ==
    ASSUME IInv
    PROVE  \A s \in past \union {Word} : s.id \in Nat /\ s.tail \in Nat
<1>1. past \subseteq WordType /\ tail \in Nat /\ wordId \in Nat
  BY DEF IInv, TypeOK
<1>2. \A s \in WordType : s.id \in Nat /\ s.tail \in Nat
  BY DEF WordType
<1>3. Word.id \in Nat /\ Word.tail \in Nat
  BY <1>1 DEF Word
<1> QED
  BY <1>1, <1>2, <1>3, Zenon

(* The version that a push writes to is there, and held. *)
LEMMA PushVersion ==
    ASSUME IInv, ppc \in {"swap", "write", "publish"}
    PROVE  At \in Nat /\ At \in DOMAIN caps /\ refs[At] > 0 /\ pver <= At
<1>1. CASE newCap = 0
  BY <1>1, Versions DEF At
<1>2. CASE newCap # 0
  <2>1. Grew /\ At = pver + 1 /\ pver \in Nat
    BY <1>2, Versions DEF Grew, At
  <2>2. At \in DOMAIN caps
    BY <2>1 DEF IInv, VersionInv
  <2>3. refs[At] > 0
    BY <2>1, <2>2 DEF IInv, VersionsAreHeld, Holders, One
  <2> QED
    BY <2>1, <2>2, <2>3
<1> QED
  BY <1>1, <1>2

-----------------------------------------------------------------------------
(* Who disturbs what *)

LEMMA VersionsStay ==
    ASSUME IInv, UNCHANGED <<caps, refs, cell, pver, cver, wordId, lpc>>,
           Grew' = Grew, Swapped' = Swapped
    PROVE  VersionsAreHeld' /\ VersionInv'
BY DEF IInv, VersionsAreHeld, Holders, VersionInv, Newest

LEMMA LockStays ==
    ASSUME IInv, UNCHANGED <<state, lpc, seen>>,
           ppc' # "swap" => lpc[producer] = "out",
           lpc[consumer] = "reading" <=> cpc' \in {"clone", "updated"},
           lpc[consumer] = "readCas" => cpc' = "update"
    PROVE  LockInv'
BY DEF IInv, LockInv

LEMMA RingStays ==
    ASSUME RingInv, UNCHANGED <<tail, wordId, past, head, caps, buffers, refs, log>>,
           Taken' = Taken
    PROVE  RingInv'
BY DEF RingInv, Word, HasValues, Value

LEMMA ProducerStays ==
    ASSUME IInv, UNCHANGED <<tail, cachedHead, caps, pver, ppc, op>>,
           UNCHANGED <<batch, base, written, newCap, issued>>,
           head' \in Nat, head <= head',
           written > 0 => buffers'[At] = buffers[At]
    PROVE  ProducerInv' /\ IssuedInv'
<1>1. cachedHead \in Nat /\ head \in Nat /\ cachedHead <= head /\ written \in Nat
  BY Counters DEF IInv, TypeOK
<1>2. cachedHead <= head'
  BY <1>1
<1>3. At' = At
  BY DEF At
<1>4. ASSUME NEW i \in 1 .. written
      PROVE  buffers'[At][PhysicalIndex(tail + i - 1, caps[At])] = batch[i]
  <2>1. written > 0
    BY <1>1
  <2> QED
    BY <2>1, <1>4 DEF IInv, ProducerInv, Value
<1>5. ProducerInv'
  BY <1>2, <1>3, <1>4 DEF IInv, ProducerInv, Value
<1>6. IssuedInv'
  BY DEF IInv, IssuedInv
<1> QED
  BY <1>5, <1>6

LEMMA ConsumerStays ==
    ASSUME IInv, UNCHANGED <<head, cver, cpc, n, copied, delivered>>,
           \A i \in 1 .. tail : log'[i] = log[i],
           caps'[cver] = caps[cver],
           cpc \in {"read", "store"} =>
               \A t \in head .. head + n - 1 : Value(cver, t)' = Value(cver, t)
    PROVE  ConsumerInv' /\ HistoryInv'
<1>1. /\ head \in Nat /\ tail \in Nat /\ n \in Nat /\ Taken \in Nat
      /\ head <= Taken /\ Taken <= tail /\ head <= tail
  BY Counters
<1>2. \A k \in 0 .. tail - 1 : log'[k + 1] = log[k + 1]
  BY <1>1
<1>3. ASSUME cpc \in {"read", "store"}
      PROVE  /\ n >= 1 /\ head + n <= tail
             /\ \A t \in head .. head + n - 1 : Value(cver, t)' = log'[t + 1]
  <2>1. n >= 1 /\ head + n <= tail
    BY <1>1, <1>3 DEF Taken, IInv, ConsumerInv
  <2>2. \A t \in head .. head + n - 1 : Value(cver, t) = log[t + 1]
    <3>1. HasValues(cver, head, head + n)
      BY <1>3 DEF IInv, ConsumerInv
    <3> QED
      BY <1>1, <3>1 DEF HasValues, Value
  <2>3. \A t \in head .. head + n - 1 : log'[t + 1] = log[t + 1]
    BY <1>1, <1>2, <2>1
  <2> QED
    BY <1>3, <2>1, <2>2, <2>3
<1>4. ASSUME NEW first \in Nat, NEW k \in Nat, first + k <= tail, HasRead(first, k)
      PROVE  HasRead(first, k)'
  <2>1. \A i \in 1 .. k : log'[first + i] = log[first + i]
    BY <1>1, <1>4
  <2> QED
    BY <1>4, <2>1 DEF HasRead
<1>5. cpc = "read" => Len(copied) \in Nat /\ Len(copied) < n /\ HasRead(head, Len(copied))'
  <2> SUFFICES ASSUME cpc = "read"
               PROVE  Len(copied) \in Nat /\ Len(copied) < n /\ HasRead(head, Len(copied))'
    OBVIOUS
  <2>1. Len(copied) \in Nat /\ Len(copied) < n /\ HasRead(head, Len(copied))
    BY DEF IInv, TypeOK, ConsumerInv
  <2>2. head + Len(copied) <= tail
    BY <1>1, <1>3, <2>1
  <2>3. HasRead(head, Len(copied))'
    BY <1>1, <1>4, <2>1, <2>2
  <2> QED
    BY <2>1, <2>3
<1>6. cpc = "store" => HasRead(head, n)'
  <2> SUFFICES ASSUME cpc = "store" PROVE HasRead(head, n)'
    OBVIOUS
  <2>1. HasRead(head, n) /\ head + n <= tail
    BY <1>3 DEF IInv, ConsumerInv
  <2> QED
    BY <1>1, <1>4, <2>1
<1>7. cpc = "return" => 1 <= n /\ n <= head /\ HasRead(head - n, n)'
  <2> SUFFICES ASSUME cpc = "return" PROVE 1 <= n /\ n <= head /\ HasRead(head - n, n)'
    OBVIOUS
  <2>1. 1 <= n /\ n <= head /\ HasRead(head - n, n)
    BY DEF IInv, ConsumerInv
  <2>2. head - n \in Nat /\ (head - n) + n <= tail
    BY <1>1, <2>1
  <2> QED
    BY <1>1, <1>4, <2>1, <2>2
<1>8. ConsumerInv'
  <2>1. cpc \notin {"read", "store", "return"} => copied = <<>>
    BY DEF IInv, ConsumerInv
  <2>2. cpc \in {"read", "store"} => n >= 1 /\ HasValues(cver, head, head + n)'
    <3> SUFFICES ASSUME cpc \in {"read", "store"}
                 PROVE  n >= 1 /\ HasValues(cver, head, head + n)'
      OBVIOUS
    <3>1. n >= 1 /\ \A t \in head .. head + n - 1 : Value(cver, t)' = log'[t + 1]
      BY <1>3
    <3> QED
      BY <1>1, <3>1 DEF HasValues, Value
  <2> QED
    BY <1>5, <1>6, <1>7, <2>1, <2>2 DEF ConsumerInv
<1>9. HistoryInv'
  <2> SUFFICES ASSUME NEW t \in DOMAIN delivered
               PROVE  t < Returned /\ delivered[t] = log'[t + 1]
    BY DEF HistoryInv, Returned
  <2>1. t \in Nat /\ t < Returned /\ delivered[t] = log[t + 1]
    BY DEF IInv, TypeOK, HistoryInv
  <2>2. Returned <= tail /\ Returned \in Int
    BY <1>1 DEF Returned
  <2>3. t \in 0 .. tail - 1
    BY <1>1, <2>1, <2>2
  <2> QED
    BY <1>2, <2>1, <2>3
<1> QED
  BY <1>8, <1>9

-----------------------------------------------------------------------------
(* The beginning *)

LEMMA IInvInit == Init => IInv
<1> SUFFICES ASSUME Init PROVE IInv
  OBVIOUS
<1>1. /\ tail = 0 /\ wordId = 0 /\ past = {} /\ head = 0 /\ cachedHead = 0
      /\ caps = [v \in 0 .. 0 |-> FirstCapacity]
      /\ buffers = [v \in 0 .. 0 |-> AllocNew(FirstCapacity)]
      /\ refs = [v \in 0 .. 0 |-> 3]
      /\ state = 0 /\ cell = 0 /\ lpc = [t \in Threads |-> "out"] /\ seen = [t \in Threads |-> 0]
      /\ pver = 0 /\ cver = 0
      /\ ppc = "idle" /\ op = "none" /\ batch = <<>> /\ base = 0 /\ written = 0 /\ newCap = 0
      /\ issued = 0
      /\ cpc = "idle" /\ cop = "none" /\ want = 0 /\ n = 0 /\ copied = <<>>
      /\ log = <<>> /\ delivered = [t \in {} |-> Empty]
  BY DEF Init, LockInit
<1>2. producer \in Threads /\ consumer \in Threads /\ FirstCapacity \in Nat \ {0} /\ MaxPushes \in Nat
  BY ThreadsAssumption, CapacityAssumption, BoundAssumption
<1>3. <<>> \in Seq(Nat) /\ <<>> \in Seq(Nat \union {Empty}) /\ <<>> \in Seq(1 .. MaxPushes) /\ Len(<<>>) = 0
  OBVIOUS
<1>4. ~Grew /\ ~Swapped /\ Newest = 0
  BY <1>1 DEF Grew, Swapped, Newest
<1>5. TypeOK
  <2>1. SharedType /\ LockType /\ ProducerType /\ ConsumerType
    <3>1. SharedType
      BY <1>1, <1>3 DEF SharedType
    <3>2. LockType
      BY <1>1 DEF LockType, LockPlaces
    <3>3. ProducerType
      BY <1>1, <1>3 DEF ProducerType
    <3>4. ConsumerType
      BY <1>1, <1>3 DEF ConsumerType
    <3> QED
      BY <3>1, <3>2, <3>3, <3>4
  <2>2. VersionType
    BY <1>1, <1>2 DEF VersionType, AllocNew
  <2> QED
    BY <2>1, <2>2, TypeParts
<1>6. VersionInv /\ VersionsAreHeld
  <2>1. VersionInv
    BY <1>1, <1>2, <1>4 DEF VersionInv
  <2>2. cell # Moved
    BY <1>1, MovedIsNoVersion
  <2>3. VersionsAreHeld
    BY <1>1, <1>4, <2>2 DEF VersionsAreHeld, Holders, One
  <2> QED
    BY <2>1, <2>3
<1>7. LockInv
  BY <1>1, <1>2 DEF LockInv, One
<1>8. RingInv
  BY <1>1, <1>3 DEF RingInv, Word, Taken, HasValues
<1>9. ProducerInv /\ IssuedInv
  BY <1>1, <1>2, <1>3 DEF ProducerInv, IssuedInv
<1>10. ConsumerInv /\ HistoryInv
  BY <1>1 DEF ConsumerInv, HistoryInv
<1> QED
  BY <1>5, <1>6, <1>7, <1>8, <1>9, <1>10 DEF IInv

-----------------------------------------------------------------------------
(* The steps of the producer *)

LEMMA BoundedIsNat ==
    ASSUME NEW values \in Seq(1 .. MaxPushes)
    PROVE  values \in Seq(Nat)
<1>1. ASSUME NEW S, NEW v \in Seq(S), S \subseteq Nat
      PROVE  v \in Seq(Nat)
  <2>1. Len(v) \in Nat /\ v = [i \in 1 .. Len(v) |-> v[i]] /\ \A i \in 1 .. Len(v) : v[i] \in S
    OBVIOUS
  <2>2. \A i \in 1 .. Len(v) : v[i] \in Nat
    BY <1>1, <2>1
  <2> QED
    BY <2>1, <2>2
<1>2. 1 .. MaxPushes \subseteq Nat
  BY BoundAssumption
<1> QED
  BY <1>1, <1>2

(* Between pushes, the frames of the versions, the lock, the ring and the    *)
(* consumer hold: a push begins with its own variables alone.                *)
LEMMA BeginStep ==
    ASSUME IInv, NEW o, NEW values, NEW place, Begin(o, values, place),
           o \in {"push", "pushMany", "pushManyUnchecked", "copyAndCommitIf", "reserve"},
           values \in Seq(1 .. MaxPushes), values # <<>> => Len(values) \in SliceLens \union {1},
           newCap' \in Nat,
           \/ place = "grow" /\ newCap' > 0 /\ o = "reserve"
           \/ place = "refresh" /\ newCap' = 0 /\ o \in {"push", "pushMany"}
           \/ place = "write" /\ newCap' = 0 /\ o # "reserve"
                /\ tail + Len(values) <= cachedHead + caps[pver],
           place # "grow" => values # <<>>,
           o = "push" => Len(values) = 1
    PROVE  IInv'
<1>1. /\ UNCHANGED <<tail, wordId, head, cachedHead, caps, buffers, refs>>
      /\ UNCHANGED <<state, cell, lpc, seen, pver>>
      /\ UNCHANGED <<past, cver, cpc, cop, want, n, copied, log, delivered>>
      /\ ppc = "idle" /\ ppc' = place /\ op' = o
      /\ batch' = values /\ base' = tail /\ written' = 0
      /\ issued' = issued + Len(values) /\ issued + Len(values) <= MaxPushes
  BY DEF Begin, word, versions, lockVars, thief
<1>2. /\ tail \in Nat /\ head \in Nat /\ cachedHead \in Nat /\ cachedHead <= head
      /\ Len(values) \in Nat /\ issued \in Nat
  <2>1. tail \in Nat /\ head \in Nat /\ cachedHead \in Nat /\ cachedHead <= head
    BY Counters
  <2>2. \A S : values \in Seq(S) => Len(values) \in Nat
    OBVIOUS
  <2>3. Len(values) \in Nat
    BY <2>2, Zenon
  <2>4. issued \in Nat
    BY DEF IInv, TypeOK
  <2> QED
    BY <2>1, <2>3, <2>4, Zenon
<1>3. /\ newCap = 0 /\ batch = <<>> /\ lpc[producer] = "out"
      /\ tail <= cachedHead + caps[pver] /\ tail <= issued
  <2>1. newCap = 0 /\ batch = <<>> /\ tail <= cachedHead + caps[pver]
    BY <1>1 DEF IInv, ProducerInv
  <2>2. tail + Len(batch) <= issued
    BY DEF IInv, IssuedInv
  <2> QED
    BY <1>1, <1>2, <2>1, <2>2 DEF IInv, LockInv
<1>4. place \in {"grow", "refresh", "write"}
  OBVIOUS
<1>5. ~Grew /\ ~Grew' /\ ~Swapped /\ ~Swapped'
  BY <1>1, <1>3 DEF Grew, Swapped
<1>6. values \in Seq(Nat)
  BY BoundedIsNat
<1>7. TypeOK'
  <2>1. ProducerType'
    <3>1. /\ cachedHead' \in Nat /\ pver' \in Nat /\ base' \in Nat /\ written' \in Nat
          /\ batch' \in Seq(Nat) /\ newCap' \in Nat
      BY <1>1, <1>2, <1>6 DEF IInv, TypeOK
    <3>3. issued' \in Nat
      BY <1>1, <1>2
    <3>2. /\ ppc' \in {"idle", "refresh", "grow", "swap", "write", "publish"}
          /\ op' \in {"none", "push", "pushMany", "pushManyUnchecked", "copyAndCommitIf", "reserve"}
      BY <1>1, <1>4
    <3> QED
      BY <3>1, <3>2, <3>3 DEF ProducerType
  <2>2. SharedType' /\ LockType' /\ ConsumerType'
    BY <1>1 DEF SharedType, LockType, ConsumerType, IInv, TypeOK
  <2>3. VersionType'
    BY <1>1 DEF VersionType, IInv, TypeOK
  <2> QED
    BY <2>1, <2>2, <2>3, TypePartsNext
<1>8. VersionsAreHeld' /\ VersionInv'
  <2>1. Grew' = Grew /\ Swapped' = Swapped
    <3>1. Grew = FALSE /\ Grew' = FALSE /\ Swapped = FALSE /\ Swapped' = FALSE
      BY <1>1, <1>3 DEF Grew, Swapped
    <3> QED
      BY <3>1
  <2> QED
    BY <1>1, <2>1, VersionsStay
<1>9. LockInv'
  BY <1>1, <1>3, LockStays DEF IInv, LockInv
<1>10. RingInv'
  <2>1. Taken' = Taken
    BY <1>1 DEF Taken
  <2> QED
    BY <1>1, <2>1, RingStays DEF IInv
<1>11. ProducerInv'
  <2>1. Len(values) > 0 \/ place = "grow"
    BY <1>2
  <2>2. place = "write" => At' = pver
    BY <1>1 DEF At
  <2>3. \A i \in 1 .. written' : Value(At, tail + i - 1)' = batch'[i]
    BY <1>1
  <2>4. newCap' > 0 \/ place # "grow"
    OBVIOUS
  <2> QED
    BY <1>1, <1>2, <1>3, <1>4, <2>1, <2>2, <2>3, <2>4 DEF ProducerInv
<1>12. IssuedInv'
  BY <1>1, <1>2, <1>3 DEF IssuedInv
<1>13. ConsumerInv' /\ HistoryInv'
  <2>1. \A i \in 1 .. tail : log'[i] = log[i]
    BY <1>1
  <2>2. \A t \in head .. head + n - 1 : Value(cver, t)' = Value(cver, t)
    BY <1>1 DEF Value
  <2> QED
    BY <1>1, <2>1, <2>2, ConsumerStays
<1> QED
  BY <1>7, <1>8, <1>9, <1>10, <1>11, <1>12, <1>13 DEF IInv

(* What the producer is handed counts up, within the bound. *)
LEMMA FreshValues ==
    ASSUME IInv, NEW k \in Nat \ {0}, issued + k <= MaxPushes
    PROVE  Fresh(k) \in Seq(1 .. MaxPushes) /\ Len(Fresh(k)) = k /\ Fresh(k) # <<>>
<1>1. issued \in Nat /\ MaxPushes \in Nat
  BY BoundAssumption DEF IInv, TypeOK
<1>2. \A i \in 1 .. k : issued + i \in 1 .. MaxPushes
  BY <1>1
<1> QED
  BY <1>2 DEF Fresh

LEMMA StartPushStep == ASSUME IInv, StartPush PROVE IInv'
<1> DEFINE place == IF tail - cachedHead = caps[pver] THEN "refresh" ELSE "write"
<1>1. Begin("push", Fresh(1), place) /\ newCap' = newCap /\ ppc = "idle" /\ issued + Len(Fresh(1)) <= MaxPushes
  BY DEF StartPush, Begin
<1>2. Len(Fresh(1)) = 1 /\ newCap = 0 /\ tail <= cachedHead + caps[pver]
  BY <1>1 DEF Fresh, IInv, ProducerInv
<1>3. Fresh(1) \in Seq(1 .. MaxPushes) /\ Fresh(1) # <<>>
  <2>1. issued + 1 <= MaxPushes
    BY <1>1, <1>2, Zenon
  <2>2. 1 \in Nat \ {0}
    OBVIOUS
  <2> QED
    BY <2>1, <2>2, FreshValues
<1>4. caps[pver] \in Nat /\ tail \in Nat /\ cachedHead \in Nat
  BY Versions, Counters
<1>5. \/ place = "refresh"
      \/ place = "write" /\ tail + Len(Fresh(1)) <= cachedHead + caps[pver]
  <2>1. CASE tail - cachedHead = caps[pver]
    BY <2>1
  <2>2. CASE tail - cachedHead # caps[pver]
    <3>1. tail + 1 <= cachedHead + caps[pver]
      BY <1>2, <1>4, <2>2
    <3> QED
      BY <1>2, <2>2, <3>1
  <2> QED
    BY <2>1, <2>2
<1> HIDE DEF place
<1> QED
  BY <1>1, <1>2, <1>3, <1>5, BeginStep

LEMMA StartPushManyStep ==
    ASSUME IInv, NEW k \in SliceLens, StartPushMany(k) \/ StartPushManyUnchecked(k)
    PROVE  IInv'
<1> DEFINE place == IF Fits(cachedHead, k) THEN "write" ELSE "refresh"
<1>0. k \in Nat \ {0}
  BY LensAssumption
<1>1. /\ ppc = "idle" /\ newCap' = newCap /\ issued + Len(Fresh(k)) <= MaxPushes
      /\ \/ Begin("pushMany", Fresh(k), place)
         \/ Begin("pushManyUnchecked", Fresh(k), "write") /\ Fits(cachedHead, k)
  BY DEF StartPushMany, StartPushManyUnchecked, Begin
<1>2. Len(Fresh(k)) = k /\ newCap = 0
  BY <1>0, <1>1 DEF Fresh, IInv, ProducerInv
<1>3. Fresh(k) \in Seq(1 .. MaxPushes) /\ Fresh(k) # <<>>
  BY <1>0, <1>1, <1>2, FreshValues
<1>4. caps[pver] \in Nat /\ tail \in Nat /\ cachedHead \in Nat
  BY Versions, Counters
<1>5. Fits(cachedHead, k) => tail + Len(Fresh(k)) <= cachedHead + caps[pver]
  BY <1>0, <1>2, <1>4 DEF Fits
<1>6. \/ place = "refresh"
      \/ place = "write" /\ Fits(cachedHead, k)
  OBVIOUS
<1> HIDE DEF place
<1>7. CASE Begin("pushMany", Fresh(k), place)
  BY <1>1, <1>2, <1>3, <1>5, <1>6, <1>7, BeginStep
<1>8. CASE Begin("pushManyUnchecked", Fresh(k), "write") /\ Fits(cachedHead, k)
  BY <1>1, <1>2, <1>3, <1>5, <1>8, BeginStep
<1> QED
  BY <1>1, <1>7, <1>8

LEMMA StartCopyAndCommitIfStep ==
    ASSUME IInv, NEW k \in SliceLens, NEW l \in 0 .. k - 1, StartCopyAndCommitIf(k - l, l)
    PROVE  IInv'
<1> DEFINE r == k - l
           values == [i \in 1 .. r + l |-> issued + (IF i <= l THEN r + i ELSE i - l)]
<1>0. k \in Nat \ {0} /\ r + l = k
  BY LensAssumption
<1>1. /\ ppc = "idle" /\ newCap' = newCap /\ issued + Len(values) <= MaxPushes
      /\ Begin("copyAndCommitIf", values, "write") /\ cachedHead = tail /\ k <= caps[pver]
  BY <1>0 DEF StartCopyAndCommitIf, Begin
<1>2. Len(values) = k /\ newCap = 0
  BY <1>0, <1>1 DEF IInv, ProducerInv
<1>3. values \in Seq(1 .. MaxPushes) /\ values # <<>>
  <2>1. issued \in Nat /\ MaxPushes \in Nat
    BY BoundAssumption DEF IInv, TypeOK
  <2>2. \A i \in 1 .. k : issued + (IF i <= l THEN r + i ELSE i - l) \in 1 .. MaxPushes
    BY <1>0, <1>1, <1>2, <2>1
  <2> QED
    BY <1>0, <1>2, <2>2
<1>4. caps[pver] \in Nat /\ tail \in Nat /\ cachedHead \in Nat
  BY Versions, Counters
<1>5. tail + Len(values) <= cachedHead + caps[pver]
  BY <1>0, <1>1, <1>2, <1>4
<1> HIDE DEF values
<1> QED
  BY <1>1, <1>2, <1>3, <1>5, BeginStep

LEMMA StartReserveStep == ASSUME IInv, NEW c \in Capacities, StartReserve(c) PROVE IInv'
<1>1. c > caps[pver] /\ newCap' = c /\ Begin("reserve", <<>>, "grow")
  BY DEF StartReserve
<1>2. caps[pver] \in Nat \ {0} /\ c \in Nat
  BY Versions, CapacityAssumption
<1>3. <<>> \in Seq(1 .. MaxPushes) /\ newCap' > 0 /\ newCap' \in Nat
  BY <1>1, <1>2
<1> QED
  BY <1>1, <1>3, BeginStep

(* A step of the producer that touches neither the buffers nor the lock. *)
LEMMA ProducerAlone ==
    ASSUME IInv, UNCHANGED <<tail, wordId, past, head, caps, buffers, refs>>,
           UNCHANGED <<state, cell, lpc, seen, pver>>,
           UNCHANGED <<cver, cpc, cop, want, n, copied, log, delivered>>,
           Grew' = Grew, Swapped' = Swapped, ppc' # "swap" => lpc[producer] = "out",
           ProducerType', ProducerInv', IssuedInv'
    PROVE  IInv'
<1>1. TypeOK'
  <2>1. SharedType' /\ LockType' /\ ConsumerType'
    BY DEF SharedType, LockType, ConsumerType, IInv, TypeOK
  <2>2. VersionType'
    BY DEF VersionType, IInv, TypeOK
  <2> QED
    BY <2>1, <2>2, TypePartsNext
<1>2. VersionsAreHeld' /\ VersionInv'
  BY VersionsStay
<1>3. LockInv'
  BY LockStays DEF IInv, LockInv
<1>4. RingInv'
  <2>1. Taken' = Taken
    BY DEF Taken
  <2> QED
    BY <2>1, RingStays DEF IInv
<1>5. ConsumerInv' /\ HistoryInv'
  <2>1. \A i \in 1 .. tail : log'[i] = log[i]
    OBVIOUS
  <2>2. \A t \in head .. head + n - 1 : Value(cver, t)' = Value(cver, t)
    BY DEF Value
  <2> QED
    BY <2>1, <2>2, ConsumerStays
<1> QED
  BY <1>1, <1>2, <1>3, <1>4, <1>5 DEF IInv

LEMMA HeadLoadsAreBetween ==
    ASSUME IInv, NEW h \in HeadLoads
    PROVE  h \in Nat /\ cachedHead <= h /\ h <= head
<1>1. cachedHead \in Nat /\ head \in Nat /\ cachedHead <= head
  BY Counters
<1>2. CASE StaleLoads = TRUE
  BY <1>1, <1>2 DEF HeadLoads
<1>3. CASE StaleLoads = FALSE
  BY <1>1, <1>3 DEF HeadLoads
<1> QED
  BY <1>2, <1>3, StaleAssumption

LEMMA RefreshHeadStep == ASSUME IInv, RefreshHead PROVE IInv'
<1>1. PICK h \in HeadLoads :
        /\ cachedHead' = h
        /\ \/ /\ IF op = "push" THEN h # cachedHead ELSE Fits(h, Len(batch))
              /\ ppc' = "write"
              /\ newCap' = newCap
           \/ /\ ppc' = "grow"
              /\ newCap' = GreaterCapacity(caps[pver])
  BY DEF RefreshHead
<1>2. /\ ppc = "refresh"
      /\ UNCHANGED <<tail, wordId, past, head, caps, buffers, refs>>
      /\ UNCHANGED <<state, cell, lpc, seen, pver, op, batch, base, written, issued>>
      /\ UNCHANGED <<cver, cpc, cop, want, n, copied, log, delivered>>
  BY DEF RefreshHead, word, versions, lockVars, pushing, thief
<1>3. h \in Nat /\ cachedHead <= h /\ h <= head
  BY <1>1, HeadLoadsAreBetween
<1>4. /\ tail \in Nat /\ head \in Nat /\ cachedHead \in Nat /\ Len(batch) \in Nat
      /\ caps[pver] \in Nat \ {0} /\ pver \in Nat
  <2>1. Len(batch) \in Nat
    BY DEF IInv, TypeOK
  <2> QED
    BY <2>1, Counters, Versions
<1>5. /\ newCap = 0 /\ written = 0 /\ batch # <<>> /\ base = tail /\ lpc[producer] = "out"
      /\ tail <= cachedHead + caps[pver]
      /\ op = "push" => Len(batch) = 1
      /\ op # "copyAndCommitIf"
  BY <1>2 DEF IInv, ProducerInv, LockInv
<1>6. ppc' = "grow" => newCap' \in Nat /\ newCap' > 0
  <2>1. GreaterCapacity(caps[pver]) \in Nat /\ GreaterCapacity(caps[pver]) > caps[pver]
    BY <1>4, GreaterCapacityIsGreater
  <2> QED
    BY <1>1, <1>4, <2>1
<1>7. ppc' = "write" => newCap' = 0 /\ tail + Len(batch) <= h + caps[pver]
  <2> SUFFICES ASSUME ppc' = "write" PROVE newCap' = 0 /\ tail + Len(batch) <= h + caps[pver]
    OBVIOUS
  <2>1. newCap' = 0 /\ (IF op = "push" THEN h # cachedHead ELSE Fits(h, Len(batch)))
    BY <1>1, <1>5
  <2>2. CASE op = "push"
    <3>1. Len(batch) = 1 /\ h # cachedHead /\ tail <= cachedHead + caps[pver]
      BY <1>5, <2>1, <2>2
    <3>2. tail + 1 <= h + caps[pver]
      BY <1>3, <1>4, <3>1
    <3> QED
      BY <2>1, <3>1, <3>2
  <2>3. CASE op # "push"
    BY <1>3, <1>4, <2>1, <2>3 DEF Fits
  <2> QED
    BY <2>1, <2>2, <2>3
<1>8. ppc' \in {"grow", "write"}
  BY <1>1
<1>9. ProducerType'
  <2>1. newCap' \in Nat
    BY <1>6, <1>7, <1>8
  <2>2. cachedHead' \in Nat
    BY <1>1, <1>3
  <2> QED
    BY <1>2, <1>8, <2>1, <2>2 DEF ProducerType, IInv, TypeOK
<1>10. Grew' = Grew /\ Swapped' = Swapped
  <2>1. Grew = FALSE /\ Grew' = FALSE /\ Swapped = FALSE /\ Swapped' = FALSE
    BY <1>2, <1>7, <1>8 DEF Grew, Swapped
  <2> QED
    BY <2>1
<1>11. ProducerInv'
  <2>1. ppc' = "write" => At' = pver
    BY <1>2, <1>7 DEF At
  <2>2. tail <= h + caps[pver]
    BY <1>3, <1>4, <1>5
  <2>3. Len(batch) > 0
    BY <1>4, <1>5
  <2>4. \A i \in 1 .. written' : Value(At, tail + i - 1)' = batch'[i]
    BY <1>2, <1>5
  <2> QED
    BY <1>1, <1>2, <1>3, <1>4, <1>5, <1>6, <1>7, <1>8, <2>1, <2>2, <2>3, <2>4 DEF ProducerInv
<1>12. IssuedInv'
  BY <1>2 DEF IInv, IssuedInv
<1> QED
  BY <1>2, <1>5, <1>9, <1>10, <1>11, <1>12, ProducerAlone

LEMMA EnlargeStep == ASSUME IInv, Enlarge PROVE IInv'
<1>1. /\ ppc = "grow" /\ newCap' = GreaterCapacity(newCap)
      /\ UNCHANGED <<tail, wordId, past, head, caps, buffers, refs>>
      /\ UNCHANGED <<cachedHead, state, cell, lpc, seen, pver, ppc, op, batch, base, written, issued>>
      /\ UNCHANGED <<cver, cpc, cop, want, n, copied, log, delivered>>
  BY DEF Enlarge, word, versions, lockVars, pushing, thief
<1>2. newCap' \in Nat /\ newCap' > 0
  <2>1. newCap \in Nat
    BY DEF IInv, TypeOK
  <2>2. GreaterCapacity(newCap) \in Nat /\ GreaterCapacity(newCap) > newCap
    BY <2>1, GreaterCapacityIsGreater
  <2> QED
    BY <1>1, <2>1, <2>2
<1>3. ProducerType'
  BY <1>1, <1>2 DEF ProducerType, IInv, TypeOK
<1>4. Grew' = Grew /\ Swapped' = Swapped /\ lpc[producer] = "out"
  <2>1. Grew = FALSE /\ Grew' = FALSE /\ Swapped = FALSE /\ Swapped' = FALSE
    BY <1>1 DEF Grew, Swapped
  <2> QED
    BY <1>1, <2>1 DEF IInv, LockInv
<1>5. written = 0 /\ op # "copyAndCommitIf"
  BY <1>1 DEF IInv, ProducerInv
<1>6. ProducerInv'
  <2>1. \A i \in 1 .. written' : Value(At, tail + i - 1)' = batch'[i]
    BY <1>1, <1>5
  <2> QED
    BY <1>1, <1>2, <1>5, <2>1 DEF IInv, ProducerInv
<1>7. IssuedInv'
  BY <1>1 DEF IInv, IssuedInv
<1> QED
  BY <1>1, <1>3, <1>4, <1>6, <1>7, ProducerAlone

LEMMA ProducerLenStep == ASSUME IInv, ProducerLen PROVE IInv'
<1>1. /\ ppc = "idle" /\ cachedHead' \in HeadLoads
      /\ UNCHANGED <<tail, wordId, past, head, caps, buffers, refs>>
      /\ UNCHANGED <<state, cell, lpc, seen, pver, ppc, op, batch, base, written, newCap, issued>>
      /\ UNCHANGED <<cver, cpc, cop, want, n, copied, log, delivered>>
  BY DEF ProducerLen, word, versions, lockVars, pushing, thief
<1>2. cachedHead' \in Nat /\ cachedHead <= cachedHead' /\ cachedHead' <= head
  BY <1>1, HeadLoadsAreBetween
<1>3. ProducerType'
  BY <1>1, <1>2 DEF ProducerType, IInv, TypeOK
<1>4. Grew' = Grew /\ Swapped' = Swapped /\ lpc[producer] = "out"
  <2>1. Grew = FALSE /\ Grew' = FALSE /\ Swapped = FALSE /\ Swapped' = FALSE
    BY <1>1 DEF Grew, Swapped
  <2> QED
    BY <1>1, <2>1 DEF IInv, LockInv
<1>5. ProducerInv'
  <2>1. tail \in Nat /\ cachedHead \in Nat /\ caps[pver] \in Nat /\ tail <= cachedHead + caps[pver]
    BY Counters, Versions DEF IInv, ProducerInv
  <2>2. tail <= cachedHead' + caps[pver]
    BY <1>2, <2>1
  <2>3. \A i \in 1 .. written : Value(At, tail + i - 1)' = batch[i]
    BY <1>1 DEF IInv, ProducerInv, Value, At
  <2> QED
    BY <1>1, <1>2, <2>2, <2>3 DEF IInv, ProducerInv
<1>6. IssuedInv'
  BY <1>1 DEF IInv, IssuedInv
<1> QED
  BY <1>1, <1>3, <1>4, <1>5, <1>6, ProducerAlone

LEMMA GrowStep == ASSUME IInv, Grow PROVE IInv'
<1> DEFINE new == pver + 1
           old == caps[pver]
           grown == Grown(buffers[pver], old, cachedHead, tail, newCap)
<1>1. /\ ppc = "grow" /\ newCap > caps[pver] + Len(batch) /\ ppc' = "swap"
      /\ caps' = Extended(caps, newCap) /\ refs' = Extended(refs, 2)
      /\ buffers' = Extended(buffers, grown)
      /\ base' = GrownTail(old, cachedHead, tail)
      /\ UNCHANGED <<tail, wordId, past, head, cachedHead>>
      /\ UNCHANGED <<state, cell, lpc, seen, pver, op, batch, written, newCap, issued>>
      /\ UNCHANGED <<cver, cpc, cop, want, n, copied, log, delivered>>
  BY DEF Grow, word, lockVars, thief
<1>2. /\ tail \in Nat /\ head \in Nat /\ cachedHead \in Nat /\ cachedHead <= head
      /\ head <= tail /\ pver \in Nat /\ old \in Nat \ {0} /\ newCap \in Nat /\ Len(batch) \in Nat
  <2>1. newCap \in Nat /\ Len(batch) \in Nat
    BY DEF IInv, TypeOK
  <2>2. head \in Nat /\ Taken \in Nat /\ tail \in Nat /\ head <= Taken /\ Taken <= tail
    BY Counters
  <2>3. head <= tail
    BY <2>2
  <2> QED
    BY <2>1, <2>2, <2>3, Counters, Versions
<1>3. /\ newCap > 0 /\ written = 0 /\ op # "copyAndCommitIf" /\ lpc[producer] = "out"
      /\ tail <= cachedHead + old /\ base = tail
  BY <1>1 DEF IInv, ProducerInv, LockInv
<1>4. cachedHead <= tail /\ newCap \in Nat \ {0} /\ old <= newCap
  BY <1>1, <1>2, <1>3
<1>5. ~Grew /\ Grew' /\ ~Swapped /\ ~Swapped' /\ Newest = pver /\ Newest' = pver
  BY <1>1, <1>3 DEF Grew, Swapped, Newest
<1>6. /\ DOMAIN caps = 0 .. pver /\ wordId = pver /\ cver <= pver /\ cver \in Nat /\ cell = pver
      /\ DOMAIN refs = 0 .. pver /\ DOMAIN buffers = 0 .. pver
  <2>1. DOMAIN caps = 0 .. pver /\ wordId = pver /\ cver <= pver /\ cell = pver
    BY <1>3, <1>5 DEF IInv, VersionInv
  <2>2. cver \in Nat /\ DOMAIN refs = DOMAIN caps /\ DOMAIN buffers = DOMAIN caps
    BY DEF IInv, TypeOK
  <2> QED
    BY <2>1, <2>2
<1>7. /\ DOMAIN caps' = 0 .. new /\ DOMAIN buffers' = 0 .. new /\ DOMAIN refs' = 0 .. new
      /\ caps' = [v \in 0 .. new |-> caps'[v]] /\ refs' = [v \in 0 .. new |-> refs'[v]]
      /\ caps'[new] = newCap /\ refs'[new] = 2 /\ buffers'[new] = grown
      /\ \A v \in 0 .. pver : caps'[v] = caps[v] /\ refs'[v] = refs[v] /\ buffers'[v] = buffers[v]
      /\ new \in 0 .. new
  BY <1>1, <1>2 DEF Extended
<1>8. base' = tail
  BY <1>1, <1>2, <1>3, <1>4, GrowthKeepsTail
<1>9. buffers[pver] \in [0 .. old - 1 -> Nat \union {Empty}] /\ Empty \in Nat \union {Empty}
  <2>1. \A v \in DOMAIN caps : buffers[v] \in [0 .. caps[v] - 1 -> Nat \union {Empty}]
    BY DEF IInv, TypeOK
  <2>2. pver \in DOMAIN caps
    BY <1>2, Versions
  <2>3. Empty \in Nat \union {Empty}
    OBVIOUS
  <2> QED
    BY <2>1, <2>2, <2>3, Zenon
<1>10. grown \in [0 .. newCap - 1 -> Nat \union {Empty}]
  BY <1>2, <1>3, <1>4, <1>9, GrownType
<1>11. \A t \in cachedHead .. tail - 1 :
         grown[PhysicalIndex(t, newCap)] = buffers[pver][PhysicalIndex(t, old)]
  <2>1. /\ old \in Nat \ {0} /\ cachedHead \in Nat /\ tail \in Nat /\ newCap \in Nat \ {0}
        /\ cachedHead <= tail /\ tail <= cachedHead + old /\ old <= newCap
    BY <1>2, <1>3, <1>4
  <2> QED
    BY <2>1, GrowthKeepsValues
<1>12. \A v \in 0 .. new : v = new \/ v \in 0 .. pver
  BY <1>2
<1> HIDE DEF new, grown
<1>13. TypeOK'
  <2>1. SharedType' /\ LockType' /\ ConsumerType'
    BY <1>1 DEF SharedType, LockType, ConsumerType, IInv, TypeOK
  <2>2. ProducerType'
    BY <1>1, <1>2, <1>8 DEF ProducerType, IInv, TypeOK
  <2>3. VersionType'
    <3>1. ASSUME NEW v \in 0 .. new
          PROVE  /\ caps'[v] \in Nat \ {0} /\ refs'[v] \in Nat
                 /\ buffers'[v] \in [0 .. caps'[v] - 1 -> Nat \union {Empty}]
      <4>1. CASE v = new
        BY <1>4, <1>7, <1>10, <4>1
      <4>2. CASE v \in 0 .. pver
        <5>1. v \in DOMAIN caps
          BY <1>6, <4>2
        <5>2. caps[v] \in Nat \ {0} /\ refs[v] \in Nat /\ buffers[v] \in [0 .. caps[v] - 1 -> Nat \union {Empty}]
          BY <5>1 DEF IInv, TypeOK
        <5> QED
          BY <1>7, <4>2, <5>2
      <4> QED
        BY <1>12, <4>1, <4>2
    <3> QED
      BY <1>7, <3>1 DEF VersionType
  <2> QED
    BY <2>1, <2>2, <2>3, TypePartsNext
<1>14. VersionsAreHeld' /\ VersionInv'
  <2>1. VersionInv'
    BY <1>1, <1>3, <1>5, <1>6, <1>7 DEF VersionInv, new
  <2>2. cell # Moved
    BY <1>2, <1>6, MovedIsNoVersion
  <2>3. ASSUME NEW v \in 0 .. new
        PROVE  refs'[v] = Holders(v)'
    <3>1. CASE v = new
      <4>1. Holders(v)' = 2
        BY <1>1, <1>2, <1>5, <1>6, <2>2, <3>1 DEF Holders, One, new
      <4> QED
        BY <1>7, <3>1, <4>1
    <3>2. CASE v \in 0 .. pver
      <4>1. refs[v] = Holders(v)
        BY <1>6, <3>2 DEF IInv, VersionsAreHeld
      <4>2. v # pver + 1
        BY <1>2, <3>2
      <4>3. Holders(v)' = Holders(v)
        BY <1>1, <1>5, <4>2 DEF Holders, One
      <4> QED
        BY <1>7, <3>2, <4>1, <4>3
    <3> QED
      BY <1>12, <3>1, <3>2
  <2> QED
    BY <1>7, <2>1, <2>3 DEF VersionsAreHeld
<1>15. LockInv'
  BY <1>1, <1>3, LockStays DEF IInv, LockInv
<1>16. RingInv'
  <2>1. Taken' = Taken /\ Word' = Word
    BY <1>1 DEF Taken, Word
  <2>2. \A t \in head .. tail - 1 : Value(pver, t) = log[t + 1]
    <3>1. Word \in past \union {Word} /\ Word.tail = tail /\ Word.id = pver
      BY <1>6 DEF Word
    <3>2. pver \in DOMAIN caps /\ refs[pver] > 0 /\ pver >= Word.id
      BY <1>2, <3>1, Versions
    <3>3. HasValues(pver, head, tail)
      BY <3>1, <3>2 DEF IInv, RingInv
    <3> QED
      BY <3>3 DEF HasValues
  <2>3. ASSUME NEW s \in past \union {Word}, NEW v \in 0 .. new, v >= s.id, refs'[v] > 0
        PROVE  HasValues(v, head, s.tail)'
    <3>1. s.tail <= tail
      BY DEF IInv, RingInv
    <3>2. s.tail \in Nat
      BY WordsAreTyped, Zenon
    <3>3. CASE v = new
      <4>1. ASSUME NEW t \in head .. s.tail - 1
            PROVE  Value(v, t)' = log[t + 1]
        <5>1. t \in head .. tail - 1 /\ t \in cachedHead .. tail - 1
          BY <1>2, <3>1, <3>2
        <5>2. buffers'[v][PhysicalIndex(t, caps'[v])] = buffers[pver][PhysicalIndex(t, old)]
          BY <1>7, <1>11, <3>3, <5>1
        <5> QED
          BY <2>2, <5>1, <5>2 DEF Value
      <4> QED
        BY <1>1, <4>1 DEF HasValues, Value
    <3>4. CASE v \in 0 .. pver
      <4>1. v \in DOMAIN caps /\ refs[v] > 0
        BY <1>6, <1>7, <2>3, <3>4
      <4>2. HasValues(v, head, s.tail)
        BY <2>3, <4>1 DEF IInv, RingInv
      <4> QED
        BY <1>1, <1>7, <3>4, <4>2 DEF HasValues, Value
    <3> QED
      BY <1>12, <3>3, <3>4
  <2>4. Len(log) = tail
        /\ \A s \in past \union {Word} : s.id <= wordId /\ Taken <= s.tail /\ s.tail <= tail
    BY DEF IInv, RingInv
  <2> QED
    BY <1>1, <1>7, <2>1, <2>3, <2>4 DEF RingInv
<1>17. ProducerInv' /\ IssuedInv'
  <2>1. At' = new
    BY <1>1, <1>3 DEF At, new
  <2>2. tail + Len(batch) <= cachedHead + caps'[At']
    <3>1. tail + Len(batch) <= cachedHead + newCap
      BY <1>1, <1>2, <1>3
    <3> QED
      BY <1>7, <2>1, <3>1
  <2>3. caps'[pver] = caps[pver]
    BY <1>2, <1>7
  <2>4. \A i \in 1 .. written' : Value(At, tail + i - 1)' = batch'[i]
    BY <1>1, <1>3
  <2>5. ProducerInv'
    BY <1>1, <1>2, <1>3, <1>8, <2>2, <2>3, <2>4 DEF IInv, ProducerInv
  <2>6. IssuedInv'
    BY <1>1 DEF IInv, IssuedInv
  <2> QED
    BY <2>5, <2>6
<1>18. ConsumerInv' /\ HistoryInv'
  <2>1. \A i \in 1 .. tail : log'[i] = log[i]
    BY <1>1
  <2>2. caps'[cver] = caps[cver] /\ buffers'[cver] = buffers[cver]
    BY <1>2, <1>6, <1>7
  <2>3. \A t \in head .. head + n - 1 : Value(cver, t)' = Value(cver, t)
    BY <1>1, <2>2 DEF Value
  <2> QED
    BY <1>1, <2>1, <2>2, <2>3, ConsumerStays
<1> QED
  BY <1>13, <1>14, <1>15, <1>16, <1>17, <1>18 DEF IInv

-----------------------------------------------------------------------------
(* References *)

LEMMA HoldersCount == \A v : Holders(v) \in Nat
BY DEF Holders, One

LEMMA HoldersCountNext == \A v : Holders(v)' \in Nat
BY DEF Holders, One

(* What is still held after an exchange was held before, and is untouched. *)
LEMMA ExchangeSpares ==
    ASSUME IInv, NEW dropped, NEW made, Exchange(dropped, made), VersionsAreHeld',
           made \in DOMAIN caps => refs[made] > 0
    PROVE  /\ VersionType' /\ caps' = caps
           /\ \A v \in DOMAIN caps : refs'[v] > 0 => refs[v] > 0 /\ buffers'[v] = buffers[v]
<1>1. /\ DOMAIN refs = DOMAIN caps /\ DOMAIN buffers = DOMAIN caps
      /\ \A v \in DOMAIN caps : caps[v] \in Nat \ {0} /\ refs[v] \in Nat
      /\ \A v \in DOMAIN caps : buffers[v] \in [0 .. caps[v] - 1 -> Nat \union {Empty}]
      /\ caps \in [DOMAIN caps -> Nat \ {0}]
  BY DEF IInv, TypeOK
<1>2. /\ caps' = caps
      /\ refs' = [v \in DOMAIN caps |->
                    refs[v] + (IF v = made THEN 1 ELSE 0) - (IF v = dropped THEN 1 ELSE 0)]
      /\ buffers' = [v \in DOMAIN caps |->
                       IF refs'[v] = 0 THEN AllocNew(caps[v]) ELSE buffers[v]]
  BY <1>1 DEF Exchange
<1>3. \A v \in DOMAIN caps : refs'[v] \in Nat
  BY <1>2, HoldersCountNext DEF VersionsAreHeld
<1>4. refs' \in [DOMAIN caps -> Nat]
  BY <1>2, <1>3
<1>5. \A v \in DOMAIN caps : buffers'[v] \in [0 .. caps[v] - 1 -> Nat \union {Empty}]
  <2>1. \A v \in DOMAIN caps : AllocNew(caps[v]) \in [0 .. caps[v] - 1 -> Nat \union {Empty}]
    BY DEF AllocNew
  <2> QED
    BY <1>1, <1>2, <2>1
<1>6. VersionType'
  BY <1>1, <1>2, <1>4, <1>5 DEF VersionType
<1>7. ASSUME NEW v \in DOMAIN caps, refs'[v] > 0
      PROVE  refs[v] > 0 /\ buffers'[v] = buffers[v]
  <2>1. refs'[v] # 0
    BY <1>3, <1>7
  <2>2. refs[v] > 0
    <3>1. CASE v = made
      BY <3>1
    <3>2. CASE v # made
      BY <1>1, <1>2, <1>7, <3>2
    <3> QED
      BY <3>1, <3>2
  <2> QED
    BY <1>2, <2>1, <2>2
<1> QED
  BY <1>2, <1>6, <1>7

LEMMA RingSpared ==
    ASSUME IInv, UNCHANGED <<tail, wordId, past, head, caps, log>>, Taken' = Taken,
           \A v \in DOMAIN caps : refs'[v] > 0 => refs[v] > 0 /\ buffers'[v] = buffers[v]
    PROVE  RingInv'
<1>1. Word' = Word /\ RingInv
  BY DEF Word, IInv
<1>2. ASSUME NEW s \in past \union {Word}, NEW v \in DOMAIN caps, v >= s.id, refs'[v] > 0
      PROVE  HasValues(v, head, s.tail)'
  <2>1. HasValues(v, head, s.tail) /\ buffers'[v] = buffers[v]
    BY <1>1, <1>2 DEF RingInv
  <2> QED
    BY <2>1 DEF HasValues, Value
<1> QED
  BY <1>1, <1>2 DEF RingInv

-----------------------------------------------------------------------------
(* last_version.swap *)

(* The places of the lock, of the two threads there are. *)
LEMMA LockSteps ==
    ASSUME IInv, NEW t \in Threads, NEW from, NEW to \in LockPlaces, LockGoto(t, from, to)
    PROVE  /\ lpc[t] = from /\ lpc'[t] = to /\ lpc' \in [Threads -> LockPlaces]
           /\ \A u \in Threads \ {t} : lpc'[u] = lpc[u]
BY DEF LockGoto, IInv, TypeOK

LEMMA TwoThreads ==
    /\ producer \in Threads /\ consumer \in Threads /\ producer # consumer
    /\ \A t \in Threads : t = producer \/ t = consumer
BY ThreadsAssumption

(* What every step of the swap has in common. *)
LEMMA SwapFrame ==
    ASSUME IInv, NEW ACTION lockStep, SwapStep(lockStep)
    PROVE  /\ ppc = "swap" /\ lockStep
           /\ UNCHANGED <<tail, wordId, past, head, cachedHead, pver, op, newCap>>
           /\ UNCHANGED <<batch, base, written, issued>>
           /\ UNCHANGED <<cver, cpc, cop, want, n, copied, log, delivered>>
           /\ newCap > 0 /\ newCap \in Nat /\ written = 0 /\ base = tail /\ Grew
           /\ At = pver + 1 /\ At' = pver + 1
           /\ SharedType' /\ ConsumerType' /\ IssuedInv' /\ Taken' = Taken
<1>1. /\ ppc = "swap" /\ lockStep
      /\ UNCHANGED <<tail, wordId, past, head, cachedHead, pver, op, newCap>>
      /\ UNCHANGED <<batch, base, written, issued>>
      /\ UNCHANGED <<cver, cpc, cop, want, n, copied, log, delivered>>
  BY DEF SwapStep, word, pushing, thief
<1>2. newCap > 0 /\ newCap \in Nat /\ written = 0 /\ base = tail
  BY <1>1 DEF IInv, TypeOK, ProducerInv
<1>3. Grew /\ At = pver + 1 /\ At' = pver + 1
  BY <1>1, <1>2 DEF Grew, At
<1>4. SharedType' /\ ConsumerType'
  BY <1>1 DEF SharedType, ConsumerType, IInv, TypeOK
<1>5. IssuedInv'
  BY <1>1 DEF IInv, IssuedInv
<1>6. Taken' = Taken
  BY <1>1 DEF Taken
<1> QED
  BY <1>1, <1>2, <1>3, <1>4, <1>5, <1>6

LEMMA SwapTryWriteStep == ASSUME IInv, SwapTryWrite PROVE IInv'
<1>1. /\ SwapStep(TryWrite(producer)) /\ UNCHANGED <<ppc, caps, buffers, refs>>
  BY DEF SwapTryWrite, versions
<1>2. /\ ppc = "swap" /\ TryWrite(producer)
      /\ UNCHANGED <<tail, wordId, past, head, cachedHead, pver, op, newCap>>
      /\ UNCHANGED <<batch, base, written, issued>>
      /\ UNCHANGED <<cver, cpc, cop, want, n, copied, log, delivered>>
      /\ newCap > 0 /\ written = 0 /\ Grew
      /\ SharedType' /\ ConsumerType' /\ IssuedInv' /\ Taken' = Taken
  BY <1>1, SwapFrame
<1>3. /\ state = 0 /\ state' = -1 /\ cell' = cell /\ seen' = seen
      /\ lpc[producer] = "out" /\ lpc'[producer] = "writing" /\ lpc'[consumer] = lpc[consumer]
      /\ lpc' \in [Threads -> LockPlaces]
  BY <1>2, LockSteps, TwoThreads DEF TryWrite, LockPlaces
<1>4. Grew' = Grew /\ Swapped' = Swapped /\ ~Swapped
  <2>1. Grew = TRUE /\ Grew' = TRUE /\ Swapped = FALSE /\ Swapped' = FALSE
    BY <1>1, <1>2, <1>3 DEF Grew, Swapped
  <2> QED
    BY <2>1
<1>5. TypeOK'
  <2>1. VersionType' /\ LockType' /\ ProducerType'
    <3>1. VersionType'
      BY <1>1 DEF VersionType, IInv, TypeOK
    <3>2. LockType'
      BY <1>3 DEF LockType, IInv, TypeOK
    <3>3. ProducerType'
      BY <1>1, <1>2 DEF ProducerType, IInv, TypeOK
    <3> QED
      BY <3>1, <3>2, <3>3
  <2> QED
    BY <1>2, <2>1, TypePartsNext
<1>6. VersionsAreHeld' /\ VersionInv'
  <2>1. VersionsAreHeld'
    BY <1>1, <1>2, <1>3, <1>4 DEF IInv, VersionsAreHeld, Holders
  <2>2. Newest' = Newest
    BY <1>2, <1>4 DEF Newest
  <2>3. VersionInv'
    BY <1>1, <1>2, <1>3, <1>4, <2>2 DEF IInv, VersionInv
  <2> QED
    BY <2>1, <2>3
<1>7. LockInv'
  <2>1. lpc[consumer] # "reading"
    BY <1>3 DEF IInv, LockInv, One
  <2>2. \A t \in Threads : lpc'[t] = "readCas" => seen'[t] >= 0
    BY <1>3, TwoThreads DEF IInv, LockInv
  <2> QED
    BY <1>1, <1>2, <1>3, <2>1, <2>2 DEF IInv, LockInv
<1>8. RingInv'
  BY <1>1, <1>2, RingStays DEF IInv
<1>9. ProducerInv'
  BY <1>1, <1>2, Counters, ProducerStays
<1>10. ConsumerInv' /\ HistoryInv'
  <2>1. \A t \in head .. head + n - 1 : Value(cver, t)' = Value(cver, t)
    BY <1>1, <1>2 DEF Value
  <2> QED
    BY <1>1, <1>2, <2>1, ConsumerStays
<1> QED
  BY <1>2, <1>5, <1>6, <1>7, <1>8, <1>9, <1>10 DEF IInv

LEMMA SwapTakeOutStep == ASSUME IInv, SwapTakeOut PROVE IInv'
<1>1. /\ SwapStep(TakeOut(producer)) /\ UNCHANGED <<ppc, caps, buffers, refs>>
  BY DEF SwapTakeOut, versions
<1>2. /\ ppc = "swap" /\ TakeOut(producer)
      /\ UNCHANGED <<tail, wordId, past, head, cachedHead, pver, op, newCap>>
      /\ UNCHANGED <<batch, base, written, issued>>
      /\ UNCHANGED <<cver, cpc, cop, want, n, copied, log, delivered>>
      /\ newCap > 0 /\ written = 0 /\ Grew
      /\ SharedType' /\ ConsumerType' /\ IssuedInv' /\ Taken' = Taken
  BY <1>1, SwapFrame
<1>3. /\ state' = state /\ cell' = Moved /\ seen' = seen
      /\ lpc[producer] = "writing" /\ lpc'[producer] = "replacing" /\ lpc'[consumer] = lpc[consumer]
      /\ lpc' \in [Threads -> LockPlaces]
  BY <1>2, LockSteps, TwoThreads DEF TakeOut, LockPlaces
<1>4. Grew' = Grew /\ Swapped' = Swapped /\ ~Swapped
  <2>1. Grew = TRUE /\ Grew' = TRUE /\ Swapped = FALSE /\ Swapped' = FALSE
    BY <1>1, <1>2, <1>3 DEF Grew, Swapped
  <2> QED
    BY <2>1
<1>5. TypeOK'
  <2>1. VersionType' /\ LockType' /\ ProducerType'
    <3>1. VersionType'
      BY <1>1 DEF VersionType, IInv, TypeOK
    <3>2. LockType'
      BY <1>3 DEF LockType, IInv, TypeOK
    <3>3. ProducerType'
      BY <1>1, <1>2 DEF ProducerType, IInv, TypeOK
    <3> QED
      BY <3>1, <3>2, <3>3
  <2> QED
    BY <1>2, <2>1, TypePartsNext
<1>6. VersionsAreHeld' /\ VersionInv'
  <2>1. cell = pver /\ DOMAIN caps = 0 .. pver + 1 /\ pver \in Nat
    BY <1>2, <1>3, <1>4, Versions DEF IInv, VersionInv, Newest
  <2>2. \A v \in DOMAIN caps : v # Moved /\ v \in Nat
    BY <2>1, MovedIsNoVersion
  <2>3. VersionsAreHeld'
    <3> SUFFICES ASSUME NEW v \in DOMAIN caps PROVE refs[v] = Holders(v)'
      BY <1>1 DEF VersionsAreHeld
    <3>1. refs[v] = Holders(v)
      BY DEF IInv, VersionsAreHeld
    <3>2. Holders(v)' = Holders(v)
      BY <1>2, <1>3, <1>4, <2>1, <2>2 DEF Holders, One
    <3> QED
      BY <3>1, <3>2
  <2>4. Newest' = Newest
    BY <1>2, <1>4 DEF Newest
  <2>5. VersionInv'
    BY <1>1, <1>2, <1>3, <1>4, <2>4 DEF IInv, VersionInv
  <2> QED
    BY <2>3, <2>5
<1>7. LockInv'
  <2>1. \A t \in Threads : lpc'[t] = "readCas" => seen'[t] >= 0
    BY <1>3, TwoThreads DEF IInv, LockInv
  <2> QED
    BY <1>1, <1>2, <1>3, <2>1 DEF IInv, LockInv
<1>8. RingInv'
  BY <1>1, <1>2, RingStays DEF IInv
<1>9. ProducerInv'
  BY <1>1, <1>2, Counters, ProducerStays
<1>10. ConsumerInv' /\ HistoryInv'
  <2>1. \A t \in head .. head + n - 1 : Value(cver, t)' = Value(cver, t)
    BY <1>1, <1>2 DEF Value
  <2> QED
    BY <1>1, <1>2, <2>1, ConsumerStays
<1> QED
  BY <1>2, <1>5, <1>6, <1>7, <1>8, <1>9, <1>10 DEF IInv

LEMMA SwapPutInStep == ASSUME IInv, SwapPutIn PROVE IInv'
<1>1. /\ SwapStep(PutIn(producer, At)) /\ Exchange(pver, Moved) /\ ppc' = ppc
  BY DEF SwapPutIn, Drop
<1>2. /\ ppc = "swap" /\ PutIn(producer, At)
      /\ UNCHANGED <<tail, wordId, past, head, cachedHead, pver, op, newCap>>
      /\ UNCHANGED <<batch, base, written, issued>>
      /\ UNCHANGED <<cver, cpc, cop, want, n, copied, log, delivered>>
      /\ newCap > 0 /\ written = 0 /\ Grew /\ At = pver + 1
      /\ SharedType' /\ ConsumerType' /\ IssuedInv' /\ Taken' = Taken
  BY <1>1, SwapFrame
<1>3. /\ state' = state /\ cell' = pver + 1 /\ seen' = seen
      /\ lpc[producer] = "replacing" /\ lpc'[producer] = "replaced" /\ lpc'[consumer] = lpc[consumer]
      /\ lpc' \in [Threads -> LockPlaces]
  BY <1>2, LockSteps, TwoThreads DEF PutIn, LockPlaces
<1>4. Grew' /\ Swapped' /\ ~Swapped
  BY <1>1, <1>2, <1>3 DEF Grew, Swapped
<1>5. /\ cell = Moved /\ DOMAIN caps = 0 .. pver + 1 /\ pver \in Nat /\ wordId = pver
      /\ cver \in Nat /\ cver <= pver
  BY <1>2, <1>3, <1>4, Versions DEF IInv, VersionInv, Newest
<1>6. \A v \in DOMAIN caps : v # Moved /\ v \in Nat
  BY <1>5, MovedIsNoVersion
<1>7. /\ caps' = caps
      /\ refs' = [v \in DOMAIN caps |->
                    refs[v] + (IF v = Moved THEN 1 ELSE 0) - (IF v = pver THEN 1 ELSE 0)]
  BY <1>1 DEF Exchange, IInv, TypeOK
<1>8. VersionsAreHeld'
  <2> SUFFICES ASSUME NEW v \in DOMAIN caps PROVE refs'[v] = Holders(v)'
    BY <1>7 DEF VersionsAreHeld
  <2>1. refs[v] = Holders(v) /\ refs[v] \in Nat
    BY DEF IInv, TypeOK, VersionsAreHeld
  <2>2. refs'[v] = refs[v] - (IF v = pver THEN 1 ELSE 0)
    BY <1>6, <1>7, <2>1
  <2>3. CASE v = pver
    <3>1. v # pver + 1 /\ v # cell /\ v # cell'
      BY <1>3, <1>5, <1>6, <2>3
    <3>2. Holders(v) = Holders(v)' + 1
      BY <1>2, <1>3, <1>4, <1>5, <1>6, <2>3, <3>1 DEF Holders, One
    <3> QED
      BY <2>1, <2>2, <2>3, <3>2, HoldersCountNext
  <2>4. CASE v # pver
    <3>1. v # cell /\ pver + 1 # Moved
      BY <1>5, <1>6
    <3>2. Holders(v) = Holders(v)'
      BY <1>2, <1>3, <1>4, <1>5, <1>6, <2>4, <3>1 DEF Holders, One
    <3> QED
      BY <2>1, <2>2, <2>4, <3>2
  <2> QED
    BY <2>3, <2>4
<1>9. /\ VersionType'
      /\ \A v \in DOMAIN caps : refs'[v] > 0 => refs[v] > 0 /\ buffers'[v] = buffers[v]
  <2>1. Moved \in DOMAIN caps => refs[Moved] > 0
    BY <1>6
  <2> QED
    BY <1>1, <1>8, <2>1, ExchangeSpares
<1>10. TypeOK'
  <2>1. LockType'
    BY <1>3 DEF LockType, IInv, TypeOK
  <2>2. ProducerType'
    BY <1>1, <1>2 DEF ProducerType, IInv, TypeOK
  <2> QED
    BY <1>2, <1>9, <2>1, <2>2, TypePartsNext
<1>11. VersionInv'
  <2>1. Newest' = pver + 1
    BY <1>2, <1>4 DEF Newest
  <2> QED
    BY <1>1, <1>2, <1>3, <1>4, <1>5, <1>7, <2>1 DEF VersionInv
<1>12. LockInv'
  <2>1. \A t \in Threads : lpc'[t] = "readCas" => seen'[t] >= 0
    BY <1>3, TwoThreads DEF IInv, LockInv
  <2> QED
    BY <1>1, <1>2, <1>3, <2>1 DEF IInv, LockInv
<1>13. RingInv'
  BY <1>2, <1>7, <1>9, RingSpared
<1>14. ProducerInv'
  BY <1>1, <1>2, <1>7, Counters, ProducerStays
<1>15. ConsumerInv' /\ HistoryInv'
  <2>1. buffers'[cver] = buffers[cver]
    <3>1. cver \in DOMAIN caps
      BY Versions
    <3>2. refs'[cver] > 0
      BY <1>2, <1>7, <1>8, <3>1 DEF VersionsAreHeld, Holders, One
    <3> QED
      BY <1>9, <3>1, <3>2
  <2>2. \A t \in head .. head + n - 1 : Value(cver, t)' = Value(cver, t)
    BY <1>2, <1>7, <2>1 DEF Value
  <2> QED
    BY <1>2, <1>7, <2>2, ConsumerStays
<1> QED
  BY <1>8, <1>10, <1>11, <1>12, <1>13, <1>2, <1>14, <1>15 DEF IInv

LEMMA SwapUnlockStep == ASSUME IInv, SwapUnlock PROVE IInv'
<1>1. /\ SwapStep(WriteUnlock(producer)) /\ UNCHANGED <<caps, buffers, refs>>
      /\ ppc' = IF batch = <<>> THEN "publish" ELSE "write"
  BY DEF SwapUnlock, versions
<1>2. /\ ppc = "swap" /\ WriteUnlock(producer)
      /\ UNCHANGED <<tail, wordId, past, head, cachedHead, pver, op, newCap>>
      /\ UNCHANGED <<batch, base, written, issued>>
      /\ UNCHANGED <<cver, cpc, cop, want, n, copied, log, delivered>>
      /\ newCap > 0 /\ written = 0 /\ Grew /\ base = tail /\ At' = At
      /\ SharedType' /\ ConsumerType' /\ IssuedInv' /\ Taken' = Taken
  BY <1>1, SwapFrame
<1>3. /\ state' = 0 /\ cell' = cell /\ seen' = seen
      /\ lpc[producer] = "replaced" /\ lpc'[producer] = "out" /\ lpc'[consumer] = lpc[consumer]
      /\ lpc' \in [Threads -> LockPlaces]
  BY <1>2, LockSteps, TwoThreads DEF WriteUnlock, LockPlaces
<1>4. Grew' = Grew /\ Swapped' = Swapped
  <2>1. Grew = TRUE /\ Grew' = TRUE /\ Swapped = TRUE /\ Swapped' = TRUE
    BY <1>1, <1>2, <1>3 DEF Grew, Swapped
  <2> QED
    BY <2>1
<1>5. TypeOK'
  <2>1. VersionType'
    BY <1>1 DEF VersionType, IInv, TypeOK
  <2>2. LockType'
    BY <1>3 DEF LockType, IInv, TypeOK
  <2>3. ProducerType'
    BY <1>1, <1>2 DEF ProducerType, IInv, TypeOK
  <2> QED
    BY <1>2, <2>1, <2>2, <2>3, TypePartsNext
<1>6. VersionsAreHeld' /\ VersionInv'
  <2>1. VersionsAreHeld'
    BY <1>1, <1>2, <1>3, <1>4 DEF IInv, VersionsAreHeld, Holders
  <2>2. Newest' = Newest
    BY <1>2, <1>4 DEF Newest
  <2>3. VersionInv'
    BY <1>1, <1>2, <1>3, <1>4, <2>2 DEF IInv, VersionInv
  <2> QED
    BY <2>1, <2>3
<1>7. LockInv'
  <2>1. \A t \in Threads : lpc'[t] = "readCas" => seen'[t] >= 0
    BY <1>3, TwoThreads DEF IInv, LockInv
  <2>2. lpc[consumer] # "reading"
    BY <1>3 DEF IInv, LockInv
  <2> QED
    BY <1>1, <1>2, <1>3, <2>1, <2>2 DEF IInv, LockInv, One
<1>8. RingInv'
  BY <1>1, <1>2, RingStays DEF IInv
<1>9. ProducerInv'
  <2>1. batch \in Seq(Nat)
    BY DEF IInv, TypeOK
  <2>2. IF batch = <<>> THEN Len(batch) = 0 ELSE Len(batch) > 0
    BY <2>1
  <2>3. \A i \in 1 .. written' : Value(At, tail + i - 1)' = batch'[i]
    BY <1>2
  <2>4. op # "copyAndCommitIf"
    BY <1>2 DEF IInv, ProducerInv
  <2> QED
    BY <1>1, <1>2, <2>2, <2>3, <2>4 DEF IInv, ProducerInv
<1>10. ConsumerInv' /\ HistoryInv'
  <2>1. \A t \in head .. head + n - 1 : Value(cver, t)' = Value(cver, t)
    BY <1>1, <1>2 DEF Value
  <2> QED
    BY <1>1, <1>2, <2>1, ConsumerStays
<1> QED
  BY <1>2, <1>5, <1>6, <1>7, <1>8, <1>9, <1>10 DEF IInv

-----------------------------------------------------------------------------
(* The writes and the store of the word *)

(* A write of the producer hits no ticket from head to where it writes. *)
LEMMA WriteSpares ==
    ASSUME IInv, WriteNext, NEW v \in DOMAIN caps, NEW t \in head .. tail + written - 1
    PROVE  Value(v, t)' = Value(v, t)
<1> DEFINE to == tail + written
<1>1. /\ ppc = "write" /\ caps' = caps
      /\ buffers' = [buffers EXCEPT ![At][PhysicalIndex(base + written, caps[At])] =
                                        batch[written + 1]]
  BY DEF WriteNext
<1>2. /\ base = tail /\ written < Len(batch)
      /\ tail + Len(batch) <= cachedHead + caps[At]
  BY <1>1 DEF IInv, ProducerInv
<1>3. /\ written \in Nat /\ Len(batch) \in Nat /\ tail \in Nat /\ head \in Nat /\ cachedHead \in Nat
      /\ cachedHead <= head
  <2>1. written \in Nat /\ Len(batch) \in Nat
    BY DEF IInv, TypeOK
  <2> QED
    BY <2>1, Counters
<1>4. At \in DOMAIN caps
  BY <1>1, PushVersion
<1>5. caps[At] \in Nat \ {0}
  BY <1>4, Versions
<1>6. CASE v # At
  BY <1>1, <1>6 DEF Value
<1>7. CASE v = At
  <2>1. t \in Nat /\ to \in Nat /\ t < to /\ to < t + caps[At]
    BY <1>2, <1>3, <1>5
  <2>2. PhysicalIndex(t, caps[At]) # PhysicalIndex(to, caps[At])
    <3> HIDE DEF to
    <3> QED
      BY <1>5, <2>1, IndicesDiffer
  <2>3. buffers'[At] = [buffers[At] EXCEPT ![PhysicalIndex(to, caps[At])] = batch[written + 1]]
    <3>1. At \in DOMAIN buffers
      BY <1>4 DEF IInv, TypeOK
    <3> QED
      BY <1>1, <1>2, <3>1
  <2>4. buffers'[At][PhysicalIndex(t, caps[At])] = buffers[At][PhysicalIndex(t, caps[At])]
    BY <2>2, <2>3
  <2> QED
    BY <1>1, <1>7, <2>4 DEF Value
<1> QED
  BY <1>6, <1>7

LEMMA WriteNextStep == ASSUME IInv, WriteNext PROVE IInv'
<1> DEFINE to == PhysicalIndex(tail + written, caps[At])
<1>1. /\ ppc = "write" /\ written' = written + 1
      /\ ppc' = IF written + 1 = Len(batch) THEN "publish" ELSE "write"
      /\ buffers' = [buffers EXCEPT ![At][PhysicalIndex(base + written, caps[At])] =
                                        batch[written + 1]]
      /\ UNCHANGED <<tail, wordId, past, head, cachedHead, caps, refs, pver, op, batch, base>>
      /\ UNCHANGED <<newCap, issued, state, cell, lpc, seen>>
      /\ UNCHANGED <<cver, cpc, cop, want, n, copied, log, delivered>>
  BY DEF WriteNext, word, lockVars, thief
<1>2. /\ base = tail /\ written < Len(batch) /\ lpc[producer] = "out"
      /\ tail + Len(batch) <= cachedHead + caps[At]
      /\ tail <= cachedHead + caps[pver]
  BY <1>1 DEF IInv, ProducerInv, LockInv
<1>3. /\ written \in Nat /\ Len(batch) \in Nat /\ tail \in Nat /\ head \in Nat /\ cachedHead \in Nat
      /\ cachedHead <= head /\ n \in Nat /\ Taken \in Nat /\ Taken <= tail /\ head <= Taken
  <2>1. written \in Nat /\ Len(batch) \in Nat
    BY DEF IInv, TypeOK
  <2> QED
    BY <2>1, Counters
<1>4. At \in DOMAIN caps /\ At' = At
  BY <1>1, PushVersion DEF At
<1>5. caps[At] \in Nat \ {0} /\ to \in 0 .. caps[At] - 1
  <2>1. caps[At] \in Nat \ {0}
    BY <1>4, Versions
  <2>2. tail + written \in Nat
    BY <1>3
  <2> QED
    BY <2>1, <2>2, PhysicalIndexInBuffer
<1>6. batch[written + 1] \in Nat /\ written + 1 <= Len(batch)
  <2>1. batch \in Seq(Nat) /\ written + 1 \in 1 .. Len(batch)
    <3>1. written + 1 \in 1 .. Len(batch)
      BY <1>2, <1>3
    <3> QED
      BY <3>1 DEF IInv, TypeOK
  <2>2. batch \in [1 .. Len(batch) -> Nat]
    BY <2>1
  <2> QED
    BY <1>2, <1>3, <2>1, <2>2
<1>7. Grew' = Grew /\ Swapped' = Swapped
  <2>1. Grew' <=> Grew
    BY <1>1 DEF Grew
  <2>2. Swapped' <=> Swapped
    BY <1>1, <2>1 DEF Swapped
  <2>3. Grew \in BOOLEAN /\ Grew' \in BOOLEAN /\ Swapped \in BOOLEAN /\ Swapped' \in BOOLEAN
    BY DEF Grew, Swapped
  <2> QED
    BY <2>1, <2>2, <2>3
<1> HIDE DEF to
<1>8. TypeOK'
  <2>1. SharedType' /\ ConsumerType'
    BY <1>1 DEF SharedType, ConsumerType, IInv, TypeOK
  <2>2. LockType'
    BY <1>1 DEF LockType, IInv, TypeOK
  <2>3. ProducerType'
    <3>1. ProducerType
      BY TypeParts DEF IInv
    <3>2. written' \in Nat /\ ppc' \in {"write", "publish"}
      BY <1>1, <1>3
    <3> QED
      BY <1>1, <3>1, <3>2 DEF ProducerType
  <2>4. VersionType'
    <3>1. /\ DOMAIN buffers = DOMAIN caps
          /\ \A v \in DOMAIN caps : buffers[v] \in [0 .. caps[v] - 1 -> Nat \union {Empty}]
      BY DEF IInv, TypeOK
    <3>2. buffers' = [buffers EXCEPT ![At] = [buffers[At] EXCEPT ![to] = batch[written + 1]]]
      BY <1>1, <1>2 DEF to
    <3>3. [buffers[At] EXCEPT ![to] = batch[written + 1]] \in [0 .. caps[At] - 1 -> Nat \union {Empty}]
      BY <1>4, <1>5, <1>6, <3>1
    <3>4. DOMAIN buffers' = DOMAIN caps
      BY <3>1, <3>2
    <3>5. \A v \in DOMAIN caps : buffers'[v] \in [0 .. caps[v] - 1 -> Nat \union {Empty}]
      BY <1>4, <3>1, <3>2, <3>3
    <3> QED
      BY <1>1, <3>4, <3>5 DEF VersionType, IInv, TypeOK
  <2> QED
    BY <2>1, <2>2, <2>3, <2>4, TypePartsNext
<1>9. VersionsAreHeld' /\ VersionInv'
  BY <1>1, <1>7, VersionsStay
<1>10. LockInv'
  BY <1>1, <1>2, LockStays DEF IInv, LockInv
<1>11. RingInv'
  <2>1. Taken' = Taken /\ Word' = Word
    BY <1>1 DEF Taken, Word
  <2>2. ASSUME NEW s \in past \union {Word}, NEW v \in DOMAIN caps, v >= s.id, refs[v] > 0
        PROVE  HasValues(v, head, s.tail)'
    <3>1. HasValues(v, head, s.tail) /\ s.tail <= tail
      BY <2>2 DEF IInv, RingInv
    <3>2. s.tail \in Nat
      BY WordsAreTyped, Zenon
    <3>3. ASSUME NEW t \in head .. s.tail - 1
          PROVE  Value(v, t)' = log[t + 1]
      <4>1. t \in head .. tail + written - 1
        BY <1>3, <3>1, <3>2
      <4>2. Value(v, t)' = Value(v, t)
        BY <4>1, WriteSpares
      <4> QED
        BY <3>1, <4>2 DEF HasValues
    <3> QED
      BY <1>1, <3>3 DEF HasValues, Value
  <2>3. Len(log) = tail
        /\ \A s \in past \union {Word} : s.id <= wordId /\ Taken <= s.tail /\ s.tail <= tail
    BY DEF IInv, RingInv
  <2> QED
    BY <1>1, <2>1, <2>2, <2>3 DEF RingInv
<1>12. ProducerInv'
  <2>1. ASSUME NEW i \in 1 .. written + 1
        PROVE  Value(At, tail + i - 1)' = batch[i]
    <3>1. CASE i = written + 1
      <4>1. At \in DOMAIN buffers /\ to \in DOMAIN buffers[At]
        BY <1>4, <1>5 DEF IInv, TypeOK
      <4>2. buffers'[At][to] = batch[written + 1]
        BY <1>1, <1>2, <4>1 DEF to
      <4>3. tail + i - 1 = tail + written
        BY <1>3, <3>1
      <4> QED
        BY <1>1, <1>4, <3>1, <4>2, <4>3 DEF Value, to
    <3>2. CASE i # written + 1
      <4>1. i \in 1 .. written /\ tail + i - 1 \in head .. tail + written - 1
        BY <1>3, <3>2
      <4>2. Value(At, tail + i - 1) = batch[i]
        BY <4>1 DEF IInv, ProducerInv
      <4>3. PICK t \in head .. tail + written - 1 : t = tail + i - 1
        BY <4>1
      <4>4. \A v \in DOMAIN caps : Value(v, t)' = Value(v, t)
        BY WriteSpares
      <4>5. buffers'[At][PhysicalIndex(t, caps[At])] = Value(At, t)
        BY <1>1, <1>4, <4>4 DEF Value
      <4> QED
        BY <1>1, <1>4, <4>2, <4>3, <4>5 DEF Value
    <3> QED
      BY <3>1, <3>2
  <2>2. \A i \in 1 .. written' : Value(At, tail + i - 1)' = batch'[i]
    BY <1>1, <2>1
  <2>3. IF ppc' = "write" THEN written + 1 < Len(batch) ELSE ppc' = "publish" /\ written + 1 = Len(batch)
    BY <1>1, <1>3, <1>6
  <2>4. (op = "push" => Len(batch) = 1) /\ (op = "copyAndCommitIf" => newCap = 0)
    BY DEF IInv, ProducerInv
  <2> QED
    BY <1>1, <1>2, <1>3, <1>4, <2>2, <2>3, <2>4 DEF ProducerInv
<1>13. IssuedInv'
  BY <1>1 DEF IInv, IssuedInv
<1>14. ConsumerInv' /\ HistoryInv'
  <2>1. cver \in DOMAIN caps
    BY Versions
  <2>2. ASSUME cpc \in {"read", "store"}, NEW t \in head .. head + n - 1
        PROVE  Value(cver, t)' = Value(cver, t)
    <3>1. head + n <= tail
      BY <1>3, <2>2 DEF Taken
    <3>2. t \in head .. tail + written - 1
      BY <1>3, <2>2, <3>1
    <3>3. \A w \in DOMAIN caps : Value(w, t)' = Value(w, t)
      BY <3>2, WriteSpares
    <3> QED
      BY <1>1, <2>1, <3>3 DEF Value
  <2> QED
    BY <1>1, <2>2, ConsumerStays
<1> QED
  BY <1>8, <1>9, <1>10, <1>11, <1>12, <1>13, <1>14 DEF IInv

LEMMA DoNotCommitStep == ASSUME IInv, DoNotCommit PROVE IInv'
<1>1. /\ op = "copyAndCommitIf" /\ ppc = "publish" /\ ppc' = "idle" /\ op' = "none"
      /\ batch' = <<>> /\ base' = 0 /\ written' = 0 /\ newCap' = 0
      /\ UNCHANGED <<tail, wordId, past, head, caps, buffers, refs, cachedHead, issued>>
      /\ UNCHANGED <<state, cell, lpc, seen, pver>>
      /\ UNCHANGED <<cver, cpc, cop, want, n, copied, log, delivered>>
  BY DEF DoNotCommit, EndPush, word, versions, lockVars
<1>2. newCap = 0 /\ lpc[producer] = "out" /\ <<>> \in Seq(Nat) /\ <<>> \in Seq(1 .. MaxPushes)
        /\ Len(<<>>) = 0
  BY <1>1 DEF IInv, ProducerInv, LockInv
<1>3. Grew' = Grew /\ Swapped' = Swapped
  <2>1. Grew = FALSE /\ Grew' = FALSE /\ Swapped = FALSE /\ Swapped' = FALSE
    BY <1>1, <1>2 DEF Grew, Swapped
  <2> QED
    BY <2>1
<1>4. ProducerType'
  BY <1>1, <1>2 DEF ProducerType, IInv, TypeOK
<1>5. ProducerInv'
  BY <1>1, <1>2 DEF IInv, ProducerInv
<1>6. IssuedInv'
  <2>1. tail \in Nat /\ Len(batch) \in Nat /\ issued \in Nat /\ tail + Len(batch) <= issued /\ issued <= MaxPushes
    BY DEF IInv, TypeOK, IssuedInv
  <2>2. tail + 0 <= issued
    BY <2>1
  <2> QED
    BY <1>1, <1>2, <2>1, <2>2 DEF IssuedInv
<1> QED
  BY <1>1, <1>2, <1>3, <1>4, <1>5, <1>6, ProducerAlone

LEMMA Concatenated ==
    ASSUME NEW S, NEW a \in Seq(S), NEW b \in Seq(S)
    PROVE  /\ Len(a \o b) = Len(a) + Len(b)
           /\ \A i \in 1 .. Len(a) : (a \o b)[i] = a[i]
           /\ \A i \in 1 .. Len(b) : (a \o b)[Len(a) + i] = b[i]
OBVIOUS

LEMMA StoreWordStep == ASSUME IInv, StoreWord PROVE IInv'
<1>1. /\ ppc = "publish" /\ ppc' = "idle" /\ op' = "none"
      /\ batch' = <<>> /\ base' = 0 /\ written' = 0 /\ newCap' = 0
      /\ UNCHANGED <<head, cachedHead, issued, state, cell, lpc, seen>>
      /\ UNCHANGED <<cver, cpc, cop, want, n, copied, delivered>>
      /\ tail' = base + Len(batch) /\ wordId' = At /\ pver' = At
      /\ past' = past \union {Word} /\ log' = log \o batch
      /\ IF newCap = 0 THEN UNCHANGED <<caps, buffers, refs>> ELSE Exchange(pver, Moved)
  BY DEF StoreWord, EndPush, lockVars, versions, Drop
<1>2. /\ base = tail /\ written = Len(batch) /\ lpc[producer] = "out"
      /\ tail + Len(batch) <= cachedHead + caps[At]
      /\ \A i \in 1 .. Len(batch) : Value(At, tail + i - 1) = batch[i]
  BY <1>1 DEF IInv, ProducerInv, LockInv
<1>3. /\ tail \in Nat /\ head \in Nat /\ cachedHead \in Nat /\ cachedHead <= head
      /\ n \in Nat /\ Taken \in Nat /\ head <= Taken /\ Taken <= tail
      /\ Len(log) = tail /\ log \in Seq(Nat) /\ batch \in Seq(Nat) /\ Len(batch) \in Nat
  <2>1. batch \in Seq(Nat) /\ Len(batch) \in Nat
    BY DEF IInv, TypeOK
  <2> QED
    BY <2>1, Counters
<1>4. tail' = tail + Len(batch) /\ tail' \in Nat
  BY <1>1, <1>2, <1>3
<1>5. At \in DOMAIN caps /\ At \in Nat /\ refs[At] > 0 /\ pver <= At
  BY <1>1, PushVersion
<1>6. pver \in Nat /\ wordId = pver /\ cver \in Nat
  BY Versions
<1>7. ~Grew' /\ ~Swapped' /\ (Grew <=> newCap # 0) /\ (Swapped <=> newCap # 0)
  BY <1>1 DEF Grew, Swapped
<1>8. /\ Newest = At /\ cver <= At /\ cell = At /\ DOMAIN caps = 0 .. At
  <2>1. Newest = At
    BY <1>7 DEF Newest, At
  <2>2. cver <= Newest /\ cell = Newest
    BY <1>2 DEF IInv, VersionInv
  <2>3. DOMAIN caps = 0 .. At
    <3>1. DOMAIN caps = 0 .. (IF Grew THEN pver + 1 ELSE pver)
      BY DEF IInv, VersionInv
    <3> QED
      BY <1>7, <3>1 DEF At
  <2> QED
    BY <2>1, <2>2, <2>3
<1>9. \A v \in DOMAIN caps : v \in Nat /\ v # Moved
  BY <1>5, <1>8, MovedIsNoVersion
<1>10. caps' = caps
  BY <1>1 DEF Exchange
<1>11. VersionsAreHeld'
  <2> SUFFICES ASSUME NEW v \in DOMAIN caps PROVE refs'[v] = Holders(v)'
    BY <1>10 DEF VersionsAreHeld
  <2>1. refs[v] = Holders(v) /\ refs[v] \in Nat
    BY DEF IInv, TypeOK, VersionsAreHeld
  <2>2. cell # Moved
    BY <1>5, <1>8, MovedIsNoVersion
  <2>3. CASE newCap = 0
    <3>1. pver' = pver /\ refs' = refs
      BY <1>1, <2>3 DEF At
    <3>2. Holders(v)' = Holders(v)
      BY <1>1, <1>7, <2>3, <3>1 DEF Holders, One
    <3> QED
      BY <2>1, <3>1, <3>2
  <2>4. CASE newCap # 0
    <3>1. At = pver + 1
      BY <2>4 DEF At
    <3>2. refs'[v] = refs[v] - (IF v = pver THEN 1 ELSE 0)
      <4>1. refs' = [u \in DOMAIN caps |->
                       refs[u] + (IF u = Moved THEN 1 ELSE 0) - (IF u = pver THEN 1 ELSE 0)]
        BY <1>1, <2>4 DEF Exchange, IInv, TypeOK
      <4> QED
        BY <1>9, <2>1, <4>1
    <3>3. Holders(v)' = One(cver = v) + One(At = v) + One(At = v)
      BY <1>1, <1>6, <1>7, <1>8, <1>9, <2>2, <3>1 DEF Holders, One
    <3>4. CASE v = pver
      <4>1. v # At /\ Holders(v) = 1 + One(cver = v)
        BY <1>6, <1>7, <1>8, <2>2, <2>4, <3>1, <3>4 DEF Holders, One
      <4>2. Holders(v)' = One(cver = v)
        BY <3>3, <4>1 DEF One
      <4>3. One(cver = v) \in Nat
        BY DEF One
      <4> QED
        BY <2>1, <3>2, <3>4, <4>1, <4>2, <4>3
    <3>5. CASE v = At
      <4>1. v # pver /\ Holders(v) = One(cver = v) + 1 + 1
        BY <1>6, <1>7, <1>8, <2>2, <2>4, <3>1, <3>5 DEF Holders, One
      <4>2. Holders(v)' = One(cver = v) + 1 + 1
        BY <3>3, <3>5 DEF One
      <4> QED
        BY <2>1, <3>2, <4>1, <4>2
    <3>6. CASE v # pver /\ v # At
      <4>1. Holders(v) = One(cver = v) /\ Holders(v)' = One(cver = v)
        BY <1>7, <1>8, <2>2, <2>4, <3>1, <3>3, <3>6 DEF Holders, One
      <4> QED
        BY <2>1, <3>2, <3>6, <4>1
    <3> QED
      BY <3>4, <3>5, <3>6
  <2> QED
    BY <2>3, <2>4
<1>12. /\ VersionType'
       /\ \A v \in DOMAIN caps : refs'[v] > 0 => refs[v] > 0 /\ buffers'[v] = buffers[v]
  <2>1. CASE newCap = 0
    <3>1. UNCHANGED <<caps, buffers, refs>>
      BY <1>1, <2>1
    <3> QED
      BY <3>1 DEF VersionType, IInv, TypeOK
  <2>2. CASE newCap # 0
    <3>1. Moved \in DOMAIN caps => refs[Moved] > 0
      BY <1>9
    <3>2. Exchange(pver, Moved)
      BY <1>1, <2>2
    <3> QED
      BY <1>11, <3>1, <3>2, ExchangeSpares
  <2> QED
    BY <2>1, <2>2
<1>13. /\ log' \in Seq(Nat) /\ Len(log') = tail'
       /\ \A i \in 1 .. tail : log'[i] = log[i]
       /\ \A i \in 1 .. Len(batch) : log'[tail + i] = batch[i]
  <2>1. log' = log \o batch
    BY <1>1
  <2>2. log' \in Seq(Nat) /\ Len(log') = tail'
    <3>1. log \o batch \in Seq(Nat)
      BY <1>3
    <3>2. Len(log \o batch) = Len(log) + Len(batch)
      BY <1>3, Concatenated, Zenon
    <3> QED
      BY <1>3, <1>4, <2>1, <3>1, <3>2
  <2>3. \A i \in 1 .. tail : log'[i] = log[i]
    BY <1>3, <2>1, Concatenated, Zenon
  <2>4. \A i \in 1 .. Len(batch) : log'[tail + i] = batch[i]
    <3>1. \A i \in 1 .. Len(batch) : (log \o batch)[Len(log) + i] = batch[i]
      <4>1. log \in Seq(Nat) /\ batch \in Seq(Nat)
        BY <1>3
      <4>2. ASSUME NEW i \in 1 .. Len(batch)
            PROVE  (log \o batch)[Len(log) + i] = batch[i]
        BY <4>1, Concatenated
      <4> QED
        BY <4>2, Zenon
    <3>2. Len(log) = tail
      BY <1>3
    <3> QED
      BY <2>1, <3>1, <3>2, Zenon
  <2> QED
    BY <2>2, <2>3, <2>4
<1>14. Word \in WordType /\ past \subseteq WordType /\ Word.tail = tail /\ Word.id = pver
  BY <1>3, <1>6 DEF Word, WordType, IInv, TypeOK
<1>15. TypeOK'
  <2>1. SharedType'
    BY <1>1, <1>3, <1>4, <1>5, <1>13, <1>14 DEF SharedType, IInv, TypeOK
  <2>2. LockType' /\ ConsumerType'
    BY <1>1 DEF LockType, ConsumerType, IInv, TypeOK
  <2>3. ProducerType'
    <3>1. <<>> \in Seq(Nat)
      OBVIOUS
    <3> QED
      BY <1>1, <1>5, <3>1 DEF ProducerType, IInv, TypeOK
  <2> QED
    BY <1>12, <2>1, <2>2, <2>3, TypePartsNext
<1>16. VersionInv'
  <2>1. Newest' = At
    BY <1>1, <1>7 DEF Newest
  <2>2. lpc'[producer] # "replacing"
    BY <1>1, <1>2
  <2> QED
    BY <1>1, <1>7, <1>8, <1>10, <2>1, <2>2 DEF VersionInv
<1>17. LockInv'
  BY <1>1, <1>2, LockStays DEF IInv, LockInv
<1>18. RingInv'
  <2>1. Taken' = Taken /\ Word' = [id |-> At, tail |-> tail']
    BY <1>1 DEF Taken, Word
  <2>2. ASSUME NEW s \in past \union {Word}
        PROVE  /\ s.id <= At /\ Taken <= s.tail /\ s.tail <= tail'
               /\ \A v \in DOMAIN caps : v >= s.id /\ refs'[v] > 0 => HasValues(v, head, s.tail)'
    <3>1. /\ s.id <= wordId /\ Taken <= s.tail /\ s.tail <= tail
          /\ \A v \in DOMAIN caps : v >= s.id /\ refs[v] > 0 => HasValues(v, head, s.tail)
      BY DEF IInv, RingInv
    <3>2. s.id \in Nat /\ s.tail \in Nat
      BY <1>14 DEF WordType
    <3>3. s.id <= At /\ s.tail <= tail'
      BY <1>3, <1>4, <1>5, <1>6, <3>1, <3>2
    <3>4. ASSUME NEW v \in DOMAIN caps, v >= s.id, refs'[v] > 0
          PROVE  HasValues(v, head, s.tail)'
      <4>1. HasValues(v, head, s.tail) /\ buffers'[v] = buffers[v]
        BY <1>12, <3>1, <3>4
      <4>2. \A t \in head .. s.tail - 1 : log'[t + 1] = log[t + 1]
        <5>1. \A t \in head .. s.tail - 1 : t + 1 \in 1 .. tail
          BY <1>3, <3>1, <3>2
        <5> QED
          BY <1>13, <5>1
      <4> QED
        BY <1>1, <1>10, <4>1, <4>2 DEF HasValues, Value
    <3> QED
      BY <3>1, <3>3, <3>4
  <2>3. ASSUME NEW v \in DOMAIN caps, v >= At, refs'[v] > 0
        PROVE  HasValues(v, head, tail)' /\ \A t \in head .. tail' - 1 : Value(v, t)' = log'[t + 1]
    <3>1. v = At
      BY <1>5, <1>8, <2>3
    <3>2. Word \in past \union {Word} /\ v >= Word.id
      BY <1>5, <1>14, <3>1
    <3>3. HasValues(v, head, tail)
      BY <1>5, <1>14, <3>1, <3>2 DEF IInv, RingInv
    <3>4. buffers'[v] = buffers[v]
      BY <1>12, <2>3
    <3>5. ASSUME NEW t \in head .. tail' - 1
          PROVE  Value(v, t)' = log'[t + 1]
      <4>1. Value(v, t)' = Value(v, t)
        BY <1>10, <3>4 DEF Value
      <4>2. CASE t < tail
        <5>1. t \in head .. tail - 1 /\ t + 1 \in 1 .. tail
          BY <1>3, <1>4, <4>2
        <5> QED
          BY <1>13, <3>3, <4>1, <5>1 DEF HasValues
      <4>3. CASE t >= tail
        <5> DEFINE i == t - tail + 1
        <5>1. i \in 1 .. Len(batch) /\ tail + i - 1 = t /\ tail + i = t + 1
          BY <1>3, <1>4, <4>3
        <5> HIDE DEF i
        <5>2. Value(At, tail + i - 1) = batch[i]
          BY <1>2, <5>1
        <5>3. log'[tail + i] = batch[i]
          BY <1>13, <5>1
        <5> QED
          BY <3>1, <4>1, <5>1, <5>2, <5>3
      <4> QED
        BY <1>3, <1>4, <4>2, <4>3
    <3>6. HasValues(v, head, tail)'
      BY <1>1, <3>5 DEF HasValues, Value
    <3> QED
      BY <3>5, <3>6
  <2>4. Taken <= tail' /\ Word' \in past' \union {Word'} /\ Word'.id = At /\ Word'.tail = tail'
    BY <1>3, <1>4, <2>1
  <2>5. ASSUME NEW s \in past' \union {Word'}
        PROVE  /\ s.id <= wordId' /\ Taken' <= s.tail /\ s.tail <= tail'
               /\ \A v \in DOMAIN caps' : v >= s.id /\ refs'[v] > 0 => HasValues(v, head, s.tail)'
    <3>1. CASE s \in past \union {Word}
      BY <1>1, <1>10, <2>1, <2>2, <3>1
    <3>2. CASE s = Word'
      <4>1. s.id = At /\ s.tail = tail'
        BY <2>4, <3>2
      <4>2. ASSUME NEW v \in DOMAIN caps, v >= At, refs'[v] > 0
            PROVE  HasValues(v, head, s.tail)'
        <5>1. \A t \in head .. tail' - 1 : Value(v, t)' = log'[t + 1]
          BY <2>3, <4>2
        <5> QED
          BY <1>1, <4>1, <5>1 DEF HasValues, Value
      <4> QED
        BY <1>1, <1>4, <1>5, <1>10, <2>1, <2>4, <4>1, <4>2
    <3> QED
      BY <1>1, <2>5, <3>1, <3>2
  <2> QED
    BY <1>1, <1>13, <2>5 DEF RingInv, HasValues, Value
<1>19. ProducerInv'
  <2>1. caps'[pver'] = caps[At]
    BY <1>1, <1>10
  <2> QED
    BY <1>1, <1>2, <1>3, <1>4, <2>1 DEF ProducerInv
<1>20. IssuedInv'
  <2>1. issued \in Nat /\ tail + Len(batch) <= issued /\ issued <= MaxPushes
    BY DEF IInv, TypeOK, IssuedInv
  <2>2. <<>> \in Seq(1 .. MaxPushes) /\ Len(<<>>) = 0 /\ tail' + 0 <= issued
    BY <1>4, <2>1
  <2> QED
    BY <1>1, <2>1, <2>2 DEF IssuedInv
<1>21. ConsumerInv' /\ HistoryInv'
  <2>1. buffers'[cver] = buffers[cver]
    <3>1. cver \in DOMAIN caps
      BY Versions
    <3>2. refs'[cver] > 0
      BY <1>1, <1>10, <1>11, <3>1 DEF VersionsAreHeld, Holders, One
    <3> QED
      BY <1>12, <3>1, <3>2
  <2>2. \A t \in head .. head + n - 1 : Value(cver, t)' = Value(cver, t)
    BY <1>1, <1>10, <2>1 DEF Value
  <2> QED
    BY <1>1, <1>10, <1>13, <2>2, ConsumerStays
<1> QED
  BY <1>11, <1>15, <1>16, <1>17, <1>18, <1>19, <1>20, <1>21 DEF IInv

-----------------------------------------------------------------------------
(* The steps of the consumer *)

LEMMA OwnerStays ==
    ASSUME IInv, UNCHANGED owner
    PROVE  /\ UNCHANGED <<cachedHead, pver, ppc, op, batch, base, written, newCap, issued>>
           /\ ProducerType' /\ At' = At /\ Grew' = Grew
BY DEF owner, IInv, TypeOK, ProducerType, At, Grew

(* A step of the consumer that leaves head and the versions alone. *)
LEMMA ConsumerAlone ==
    ASSUME IInv, UNCHANGED <<tail, wordId, log, head, caps, buffers, refs>>, UNCHANGED owner,
           UNCHANGED <<cell, cver>>, lpc'[producer] = lpc[producer],
           past' \subseteq past, \A s \in past' \union {Word} : Taken' <= s.tail,
           DOMAIN delivered' \subseteq Nat,
           LockType', LockInv', ConsumerType', ConsumerInv', HistoryInv'
    PROVE  IInv'
<1>1. /\ UNCHANGED <<cachedHead, pver, ppc, op, batch, base, written, newCap, issued>>
      /\ ProducerType' /\ At' = At /\ Grew' = Grew
  BY OwnerStays
<1>2. Swapped' = Swapped /\ Newest' = Newest
  <2>1. Swapped' = Swapped
    BY <1>1 DEF Swapped
  <2> QED
    BY <1>1, <2>1 DEF Newest
<1>3. TypeOK'
  <2>1. SharedType'
    BY DEF SharedType, IInv, TypeOK
  <2>2. VersionType'
    BY DEF VersionType, IInv, TypeOK
  <2> QED
    BY <1>1, <2>1, <2>2, TypePartsNext
<1>4. VersionsAreHeld'
  BY <1>1 DEF IInv, VersionsAreHeld, Holders
<1>5. VersionInv'
  BY <1>1, <1>2 DEF IInv, VersionInv
<1>6. RingInv'
  <2>1. Word' = Word
    BY DEF Word
  <2>2. /\ Len(log) = tail
        /\ \A s \in past \union {Word} :
             /\ s.id <= wordId /\ s.tail <= tail
             /\ \A v \in DOMAIN caps : v >= s.id /\ refs[v] > 0 => HasValues(v, head, s.tail)
    BY DEF IInv, RingInv
  <2>3. past' \union {Word} \subseteq past \union {Word}
    OBVIOUS
  <2> QED
    BY <2>1, <2>2, <2>3 DEF RingInv, HasValues, Value
<1>7. ProducerInv' /\ IssuedInv'
  BY <1>1, Counters, ProducerStays
<1> QED
  BY <1>3, <1>4, <1>5, <1>6, <1>7 DEF IInv

(* ... and the lock. *)
LEMMA ConsumerOutside ==
    ASSUME IInv, UNCHANGED <<tail, wordId, log, head, caps, buffers, refs>>, UNCHANGED owner,
           UNCHANGED <<state, cell, lpc, seen, cver>>,
           past' \subseteq past, \A s \in past' \union {Word} : Taken' <= s.tail,
           DOMAIN delivered' \subseteq Nat,
           lpc[consumer] = "reading" <=> cpc' \in {"clone", "updated"},
           lpc[consumer] = "readCas" => cpc' = "update",
           ConsumerType', ConsumerInv', HistoryInv'
    PROVE  IInv'
<1>1. ppc' = ppc
  BY OwnerStays
<1>2. LockType'
  BY DEF LockType, IInv, TypeOK
<1>3. LockInv'
  BY <1>1, LockStays DEF IInv, LockInv
<1> QED
  BY <1>2, <1>3, ConsumerAlone

LEMMA NoLockHeld ==
    ASSUME IInv, cpc \notin {"update", "clone", "updated"}
    PROVE  lpc[consumer] # "reading" /\ lpc[consumer] # "readCas"
BY DEF IInv, LockInv

(* An operation that has read nothing yet is of no concern to the invariant. *)
LEMMA NothingRead ==
    ASSUME IInv, UNCHANGED <<head, log, delivered>>,
           cpc \notin {"read", "store", "return"}, cpc' \notin {"read", "store", "return"},
           copied' = <<>>
    PROVE  ConsumerInv' /\ HistoryInv' /\ Taken' = Taken
<1>1. ConsumerInv'
  BY DEF ConsumerInv
<1>2. HistoryInv'
  BY DEF IInv, HistoryInv, Returned
<1> QED
  BY <1>1, <1>2 DEF Taken

LEMMA WordsAreLonger ==
    ASSUME IInv
    PROVE  \A s \in past \union {Word} : Taken <= s.tail
BY DEF IInv, RingInv

LEMMA StartConsumerStep ==
    ASSUME IInv, \/ \E k \in DstLens : StartPopMany(k)
                 \/ StartSteal
                 \/ StartQuery
    PROVE  IInv'
<1>1. /\ cpc = "idle" /\ UNCHANGED <<tail, wordId, log, head, caps, buffers, refs>> /\ UNCHANGED owner
      /\ UNCHANGED <<state, cell, lpc, seen, cver, n, copied, delivered>>
      /\ cpc' \in {"idle", "load", "update"} /\ cop' \in {cop, "pop", "steal", "query"}
      /\ past' \subseteq past /\ want' \in Nat
  <2>1. CASE \E k \in DstLens : StartPopMany(k)
    BY <2>1, LensAssumption DEF StartPopMany, ConsumerFrame, word, versions, lockVars
  <2>2. CASE StartSteal
    BY <2>2 DEF StartSteal, ConsumerFrame, word, versions, lockVars, IInv, TypeOK
  <2>3. CASE StartQuery
    BY <2>3 DEF StartQuery, Looks, ConsumerFrame, word, versions, lockVars, IInv, TypeOK
  <2> QED
    BY <2>1, <2>2, <2>3
<1>2. copied = <<>>
  BY <1>1 DEF IInv, ConsumerInv
<1>3. ConsumerType'
  BY <1>1 DEF ConsumerType, IInv, TypeOK
<1>4. DOMAIN delivered \subseteq Nat
  BY DEF IInv, TypeOK
<1>5. ConsumerInv' /\ HistoryInv' /\ Taken' = Taken
  BY <1>1, <1>2, NothingRead
<1>6. \A s \in past' \union {Word} : Taken' <= s.tail
  BY <1>1, <1>5, WordsAreLonger
<1> QED
  BY <1>1, <1>3, <1>4, <1>5, <1>6, NoLockHeld, ConsumerOutside

LEMMA HasPart ==
    ASSUME NEW v, NEW first \in Nat, NEW end \in Nat, NEW from \in Nat, NEW to \in Nat,
           HasValues(v, first, end), first <= from, to <= end
    PROVE  HasValues(v, from, to)
<1>1. \A t \in from .. to - 1 : t \in first .. end - 1
  OBVIOUS
<1> QED
  BY <1>1 DEF HasValues

LEMMA LoadWordStep == ASSUME IInv, LoadWord PROVE IInv'
<1>1. /\ cpc = "load" /\ UNCHANGED <<tail, wordId, log, head, caps, buffers, refs>> /\ UNCHANGED owner
      /\ UNCHANGED <<state, cell, lpc, seen, cver, delivered>>
  BY DEF LoadWord, ConsumerFrame, word, versions, lockVars
<1> DEFINE aim(s) == IF cop = "steal" THEN (s.tail - head) \div 2 ELSE Smaller(want, s.tail - head)
           few    == IF cop = "steal" THEN MinSteal ELSE 1
<1>2. PICK s \in WordLoads :
        /\ Looks(s)
        /\ \/ cpc' = "update" /\ UNCHANGED <<cop, want, n, copied>>
           \/ EndPop
           \/ /\ ~IsBehind(s)
              /\ aim(s) >= few
              /\ n' = IF cop = "steal" THEN Smaller(aim(s), DstCapacity) ELSE aim(s)
              /\ cpc' = "read"
              /\ UNCHANGED <<cop, want, copied>>
  BY DEF LoadWord
<1>3. s \in past \union {Word} /\ past' \subseteq past /\ \A u \in past' : u.tail >= s.tail
  <2>1. s \in past \union {Word}
    BY DEF WordLoads
  <2> QED
    BY <1>2, <2>1 DEF Looks
<1>4. copied = <<>>
  BY <1>1 DEF IInv, ConsumerInv
<1>5. DOMAIN delivered \subseteq Nat
  BY DEF IInv, TypeOK
<1>6. CASE cpc' \in {"idle", "update"} /\ ConsumerType' /\ copied' = <<>>
  <2>1. ConsumerInv' /\ HistoryInv' /\ Taken' = Taken
    BY <1>1, <1>6, NothingRead
  <2>2. \A u \in past' \union {Word} : Taken' <= u.tail
    BY <1>3, <2>1, WordsAreLonger
  <2> QED
    BY <1>1, <1>3, <1>5, <1>6, <2>1, <2>2, NoLockHeld, ConsumerOutside
<1>7. CASE /\ ~IsBehind(s)
           /\ aim(s) >= few
           /\ n' = IF cop = "steal" THEN Smaller(aim(s), DstCapacity) ELSE aim(s)
           /\ cpc' = "read"
           /\ UNCHANGED <<cop, want, copied>>
  <2>1. /\ s.id \in Nat /\ s.tail \in Nat /\ head \in Nat /\ tail \in Nat /\ cver \in Nat /\ want \in Nat
        /\ head <= s.tail /\ s.tail <= tail
        /\ \A v \in DOMAIN caps : v >= s.id /\ refs[v] > 0 => HasValues(v, head, s.tail)
    <3>1. /\ head \in Nat /\ tail \in Nat /\ cver \in Nat /\ want \in Nat /\ wordId \in Nat
      BY DEF IInv, TypeOK
    <3>2. s.id \in Nat /\ s.tail \in Nat
      BY <1>3, WordsAreTyped, Zenon
    <3>3. Taken <= s.tail /\ s.tail <= tail
          /\ \A v \in DOMAIN caps : v >= s.id /\ refs[v] > 0 => HasValues(v, head, s.tail)
      BY <1>3 DEF IInv, RingInv
    <3>4. Taken = head
      BY <1>1 DEF Taken
    <3> QED
      BY <3>1, <3>2, <3>3, <3>4
  <2>2. n' \in Nat /\ n' >= 1 /\ head + n' <= s.tail
    <3>1. MinSteal \in Nat \ {0} /\ DstCapacity \in Nat \ {0}
      BY LensAssumption
    <3>2. CASE cop = "steal"
      <4>1. aim(s) = (s.tail - head) \div 2 /\ aim(s) >= MinSteal
        BY <1>7, <3>2
      <4>2. aim(s) \in Nat /\ aim(s) <= s.tail - head /\ aim(s) >= 1
        BY <2>1, <3>1, <4>1
      <4>3. n' = Smaller(aim(s), DstCapacity)
        BY <1>7, <3>2
      <4> HIDE DEF aim
      <4> QED
        BY <2>1, <3>1, <4>2, <4>3 DEF Smaller
    <3>3. CASE cop # "steal"
      <4>1. n' = Smaller(want, s.tail - head) /\ n' >= 1
        BY <1>7, <3>3
      <4> QED
        BY <2>1, <4>1 DEF Smaller
    <3> QED
      BY <3>2, <3>3
  <2>3. HasValues(cver, head, s.tail)
    <3>1. cver >= s.id
      BY <1>7, <2>1 DEF IsBehind
    <3> QED
      BY <2>1, <3>1, Versions
  <2>4. ConsumerType'
    BY <1>1, <1>7, <2>2 DEF ConsumerType, IInv, TypeOK
  <2>5. ConsumerInv'
    <3>0. PICK m \in Nat : m = n' /\ head + m <= s.tail
      BY <2>2
    <3>1. HasValues(cver, head, head + m)
      <4>0. head \in Nat /\ m \in Nat
        BY <2>1
      <4>1. head + m \in Nat
        BY <4>0
      <4> QED
        BY <2>1, <2>3, <3>0, <4>1, HasPart
    <3>2. Len(copied') = 0 /\ HasRead(head, 0)'
      BY <1>4, <1>7 DEF HasRead
    <3>3. cpc' = "read" /\ n' >= 1 /\ Len(copied') < n' /\ HasRead(head, Len(copied))'
      BY <1>7, <2>2, <3>2
    <3>4. HasValues(cver, head, head + n)'
      <4>1. head' = head /\ n' = m /\ log' = log /\ cver' = cver /\ buffers' = buffers /\ caps' = caps
        BY <1>1, <3>0
      <4> QED
        BY <3>1, <4>1 DEF HasValues, Value
    <3> QED
      BY <3>3, <3>4 DEF ConsumerInv
  <2>6. HistoryInv'
    BY <1>1, <1>7 DEF IInv, HistoryInv, Returned
  <2>7. \A u \in past' \union {Word} : Taken' <= u.tail
    <3>1. Taken' = head + n'
      BY <1>1, <1>7 DEF Taken
    <3>2. \A u \in past' : u.tail \in Nat
      BY <1>3 DEF IInv, TypeOK, WordType
    <3>3. Word.tail = tail
      BY DEF Word
    <3> QED
      BY <1>3, <2>1, <2>2, <3>1, <3>2, <3>3
  <2> QED
    BY <1>1, <1>3, <1>5, <1>7, <2>4, <2>5, <2>6, <2>7, NoLockHeld, ConsumerOutside
<1>8. CASE cpc' = "update" /\ UNCHANGED <<cop, want, n, copied>>
  <2>1. ConsumerType'
    BY <1>1, <1>8 DEF ConsumerType, IInv, TypeOK
  <2> QED
    BY <1>4, <1>6, <1>8, <2>1
<1>9. CASE EndPop
  <2>1. <<>> \in Seq(Nat \union {Empty})
    OBVIOUS
  <2>2. ConsumerType'
    BY <1>1, <1>9, <2>1 DEF EndPop, ConsumerType, IInv, TypeOK
  <2> QED
    BY <1>6, <1>9, <2>2 DEF EndPop
<1> QED
  BY <1>2, <1>7, <1>8, <1>9

LEMMA ReadNextStep == ASSUME IInv, ReadNext PROVE IInv'
<1> DEFINE k == Len(copied)
<1>1. /\ cpc = "read" /\ UNCHANGED <<tail, wordId, log, head, caps, buffers, refs>> /\ UNCHANGED owner
      /\ UNCHANGED <<state, cell, lpc, seen, past, cver, cop, want, n, delivered>>
      /\ copied' = Append(copied, Value(cver, head + Len(copied)))
      /\ cpc' = IF Len(copied) + 1 = n THEN "store" ELSE "read"
  BY DEF ReadNext, ConsumerFrame, word, versions, lockVars
<1>2. /\ head \in Nat /\ n \in Nat /\ tail \in Nat /\ k \in Nat /\ copied \in Seq(Nat \union {Empty})
      /\ log \in Seq(Nat) /\ Len(log) = tail
  <2>1. k \in Nat /\ copied \in Seq(Nat \union {Empty})
    BY DEF IInv, TypeOK
  <2> QED
    BY <2>1, Counters
<1>3. n >= 1 /\ HasValues(cver, head, head + n) /\ k < n /\ HasRead(head, k) /\ head + n <= tail
  <2>1. Taken = head + n /\ Taken <= tail
    BY <1>1, Counters DEF Taken
  <2> QED
    BY <1>1, <2>1 DEF IInv, ConsumerInv
<1>4. Value(cver, head + k) = log[head + k + 1] /\ log[head + k + 1] \in Nat
  <2>1. head + k \in head .. head + n - 1
    BY <1>2, <1>3
  <2>2. head + k + 1 \in 1 .. Len(log)
    BY <1>2, <1>3
  <2>3. \A i \in 1 .. Len(log) : log[i] \in Nat
    BY <1>2
  <2> HIDE DEF k
  <2>4. \A t \in head .. head + n - 1 : Value(cver, t) = log[t + 1]
    BY <1>2, <1>3 DEF HasValues
  <2>5. Value(cver, head + k) = log[head + k + 1]
    BY <2>1, <2>4, Zenon
  <2>6. log[head + k + 1] \in Nat
    BY <2>2, <2>3, Zenon
  <2> QED
    BY <2>5, <2>6
<1>5. /\ copied' \in Seq(Nat \union {Empty}) /\ Len(copied') = k + 1
      /\ \A i \in 1 .. k : copied'[i] = copied[i]
      /\ copied'[k + 1] = log[head + k + 1]
  <2> DEFINE x == Value(cver, head + k)
  <2>1. x \in Nat \union {Empty} /\ copied' = Append(copied, x)
    BY <1>1, <1>4
  <2> HIDE DEF x
  <2>2. /\ Append(copied, x) \in Seq(Nat \union {Empty}) /\ Len(Append(copied, x)) = k + 1
        /\ \A i \in 1 .. k : Append(copied, x)[i] = copied[i]
        /\ Append(copied, x)[k + 1] = x
    BY <1>2, <2>1
  <2> QED
    BY <1>4, <2>1, <2>2 DEF x
<1> HIDE DEF k
<1>6. HasRead(head, Len(copied))'
  <2>1. \A i \in 1 .. k + 1 : copied'[i] = log[head + i]
    <3> SUFFICES ASSUME NEW i \in 1 .. k + 1 PROVE copied'[i] = log[head + i]
      OBVIOUS
    <3>1. CASE i = k + 1
      <4>1. head + i = head + k + 1
        BY <1>2, <3>1
      <4> QED
        BY <1>5, <3>1, <4>1
    <3>2. CASE i # k + 1
      <4>1. i \in 1 .. k
        BY <1>2, <3>2
      <4> QED
        BY <1>3, <1>5, <4>1 DEF HasRead
    <3> QED
      BY <3>1, <3>2
  <2>3. Len(copied') = k + 1 /\ \A i \in 1 .. k + 1 : copied'[i] = log'[head' + i]
    BY <1>1, <1>5, <2>1
  <2> QED
    BY <1>2, <2>3 DEF HasRead
<1>7. ConsumerType'
  BY <1>1, <1>5 DEF ConsumerType, IInv, TypeOK
<1>8. ConsumerInv'
  <2>1. HasValues(cver, head, head + n)'
    BY <1>1, <1>3 DEF HasValues, Value
  <2>2. cpc' \in {"read", "store"} /\ n' >= 1 /\ (cpc' = "read" => Len(copied') < n')
          /\ (cpc' = "store" => Len(copied') = n')
    BY <1>1, <1>2, <1>3, <1>5 DEF k
  <2>3. cpc' = "store" => HasRead(head, n)'
    BY <1>6, <2>2 DEF HasRead
  <2> QED
    BY <1>6, <2>1, <2>2, <2>3 DEF ConsumerInv
<1>9. HistoryInv'
  BY <1>1 DEF IInv, HistoryInv, Returned
<1>10. \A s \in past' \union {Word} : Taken' <= s.tail
  <2>1. Taken' = Taken
    BY <1>1 DEF Taken
  <2> QED
    BY <1>1, <2>1, WordsAreLonger
<1>11. DOMAIN delivered \subseteq Nat
  BY DEF IInv, TypeOK
<1> QED
  BY <1>1, <1>7, <1>8, <1>9, <1>10, <1>11, NoLockHeld, ConsumerOutside

LEMMA StoreHeadStep == ASSUME IInv, StoreHead PROVE IInv'
<1>1. /\ cpc = "store" /\ cpc' = "return" /\ head' = head + n
      /\ UNCHANGED <<tail, wordId, log, caps, buffers, refs>> /\ UNCHANGED owner
      /\ UNCHANGED <<state, cell, lpc, seen, past, cver, cop, want, n, copied, delivered>>
  BY DEF StoreHead, ConsumerFrame, word, versions, lockVars
<1>2. head \in Nat /\ n \in Nat /\ tail \in Nat /\ head' \in Nat /\ head <= head'
  BY <1>1, Counters
<1>3. n >= 1 /\ HasRead(head, n)
  BY <1>1 DEF IInv, ConsumerInv
<1>4. UNCHANGED <<cachedHead, pver, ppc, op, batch, base, written, newCap, issued>>
        /\ ProducerType' /\ At' = At /\ Grew' = Grew
  BY <1>1, OwnerStays
<1>5. Swapped' = Swapped
  BY <1>1, <1>4 DEF Swapped
<1>6. TypeOK'
  <2>1. SharedType'
    BY <1>1, <1>2 DEF SharedType, IInv, TypeOK
  <2>2. VersionType'
    BY <1>1 DEF VersionType, IInv, TypeOK
  <2>3. LockType'
    BY <1>1 DEF LockType, IInv, TypeOK
  <2>4. ConsumerType'
    BY <1>1 DEF ConsumerType, IInv, TypeOK
  <2> QED
    BY <1>4, <2>1, <2>2, <2>3, <2>4, TypePartsNext
<1>7. VersionsAreHeld' /\ VersionInv'
  BY <1>1, <1>4, <1>5, VersionsStay
<1>8. LockInv'
  BY <1>1, <1>4, LockStays DEF IInv, LockInv
<1>9. RingInv'
  <2>1. Taken' = Taken /\ Word' = Word
    BY <1>1 DEF Taken, Word
  <2>2. ASSUME NEW s \in past \union {Word}, NEW v \in DOMAIN caps, v >= s.id, refs[v] > 0
        PROVE  HasValues(v, head, s.tail)'
    <3>1. HasValues(v, head, s.tail)
      BY <2>2 DEF IInv, RingInv
    <3>2. s.tail \in Nat
      BY WordsAreTyped, Zenon
    <3>3. \A t \in head' .. s.tail - 1 : t \in head .. s.tail - 1
      BY <1>2, <3>2
    <3> QED
      BY <1>1, <3>1, <3>3 DEF HasValues, Value
  <2> QED
    BY <1>1, <2>1, <2>2 DEF IInv, RingInv
<1>10. ProducerInv' /\ IssuedInv'
  BY <1>1, <1>2, <1>4, ProducerStays
<1>11. head' - n = head /\ n <= head'
  BY <1>1, <1>2
<1>12. ConsumerInv'
  <2>1. HasRead(head - n, n)'
    BY <1>1, <1>3, <1>11 DEF HasRead
  <2> QED
    BY <1>1, <1>3, <1>11, <2>1 DEF ConsumerInv
<1>13. HistoryInv'
  <2>1. Returned' = Returned
    BY <1>1, <1>11 DEF Returned
  <2> QED
    BY <1>1, <2>1 DEF IInv, HistoryInv
<1> QED
  BY <1>6, <1>7, <1>8, <1>9, <1>10, <1>12, <1>13 DEF IInv

LEMMA ReturnStep == ASSUME IInv, Return PROVE IInv'
<1>1. /\ cpc = "return" /\ UNCHANGED <<tail, wordId, log, head, caps, buffers, refs>> /\ UNCHANGED owner
      /\ UNCHANGED <<state, cell, lpc, seen, past, cver>>
      /\ cpc' = "idle" /\ cop' = "none" /\ want' = 0 /\ n' = 0 /\ copied' = <<>>
      /\ delivered' = [t \in DOMAIN delivered \union (head - n .. head - 1) |->
                         IF t >= head - n THEN copied[t - (head - n) + 1] ELSE delivered[t]]
  BY DEF Return, EndPop, ConsumerFrame, word, versions, lockVars
<1>2. head \in Nat /\ n \in Nat /\ 1 <= n /\ n <= head /\ HasRead(head - n, n)
  BY <1>1, Counters DEF IInv, ConsumerInv
<1>3. DOMAIN delivered \subseteq Nat
      /\ \A t \in DOMAIN delivered : t < head - n /\ delivered[t] = log[t + 1]
  BY <1>1 DEF IInv, TypeOK, HistoryInv, Returned
<1>4. DOMAIN delivered' = DOMAIN delivered \union (head - n .. head - 1) /\ DOMAIN delivered' \subseteq Nat
  BY <1>1, <1>2, <1>3
<1>5. ConsumerType'
  <2>1. <<>> \in Seq(Nat \union {Empty})
    OBVIOUS
  <2> QED
    BY <1>1, <2>1 DEF ConsumerType, IInv, TypeOK
<1>6. ConsumerInv'
  BY <1>1 DEF ConsumerInv
<1>7. HistoryInv'
  <2> SUFFICES ASSUME NEW t \in DOMAIN delivered'
               PROVE  t < head /\ delivered'[t] = log[t + 1]
    BY <1>1 DEF HistoryInv, Returned
  <2>1. CASE t \in head - n .. head - 1
    <3> DEFINE i == t - (head - n) + 1
    <3>1. i \in 1 .. n /\ (head - n) + i = t + 1 /\ t < head /\ t >= head - n
      BY <1>2, <2>1
    <3>2. delivered'[t] = copied[i]
      BY <1>1, <1>4, <3>1
    <3> HIDE DEF i
    <3>3. copied[i] = log[(head - n) + i]
      BY <1>2, <3>1 DEF HasRead
    <3> QED
      BY <3>1, <3>2, <3>3
  <2>2. CASE t \notin head - n .. head - 1
    <3>1. t \in DOMAIN delivered
      BY <1>4, <2>2
    <3>2. t \in Nat /\ t < head - n /\ delivered[t] = log[t + 1]
      BY <1>3, <3>1
    <3>3. delivered'[t] = delivered[t]
      BY <1>1, <1>2, <1>4, <3>2
    <3> QED
      BY <1>2, <3>2, <3>3
  <2> QED
    BY <2>1, <2>2
<1>8. \A s \in past' \union {Word} : Taken' <= s.tail
  <2>1. Taken' = Taken
    BY <1>1 DEF Taken
  <2> QED
    BY <1>1, <2>1, WordsAreLonger
<1> QED
  BY <1>1, <1>4, <1>5, <1>6, <1>7, <1>8, NoLockHeld, ConsumerOutside

-----------------------------------------------------------------------------
(* update_version *)

(* The steps that take and leave the lock: they leave the rest alone. *)
LEMMA UpdateFrame ==
    ASSUME IInv, cpc \in {"update", "updated"},
           UNCHANGED <<head, caps, buffers, refs, past, cver, delivered, cell>>, ConsumerFrame,
           lpc'[producer] = lpc[producer], LockType', LockInv',
           cpc' \in {"idle", "load", "update", "clone"}, cop' \in {"none", cop},
           want' \in {0, want}, n' \in {0, n}, copied' \in {<<>>, copied}
    PROVE  IInv'
<1>1. UNCHANGED <<tail, wordId, log>> /\ UNCHANGED owner
  BY DEF ConsumerFrame, word
<1>2. copied = <<>>
  BY DEF IInv, ConsumerInv
<1>3. ConsumerType'
  <2>1. <<>> \in Seq(Nat \union {Empty})
    OBVIOUS
  <2>2. copied' \in Seq(Nat \union {Empty})
    BY <1>2, <2>1
  <2>3. cop' \in {"none", "pop", "steal", "query"}
    BY DEF IInv, TypeOK
  <2>4. want' \in Nat /\ n' \in Nat /\ cver' \in Nat
    <3>1. want \in Nat /\ n \in Nat /\ cver \in Nat
      BY DEF IInv, TypeOK
    <3>2. cver' = cver
      OBVIOUS
    <3> QED
      BY <3>1, <3>2
  <2> QED
    BY <2>2, <2>3, <2>4 DEF ConsumerType
<1>4. ConsumerInv' /\ HistoryInv' /\ Taken' = Taken
  BY <1>1, <1>2, NothingRead
<1>5. \A s \in past' \union {Word} : Taken' <= s.tail
  BY <1>4, WordsAreLonger
<1>6. DOMAIN delivered' \subseteq Nat
  BY DEF IInv, TypeOK
<1> QED
  BY <1>1, <1>3, <1>4, <1>5, <1>6, ConsumerAlone

LEMMA UpdateLockStep ==
    ASSUME IInv, UpdateTryRead \/ UpdateCas \/ UpdateFails \/ UpdateDone
    PROVE  IInv'
<1>1. /\ cpc \in {"update", "updated"} /\ ConsumerFrame
      /\ UNCHANGED <<head, caps, buffers, refs, past, cver, delivered>>
  BY DEF UpdateTryRead, UpdateCas, UpdateFails, UpdateDone, Update, versions
<1>2. ppc' = ppc
  BY <1>1, OwnerStays DEF ConsumerFrame
<1>3. /\ lpc \in [Threads -> LockPlaces] /\ seen \in [Threads -> Int]
      /\ lpc[producer] \in {"out", "writing", "replacing", "replaced"}
      /\ ppc # "swap" => lpc[producer] = "out"
      /\ lpc[producer] # "out" => lpc[consumer] # "reading"
      /\ state = IF lpc[producer] # "out" THEN -1 ELSE One(lpc[consumer] = "reading")
      /\ \A t \in Threads : lpc[t] = "readCas" => seen[t] >= 0
      /\ lpc[consumer] = "reading" <=> cpc \in {"clone", "updated"}
  BY DEF IInv, TypeOK, LockInv
<1>4. CASE UpdateTryRead
  <2>1. /\ cpc = "update" /\ UNCHANGED <<cpc, cop, want, n, copied, state, cell>> /\ state # -1
        /\ lpc' \in [Threads -> LockPlaces] /\ lpc'[producer] = lpc[producer]
        /\ lpc'[consumer] = "readCas" /\ seen' = [seen EXCEPT ![consumer] = state]
    <3>1. /\ cpc = "update" /\ UNCHANGED <<cpc, cop, want, n, copied>>
          /\ TryRead(consumer) \/ ReadMiss(consumer)
      BY <1>4 DEF UpdateTryRead, Update
    <3>2. CASE TryRead(consumer)
      BY <3>1, <3>2, LockSteps, TwoThreads DEF TryRead, See, LockPlaces
    <3>3. CASE ReadMiss(consumer)
      BY <1>3, <3>1, <3>3 DEF ReadMiss, See
    <3> QED
      BY <3>1, <3>2, <3>3
  <2>2. state \in Nat
    BY <1>3, <2>1 DEF One
  <2>3. LockType'
    <3>1. [seen EXCEPT ![consumer] = state] \in [Threads -> Int]
      <4>1. seen \in [Threads -> Int] /\ state \in Int
        BY <1>3, <2>2
      <4> QED
        BY <4>1
    <3> QED
      BY <2>1, <3>1 DEF LockType
  <2>4. lpc[consumer] # "reading"
    BY <1>3, <2>1
  <2>5. \A t \in Threads : lpc'[t] = "readCas" => seen'[t] >= 0
    BY <1>3, <2>1, <2>2, TwoThreads
  <2>6. LockInv'
    BY <1>2, <1>3, <2>1, <2>4, <2>5 DEF LockInv, One
  <2> QED
    BY <1>1, <2>1, <2>3, <2>6, UpdateFrame
<1>5. CASE UpdateCas
  <2>1. cpc = "update" /\ cpc' = "clone" /\ UNCHANGED <<cop, want, n, copied>> /\ ReadCas(consumer)
    BY <1>5 DEF UpdateCas, Update
  <2>2. /\ lpc[consumer] = "readCas" /\ lpc'[consumer] = "reading" /\ lpc'[producer] = lpc[producer]
        /\ lpc' \in [Threads -> LockPlaces] /\ state = seen[consumer] /\ state' = state + 1
        /\ cell' = cell /\ seen' = [seen EXCEPT ![consumer] = 0]
    BY <2>1, LockSteps, TwoThreads DEF ReadCas, See, LockPlaces
  <2>3. lpc[producer] = "out" /\ state' = 1
    <3>1. seen[consumer] >= 0
      BY <1>3, <2>2, TwoThreads
    <3>2. lpc[producer] = "out"
      BY <1>3, <2>2, <3>1
    <3> QED
      BY <1>3, <2>2, <3>2 DEF One
  <2>4. LockType'
    <3>1. [seen EXCEPT ![consumer] = 0] \in [Threads -> Int]
      <4>1. seen \in [Threads -> Int]
        BY <1>3
      <4>2. \A x \in Int : [seen EXCEPT ![consumer] = x] \in [Threads -> Int]
        BY <4>1
      <4> QED
        BY <4>2
    <3> QED
      BY <2>2, <3>1 DEF LockType
  <2>5. \A t \in Threads : lpc'[t] # "readCas"
    BY <2>2, <2>3, TwoThreads
  <2>6. LockInv'
    BY <1>2, <1>3, <2>1, <2>2, <2>3, <2>5 DEF LockInv, One
  <2> QED
    BY <1>1, <2>1, <2>2, <2>4, <2>6, UpdateFrame
<1>6. CASE UpdateFails
  <2>1. cpc = "update" /\ EndPop /\ (ReadIsLocked(consumer) \/ ReadMissLocked(consumer))
    BY <1>6 DEF UpdateFails, Update
  <2>2. /\ cpc' = "idle" /\ cop' = "none" /\ want' = 0 /\ n' = 0 /\ copied' = <<>>
    BY <2>1 DEF EndPop
  <2>3. /\ lpc'[consumer] = "out" /\ lpc'[producer] = lpc[producer] /\ state' = state
        /\ lpc[consumer] # "reading" /\ lpc' \in [Threads -> LockPlaces] /\ cell' = cell
        /\ seen' = seen \/ seen' = [seen EXCEPT ![consumer] = 0]
    <3>1. CASE ReadIsLocked(consumer)
      BY <1>3, <3>1 DEF ReadIsLocked, lockVars
    <3>2. CASE ReadMissLocked(consumer)
      BY <3>2, LockSteps, TwoThreads DEF ReadMissLocked, See, LockPlaces
    <3> QED
      BY <2>1, <3>1, <3>2
  <2>4. LockType'
    <3>1. [seen EXCEPT ![consumer] = 0] \in [Threads -> Int]
      <4>1. seen \in [Threads -> Int]
        BY <1>3
      <4>2. \A x \in Int : [seen EXCEPT ![consumer] = x] \in [Threads -> Int]
        BY <4>1
      <4> QED
        BY <4>2
    <3> QED
      BY <1>3, <2>3, <3>1 DEF LockType
  <2>5. \A t \in Threads : lpc'[t] # "readCas"
    BY <1>3, <2>3, TwoThreads
  <2>6. LockInv'
    BY <1>2, <1>3, <2>2, <2>3, <2>5 DEF LockInv, One
  <2> QED
    BY <1>1, <2>2, <2>3, <2>4, <2>6, UpdateFrame
<1>7. CASE UpdateDone
  <2>1. /\ cpc = "updated" /\ ReadUnlock(consumer)
        /\ IF cop = "query" THEN EndPop ELSE cpc' = "load" /\ UNCHANGED <<cop, want, n, copied>>
    BY <1>7 DEF UpdateDone
  <2>2. /\ cpc' \in {"idle", "load"} /\ cop' \in {"none", cop} /\ want' \in {0, want}
        /\ n' \in {0, n} /\ copied' \in {<<>>, copied}
    BY <2>1 DEF EndPop
  <2>3. /\ lpc[consumer] = "reading" /\ lpc'[consumer] = "out" /\ lpc'[producer] = lpc[producer]
        /\ lpc' \in [Threads -> LockPlaces] /\ state' = state - 1 /\ cell' = cell /\ seen' = seen
    BY <2>1, LockSteps, TwoThreads DEF ReadUnlock, LockPlaces
  <2>4. lpc[producer] = "out" /\ state' = 0
    BY <1>3, <2>3 DEF One
  <2>5. LockType'
    BY <1>3, <2>3 DEF LockType
  <2>6. \A t \in Threads : lpc'[t] # "readCas"
    BY <2>3, <2>4, TwoThreads
  <2>7. LockInv'
    BY <1>2, <1>3, <2>2, <2>3, <2>4, <2>6 DEF LockInv, One
  <2> QED
    BY <1>1, <2>2, <2>3, <2>5, <2>7, UpdateFrame
<1> QED
  BY <1>4, <1>5, <1>6, <1>7

LEMMA CloneCellStep == ASSUME IInv, CloneCell PROVE IInv'
<1>1. /\ cpc = "clone" /\ cpc' = "updated" /\ cver' = cell /\ Exchange(cver, cell)
      /\ UNCHANGED <<tail, wordId, log, head, past, delivered>> /\ UNCHANGED owner
      /\ UNCHANGED <<state, cell, lpc, seen, cop, want, n, copied>>
  BY DEF CloneCell, ConsumerFrame, word, lockVars
<1>2. /\ UNCHANGED <<cachedHead, pver, ppc, op, batch, base, written, newCap, issued>>
      /\ ProducerType' /\ At' = At /\ Grew' = Grew
  BY <1>1, OwnerStays
<1>3. Swapped' = Swapped /\ Newest' = Newest
  <2>1. Swapped' = Swapped
    BY <1>1, <1>2 DEF Swapped
  <2> QED
    BY <1>2, <2>1 DEF Newest
<1>4. lpc[producer] = "out" /\ cell = Newest /\ cell \in Nat /\ cell \in DOMAIN caps /\ pver \in Nat
  <2>1. lpc[producer] = "out"
    BY <1>1 DEF IInv, LockInv
  <2> QED
    BY <2>1, Versions DEF IInv, VersionInv
<1>5. cell # Moved /\ cver \in DOMAIN caps
  BY <1>4, MovedIsNoVersion, Versions
<1>6. /\ caps' = caps
      /\ refs' = [v \in DOMAIN caps |->
                    refs[v] + (IF v = cell THEN 1 ELSE 0) - (IF v = cver THEN 1 ELSE 0)]
  BY <1>1 DEF Exchange, IInv, TypeOK
<1>7. VersionsAreHeld'
  <2> SUFFICES ASSUME NEW v \in DOMAIN caps PROVE refs'[v] = Holders(v)'
    BY <1>6 DEF VersionsAreHeld
  <2> DEFINE others == One(pver = v) + One(cell = v) + One(Grew /\ v = pver + 1)
                         + One(Grew /\ v = pver + 1 /\ cell # v)
  <2>1. refs[v] = Holders(v) /\ refs[v] \in Nat
    BY DEF IInv, TypeOK, VersionsAreHeld
  <2>2. Holders(v) = others + One(cver = v)
    BY <1>5 DEF Holders, One
  <2>3. Holders(v)' = others + One(cell = v)
    BY <1>1, <1>2, <1>5 DEF Holders, One
  <2>4. others \in Nat
    BY DEF One
  <2> HIDE DEF others
  <2>5. refs'[v] = others + One(cver = v) + One(v = cell) - One(v = cver)
    BY <1>6, <2>1, <2>2 DEF One
  <2> QED
    BY <2>3, <2>4, <2>5 DEF One
<1>8. refs[cell] > 0
  BY <1>4 DEF IInv, VersionsAreHeld, Holders, One
<1>9. /\ VersionType'
      /\ \A v \in DOMAIN caps : refs'[v] > 0 => refs[v] > 0 /\ buffers'[v] = buffers[v]
  BY <1>1, <1>7, <1>8, ExchangeSpares
<1>10. TypeOK'
  <2>1. SharedType'
    BY <1>1 DEF SharedType, IInv, TypeOK
  <2>2. LockType'
    BY <1>1 DEF LockType, IInv, TypeOK
  <2>3. ConsumerType'
    BY <1>1, <1>4 DEF ConsumerType, IInv, TypeOK
  <2> QED
    BY <1>2, <1>9, <2>1, <2>2, <2>3, TypePartsNext
<1>11. VersionInv'
  <2>1. cver' <= Newest'
    BY <1>1, <1>3, <1>4
  <2> QED
    BY <1>1, <1>2, <1>3, <1>6, <2>1 DEF IInv, VersionInv
<1>12. LockInv'
  BY <1>1, <1>2 DEF IInv, LockInv
<1>13. copied = <<>>
  BY <1>1 DEF IInv, ConsumerInv
<1>14. ConsumerInv' /\ HistoryInv' /\ Taken' = Taken
  BY <1>1, <1>13, NothingRead
<1>15. RingInv'
  BY <1>1, <1>6, <1>9, <1>14, RingSpared
<1>16. ProducerInv' /\ IssuedInv'
  <2>1. written > 0 => buffers'[At] = buffers[At]
    <3> SUFFICES ASSUME written > 0 PROVE buffers'[At] = buffers[At]
      OBVIOUS
    <3>1. ppc \notin {"refresh", "grow", "swap"}
      BY DEF IInv, ProducerInv
    <3>2. ppc \in {"idle", "write", "publish"}
      BY <3>1 DEF IInv, TypeOK
    <3>3. At \in DOMAIN caps /\ At \in Nat
      <4>1. CASE ppc = "idle"
        <5>1. At = pver
          BY <4>1 DEF At, IInv, ProducerInv
        <5> QED
          BY <5>1, Versions
      <4>2. CASE ppc # "idle"
        BY <3>2, <4>2, PushVersion
      <4> QED
        BY <4>1, <4>2
    <3>4. At = pver \/ (Grew /\ At = pver + 1)
      BY <3>2 DEF At, Grew, IInv, ProducerInv
    <3>5. refs'[At] > 0
      <4>1. refs'[At] = Holders(At)'
        BY <1>2, <1>6, <1>7, <3>3 DEF VersionsAreHeld
      <4>2. Holders(At)' > 0
        BY <1>2, <3>4 DEF Holders, One
      <4> QED
        BY <4>1, <4>2
    <3> QED
      BY <1>9, <3>3, <3>5
  <2> QED
    BY <1>1, <1>2, <1>6, <2>1, Counters, ProducerStays
<1> QED
  BY <1>7, <1>10, <1>11, <1>12, <1>14, <1>15, <1>16 DEF IInv


-----------------------------------------------------------------------------
(* The theorems *)

LEMMA StutterStep == ASSUME IInv, UNCHANGED vars PROVE IInv'
<1>1. /\ UNCHANGED <<tail, wordId, past, head, cachedHead, caps, buffers, refs>>
      /\ UNCHANGED <<state, cell, lpc, seen, pver, cver>>
      /\ UNCHANGED <<ppc, op, batch, base, written, newCap, issued>>
      /\ UNCHANGED <<cpc, cop, want, n, copied, log, delivered>>
  BY DEF vars, lockVars
<1>2. UNCHANGED owner
  BY <1>1 DEF owner
<1>3. Grew' = Grew /\ Swapped' = Swapped /\ Taken' = Taken
  BY <1>1 DEF Grew, Swapped, Taken
<1>4. TypeOK'
  <2>1. SharedType /\ VersionType /\ LockType /\ ProducerType /\ ConsumerType
    BY TypeParts DEF IInv
  <2>2. SharedType' /\ VersionType' /\ LockType'
    BY <1>1, <2>1 DEF SharedType, VersionType, LockType
  <2>3. ProducerType' /\ ConsumerType'
    BY <1>1, <2>1 DEF ProducerType, ConsumerType
  <2> QED
    BY <2>2, <2>3, TypePartsNext
<1>5. VersionsAreHeld' /\ VersionInv'
  BY <1>1, <1>3, VersionsStay
<1>6. LockInv'
  BY <1>1 DEF IInv, LockInv
<1>7. RingInv'
  BY <1>1, <1>3, RingStays DEF IInv
<1>8. ProducerInv' /\ IssuedInv'
  BY <1>1, ProducerStays, Counters
<1>9. ConsumerInv' /\ HistoryInv'
  BY <1>1 DEF IInv, ConsumerInv, HistoryInv, Returned, HasRead, HasValues, Value
<1> QED
  BY <1>4, <1>5, <1>6, <1>7, <1>8, <1>9 DEF IInv

LEMMA IInvStep == IInv /\ [Next]_vars => IInv'
<1> SUFFICES ASSUME IInv, [Next]_vars PROVE IInv'
  OBVIOUS
<1>1. CASE ProducerStart
  BY <1>1, StartPushStep, StartPushManyStep, StartCopyAndCommitIfStep, StartReserveStep,
     ProducerLenStep, Zenon DEF ProducerStart
<1>2. CASE ProducerStep
  BY <1>2, RefreshHeadStep, EnlargeStep, GrowStep, SwapTryWriteStep, SwapTakeOutStep,
     SwapPutInStep, SwapUnlockStep, WriteNextStep, StoreWordStep, DoNotCommitStep, Zenon
     DEF ProducerStep
<1>3. CASE ConsumerStart
  BY <1>3, StartConsumerStep, Zenon DEF ConsumerStart
<1>4. CASE ConsumerStep
  BY <1>4, LoadWordStep, ReadNextStep, StoreHeadStep, ReturnStep, UpdateLockStep,
     CloneCellStep, Zenon DEF ConsumerStep
<1>5. CASE UNCHANGED vars
  BY <1>5, StutterStep
<1> QED
  BY <1>1, <1>2, <1>3, <1>4, <1>5 DEF Next

(* The inductive invariant holds in every reachable state.                   *)
THEOREM Invariance == Spec => []IInv
BY IInvInit, IInvStep, PTL DEF Spec

(* The types of the variables.                                               *)
THEOREM TypeCorrect == Spec => []TypeOK
<1>1. IInv => TypeOK
  BY DEF IInv
<1> QED
  BY <1>1, Invariance, PTL

(* The producer never writes the slot the consumer is reading: a push stays  *)
(* below what its copy of head allows, and a pop takes what the word counts. *)
THEOREM NoRaceHolds == Spec => []NoRace
<1>1. IInv => NoRace
  <2> SUFFICES ASSUME IInv, ppc = "write", cpc = "read", At = cver
               PROVE  PhysicalIndex(base + written, caps[At])
                        # PhysicalIndex(head + Len(copied), caps[cver])
    BY DEF NoRace
  <2>1. /\ tail \in Nat /\ head \in Nat /\ cachedHead \in Nat /\ n \in Nat
        /\ cachedHead <= head /\ head + n <= tail
    BY Counters DEF Taken
  <2>2. /\ written \in Nat /\ Len(batch) \in Nat /\ Len(copied) \in Nat
    BY DEF IInv, TypeOK
  <2>3. At \in DOMAIN caps /\ caps[At] \in Nat \ {0}
    BY PushVersion, Versions
  <2>4. /\ base = tail /\ written < Len(batch)
        /\ tail + Len(batch) <= cachedHead + caps[At] /\ Len(copied) < n
    BY DEF IInv, ProducerInv, ConsumerInv
  <2>5. head + Len(copied) \in Nat /\ tail + written \in Nat
    BY <2>1, <2>2
  <2>6. /\ head + Len(copied) < tail + written
        /\ tail + written < head + Len(copied) + caps[At]
    BY <2>1, <2>2, <2>3, <2>4
  <2> QED
    BY <2>3, <2>4, <2>5, <2>6, IndicesDiffer
<1> QED
  BY <1>1, Invariance, PTL

(* The count of every version is that of the handles and of the cell that    *)
(* hold it: none is freed in use, none is left when its last holder goes.    *)
THEOREM VersionsAreHeldHolds == Spec => []VersionsAreHeld
<1>1. IInv => VersionsAreHeld
  BY DEF IInv
<1> QED
  BY <1>1, Invariance, PTL

(* What a pop hands over, as a step of the log. *)
LEMMA ReturnIsDeliver == ASSUME IInv, Return PROVE Log!Next
<1> DEFINE S == head - n .. head - 1
<1>1. head \in Nat /\ n \in Nat /\ n <= head /\ 1 <= n /\ HasRead(head - n, n)
  BY Counters DEF Return, IInv, ConsumerInv
<1>2. \A t \in DOMAIN delivered : t \in Nat /\ t < head - n /\ delivered[t] = log[t + 1]
  BY DEF Return, IInv, TypeOK, HistoryInv, Returned
<1>3. \A t \in S : t < head /\ t \notin DOMAIN delivered
  BY <1>1, <1>2
<1>4. ASSUME NEW t \in DOMAIN delivered \union S
      PROVE  (IF t >= head - n THEN copied[t - (head - n) + 1] ELSE delivered[t])
               = IF t \in S THEN log[t + 1] ELSE delivered[t]
  <2>1. CASE t \in S
    <3>1. t \in Int /\ t >= head - n /\ t - (head - n) + 1 \in 1 .. n
      BY <1>1, <2>1
    <3>2. copied[t - (head - n) + 1] = log[head - n + (t - (head - n) + 1)]
      BY <1>1, <3>1 DEF HasRead
    <3>3. head - n + (t - (head - n) + 1) = t + 1
      BY <1>1, <3>1
    <3> QED
      BY <2>1, <3>1, <3>2, <3>3
  <2>2. CASE t \notin S
    <3>1. t \in DOMAIN delivered
      BY <2>2
    <3>2. ~(t >= head - n)
      BY <1>1, <1>2, <3>1
    <3> QED
      BY <2>2, <3>2
  <2> QED
    BY <2>1, <2>2
<1>5. delivered' = [t \in DOMAIN delivered \union S |->
                       IF t \in S THEN log[t + 1] ELSE delivered[t]]
  <2>1. delivered' = [t \in DOMAIN delivered \union S |->
                       IF t >= head - n THEN copied[t - (head - n) + 1] ELSE delivered[t]]
    BY DEF Return
  <2> HIDE DEF S
  <2> QED
    BY <1>4, <2>1
<1>6. log' = log /\ head' = head
  BY DEF Return, ConsumerFrame
<1>7. S \in SUBSET (0 .. head - 1)
  BY <1>1
<1> HIDE DEF S
<1>8. Log!Deliver(S)
  BY <1>3, <1>5, <1>6 DEF Log!Deliver
<1> QED
  BY <1>7, <1>8 DEF Log!Next

(* The store of the word appends the batch to the log, or, when the producer *)
(* has only reserved space, nothing.                                         *)
LEMMA StoreWordIsPush == ASSUME IInv, StoreWord PROVE Log!Next \/ UNCHANGED Log!absVars
<1>1. head' = head /\ delivered' = delivered /\ log' = log \o batch
  BY DEF StoreWord, EndPush
<1>2. CASE batch = <<>>
  <2>1. log \o <<>> = log
    BY Counters
  <2> QED
    BY <1>1, <1>2, <2>1 DEF Log!absVars
<1>3. CASE batch # <<>>
  <2>1. /\ batch \in Seq(1 .. MaxPushes) /\ Len(batch) \in SliceLens \union {1}
        /\ tail + Len(batch) <= issued /\ issued <= MaxPushes
    BY <1>3 DEF IInv, IssuedInv
  <2>2. /\ tail \in Nat /\ head \in Nat /\ Len(log) = tail
        /\ Len(batch) \in Nat /\ issued \in Nat /\ MaxPushes \in Nat
    <3>1. batch \in Seq(Nat) /\ issued \in Nat
      BY DEF IInv, TypeOK
    <3>2. Len(batch) \in Nat
      BY <3>1
    <3> QED
      BY <3>1, <3>2, Counters, BoundAssumption
  <2>3. Len(log) + Len(batch) - head <= MaxPushes
    BY <2>1, <2>2
  <2>4. Log!Push(batch)
    BY <1>1, <2>3 DEF Log!Push
  <2>5. batch \in [1 .. Len(batch) -> 1 .. MaxPushes]
    <3>1. \A S : batch \in Seq(S) => batch \in [1 .. Len(batch) -> S]
      OBVIOUS
    <3>2. batch \in Seq(1 .. MaxPushes)
      BY <2>1
    <3> QED
      BY <3>1, <3>2, Zenon
  <2> HIDE DEF Log!Push
  <2>6. batch \in UNION {[1 .. k -> 1 .. MaxPushes] : k \in SliceLens \union {1}}
    BY <2>1, <2>5
  <2> QED
    BY <2>4, <2>6 DEF Log!Next
<1> QED
  BY <1>2, <1>3

LEMMA StoreHeadIsClaim == ASSUME IInv, StoreHead PROVE Log!Next
<1>1. /\ head' = head + n /\ log' = log /\ delivered' = delivered
      /\ cpc = "store"
  BY DEF StoreHead, ConsumerFrame
<1>2. n >= 1
  BY <1>1 DEF IInv, ConsumerInv
<1>3. head \in Nat /\ n \in Nat /\ tail \in Nat /\ head + n <= tail /\ Len(log) = tail
  BY <1>1, Counters DEF Taken
<1>4. tail <= MaxPushes /\ MaxPushes \in Nat
  <2>1. tail + Len(batch) <= issued /\ issued <= MaxPushes
    BY DEF IInv, IssuedInv
  <2>2. Len(batch) \in Nat /\ issued \in Nat
    BY DEF IInv, TypeOK
  <2> QED
    BY <1>3, <2>1, <2>2, BoundAssumption
<1>5. n \in 1 .. MaxPushes /\ head + n <= Len(log)
  BY <1>2, <1>3, <1>4
<1>6. Log!Claim(n)
  BY <1>1, <1>5 DEF Log!Claim
<1> QED
  BY <1>5, <1>6 DEF Log!Next

(* The queue, however often it grows and however stale its loads, does no    *)
(* more than append the batches it is handed to a log, claim the oldest      *)
(* entries, and hand over each claimed value once.                           *)
THEOREM ImplementsLog == Spec => LogSpec
<1>1. Init => Log!Init
  BY DEF Init, Log!Init
<1>2. IInv /\ [Next]_vars => [Log!Next]_Log!absVars
  <2> SUFFICES ASSUME IInv, [Next]_vars PROVE Log!Next \/ UNCHANGED Log!absVars
    OBVIOUS
  <2>1. ASSUME StoreWord PROVE Log!Next \/ UNCHANGED Log!absVars
    BY <2>1, StoreWordIsPush
  <2>2. ASSUME StoreHead PROVE Log!Next
    BY <2>2, StoreHeadIsClaim
  <2>3. ASSUME Return PROVE Log!Next
    BY <2>3, ReturnIsDeliver
  <2>4. ASSUME ProducerStart PROVE UNCHANGED Log!absVars
    BY <2>4 DEF ProducerStart, StartPush, StartPushMany, StartPushManyUnchecked,
       StartCopyAndCommitIf, StartReserve, ProducerLen, Begin, Log!absVars
  <2>5. ASSUME RefreshHead \/ Enlarge \/ Grow \/ WriteNext \/ DoNotCommit
        PROVE  UNCHANGED Log!absVars
    BY <2>5 DEF RefreshHead, Enlarge, Grow, WriteNext, DoNotCommit, EndPush, Log!absVars
  <2>6. ASSUME SwapTryWrite \/ SwapTakeOut \/ SwapPutIn \/ SwapUnlock
        PROVE  UNCHANGED Log!absVars
    BY <2>6 DEF SwapTryWrite, SwapTakeOut, SwapPutIn, SwapUnlock, SwapStep, Log!absVars
  <2>7. ASSUME ConsumerStart PROVE UNCHANGED Log!absVars
    BY <2>7 DEF ConsumerStart, StartSteal, StartQuery, StartPopMany, ConsumerFrame, Log!absVars
  <2>8. ASSUME LoadWord \/ ReadNext \/ CloneCell PROVE UNCHANGED Log!absVars
    BY <2>8 DEF LoadWord, ReadNext, CloneCell, ConsumerFrame, Log!absVars
  <2>9. ASSUME UpdateTryRead \/ UpdateCas \/ UpdateFails \/ UpdateDone
        PROVE  UNCHANGED Log!absVars
    BY <2>9 DEF UpdateTryRead, UpdateCas, UpdateFails, UpdateDone, Update, ConsumerFrame,
       Log!absVars
  <2>10. ASSUME UNCHANGED vars PROVE UNCHANGED Log!absVars
    BY <2>10 DEF vars, Log!absVars
  <2> QED
    BY <2>1, <2>2, <2>3, <2>4, <2>5, <2>6, <2>7, <2>8, <2>9, <2>10, Zenon
       DEF Next, ProducerStep, ConsumerStep
<1> QED
  BY <1>1, <1>2, Invariance, PTL DEF Spec, LogSpec, Log!Spec
=============================================================================
