------------------------- MODULE SPMCBoundedProofs -------------------------
(***************************************************************************)
(* Theorems about SPMCBounded for every capacity, every set of consumers   *)
(* and slices of every length that Disciplined allows.                     *)
(*                                                                         *)
(* head only grows, and whoever moves it compares it first with the head   *)
(* it started from.  So a consumer's copy is good or its CAS fails, and    *)
(* what the owner may rely on about head stays true when others move it.   *)
(***************************************************************************)
EXTENDS SPMCBounded, RingTheorems, FiniteSetTheorems

USE CapacityAssumption

-----------------------------------------------------------------------------
(* The slots *)

LEMMA PositiveCapacity == Capacity \in Nat \ {0}
OBVIOUS

LEMMA SlotInRing ==
    ASSUME NEW t \in Nat
    PROVE  Slot(t) \in 0 .. Capacity - 1
BY DivMod DEF Slot

LEMMA SlotsDiffer ==
    ASSUME NEW s \in Nat, NEW t \in Nat, s < t, t < s + Capacity
    PROVE  Slot(s) # Slot(t)
<1>1. s \in Int /\ t \in Int
  OBVIOUS
<1>2. s % Capacity = t % Capacity => s + Capacity <= t
  BY <1>1, PositiveCapacity, SlotsRepeatByLaps, Zenon
<1> QED
  BY <1>2 DEF Slot

LEMMA SlotPlus ==
    ASSUME NEW t \in Nat, NEW k \in 0 .. Capacity
    PROVE  Slot(t + k) = IF Slot(t) + k < Capacity THEN Slot(t) + k ELSE Slot(t) + k - Capacity
BY PositiveCapacity, RemainderPlus, Zenon DEF Slot

LEMMA HalfOfCapacity ==
    Taken \in Nat /\ (Capacity = 2 * Taken \/ Capacity = 2 * Taken + 1)
<1>1. /\ Capacity = 2 * (Capacity \div 2) + (Capacity % 2)
      /\ Capacity \div 2 \in Int /\ Capacity % 2 \in 0 .. 1
  BY DivMod
<1> QED
  BY <1>1 DEF Taken

(* An overflow hands over half of the ring, rounded up if the capacity is    *)
(* odd and the values are in two slices.                                     *)
LEMMA LensOfHalf ==
    ASSUME NEW h \in Nat
    PROVE  /\ RightLen(h) \in Nat /\ LeftLen(h) \in Nat
           /\ Moved(h) = RightLen(h) + LeftLen(h)
           /\ Taken <= Moved(h) /\ Moved(h) <= Capacity - Taken
           /\ Slot(h) + RightLen(h) <= Capacity
           /\ LeftLen(h) # 0 => Slot(h) + RightLen(h) = Capacity
           /\ LeftLen(h) <= Slot(h)
<1>1. Slot(h) \in 0 .. Capacity - 1
  BY SlotInRing
<1>2. CASE Slot(h) < Taken
  BY <1>1, <1>2, HalfOfCapacity DEF RightLen, LeftLen, Moved
<1>3. CASE ~(Slot(h) < Taken)
  BY <1>1, <1>3, HalfOfCapacity DEF RightLen, LeftLen, Moved
<1> QED
  BY <1>2, <1>3

(* The two slices are the values of the tickets from h on.                   *)
LEMMA SlicesAreTickets ==
    ASSUME NEW h \in Nat
    PROVE  /\ \A i \in 1 .. RightLen(h) : Right(h)[i] = buffer[Slot(h + (i - 1))]
           /\ \A i \in 1 .. LeftLen(h) : Left(h)[i] = buffer[Slot(h + (RightLen(h) + i - 1))]
<1>1. /\ RightLen(h) \in Nat /\ LeftLen(h) \in Nat
      /\ Slot(h) + RightLen(h) <= Capacity
      /\ LeftLen(h) # 0 => Slot(h) + RightLen(h) = Capacity
      /\ LeftLen(h) <= Slot(h)
  BY LensOfHalf
<1>2. Slot(h) \in 0 .. Capacity - 1
  BY SlotInRing
<1>3. ASSUME NEW i \in 1 .. RightLen(h) PROVE Right(h)[i] = buffer[Slot(h + (i - 1))]
  <2>1. i - 1 \in 0 .. Capacity /\ Slot(h) + (i - 1) < Capacity
    BY <1>1, <1>2
  <2>2. Slot(h + (i - 1)) = Slot(h) + (i - 1)
    BY <2>1, SlotPlus
  <2>3. Right(h)[i] = buffer[Slot(h) + (i - 1)]
    BY <1>2, <2>1 DEF Right
  <2> QED
    BY <2>2, <2>3
<1>4. ASSUME NEW i \in 1 .. LeftLen(h)
      PROVE  Left(h)[i] = buffer[Slot(h + (RightLen(h) + i - 1))]
  <2> DEFINE k == RightLen(h) + i - 1
  <2>1. k \in 0 .. Capacity /\ ~(Slot(h) + k < Capacity) /\ Slot(h) + k - Capacity = i - 1
    BY <1>1, <1>2
  <2> HIDE DEF k
  <2>2. Slot(h + k) = i - 1
    BY <2>1, SlotPlus
  <2>3. Left(h)[i] = buffer[i - 1]
    BY DEF Left
  <2> QED
    BY <2>2, <2>3 DEF k
<1> QED
  BY <1>3, <1>4

(* Writing the slot of u leaves alone every other ticket of its lap. *)
LEMMA WriteElsewhere ==
    ASSUME NEW u \in Nat, NEW t \in Nat, NEW v,
           t # u, t < u + Capacity, u < t + Capacity,
           DOMAIN buffer = 0 .. Capacity - 1
    PROVE  [buffer EXCEPT ![Slot(u)] = v][Slot(t)] = buffer[Slot(t)]
<1>1. Slot(t) # Slot(u)
  BY SlotsDiffer
<1>2. Slot(t) \in 0 .. Capacity - 1
  BY SlotInRing
<1> QED
  BY <1>1, <1>2

-----------------------------------------------------------------------------
(* The types, in parts that the steps touch together *)

RingTyped ==
    /\ tail \in Nat /\ head \in Nat /\ cachedHead \in Nat
    /\ buffer \in [0 .. Capacity - 1 -> Nat \union {Empty}]
Labels(t) == IF t = owner THEN OwnerLabels ELSE ConsumerLabels
ThreadsTyped ==
    /\ pc \in [Threads -> OwnerLabels \union ConsumerLabels]
    /\ \A t \in Threads : pc[t] \in Labels(t)
    /\ from \in [Threads -> Nat] /\ want \in [Threads -> Nat] /\ n \in [Threads -> Nat]
CopiedTyped == copied \in [Consumers -> Seq(Nat \union {Empty})]
PushTyped ==
    /\ op \in Single \union Many \union Unchecked \union {"none"}
    /\ batch \in Seq(Nat) /\ written \in 0 .. Len(batch) /\ issued \in Nat
HistoryTyped == log \in Seq(Nat) /\ received \in Seq(Nat) /\ DOMAIN delivered \subseteq Nat

LEMMA Members ==
    owner \in Threads /\ \A c \in Consumers : c \in Threads /\ c # owner
BY ThreadsAssumption DEF Threads

LEMMA TypeParts ==
    TypeOK <=> RingTyped /\ ThreadsTyped /\ CopiedTyped /\ PushTyped /\ HistoryTyped
<1>1. (pc[owner] \in OwnerLabels /\ \A c \in Consumers : pc[c] \in ConsumerLabels)
        <=> \A t \in Threads : pc[t] \in Labels(t)
  BY Members DEF Threads, Labels
<1> QED
  BY <1>1 DEF TypeOK, RingTyped, ThreadsTyped, CopiedTyped, PushTyped, HistoryTyped

LEMMA TypePartsNext ==
    TypeOK' <=> RingTyped' /\ ThreadsTyped' /\ CopiedTyped' /\ PushTyped' /\ HistoryTyped'
BY TypeParts, PTL

(* Thread t goes to a label with these locals, and no other thread moves.    *)
Goes(t, label, h, w, k) ==
    /\ pc' = [pc EXCEPT ![t] = label]
    /\ from' = [from EXCEPT ![t] = h]
    /\ want' = [want EXCEPT ![t] = w]
    /\ n' = [n EXCEPT ![t] = k]

LEMMA GoesTo ==
    ASSUME ThreadsTyped, NEW t \in Threads, NEW label \in Labels(t),
           NEW h \in Nat, NEW w \in Nat, NEW k \in Nat, Goes(t, label, h, w, k)
    PROVE  /\ ThreadsTyped'
           /\ pc'[t] = label /\ from'[t] = h /\ want'[t] = w /\ n'[t] = k
           /\ \A s \in Threads : s # t => pc'[s] = pc[s] /\ from'[s] = from[s] /\ n'[s] = n[s]
<1>1. label \in OwnerLabels \union ConsumerLabels
  BY DEF Labels
<1>2. /\ pc' \in [Threads -> OwnerLabels \union ConsumerLabels]
      /\ from' \in [Threads -> Nat] /\ want' \in [Threads -> Nat] /\ n' \in [Threads -> Nat]
  BY <1>1 DEF ThreadsTyped, Goes
<1>3. pc'[t] = label /\ from'[t] = h /\ want'[t] = w /\ n'[t] = k
  BY DEF ThreadsTyped, Goes
<1>4. ASSUME NEW s \in Threads, s # t
      PROVE  pc'[s] = pc[s] /\ from'[s] = from[s] /\ n'[s] = n[s]
  BY <1>4 DEF ThreadsTyped, Goes
<1>5. \A s \in Threads : pc'[s] \in Labels(s)
  BY <1>3, <1>4 DEF ThreadsTyped
<1> QED
  BY <1>2, <1>3, <1>4, <1>5 DEF ThreadsTyped

(* A local that a step leaves alone.                                         *)
LEMMA Unmoved ==
    ASSUME ThreadsTyped, NEW t \in Threads
    PROVE  /\ from = [from EXCEPT ![t] = from[t]]
           /\ want = [want EXCEPT ![t] = want[t]]
           /\ n = [n EXCEPT ![t] = n[t]]
           /\ pc = [pc EXCEPT ![t] = pc[t]]
           /\ from[t] \in Nat /\ want[t] \in Nat /\ n[t] \in Nat /\ pc[t] \in Labels(t)
BY DEF ThreadsTyped

-----------------------------------------------------------------------------
(* What a step leaves alone stays true *)

LEMMA Invariants ==
    IInv => /\ RingTyped /\ ThreadsTyped /\ CopiedTyped /\ PushTyped /\ HistoryTyped
            /\ RingInv /\ OwnerInv /\ \A c \in Consumers : ConsumerInv(c)
BY TypeParts DEF IInv

LEMMA Counters ==
    IInv => /\ tail \in Nat /\ head \in Nat /\ cachedHead \in Nat
            /\ cachedHead <= head /\ head <= tail /\ tail <= head + Capacity
            /\ Len(log) = tail
BY Invariants DEF RingTyped, RingInv, RingNotOverrun

LEMMA CopyOf ==
    ASSUME CopiedTyped, NEW c \in Consumers
    PROVE  copied[c] \in Seq(Nat \union {Empty}) /\ Len(copied[c]) \in Nat
<1>1. copied[c] \in Seq(Nat \union {Empty})
  BY DEF CopiedTyped
<1> QED
  BY <1>1

LEMMA ConsumerStays ==
    ASSUME IInv, NEW c \in Consumers,
           pc'[c] = pc[c], from'[c] = from[c], n'[c] = n[c], copied'[c] = copied[c],
           head' \in Nat, head <= head', tail' \in Nat, tail <= tail',
           \A i \in 1 .. tail : log'[i] = log[i]
    PROVE  ConsumerInv(c)'
<1>1. /\ tail \in Nat /\ head \in Nat /\ head <= tail
      /\ from[c] \in Nat /\ n[c] \in Nat /\ Len(copied[c]) \in Nat
  BY Counters, Invariants, Members, Unmoved, CopyOf
<1>2. ConsumerInv(c)
  BY Invariants
<1>3. CopiedFrom(from[c], copied[c]) /\ from[c] + Len(copied[c]) <= tail
        => CopiedFrom(from[c], copied[c])'
  BY <1>1 DEF CopiedFrom
<1>4. ASSUME pc[c] = "return" PROVE CopiedFrom(from[c], copied[c])'
  BY <1>1, <1>2, <1>3, <1>4 DEF ConsumerInv
<1>5. ASSUME pc[c] \in {"copy", "cas"}, from'[c] = head'
      PROVE  CopiedFrom(from[c], copied[c])'
  <2>1. from[c] = head
    BY <1>1, <1>2, <1>5 DEF ConsumerInv
  <2>2. from[c] + Len(copied[c]) <= tail
    BY <1>1, <1>2, <1>5 DEF ConsumerInv
  <2> QED
    BY <1>2, <1>3, <1>5, <2>1, <2>2 DEF ConsumerInv
<1> QED
  BY <1>1, <1>2, <1>4, <1>5 DEF ConsumerInv

LEMMA OwnerStays ==
    ASSUME IInv, pc'[owner] = pc[owner], from'[owner] = from[owner], n'[owner] = n[owner],
           UNCHANGED <<tail, buffer, cachedHead, op, batch, written, log>>,
           head' \in Nat, head <= head'
    PROVE  OwnerInv'
<1>1. /\ tail \in Nat /\ head \in Nat /\ from[owner] \in Nat /\ n[owner] \in Nat
      /\ Len(batch) \in Nat
  BY Counters, Invariants, Members, Unmoved DEF PushTyped
<1>2. Moved(from[owner]) \in Nat /\ Taken \in Nat
  <2> DEFINE r == RightLen(from[owner])
             l == LeftLen(from[owner])
  <2>1. r \in Nat /\ l \in Nat /\ Moved(from[owner]) = r + l
    BY <1>1, LensOfHalf
  <2> HIDE DEF r, l
  <2> QED
    BY <2>1, HalfOfCapacity
<1>3. OwnerInv
  BY Invariants
<1>4. \A a, b : InPlace(a, b) => InPlace(a, b)'
  BY DEF InPlace
<1> QED
  BY <1>1, <1>2, <1>3, <1>4 DEF OwnerInv, InPlace

Claiming == {"return", "popRead", "move"}

LEMMA ClaimedTickets ==
    ASSUME NEW label, NEW h, NEW k
    PROVE  /\ label \notin Claiming => ClaimedAt(label, h, k) = {}
           /\ label \in {"return", "popRead"} => ClaimedAt(label, h, k) = h .. h + k - 1
           /\ label = "move" => ClaimedAt(label, h, k) = h .. h + Taken - 1
BY DEF ClaimedAt, Claiming

(* Thread t claims nothing and delivers nothing.                             *)
LEMMA HistoryStays ==
    ASSUME IInv, HistoryInv, NEW t \in Threads,
           \A s \in Threads : s # t => pc'[s] = pc[s] /\ from'[s] = from[s] /\ n'[s] = n[s],
           pc'[t] \notin Claiming, head' = head, delivered' = delivered,
           \A i \in 1 .. tail : log'[i] = log[i]
    PROVE  HistoryInv'
<1>1. tail \in Nat /\ head \in Nat /\ head <= tail /\ DOMAIN delivered \subseteq Nat
  BY Counters, Invariants DEF HistoryTyped
<1>2. \A s \in Threads : Claims(s)' \subseteq Claims(s)
  <2>1. Claims(t)' = {}
    BY ClaimedTickets DEF Claims
  <2>2. \A s \in Threads : s # t => Claims(s)' = Claims(s)
    BY DEF Claims
  <2> QED
    BY <2>1, <2>2
<1>3. ASSUME NEW k \in DOMAIN delivered PROVE k < head /\ delivered'[k] = log'[k + 1]
  <2>1. k \in Nat /\ k < head /\ delivered[k] = log[k + 1]
    BY <1>1 DEF HistoryInv
  <2>2. k + 1 \in 1 .. tail
    BY <1>1, <2>1
  <2> QED
    BY <2>1, <2>2
<1> QED
  BY <1>2, <1>3 DEF HistoryInv

(* Thread t claims the k oldest values of the ring.                          *)
LEMMA HistoryClaims ==
    ASSUME IInv, HistoryInv, NEW t \in Threads, NEW k \in Nat,
           \A s \in Threads : s # t => pc'[s] = pc[s] /\ from'[s] = from[s] /\ n'[s] = n[s],
           head' = head + k, Claims(t)' = head .. head + k - 1,
           UNCHANGED <<log, delivered>>
    PROVE  HistoryInv'
<1>1. head \in Nat
  BY Counters
<1>2. \A s \in Threads : s # t => Claims(s)' = Claims(s)
  BY DEF Claims
<1>3. \A j \in DOMAIN delivered : j < head' /\ delivered'[j] = log'[j + 1]
  <2>1. DOMAIN delivered \subseteq Nat
    BY Invariants DEF HistoryTyped
  <2>2. ASSUME NEW j \in DOMAIN delivered PROVE j < head'
    BY <1>1, <2>1 DEF HistoryInv
  <2> QED
    BY <2>2 DEF HistoryInv
<1>4. \A s \in Threads : \A j \in Claims(s) : j \in Int /\ j < head /\ j \notin DOMAIN delivered
  BY DEF HistoryInv, Claims, ClaimedAt
<1>5. \A j \in Claims(t)' : j \in Int /\ j < head' /\ j >= head /\ j \notin DOMAIN delivered
  <2>1. ASSUME NEW j \in DOMAIN delivered, j \in Nat PROVE j < head
    BY DEF HistoryInv
  <2>2. DOMAIN delivered \subseteq Nat
    BY Invariants DEF HistoryTyped
  <2> QED
    BY <1>1, <2>1, <2>2
<1>6. \A s \in Threads : \A j \in Claims(s)' : j < head' /\ j \notin DOMAIN delivered'
  <2> SUFFICES ASSUME NEW s \in Threads, NEW j \in Claims(s)'
               PROVE  j < head' /\ j \notin DOMAIN delivered'
    OBVIOUS
  <2>1. CASE s = t
    BY <1>5, <2>1
  <2>2. CASE s # t
    <3>1. j \in Claims(s)
      BY <1>2, <2>2
    <3>2. j \in Int /\ j < head /\ j \notin DOMAIN delivered
      BY <1>4, <3>1
    <3> QED
      BY <1>1, <3>2
  <2> QED
    BY <2>1, <2>2
<1>7. ASSUME NEW s \in Threads, s # t PROVE Claims(s)' \intersect Claims(t)' = {}
  <2> SUFFICES ASSUME NEW j \in Claims(s)', j \in Claims(t)' PROVE FALSE
    OBVIOUS
  <2>1. j \in Claims(s)
    BY <1>2, <1>7
  <2>2. j \in Int /\ j < head /\ j >= head
    BY <1>4, <1>5, <2>1
  <2> QED
    BY <1>1, <2>2
<1>8. \A s, u \in Threads : s # u => Claims(s)' \intersect Claims(u)' = {}
  <2> SUFFICES ASSUME NEW s \in Threads, NEW u \in Threads, s # u
               PROVE  Claims(s)' \intersect Claims(u)' = {}
    OBVIOUS
  <2>1. CASE s = t
    BY <1>7, <2>1
  <2>2. CASE u = t
    BY <1>7, <2>2
  <2>3. CASE s # t /\ u # t
    BY <1>2, <2>3 DEF HistoryInv
  <2> QED
    BY <2>1, <2>2, <2>3
<1> QED
  BY <1>3, <1>6, <1>8 DEF HistoryInv

(* Thread t delivers what it has claimed.                                    *)
LEMMA HistoryDelivers ==
    ASSUME IInv, HistoryInv, NEW t \in Threads,
           \A s \in Threads : s # t => pc'[s] = pc[s] /\ from'[s] = from[s] /\ n'[s] = n[s],
           pc'[t] \notin Claiming, UNCHANGED <<head, log>>,
           DOMAIN delivered' = DOMAIN delivered \union Claims(t),
           \A k \in Claims(t) : delivered'[k] = log[k + 1],
           \A k \in DOMAIN delivered : k \notin Claims(t) => delivered'[k] = delivered[k]
    PROVE  HistoryInv'
<1>1. Claims(t)' = {} /\ \A s \in Threads : s # t => Claims(s)' = Claims(s)
  <2>1. Claims(t)' = {}
    BY ClaimedTickets DEF Claims
  <2> QED
    BY <2>1 DEF Claims
<1>2. \A k \in Claims(t) : k < head /\ k \notin DOMAIN delivered
  BY DEF HistoryInv
<1>3. \A k \in DOMAIN delivered : k < head /\ delivered'[k] = log[k + 1]
  BY <1>2 DEF HistoryInv
<1>4. \A k \in DOMAIN delivered' : k < head' /\ delivered'[k] = log'[k + 1]
  BY <1>2, <1>3
<1>5. ASSUME NEW s \in Threads, NEW k \in Claims(s)'
      PROVE  k < head' /\ k \notin DOMAIN delivered'
  <2>1. s # t /\ k \in Claims(s)
    BY <1>1, <1>5
  <2>2. k \notin Claims(t)
    BY <2>1 DEF HistoryInv
  <2> QED
    BY <2>1, <2>2 DEF HistoryInv
<1>6. \A s, u \in Threads : s # u => Claims(s)' \intersect Claims(u)' = {}
  <2>1. \A s \in Threads : Claims(s)' \subseteq Claims(s)
    BY <1>1
  <2> QED
    BY <2>1 DEF HistoryInv
<1> QED
  BY <1>4, <1>5, <1>6 DEF HistoryInv

LEMMA AnswerStays ==
    ASSUME AnswerInv, UNCHANGED <<batch, issued, log, received>>,
           pc'[owner] = "ok" <=> pc[owner] = "ok"
    PROVE  AnswerInv'
BY DEF AnswerInv, Older, EndsWithBatch

-----------------------------------------------------------------------------
(* The initial states *)

LEMMA IInvInit == Init => IInv
<1> SUFFICES ASSUME Init PROVE IInv
  OBVIOUS
<1>1. RingTyped /\ PushTyped /\ HistoryTyped
  <2>1. RingTyped
    BY DEF Init, RingTyped
  <2>2. PushTyped
    BY DEF Init, PushTyped
  <2>3. HistoryTyped
    BY DEF Init, HistoryTyped
  <2> QED
    BY <2>1, <2>2, <2>3
<1>2. CopiedTyped
  BY DEF Init, CopiedTyped
<1>3. ThreadsTyped
  <2>1. "idle" \in OwnerLabels /\ "idle" \in ConsumerLabels
    BY DEF OwnerLabels, ConsumerLabels
  <2> QED
    BY <2>1 DEF Init, ThreadsTyped, Labels
<1>4. RingInv
  BY DEF Init, RingInv, RingNotOverrun, InPlace
<1>5. OwnerInv
  BY Members DEF Init, OwnerInv, Single, Overflowing, Many
<1>6. \A c \in Consumers : ConsumerInv(c)
  BY Members DEF Init, ConsumerInv
<1>7. HistoryInv
  BY DEF Init, HistoryInv, Claims, ClaimedAt
<1>8. AnswerInv
  BY Members DEF Init, AnswerInv, Older
<1> QED
  BY <1>1, <1>2, <1>3, <1>4, <1>5, <1>6, <1>7, <1>8, TypeParts DEF IInv

-----------------------------------------------------------------------------
(* The consumers' steps *)

(* A step of a consumer keeps the invariant if it keeps the consumer's own   *)
(* clause and the history, and moves head by no more than is in the ring.    *)
LEMMA ConsumerMoves ==
    ASSUME IInv, NEW c \in Consumers, NEW label \in ConsumerLabels,
           NEW h \in Nat, NEW w \in Nat, NEW k \in Nat,
           NEW seq \in Seq(Nat \union {Empty}),
           Goes(c, label, h, w, k), copied' = [copied EXCEPT ![c] = seq],
           UNCHANGED <<tail, buffer, cachedHead, op, batch, written, issued, log, received>>,
           head' \in Nat, head <= head', head' <= tail, DOMAIN delivered' \subseteq Nat,
           ConsumerInv(c)', HistoryInv /\ Capacity = 2 * Taken => HistoryInv'
    PROVE  IInv'
<1>1. /\ RingTyped /\ ThreadsTyped /\ CopiedTyped /\ PushTyped /\ HistoryTyped /\ RingInv
      /\ tail \in Nat /\ head \in Nat /\ cachedHead \in Nat
      /\ cachedHead <= head /\ tail <= head + Capacity
  BY Invariants, Counters
<1>2. c \in Threads /\ c # owner /\ owner \in Threads
  BY Members
<1>3. label \in Labels(c)
  BY <1>2 DEF Labels
<1>4. /\ ThreadsTyped'
      /\ \A s \in Threads : s # c => pc'[s] = pc[s] /\ from'[s] = from[s] /\ n'[s] = n[s]
  BY <1>1, <1>2, <1>3, GoesTo
<1>5. CopiedTyped' /\ \A d \in Consumers : d # c => copied'[d] = copied[d]
  BY <1>1 DEF CopiedTyped
<1>6. TypeOK'
  <2>1. RingTyped' /\ PushTyped' /\ HistoryTyped'
    BY <1>1 DEF RingTyped, PushTyped, HistoryTyped
  <2> QED
    BY <1>4, <1>5, <2>1, TypePartsNext
<1>7. RingInv'
  <2>1. \A t \in head' .. tail - 1 : t \in head .. tail - 1
    BY <1>1
  <2>2. InPlace(head, tail)'
    BY <1>1, <2>1 DEF RingInv, InPlace
  <2>3. RingNotOverrun'
    <3>1. \A p \in Nat : head <= p => cachedHead <= p /\ tail <= p + Capacity
      BY <1>1
    <3>2. cachedHead <= head' /\ tail <= head' + Capacity
      BY <3>1
    <3> QED
      BY <3>2 DEF RingNotOverrun
  <2> QED
    BY <1>1, <2>2, <2>3 DEF RingInv
<1>8. OwnerInv'
  BY <1>2, <1>4, OwnerStays
<1>9. \A d \in Consumers : ConsumerInv(d)'
  <2> SUFFICES ASSUME NEW d \in Consumers PROVE ConsumerInv(d)'
    OBVIOUS
  <2>1. CASE d = c
    BY <2>1
  <2>2. CASE d # c
    <3>1. d \in Threads
      BY Members
    <3> QED
      BY <1>1, <1>4, <1>5, <2>2, <3>1, ConsumerStays
  <2> QED
    BY <2>1, <2>2
<1>10. "lockFreePushMany" \notin Operations /\ AnswerInv => AnswerInv'
  BY <1>2, <1>4, AnswerStays
<1> QED
  BY <1>6, <1>7, <1>8, <1>9, <1>10 DEF IInv

(* ... most of them claim and deliver nothing.                               *)
LEMMA ConsumerAlone ==
    ASSUME IInv, NEW c \in Consumers, NEW label \in ConsumerLabels, label # "return",
           NEW h \in Nat, NEW w \in Nat, NEW k \in Nat,
           NEW seq \in Seq(Nat \union {Empty}),
           Goes(c, label, h, w, k), copied' = [copied EXCEPT ![c] = seq],
           UNCHANGED <<tail, head, buffer, cachedHead, op, batch, written, issued, log, received,
                       delivered>>,
           ConsumerInv(c)'
    PROVE  IInv'
<1>1. ThreadsTyped /\ HistoryTyped /\ head \in Nat /\ tail \in Nat /\ head <= tail
  BY Invariants, Counters
<1>2. c \in Threads /\ c # owner
  BY Members
<1>3. label \in Labels(c)
  BY <1>2 DEF Labels
<1>4. /\ pc'[c] = label
      /\ \A s \in Threads : s # c => pc'[s] = pc[s] /\ from'[s] = from[s] /\ n'[s] = n[s]
  BY <1>1, <1>2, <1>3, GoesTo
<1>5. pc'[c] \notin Claiming
  BY <1>4 DEF Claiming, ConsumerLabels
<1>6. HistoryInv => HistoryInv'
  BY <1>2, <1>4, <1>5, HistoryStays
<1>7. head' \in Nat /\ head <= head' /\ head' <= tail /\ DOMAIN delivered' \subseteq Nat
  BY <1>1 DEF HistoryTyped
<1> QED
  BY <1>6, <1>7, ConsumerMoves

LEMMA NothingCopied ==
    ASSUME IInv, NEW c \in Consumers
    PROVE  /\ copied = [copied EXCEPT ![c] = copied[c]]
           /\ copied[c] \in Seq(Nat \union {Empty})
           /\ pc[c] \in {"idle", "loadHead", "loadTail"} => copied[c] = <<>>
<1>1. CopiedTyped /\ ConsumerInv(c)
  BY Invariants
<1> QED
  BY <1>1 DEF CopiedTyped, ConsumerInv

(* consumer_pop_many and steal_into begin.                                   *)
LEMMA ConsumerStartStep ==
    ASSUME IInv, NEW c \in Consumers, NEW k \in Nat, pc[c] = "idle",
           want' = [want EXCEPT ![c] = k], Goto(c, "loadHead"),
           UNCHANGED <<ring, cachedHead, from, n, copied, pushing, log, delivered, received>>
    PROVE  IInv'
<1>1. UNCHANGED <<tail, head, buffer, cachedHead, op, batch, written, issued, log, received,
                  delivered, from, n, copied>>
  BY DEF ring, pushing
<1>2. ThreadsTyped /\ c \in Threads /\ c # owner
  BY Invariants, Members
<1>3. Goes(c, "loadHead", from[c], k, n[c]) /\ from[c] \in Nat /\ n[c] \in Nat
  BY <1>1, <1>2, Unmoved DEF Goes, Goto
<1>4. copied' = [copied EXCEPT ![c] = <<>>] /\ copied'[c] = <<>>
  BY <1>1, NothingCopied
<1>5. "loadHead" \in ConsumerLabels /\ "loadHead" \in Labels(c) /\ "loadHead" # "return"
  BY <1>2 DEF ConsumerLabels, Labels
<1>6. pc'[c] = "loadHead"
  BY <1>2, <1>3, <1>5, GoesTo
<1>7. ConsumerInv(c)'
  BY <1>4, <1>6 DEF ConsumerInv
<1>8. <<>> \in Seq(Nat \union {Empty})
  OBVIOUS
<1> QED
  BY <1>1, <1>3, <1>4, <1>5, <1>7, <1>8, ConsumerAlone

LEMMA LoadHeadStep == ASSUME IInv, NEW c \in Consumers, LoadHead(c) PROVE IInv'
<1>1. /\ UNCHANGED <<tail, head, buffer, cachedHead, op, batch, written, issued, log, received,
                     delivered, want, n, copied>>
      /\ pc[c] = "loadHead" /\ from' = [from EXCEPT ![c] = head] /\ Goto(c, "loadTail")
  BY DEF LoadHead, ring, pushing, popping
<1>2. ThreadsTyped /\ c \in Threads /\ c # owner /\ head \in Nat
  BY Invariants, Members, Counters
<1>3. Goes(c, "loadTail", head, want[c], n[c]) /\ want[c] \in Nat /\ n[c] \in Nat
  BY <1>1, <1>2, Unmoved DEF Goes, Goto
<1>4. copied' = [copied EXCEPT ![c] = <<>>] /\ copied'[c] = <<>>
  BY <1>1, NothingCopied
<1>5. "loadTail" \in ConsumerLabels /\ "loadTail" \in Labels(c) /\ "loadTail" # "return"
  BY <1>2 DEF ConsumerLabels, Labels
<1>6. pc'[c] = "loadTail" /\ from'[c] = head
  BY <1>2, <1>3, <1>5, GoesTo
<1>7. ConsumerInv(c)'
  BY <1>1, <1>2, <1>4, <1>6 DEF ConsumerInv
<1>8. <<>> \in Seq(Nat \union {Empty})
  OBVIOUS
<1> QED
  BY <1>1, <1>2, <1>3, <1>4, <1>5, <1>7, <1>8, ConsumerAlone

LEMMA AimIsThere ==
    ASSUME NEW c \in Consumers, NEW len \in Nat, want[c] \in Nat,
           NEW aim, aim = IF Stealing(c) THEN len \div 2 ELSE Smaller(want[c], len)
    PROVE  aim \in Nat /\ aim <= len
<1>1. CASE Stealing(c)
  <2>1. len = 2 * (len \div 2) + (len % 2) /\ len \div 2 \in Int /\ len % 2 \in 0 .. 1
    BY DivMod
  <2>2. aim = len \div 2
    BY <1>1
  <2> QED
    BY <2>1, <2>2
<1>2. CASE ~Stealing(c)
  BY <1>2 DEF Smaller
<1> QED
  BY <1>1, <1>2

LEMMA LoadTailStep == ASSUME IInv, NEW c \in Consumers, LoadTail(c) PROVE IInv'
<1> DEFINE len  == tail - from[c]
           aim  == IF Stealing(c) THEN len \div 2 ELSE Smaller(want[c], len)
           most == IF Stealing(c) THEN Taken ELSE Capacity
           few  == IF Stealing(c) THEN MinSteal ELSE 1
<1>1. /\ UNCHANGED <<tail, head, buffer, cachedHead, op, batch, written, issued, log, received,
                     delivered, copied>>
      /\ pc[c] = "loadTail"
      /\ \/ Goto(c, "loadHead") /\ UNCHANGED <<from, want, n>>
         \/ EndPop(c)
         \/ /\ aim \in few .. most
            /\ n' = [n EXCEPT ![c] = aim] /\ Goto(c, "copy") /\ UNCHANGED <<from, want>>
  BY DEF LoadTail, ring, pushing, popping
<1>2. /\ ThreadsTyped /\ c \in Threads /\ c # owner
      /\ head \in Nat /\ tail \in Nat /\ head <= tail
  BY Invariants, Members, Counters
<1>3. from[c] \in Nat /\ want[c] \in Nat /\ n[c] \in Nat /\ from[c] <= head
  <2>1. ConsumerInv(c)
    BY Invariants
  <2> QED
    BY <1>1, <1>2, <2>1, Unmoved DEF ConsumerInv
<1>4. copied' = [copied EXCEPT ![c] = <<>>] /\ copied'[c] = <<>>
  BY <1>1, NothingCopied
<1>5. /\ {"idle", "loadHead", "copy"} \subseteq ConsumerLabels
      /\ \A label \in {"idle", "loadHead", "copy"} : label \in Labels(c) /\ label # "return"
  BY <1>2 DEF ConsumerLabels, Labels
<1>6. <<>> \in Seq(Nat \union {Empty}) /\ Len(<<>>) = 0
  OBVIOUS
<1>7. len \in Nat
  BY <1>2, <1>3
<1> HIDE DEF len
<1>8. aim \in Nat /\ aim <= len
  BY <1>3, <1>7, AimIsThere
<1>9. few >= 1 /\ few \in Nat
  BY LensAssumption
<1> HIDE DEF aim, most, few
<1>10. CASE Goto(c, "loadHead") /\ UNCHANGED <<from, want, n>>
  <2>1. Goes(c, "loadHead", from[c], want[c], n[c])
    BY <1>2, <1>10, Unmoved DEF Goes, Goto
  <2>2. pc'[c] = "loadHead"
    BY <1>2, <1>3, <1>5, <2>1, GoesTo
  <2>3. ConsumerInv(c)'
    BY <1>4, <2>2 DEF ConsumerInv
  <2> QED
    BY <1>1, <1>3, <1>4, <1>5, <1>6, <2>1, <2>3, ConsumerAlone
<1>11. CASE EndPop(c)
  <2>1. Goes(c, "idle", 0, 0, 0)
    BY <1>11 DEF Goes, EndPop, Goto
  <2>2. pc'[c] = "idle"
    BY <1>2, <1>5, <2>1, GoesTo
  <2>3. ConsumerInv(c)'
    BY <1>4, <2>2 DEF ConsumerInv
  <2> QED
    <3>1. 0 \in Nat /\ "idle" \in ConsumerLabels /\ "idle" # "return"
      BY <1>5
    <3> QED
      BY <1>1, <1>4, <1>6, <2>1, <2>3, <3>1, ConsumerAlone
<1>12. CASE /\ aim \in few .. most
            /\ n' = [n EXCEPT ![c] = aim] /\ Goto(c, "copy") /\ UNCHANGED <<from, want>>
  <2>1. Goes(c, "copy", from[c], want[c], aim)
    BY <1>2, <1>12, Unmoved DEF Goes, Goto
  <2>2. pc'[c] = "copy" /\ from'[c] = from[c] /\ n'[c] = aim
    BY <1>2, <1>3, <1>5, <1>8, <2>1, GoesTo
  <2>3. aim >= 1 /\ from[c] + aim <= tail
    BY <1>2, <1>3, <1>8, <1>9, <1>12 DEF len
  <2>4. CopiedFrom(from[c], copied[c])'
    BY <1>4, <1>6 DEF CopiedFrom
  <2>5. ConsumerInv(c)'
    BY <1>1, <1>3, <1>4, <1>6, <1>8, <2>2, <2>3, <2>4 DEF ConsumerInv
  <2> QED
    BY <1>1, <1>3, <1>4, <1>5, <1>6, <1>8, <2>1, <2>5, ConsumerAlone
<1> QED
  BY <1>1, <1>10, <1>11, <1>12

LEMMA CopyNextStep == ASSUME IInv, NEW c \in Consumers, CopyNext(c) PROVE IInv'
<1> DEFINE m == Len(copied[c])
           v == buffer[Slot(from[c] + m)]
           seq == Append(copied[c], v)
           label == IF m + 1 = n[c] THEN "cas" ELSE "copy"
<1>1. ThreadsTyped /\ CopiedTyped /\ RingTyped /\ RingInv /\ c \in Threads /\ c # owner
  BY Invariants, Members
<1>2. /\ head \in Nat /\ tail \in Nat /\ head <= tail /\ Len(log) = tail
      /\ from[c] \in Nat /\ want[c] \in Nat /\ n[c] \in Nat
      /\ copied[c] \in Seq(Nat \union {Empty}) /\ m \in Nat
  BY <1>1, Counters, Unmoved, CopyOf
<1>3. v \in Nat \union {Empty}
  <2>1. from[c] + m \in Nat
    BY <1>2
  <2>2. Slot(from[c] + m) \in 0 .. Capacity - 1
    BY <2>1, SlotInRing
  <2> QED
    BY <1>1, <2>2 DEF RingTyped
<1>4. /\ seq \in Seq(Nat \union {Empty}) /\ Len(seq) = m + 1 /\ seq[m + 1] = v
      /\ \A i \in 1 .. m : seq[i] = copied[c][i]
  <2> HIDE DEF v
  <2> QED
    BY <1>2, <1>3
<1>5. /\ UNCHANGED <<tail, head, buffer, cachedHead, op, batch, written, issued, log, received,
                     delivered, from, want, n>>
      /\ pc[c] = "copy" /\ copied' = [copied EXCEPT ![c] = seq]
  BY <1>1 DEF CopyNext, ring, pushing, popping, CopiedTyped
<1>6. copied'[c] = seq
  BY <1>1, <1>5 DEF CopiedTyped
<1> HIDE DEF seq
<1>7. Goes(c, label, from[c], want[c], n[c])
  <2>1. Goto(c, label)
    BY <1>4, <1>5, <1>6 DEF CopyNext
  <2> HIDE DEF label
  <2> QED
    BY <1>1, <1>5, <2>1, Unmoved DEF Goes, Goto
<1>8. label \in ConsumerLabels /\ label \in Labels(c) /\ label # "return"
  BY <1>1 DEF ConsumerLabels, Labels
<1>9. ConsumerInv(c)
  BY Invariants
<1>10. ConsumerInv(c)'
  <2>1. pc'[c] = label /\ from'[c] = from[c] /\ n'[c] = n[c]
    BY <1>1, <1>2, <1>7, <1>8, GoesTo
  <2>2. from[c] <= head /\ n[c] >= 1 /\ from[c] + n[c] <= tail /\ m < n[c]
    BY <1>5, <1>9 DEF ConsumerInv
  <2>3. ASSUME from[c] = head PROVE CopiedFrom(from[c], copied[c])'
    <3>1. CopiedFrom(from[c], copied[c])
      BY <1>5, <1>9, <2>3 DEF ConsumerInv
    <3>2. v = log[from[c] + (m + 1)]
      <4>1. from[c] + m \in head .. tail - 1
        BY <1>2, <2>2, <2>3
      <4>2. v = log[from[c] + m + 1]
        BY <1>1, <4>1 DEF RingInv, InPlace
      <4>3. from[c] + m + 1 = from[c] + (m + 1)
        BY <1>2
      <4> QED
        BY <4>2, <4>3
    <3>3. \A i \in 1 .. m : seq[i] = log[from[c] + i]
      BY <1>4, <3>1 DEF CopiedFrom
    <3> HIDE DEF v, m
    <3>4. \A i \in 1 .. m + 1 : seq[i] = log[from[c] + i]
      BY <1>2, <1>4, <3>2, <3>3
    <3> QED
      BY <1>4, <1>5, <1>6, <2>1, <3>4 DEF CopiedFrom
  <2> HIDE DEF m
  <2>4. label \in {"cas", "copy"} /\ (label = "cas" <=> m + 1 = n[c])
    OBVIOUS
  <2>5. label = "copy" => m + 1 < n[c]
    BY <1>2, <2>2, <2>4
  <2> HIDE DEF label
  <2> QED
    BY <1>2, <1>4, <1>5, <1>6, <2>1, <2>2, <2>3, <2>4, <2>5 DEF ConsumerInv
<1> HIDE DEF label
<1> QED
  BY <1>2, <1>4, <1>5, <1>7, <1>8, <1>10, ConsumerAlone

LEMMA ForgetCopiedStep == ASSUME IInv, NEW c \in Consumers, ForgetCopied(c) PROVE IInv'
<1>1. /\ UNCHANGED <<tail, head, buffer, cachedHead, op, batch, written, issued, log, received,
                     delivered, want, n>>
      /\ from' = [from EXCEPT ![c] = head] /\ copied' = [copied EXCEPT ![c] = <<>>]
      /\ Goto(c, "loadTail")
  BY DEF ForgetCopied, ring, pushing, popping
<1>2. ThreadsTyped /\ CopiedTyped /\ c \in Threads /\ c # owner /\ head \in Nat
  BY Invariants, Members, Counters
<1>3. Goes(c, "loadTail", head, want[c], n[c]) /\ want[c] \in Nat /\ n[c] \in Nat
  BY <1>1, <1>2, Unmoved DEF Goes, Goto
<1>4. copied'[c] = <<>>
  BY <1>1, <1>2 DEF CopiedTyped
<1>5. "loadTail" \in ConsumerLabels /\ "loadTail" \in Labels(c) /\ "loadTail" # "return"
  BY <1>2 DEF ConsumerLabels, Labels
<1>6. pc'[c] = "loadTail" /\ from'[c] = head
  BY <1>2, <1>3, <1>5, GoesTo
<1>7. ConsumerInv(c)'
  BY <1>1, <1>2, <1>4, <1>6 DEF ConsumerInv
<1>8. <<>> \in Seq(Nat \union {Empty})
  OBVIOUS
<1> QED
  BY <1>1, <1>2, <1>3, <1>5, <1>7, <1>8, ConsumerAlone

LEMMA ClaimCopiedStep == ASSUME IInv, NEW c \in Consumers, ClaimCopied(c) PROVE IInv'
<1>1. /\ UNCHANGED <<tail, buffer, cachedHead, op, batch, written, issued, log, received,
                     delivered, from, want, n, copied>>
      /\ pc[c] = "cas" /\ head = from[c] /\ head' = head + n[c] /\ Goto(c, "return")
  BY DEF ClaimCopied, pushing, popping
<1>2. /\ ThreadsTyped /\ HistoryTyped /\ c \in Threads /\ c # owner
      /\ head \in Nat /\ tail \in Nat /\ from[c] \in Nat /\ want[c] \in Nat /\ n[c] \in Nat
  BY Invariants, Members, Counters, Unmoved
<1>3. /\ n[c] >= 1 /\ from[c] + n[c] <= tail /\ Len(copied[c]) = n[c]
      /\ CopiedFrom(from[c], copied[c])
  <2>1. ConsumerInv(c)
    BY Invariants
  <2> QED
    BY <1>1, <2>1 DEF ConsumerInv
<1>4. Goes(c, "return", from[c], want[c], n[c])
  BY <1>1, <1>2, Unmoved DEF Goes, Goto
<1>5. "return" \in ConsumerLabels /\ "return" \in Labels(c)
  BY <1>2 DEF ConsumerLabels, Labels
<1>6. /\ pc'[c] = "return" /\ from'[c] = from[c] /\ n'[c] = n[c]
      /\ \A s \in Threads : s # c => pc'[s] = pc[s] /\ from'[s] = from[s] /\ n'[s] = n[s]
  BY <1>2, <1>4, <1>5, GoesTo
<1>7. head' \in Nat /\ head <= head' /\ head' <= tail
  BY <1>1, <1>2, <1>3
<1>8. ConsumerInv(c)'
  <2>1. CopiedFrom(from[c], copied[c])'
    BY <1>1, <1>3, <1>6 DEF CopiedFrom
  <2>2. from[c] + n[c] <= head'
    BY <1>1, <1>2
  <2> QED
    BY <1>1, <1>3, <1>6, <2>1, <2>2 DEF ConsumerInv
<1>9. HistoryInv => HistoryInv'
  <2>1. Claims(c)' = head .. head + n[c] - 1
    BY <1>1, <1>6, ClaimedTickets DEF Claims
  <2> QED
    BY <1>1, <1>2, <1>6, <2>1, HistoryClaims
<1>10. copied' = [copied EXCEPT ![c] = copied[c]] /\ copied[c] \in Seq(Nat \union {Empty})
  BY <1>1, NothingCopied
<1>11. DOMAIN delivered' \subseteq Nat
  BY <1>1, <1>2 DEF HistoryTyped
<1> QED
  BY <1>1, <1>2, <1>4, <1>5, <1>7, <1>8, <1>9, <1>10, <1>11, ConsumerMoves

(* What a consumer delivers: the values pushed with the tickets it claimed.  *)
LEMMA ReturnDelivers ==
    ASSUME IInv, NEW c \in Consumers, Return(c)
    PROVE  /\ Claims(c) = from[c] .. from[c] + n[c] - 1 /\ Claims(c) \subseteq Nat
           /\ delivered' = [t \in DOMAIN delivered \union Claims(c) |->
                              IF t \in Claims(c) THEN log[t + 1] ELSE delivered[t]]
<1> DEFINE f == [t \in from[c] .. from[c] + n[c] - 1 |-> copied[c][t - from[c] + 1]]
<1>1. pc[c] = "return" /\ Delivers(f)
  BY DEF Return
<1>2. /\ c \in Threads /\ from[c] \in Nat /\ n[c] \in Nat
      /\ Len(copied[c]) = n[c] /\ CopiedFrom(from[c], copied[c])
  <2>1. ConsumerInv(c) /\ ThreadsTyped /\ c \in Threads
    BY Invariants, Members
  <2> QED
    BY <1>1, <2>1, Unmoved DEF ConsumerInv
<1>3. Claims(c) = from[c] .. from[c] + n[c] - 1
  BY <1>1, ClaimedTickets DEF Claims
<1>4. Claims(c) \subseteq Nat
  BY <1>2, <1>3
<1>5. ASSUME NEW t \in Claims(c) PROVE f[t] = log[t + 1]
  <2> DEFINE i == t - from[c] + 1
  <2>1. i \in 1 .. n[c] /\ from[c] + i = t + 1
    BY <1>2, <1>3
  <2>2. f[t] = copied[c][i]
    BY <1>3
  <2> HIDE DEF i, f
  <2>3. copied[c][i] = log[from[c] + i]
    BY <1>2, <2>1 DEF CopiedFrom
  <2> QED
    BY <2>1, <2>2, <2>3
<1>6. DOMAIN f = Claims(c)
  BY <1>3
<1> HIDE DEF f
<1>7. delivered' = [t \in DOMAIN delivered \union Claims(c) |->
                      IF t \in Claims(c) THEN f[t] ELSE delivered[t]]
  BY <1>1, <1>6 DEF Delivers
<1> QED
  BY <1>3, <1>4, <1>5, <1>7

LEMMA ReturnStep == ASSUME IInv, NEW c \in Consumers, Return(c) PROVE IInv'
<1>1. /\ UNCHANGED <<tail, head, buffer, cachedHead, op, batch, written, issued, log, received>>
      /\ pc[c] = "return" /\ copied' = [copied EXCEPT ![c] = <<>>] /\ EndPop(c)
  BY DEF Return, ring, pushing
<1>2. /\ ThreadsTyped /\ CopiedTyped /\ HistoryTyped /\ c \in Threads /\ c # owner
      /\ head \in Nat /\ tail \in Nat /\ head <= tail
  BY Invariants, Members, Counters
<1>3. Goes(c, "idle", 0, 0, 0)
  BY <1>1 DEF Goes, EndPop, Goto
<1>4. "idle" \in ConsumerLabels /\ "idle" \in Labels(c) /\ 0 \in Nat
  BY <1>2 DEF ConsumerLabels, Labels
<1>5. /\ pc'[c] = "idle"
      /\ \A s \in Threads : s # c => pc'[s] = pc[s] /\ from'[s] = from[s] /\ n'[s] = n[s]
  BY <1>2, <1>3, <1>4, GoesTo
<1>6. copied'[c] = <<>> /\ <<>> \in Seq(Nat \union {Empty})
  BY <1>1, <1>2 DEF CopiedTyped
<1>7. ConsumerInv(c)'
  BY <1>5, <1>6 DEF ConsumerInv
<1>8. /\ Claims(c) \subseteq Nat /\ DOMAIN delivered' = DOMAIN delivered \union Claims(c)
      /\ \A k \in Claims(c) : delivered'[k] = log[k + 1]
      /\ \A k \in DOMAIN delivered : k \notin Claims(c) => delivered'[k] = delivered[k]
  BY ReturnDelivers
<1>9. HistoryInv => HistoryInv'
  <2>1. pc'[c] \notin Claiming
    BY <1>5 DEF Claiming
  <2> QED
    BY <1>1, <1>2, <1>5, <1>8, <2>1, HistoryDelivers
<1>10. head' \in Nat /\ head <= head' /\ head' <= tail /\ DOMAIN delivered' \subseteq Nat
  BY <1>1, <1>2, <1>8 DEF HistoryTyped
<1> QED
  BY <1>1, <1>3, <1>4, <1>6, <1>7, <1>9, <1>10, ConsumerMoves

LEMMA ConsumerNext ==
    ASSUME IInv, NEW c \in Consumers, ConsumerStart(c) \/ ConsumerStep(c)
    PROVE  IInv'
<1>1. CASE StartSteal(c)
  <2>1. 0 \in Nat
    OBVIOUS
  <2> QED
    BY <1>1, <2>1, ConsumerStartStep DEF StartSteal
<1>2. ASSUME NEW k \in DstLens, StartPopMany(c, k) PROVE IInv'
  <2>1. k \in Nat
    BY LensAssumption
  <2> QED
    BY <1>2, <2>1, ConsumerStartStep DEF StartPopMany
<1>3. CASE ConsumerStep(c)
  BY <1>3, LoadHeadStep, LoadTailStep, CopyNextStep, ClaimCopiedStep, ForgetCopiedStep, ReturnStep
     DEF ConsumerStep
<1> QED
  BY <1>1, <1>2, <1>3 DEF ConsumerStart

-----------------------------------------------------------------------------
(* The owner's steps *)

(* A step of the owner does not disturb the consumers, if head and tail only *)
(* grow and the log is only appended to.                                     *)
LEMMA OwnerMoves ==
    ASSUME IInv, NEW label \in OwnerLabels, NEW h \in Nat, NEW w \in Nat, NEW k \in Nat,
           Goes(owner, label, h, w, k), copied' = copied,
           head' \in Nat, head <= head', tail' \in Nat, tail <= tail',
           \A i \in 1 .. tail : log'[i] = log[i],
           RingTyped', PushTyped', HistoryTyped', RingInv', OwnerInv',
           HistoryInv /\ Capacity = 2 * Taken => HistoryInv',
           AnswerInv /\ "lockFreePushMany" \notin Operations => AnswerInv'
    PROVE  IInv'
<1>1. ThreadsTyped /\ CopiedTyped /\ owner \in Threads
  BY Invariants, Members
<1>2. label \in Labels(owner)
  BY DEF Labels
<1>3. /\ ThreadsTyped'
      /\ \A s \in Threads : s # owner => pc'[s] = pc[s] /\ from'[s] = from[s] /\ n'[s] = n[s]
  BY <1>1, <1>2, GoesTo
<1>4. TypeOK'
  <2>1. CopiedTyped'
    BY <1>1 DEF CopiedTyped
  <2> QED
    BY <1>3, <2>1, TypePartsNext
<1>5. ASSUME NEW c \in Consumers PROVE ConsumerInv(c)'
  <2>1. pc'[c] = pc[c] /\ from'[c] = from[c] /\ n'[c] = n[c] /\ copied'[c] = copied[c]
    BY <1>3, Members
  <2> QED
    BY <2>1, ConsumerStays
<1> QED
  BY <1>4, <1>5 DEF IInv

(* ... many of them change nothing but the owner's place, its locals and its *)
(* copy of head, and answer nothing.                                         *)
LEMMA OwnerAlone ==
    ASSUME IInv, NEW label \in OwnerLabels, NEW h \in Nat, NEW w \in Nat, NEW k \in Nat,
           Goes(owner, label, h, w, k), label \notin Claiming,
           pc[owner] # "ok", label = "ok" => "lockFreePushMany" \in Operations,
           UNCHANGED <<tail, head, buffer, op, batch, written, issued, log, delivered, received,
                       copied>>,
           cachedHead' \in Nat, cachedHead' <= head,
           OwnerInv'
    PROVE  IInv'
<1>1. /\ RingTyped /\ ThreadsTyped /\ PushTyped /\ HistoryTyped /\ RingInv
      /\ head \in Nat /\ tail \in Nat /\ owner \in Threads
  BY Invariants, Members, Counters
<1>2. RingTyped' /\ PushTyped' /\ HistoryTyped'
  BY <1>1 DEF RingTyped, PushTyped, HistoryTyped
<1>3. RingInv'
  BY <1>1 DEF RingInv, RingNotOverrun, InPlace
<1>4. label \in Labels(owner)
  BY DEF Labels
<1>5. /\ pc'[owner] = label
      /\ \A s \in Threads : s # owner => pc'[s] = pc[s] /\ from'[s] = from[s] /\ n'[s] = n[s]
  BY <1>1, <1>4, GoesTo
<1>6. HistoryInv => HistoryInv'
  BY <1>1, <1>5, HistoryStays
<1>7. AnswerInv /\ "lockFreePushMany" \notin Operations => AnswerInv'
  BY <1>5, AnswerStays
<1>8. head' \in Nat /\ head <= head' /\ tail' \in Nat /\ tail <= tail'
  BY <1>1
<1>9. \A i \in 1 .. tail : log'[i] = log[i]
  OBVIOUS
<1> QED
  BY <1>2, <1>3, <1>6, <1>7, <1>8, <1>9, OwnerMoves

LEMMA OwnerFacts ==
    IInv => /\ ThreadsTyped /\ owner \in Threads
            /\ tail \in Nat /\ head \in Nat /\ cachedHead \in Nat
            /\ cachedHead <= head /\ head <= tail /\ tail <= head + Capacity
            /\ from[owner] \in Nat /\ want[owner] \in Nat /\ n[owner] \in Nat
            /\ OwnerLabels = Labels(owner)
            /\ OwnerInv
BY Invariants, Members, Counters, Unmoved DEF Labels

LEMMA BatchFacts ==
    IInv => /\ batch \in Seq(Nat) /\ Len(batch) \in Nat /\ written \in Nat
            /\ written <= Len(batch) /\ issued \in Nat
<1> SUFFICES ASSUME IInv PROVE /\ batch \in Seq(Nat) /\ Len(batch) \in Nat /\ written \in Nat
                               /\ written <= Len(batch) /\ issued \in Nat
  OBVIOUS
<1>1. batch \in Seq(Nat) /\ written \in 0 .. Len(batch) /\ issued \in Nat
  BY Invariants DEF PushTyped
<1>2. Len(batch) \in Nat
  BY <1>1
<1> QED
  BY <1>1, <1>2

LEMMA Kinds ==
    /\ Single \intersect Many = {} /\ Single \intersect Unchecked = {}
    /\ Many \intersect Unchecked = {}
    /\ "none" \notin Single \union Many \union Unchecked
    /\ Maybe \subseteq Single \union Many /\ LockFree \subseteq Overflowing
    /\ Overflowing = (Single \union Many) \ Maybe
    /\ "lockFreePushMany" \in Many
    /\ \A o \in LockFree : o = "lockFreePushMany" \/ o \in Single
BY DEF Single, Many, Unchecked, Maybe, LockFree, Overflowing

LEMMA BeginStep ==
    ASSUME IInv, NEW o \in Operations, NEW values \in Seq(Nat),
           Len(values) >= 1, o \in Single => Len(values) = 1 /\ tail - cachedHead <= Capacity,
           o \in Overflowing => Len(values) <= Taken + 1,
           o \in Unchecked => tail + Len(values) <= head + Capacity,
           \A i \in 1 .. Len(values) : values[i] > issued /\ values[i] <= issued + Len(values),
           \A i, j \in 1 .. Len(values) : values[i] = values[j] => i = j,
           Begin(o, values)
    PROVE  IInv'
<1> DEFINE len == Len(values)
           label == IF MustRefresh(o, len) THEN "refresh" ELSE "write"
<1>1. /\ UNCHANGED <<tail, head, buffer, cachedHead, from, want, n, copied, log, delivered, received>>
      /\ pc[owner] = "idle" /\ issued' = issued + len /\ op' = o /\ batch' = values /\ written' = 0
      /\ Goto(owner, label)
  BY DEF Begin, ring, popping
<1>2. /\ ThreadsTyped /\ owner \in Threads /\ tail \in Nat /\ head \in Nat /\ cachedHead \in Nat
      /\ cachedHead <= head /\ head <= tail /\ tail <= head + Capacity
      /\ from[owner] \in Nat /\ want[owner] \in Nat /\ n[owner] \in Nat
      /\ OwnerLabels = Labels(owner)
  BY OwnerFacts
<1>3. len \in Nat /\ len >= 1 /\ issued \in Nat
  BY BatchFacts
<1>4. label \in {"refresh", "write"} /\ label \in OwnerLabels
  BY DEF OwnerLabels
<1>5. o \in Single \union Many \union Unchecked
  BY OperationsAssumption
<1>6. label = "refresh" => o \in Single \union Many /\ (o \in Single => tail = cachedHead + Capacity)
  BY <1>2, <1>3, Kinds DEF MustRefresh
<1>7. label = "write" => tail + len <= head + Capacity
  <2> SUFFICES ASSUME ~MustRefresh(o, len) PROVE tail + len <= head + Capacity
    BY <1>4
  <2>1. CASE o \in Single
    <3>1. tail - cachedHead <= Capacity /\ len = 1
      BY <2>1
    <3>2. o \notin Maybe => tail - cachedHead # Capacity
      BY <2>1 DEF MustRefresh
    <3>3. o \in Maybe => ~(tail - cachedHead >= Capacity)
      BY <2>1 DEF MustRefresh
    <3>4. ~(tail - cachedHead >= Capacity)
      BY <1>2, <3>1, <3>2, <3>3
    <3> HIDE DEF len
    <3> QED
      BY <1>2, <3>1, <3>4
  <2>2. CASE o \in Many
    BY <1>2, <1>3, <2>2, Kinds DEF MustRefresh
  <2>3. CASE o \in Unchecked
    BY <2>3
  <2> QED
    BY <1>5, <2>1, <2>2, <2>3
<1>8. Goes(owner, label, from[owner], want[owner], n[owner])
  <2> HIDE DEF label
  <2> QED
    BY <1>1, <1>2, Unmoved DEF Goes, Goto
<1> HIDE DEF label
<1>9. /\ pc'[owner] = label
      /\ \A s \in Threads : s # owner => pc'[s] = pc[s] /\ from'[s] = from[s] /\ n'[s] = n[s]
  BY <1>2, <1>4, <1>8, GoesTo
<1>10. PushTyped'
  <2>1. issued' \in Nat /\ written' \in 0 .. len
    BY <1>1, <1>3
  <2> QED
    BY <1>1, <1>5, <2>1 DEF PushTyped
<1>11. RingTyped' /\ HistoryTyped' /\ RingInv'
  <2>1. RingTyped /\ HistoryTyped /\ RingInv
    BY Invariants
  <2> QED
    BY <1>1, <2>1 DEF RingTyped, HistoryTyped, RingInv, RingNotOverrun, InPlace
<1>12. OwnerInv'
  <2>1. \A i \in 1 .. 0 : buffer'[Slot(tail' + i - 1)] = batch'[i]
    OBVIOUS
  <2>2. 0 < len
    BY <1>3
  <2> HIDE DEF len
  <2>3. Len(batch') = len
    BY <1>1 DEF len
  <2>4. o \in Single => len = 1
    BY DEF len
  <2>5. o \in Overflowing => len <= Taken + 1
    BY DEF len
  <2> QED
    BY <1>1, <1>3, <1>4, <1>6, <1>7, <1>9, <2>1, <2>2, <2>3, <2>4, <2>5 DEF OwnerInv
<1>13. HistoryInv => HistoryInv'
  <2>1. pc'[owner] \notin Claiming
    BY <1>4, <1>9 DEF Claiming
  <2> QED
    BY <1>1, <1>2, <1>9, <2>1, HistoryStays
<1>14. AnswerInv => AnswerInv'
  <2> SUFFICES ASSUME AnswerInv PROVE AnswerInv'
    OBVIOUS
  <2>1. batch = <<>> /\ Len(batch) = 0
    <3>1. batch = <<>>
      BY <1>1, OwnerFacts DEF OwnerInv
    <3> QED
      BY <3>1
  <2>2. issued' - Len(batch') = issued /\ issued - Len(batch) = issued
    BY <1>1, <1>3, <2>1
  <2>3. Older(log)' /\ Older(received)'
    BY <1>1, <2>2 DEF AnswerInv, Older
  <2>4. pc'[owner] # "ok"
    BY <1>4, <1>9
  <2>5. \A i \in 1 .. Len(batch') : batch'[i] > issued' - Len(batch') /\ batch'[i] <= issued'
    BY <1>1, <2>2
  <2> QED
    BY <1>1, <2>3, <2>4, <2>5 DEF AnswerInv
<1>15. head' \in Nat /\ head <= head' /\ tail' \in Nat /\ tail <= tail'
  BY <1>1, <1>2
<1>16. \A i \in 1 .. tail : log'[i] = log[i]
  BY <1>1
<1> QED
  BY <1>1, <1>2, <1>4, <1>8, <1>10, <1>11, <1>12, <1>13, <1>14, <1>15, <1>16, OwnerMoves

(* The values that an operation is handed: numbered, new, and different.     *)
LEMMA FreshValues ==
    ASSUME issued \in Nat, NEW k \in Nat
    PROVE  /\ Fresh(k) \in Seq(Nat) /\ Len(Fresh(k)) = k
           /\ \A i \in 1 .. k : Fresh(k)[i] = issued + i
<1>1. \A i \in 1 .. k : issued + i \in Nat
  OBVIOUS
<1> QED
  BY <1>1 DEF Fresh

LEMMA Concatenated ==
    \A a, b \in Seq(Nat) :
      /\ a \o b \in Seq(Nat) /\ Len(a \o b) = Len(a) + Len(b)
      /\ Len(a) \in Nat /\ Len(b) \in Nat
      /\ \A i \in 1 .. Len(a) : (a \o b)[i] = a[i]
      /\ \A i \in 1 .. Len(b) : (a \o b)[Len(a) + i] = b[i]
OBVIOUS

(* copy_and_commit_if copies the second slice of the values first.           *)
Swapped(r, l) == SubSeq(Fresh(r + l), r + 1, r + l) \o Fresh(r)

LEMMA SwappedSlices ==
    ASSUME issued \in Nat, NEW r \in Nat, NEW l \in Nat
    PROVE  /\ Swapped(r, l) \in Seq(Nat) /\ Len(Swapped(r, l)) = r + l
           /\ \A i \in 1 .. l : Swapped(r, l)[i] = issued + (r + i)
           /\ \A i \in 1 .. r : Swapped(r, l)[l + i] = issued + i
<1> DEFINE first == SubSeq(Fresh(r + l), r + 1, r + l)
<1>0. r + l \in Nat
  OBVIOUS
<1>1. /\ Fresh(r + l) \in Seq(Nat) /\ Len(Fresh(r + l)) = r + l
      /\ \A i \in 1 .. r + l : Fresh(r + l)[i] = issued + i
  BY <1>0, FreshValues
<1>2. /\ Fresh(r) \in Seq(Nat) /\ Len(Fresh(r)) = r
      /\ \A i \in 1 .. r : Fresh(r)[i] = issued + i
  BY FreshValues
<1>3. first = [i \in 1 .. l |-> Fresh(r + l)[r + i]]
  <2>1. r + l - (r + 1) + 1 = l
    OBVIOUS
  <2>2. \A i \in 1 .. l : (r + 1) + i - 1 = r + i
    OBVIOUS
  <2>3. first = [i \in 1 .. (r + l - (r + 1) + 1) |-> Fresh(r + l)[(r + 1) + i - 1]]
    BY <1>1
  <2> QED
    BY <2>1, <2>2, <2>3
<1>4. \A i \in 1 .. l : first[i] = issued + (r + i)
  <2>1. \A i \in 1 .. l : r + i \in 1 .. r + l
    OBVIOUS
  <2> QED
    BY <1>1, <1>3, <2>1
<1>5. first \in Seq(Nat) /\ Len(first) = l
  <2>1. \A i \in 1 .. l : Fresh(r + l)[r + i] \in Nat
    <3>1. \A i \in 1 .. l : r + i \in 1 .. r + l /\ issued + (r + i) \in Nat
      OBVIOUS
    <3> QED
      BY <1>1, <3>1
  <2> HIDE DEF first
  <2> QED
    BY <1>3, <2>1
<1> HIDE DEF first
<1>6. /\ first \o Fresh(r) \in Seq(Nat) /\ Len(first \o Fresh(r)) = l + r
      /\ \A i \in 1 .. l : (first \o Fresh(r))[i] = first[i]
      /\ \A i \in 1 .. r : (first \o Fresh(r))[l + i] = Fresh(r)[i]
  <2> DEFINE second == Fresh(r)
  <2>1. /\ first \in Seq(Nat) /\ Len(first) = l
        /\ second \in Seq(Nat) /\ Len(second) = r
    BY <1>2, <1>5
  <2> HIDE DEF second
  <2>2. /\ first \o second \in Seq(Nat) /\ Len(first \o second) = Len(first) + Len(second)
        /\ \A i \in 1 .. Len(first) : (first \o second)[i] = first[i]
        /\ \A i \in 1 .. Len(second) : (first \o second)[Len(first) + i] = second[i]
    BY <2>1, Concatenated, Zenon
  <2>3. /\ first \o second \in Seq(Nat) /\ Len(first \o second) = l + r
        /\ \A i \in 1 .. l : (first \o second)[i] = first[i]
        /\ \A i \in 1 .. r : (first \o second)[l + i] = second[i]
    BY <2>1, <2>2, Zenon
  <2> QED
    BY <2>3 DEF second
<1>7. Swapped(r, l) = first \o Fresh(r)
  BY DEF Swapped, first
<1>8. \A i \in 1 .. l : Swapped(r, l)[i] = issued + (r + i)
  BY <1>4, <1>6, <1>7, Zenon
<1>9. \A i \in 1 .. r : Swapped(r, l)[l + i] = issued + i
  BY <1>2, <1>6, <1>7, Zenon
<1>10. Swapped(r, l) \in Seq(Nat) /\ Len(Swapped(r, l)) = l + r
  BY <1>6, <1>7, Zenon
<1>11. l + r = r + l
  OBVIOUS
<1> QED
  BY <1>8, <1>9, <1>10, <1>11, Zenon

LEMMA SliceIsShort ==
    ASSUME Disciplined, NEW o \in Operations, NEW k \in SliceLens, o \in Many, o \in Overflowing
    PROVE  k <= Taken + 1
BY DEF Disciplined

LEMMA StartPushStep == ASSUME IInv, Disciplined, NEW o \in Operations, StartPush(o) PROVE IInv'
<1>1. o \in Single /\ tail - cachedHead <= Capacity /\ Begin(o, Fresh(1))
  BY DEF StartPush, Disciplined
<1>2. issued \in Nat
  BY BatchFacts
<1>3. Fresh(1) \in Seq(Nat) /\ Len(Fresh(1)) = 1 /\ \A i \in 1 .. 1 : Fresh(1)[i] = issued + i
  BY <1>2, FreshValues
<1> DEFINE values == Fresh(1)
<1> HIDE DEF values
<1>4. values \in Seq(Nat) /\ Len(values) = 1 /\ \A i \in 1 .. 1 : values[i] = issued + i
  BY <1>3 DEF values
<1>5. \A i \in 1 .. Len(values) : values[i] > issued /\ values[i] <= issued + Len(values)
  BY <1>2, <1>4
<1>6. \A i, j \in 1 .. Len(values) : values[i] = values[j] => i = j
  BY <1>4
<1>7. Len(values) >= 1 /\ Len(values) <= Taken + 1 /\ o \notin Unchecked
  BY <1>1, <1>4, HalfOfCapacity, Kinds
<1>8. Begin(o, values)
  BY <1>1 DEF values
<1> QED
  BY <1>1, <1>4, <1>5, <1>6, <1>7, <1>8, BeginStep

LEMMA FreshBegins ==
    ASSUME IInv, NEW o \in Operations, o \notin Single, NEW k \in Nat, k >= 1,
           o \in Overflowing => k <= Taken + 1,
           o \in Unchecked => tail + k <= head + Capacity,
           Begin(o, Fresh(k))
    PROVE  IInv'
<1>1. issued \in Nat
  BY BatchFacts
<1> DEFINE values == Fresh(k)
<1>2. values \in Seq(Nat) /\ Len(values) = k /\ \A i \in 1 .. k : values[i] = issued + i
  BY <1>1, FreshValues
<1>3. Begin(o, values)
  OBVIOUS
<1> HIDE DEF values
<1>4. \A i \in 1 .. Len(values) : values[i] > issued /\ values[i] <= issued + Len(values)
  BY <1>1, <1>2
<1>5. \A i, j \in 1 .. Len(values) : values[i] = values[j] => i = j
  BY <1>1, <1>2
<1>6. /\ Len(values) >= 1
      /\ o \in Overflowing => Len(values) <= Taken + 1
      /\ o \in Unchecked => tail + Len(values) <= head + Capacity
  BY <1>2
<1> QED
  BY <1>2, <1>3, <1>4, <1>5, <1>6, BeginStep

LEMMA StartPushManyStep ==
    ASSUME IInv, Disciplined, NEW o \in Operations, NEW k \in SliceLens, StartPushMany(o, k)
    PROVE  IInv'
<1>1. o \in Many /\ Begin(o, Fresh(k)) /\ k \in Nat /\ k >= 1
  BY LensAssumption DEF StartPushMany
<1>2. o \notin Single /\ o \notin Unchecked
  BY <1>1, Kinds
<1> QED
  BY <1>1, <1>2, SliceIsShort, FreshBegins

LEMMA StartPushManyUncheckedStep ==
    ASSUME IInv, Disciplined, "pushManyUnchecked" \in Operations, NEW k \in SliceLens,
           StartPushManyUnchecked(k)
    PROVE  IInv'
<1>1. k \in Nat /\ k >= 1 /\ Begin("pushManyUnchecked", Fresh(k))
  BY LensAssumption DEF StartPushManyUnchecked
<1>2. tail + k <= head + Capacity
  <2>1. tail + k <= cachedHead + Capacity
    BY DEF StartPushManyUnchecked, KnownHead, Disciplined
  <2> QED
    BY <1>1, <2>1, OwnerFacts
<1>3. "pushManyUnchecked" \notin Single /\ "pushManyUnchecked" \notin Overflowing
  BY DEF Single, Overflowing, Many
<1> QED
  BY <1>1, <1>2, <1>3, FreshBegins

LEMMA StartCopyAndCommitIfStep ==
    ASSUME IInv, Disciplined, "copyAndCommitIf" \in Operations,
           NEW k \in SliceLens, NEW l \in 0 .. k - 1, StartCopyAndCommitIf(k - l, l)
    PROVE  IInv'
<1> DEFINE r == k - l
           values == Swapped(r, l)
<1>1. k \in Nat /\ l \in Nat /\ r \in Nat /\ r >= 1 /\ r + l >= 1
  BY LensAssumption
<1>2. cachedHead = tail /\ r + l <= Capacity /\ Begin("copyAndCommitIf", values)
  BY DEF StartCopyAndCommitIf, KnownHead, Disciplined, Swapped
<1>3. issued \in Nat
  BY BatchFacts
<1> HIDE DEF r
<1>4. /\ values \in Seq(Nat) /\ Len(values) = r + l
      /\ \A i \in 1 .. l : values[i] = issued + (r + i)
      /\ \A i \in 1 .. r : values[l + i] = issued + i
  BY <1>1, <1>3, SwappedSlices
<1> HIDE DEF values
<1>0. ASSUME NEW i \in 1 .. r + l
      PROVE  values[i] = issued + (IF i <= l THEN r + i ELSE i - l)
  <2>1. CASE i <= l
    BY <1>1, <1>4, <2>1
  <2>2. CASE ~(i <= l)
    <3>1. i - l \in 1 .. r /\ l + (i - l) = i
      BY <1>1, <2>2
    <3>2. values[l + (i - l)] = issued + (i - l)
      BY <1>4, <3>1
    <3> QED
      BY <2>2, <3>1, <3>2
  <2> QED
    BY <2>1, <2>2
<1>5. \A i \in 1 .. Len(values) : values[i] > issued /\ values[i] <= issued + Len(values)
  <2> SUFFICES ASSUME NEW i \in 1 .. r + l
               PROVE  values[i] > issued /\ values[i] <= issued + (r + l)
    BY <1>4
  <2>1. CASE i <= l
    BY <1>0, <1>1, <1>3, <2>1
  <2>2. CASE ~(i <= l)
    BY <1>0, <1>1, <1>3, <2>2
  <2> QED
    BY <2>1, <2>2
<1>6. \A i, j \in 1 .. Len(values) : values[i] = values[j] => i = j
  <2> SUFFICES ASSUME NEW i \in 1 .. r + l, NEW j \in 1 .. r + l, values[i] = values[j]
               PROVE  i = j
    BY <1>4
  <2>1. (IF i <= l THEN r + i ELSE i - l) = (IF j <= l THEN r + j ELSE j - l)
    <3>1. /\ (IF i <= l THEN r + i ELSE i - l) \in Int
          /\ (IF j <= l THEN r + j ELSE j - l) \in Int
      BY <1>1
    <3> QED
      BY <1>0, <1>3, <3>1
  <2> QED
    BY <1>1, <2>1
<1>7. tail + Len(values) <= head + Capacity
  <2>1. tail \in Nat /\ head \in Nat /\ head = tail
    BY <1>2, OwnerFacts
  <2> QED
    BY <1>1, <1>2, <1>4, <2>1
<1>8. "copyAndCommitIf" \notin Single /\ "copyAndCommitIf" \notin Overflowing
  BY DEF Single, Overflowing, Many
<1>9. Len(values) >= 1
  BY <1>1, <1>4
<1> QED
  BY <1>2, <1>4, <1>5, <1>6, <1>7, <1>8, <1>9, BeginStep

LEMMA RefreshHeadStep == ASSUME IInv, RefreshHead PROVE IInv'
<1> DEFINE full == IF op \in Single THEN head = cachedHead ELSE tail - head + Len(batch) > Capacity
<1>1. /\ UNCHANGED <<tail, head, buffer, op, batch, written, issued, log, delivered, received,
                     copied, want, n>>
      /\ pc[owner] = "refresh" /\ cachedHead' = head /\ from' = [from EXCEPT ![owner] = head]
      /\ \/ ~full /\ Goto(owner, "write")
         \/ full /\ op \in Maybe /\ Goto(owner, "err")
         \/ full /\ op \notin Maybe /\ Goto(owner, "overflow")
  BY DEF RefreshHead, ring, pushing, popping
<1>2. /\ ThreadsTyped /\ owner \in Threads /\ tail \in Nat /\ head \in Nat /\ cachedHead \in Nat
      /\ cachedHead <= head /\ head <= tail /\ tail <= head + Capacity
      /\ want[owner] \in Nat /\ n[owner] \in Nat /\ OwnerLabels = Labels(owner)
  BY OwnerFacts
<1>3. Len(batch) \in Nat
  BY BatchFacts
<1>4. /\ op \in Operations \union {"none"} /\ op \in Single \union Many
      /\ op \in Single => Len(batch) = 1 /\ tail = cachedHead + Capacity
      /\ op \in Overflowing => Len(batch) <= Taken + 1
      /\ written = 0 /\ Len(batch) >= 1
  BY <1>1, OwnerFacts DEF OwnerInv
<1>0. /\ op \in Single => (full <=> head = cachedHead)
      /\ op \notin Single => (full <=> tail - head + Len(batch) > Capacity)
  OBVIOUS
<1> HIDE DEF full
<1>5. ~full => tail + Len(batch) <= head + Capacity
  <2>1. CASE op \in Single
    <3>1. Len(batch) = 1 /\ tail = cachedHead + Capacity /\ (~full => head # cachedHead)
      BY <1>0, <1>4, <2>1
    <3> QED
      BY <1>2, <3>1
  <2>2. CASE op \notin Single
    BY <1>0, <1>2, <1>3, <2>2
  <2> QED
    BY <2>1, <2>2
<1>6. full => tail + Len(batch) > head + Capacity
  <2>1. CASE op \in Single
    BY <1>0, <1>2, <1>4, <2>1
  <2>2. CASE op \notin Single
    BY <1>0, <1>2, <1>3, <2>2
  <2> QED
    BY <2>1, <2>2
<1>7. PICK label \in {"write", "err", "overflow"} :
        /\ Goto(owner, label)
        /\ label = "write" => ~full
        /\ label = "overflow" => full /\ op \notin Maybe
  BY <1>1
<1>8. Goes(owner, label, head, want[owner], n[owner])
  BY <1>1, <1>2, <1>7, Unmoved DEF Goes, Goto
<1>9. label \in OwnerLabels /\ label \notin Claiming /\ label # "ok"
  BY DEF OwnerLabels, Claiming
<1>10. pc'[owner] = label /\ from'[owner] = head
  BY <1>2, <1>8, <1>9, GoesTo
<1>11. OwnerInv'
  <2>1. label = "overflow" => op \in Overflowing
    BY <1>4, <1>7, Kinds
  <2>2. \A i \in 1 .. 0 : buffer'[Slot(tail' + i - 1)] = batch'[i]
    OBVIOUS
  <2>3. written < Len(batch)
    BY <1>4
  <2> QED
    BY <1>1, <1>2, <1>4, <1>5, <1>6, <1>7, <1>10, <2>1, <2>2, <2>3 DEF OwnerInv
<1>12. pc[owner] # "ok" /\ cachedHead' \in Nat /\ cachedHead' <= head
  BY <1>1, <1>2
<1> QED
  BY <1>1, <1>2, <1>8, <1>9, <1>11, <1>12, OwnerAlone

LEMMA WriteNextStep == ASSUME IInv, WriteNext PROVE IInv'
<1> DEFINE label == IF written + 1 = Len(batch) THEN "publish" ELSE "write"
<1>1. /\ UNCHANGED <<tail, head, cachedHead, from, want, n, copied, op, batch, issued, log,
                     delivered, received>>
      /\ pc[owner] = "write" /\ written' = written + 1 /\ Goto(owner, label)
      /\ buffer' = [buffer EXCEPT ![Slot(tail + written)] = batch[written + 1]]
  BY DEF WriteNext, popping
<1>2. /\ ThreadsTyped /\ owner \in Threads /\ tail \in Nat /\ head \in Nat
      /\ cachedHead <= head /\ head <= tail /\ tail <= head + Capacity
      /\ from[owner] \in Nat /\ want[owner] \in Nat /\ n[owner] \in Nat
      /\ OwnerLabels = Labels(owner)
  BY OwnerFacts
<1>3. /\ RingTyped /\ PushTyped /\ HistoryTyped /\ RingInv
      /\ batch \in Seq(Nat) /\ Len(batch) \in Nat /\ written \in Nat /\ issued \in Nat
  BY Invariants, BatchFacts
<1>4. /\ op \in Operations \union {"none"}
      /\ op \in Single => Len(batch) = 1
      /\ op \in Overflowing => Len(batch) <= Taken + 1
      /\ written < Len(batch) /\ tail + Len(batch) <= head + Capacity /\ Len(batch) >= 1
      /\ \A i \in 1 .. written : buffer[Slot(tail + i - 1)] = batch[i]
  BY <1>1, OwnerFacts DEF OwnerInv
<1>5. DOMAIN buffer = 0 .. Capacity - 1
  BY <1>3 DEF RingTyped
<1>6. ASSUME NEW t \in head .. tail + written - 1
      PROVE  buffer'[Slot(t)] = buffer[Slot(t)]
  <2>1. t \in Nat /\ tail + written \in Nat
    BY <1>2, <1>3
  <2> DEFINE k == Len(batch)
  <2>2. k \in Nat /\ written < k /\ tail + k <= head + Capacity
    BY <1>3, <1>4
  <2>3. tail \in Nat /\ head \in Nat /\ head <= tail /\ written \in Nat
    BY <1>2, <1>3
  <2>4. head <= t /\ t < tail + written
    BY <2>1, <2>3
  <2> HIDE DEF k
  <2>5. t # tail + written /\ t < tail + written + Capacity /\ tail + written < t + Capacity
    BY <2>1, <2>2, <2>3, <2>4
  <2> QED
    BY <1>1, <1>5, <2>1, <2>5, WriteElsewhere
<1>7. buffer'[Slot(tail + written)] = batch[written + 1]
  <2>1. tail + written \in Nat
    BY <1>2, <1>3
  <2>2. Slot(tail + written) \in 0 .. Capacity - 1
    BY <2>1, SlotInRing
  <2> QED
    BY <1>1, <1>5, <2>2
<1>8. RingTyped'
  <2>1. written + 1 \in 1 .. Len(batch)
    BY <1>3, <1>4
  <2>2. batch[written + 1] \in Nat
    BY <1>3, <2>1
  <2> QED
    BY <1>1, <1>3, <2>2 DEF RingTyped
<1>9. PushTyped' /\ HistoryTyped'
  <2>1. written' \in 0 .. Len(batch)
    BY <1>1, <1>3, <1>4
  <2> QED
    BY <1>1, <1>3, <2>1 DEF PushTyped, HistoryTyped
<1>10. RingInv'
  <2>1. ASSUME NEW t \in head .. tail - 1 PROVE buffer'[Slot(t)] = log[t + 1]
    <3>1. t \in head .. tail + written - 1
      BY <1>2, <1>3
    <3>2. buffer[Slot(t)] = log[t + 1]
      BY <1>3 DEF RingInv, InPlace
    <3> QED
      BY <1>6, <3>1, <3>2
  <2>2. InPlace(head, tail)'
    BY <1>1, <2>1 DEF InPlace
  <2> QED
    BY <1>1, <1>3, <2>2 DEF RingInv, RingNotOverrun
<1>11. label \in OwnerLabels /\ label \in {"publish", "write"}
  BY DEF OwnerLabels
<1>12. (label = "publish" <=> written + 1 = Len(batch)) /\ (label = "write" <=> written + 1 # Len(batch))
  OBVIOUS
<1> HIDE DEF label
<1>13. Goes(owner, label, from[owner], want[owner], n[owner])
  BY <1>1, <1>2, Unmoved DEF Goes, Goto
<1>14. /\ pc'[owner] = label
       /\ \A s \in Threads : s # owner => pc'[s] = pc[s] /\ from'[s] = from[s] /\ n'[s] = n[s]
  BY <1>2, <1>11, <1>13, GoesTo
<1>15. OwnerInv'
  <2>1. ASSUME NEW i \in 1 .. written + 1 PROVE buffer'[Slot(tail + i - 1)] = batch[i]
    <3>1. CASE i <= written
      <4>1. i \in 1 .. written /\ tail + i - 1 \in head .. tail + written - 1
        BY <1>2, <1>3, <3>1
      <4> QED
        BY <1>4, <1>6, <4>1
    <3>2. CASE i = written + 1
      <4>1. tail + i - 1 = tail + written
        BY <1>2, <1>3, <3>2
      <4> QED
        BY <1>7, <3>2, <4>1
    <3> QED
      BY <1>3, <3>1, <3>2
  <2>2. label = "write" => written + 1 < Len(batch)
    BY <1>3, <1>4, <1>12
  <2> QED
    BY <1>1, <1>4, <1>11, <1>12, <1>14, <2>1, <2>2 DEF OwnerInv
<1>16. HistoryInv => HistoryInv'
  <2>1. pc'[owner] \notin Claiming
    BY <1>11, <1>14 DEF Claiming
  <2> QED
    BY <1>1, <1>2, <1>14, <2>1, HistoryStays
<1>17. AnswerInv => AnswerInv'
  <2>1. pc[owner] # "ok" /\ pc'[owner] # "ok"
    BY <1>1, <1>11, <1>14
  <2> QED
    BY <1>1, <2>1, AnswerStays
<1>18. head' \in Nat /\ head <= head' /\ tail' \in Nat /\ tail <= tail'
  BY <1>1, <1>2
<1>19. \A i \in 1 .. tail : log'[i] = log[i]
  BY <1>1
<1> QED
  BY <1>1, <1>2, <1>8, <1>9, <1>10, <1>11, <1>13, <1>15, <1>16, <1>17, <1>18, <1>19, OwnerMoves

(* A batch that is appended to a sequence of older values                    *)
LEMMA Appended ==
    ASSUME NEW past \in Seq(Nat), batch \in Seq(Nat), Older(past)
    PROVE  EndsWithBatch(past \o batch)
<1> DEFINE a == Len(past)
           b == Len(batch)
           seq == past \o batch
<1>1. a \in Nat /\ b \in Nat
  OBVIOUS
<1>2. /\ Len(seq) = a + b
      /\ \A i \in 1 .. a : seq[i] = past[i]
      /\ \A i \in 1 .. b : seq[a + i] = batch[i]
  BY Concatenated, Zenon
<1>3. \A i \in 1 .. a : past[i] <= issued - b
  BY DEF Older
<1> SUFFICES EndsWithBatch(seq)
  OBVIOUS
<1> HIDE DEF a, seq
<1>4. Len(seq) - b = a /\ b <= Len(seq)
  <2> HIDE DEF b
  <2> QED
    BY <1>1, <1>2
<1>5. \A i \in 1 .. Len(seq) - b : seq[i] <= issued - b
  BY <1>2, <1>3, <1>4, Zenon
<1>6. \A i \in 1 .. b : seq[Len(seq) - b + i] = batch[i]
  BY <1>2, <1>4, Zenon
<1> QED
  BY <1>4, <1>5, <1>6, Zenon DEF EndsWithBatch

LEMMA StoreTailStep == ASSUME IInv, StoreTail PROVE IInv'
<1>1. /\ UNCHANGED <<head, buffer, cachedHead, from, want, n, copied, op, batch, written, issued,
                     delivered, received>>
      /\ pc[owner] = "publish" /\ tail' = tail + Len(batch) /\ log' = log \o batch
      /\ Goto(owner, "ok")
  BY DEF StoreTail, pushing, popping
<1>2. /\ ThreadsTyped /\ owner \in Threads /\ tail \in Nat /\ head \in Nat /\ cachedHead \in Nat
      /\ cachedHead <= head /\ head <= tail
      /\ from[owner] \in Nat /\ want[owner] \in Nat /\ n[owner] \in Nat
      /\ "ok" \in OwnerLabels /\ "ok" \in Labels(owner)
  BY OwnerFacts DEF OwnerLabels
<1>3. /\ RingTyped /\ PushTyped /\ HistoryTyped /\ RingInv /\ log \in Seq(Nat) /\ Len(log) = tail
      /\ batch \in Seq(Nat) /\ Len(batch) \in Nat
  BY Invariants, BatchFacts, Counters DEF HistoryTyped
<1>4. /\ op \in Operations \union {"none"}
      /\ op \in Single => Len(batch) = 1
      /\ op \in Overflowing => Len(batch) <= Taken + 1
      /\ written = Len(batch) /\ tail + Len(batch) <= head + Capacity
      /\ \A i \in 1 .. written : buffer[Slot(tail + i - 1)] = batch[i]
  BY <1>1, OwnerFacts DEF OwnerInv
<1>5. /\ log' \in Seq(Nat) /\ Len(log') = tail + Len(batch)
      /\ \A i \in 1 .. tail : log'[i] = log[i]
      /\ \A i \in 1 .. Len(batch) : log'[tail + i] = batch[i]
  <2>1. /\ log \o batch \in Seq(Nat) /\ Len(log \o batch) = Len(log) + Len(batch)
        /\ \A i \in 1 .. Len(log) : (log \o batch)[i] = log[i]
        /\ \A i \in 1 .. Len(batch) : (log \o batch)[Len(log) + i] = batch[i]
    BY <1>3, Concatenated, Zenon
  <2> QED
    BY <1>1, <1>3, <2>1, Zenon
<1>6. RingTyped' /\ PushTyped' /\ HistoryTyped'
  <2>1. tail' \in Nat
    BY <1>1, <1>2, <1>3
  <2> QED
    BY <1>1, <1>3, <1>5, <2>1 DEF RingTyped, PushTyped, HistoryTyped
<1>7. RingInv'
  <2>1. ASSUME NEW t \in head .. tail + Len(batch) - 1 PROVE buffer[Slot(t)] = log'[t + 1]
    <3>1. CASE t < tail
      <4>1. t \in head .. tail - 1 /\ t + 1 \in 1 .. tail
        BY <1>2, <3>1
      <4>2. buffer[Slot(t)] = log[t + 1]
        BY <1>3, <4>1 DEF RingInv, InPlace
      <4> QED
        BY <1>5, <4>1, <4>2
    <3>2. CASE t >= tail
      <4> DEFINE i == t - tail + 1
      <4>1. i \in 1 .. Len(batch) /\ tail + i = t + 1 /\ tail + i - 1 = t
        BY <1>2, <1>3, <3>2
      <4> HIDE DEF i
      <4>2. buffer[Slot(tail + i - 1)] = batch[i] /\ log'[tail + i] = batch[i]
        BY <1>4, <1>5, <4>1
      <4> QED
        BY <4>1, <4>2
    <3> QED
      BY <1>2, <3>1, <3>2
  <2>2. InPlace(head, tail)'
    <3>1. \A t \in head .. tail' - 1 : t \in head .. tail + Len(batch) - 1
      BY <1>1, <1>2, <1>3
    <3> QED
      BY <1>1, <2>1, <3>1 DEF InPlace
  <2>3. head <= tail + Len(batch)
    BY <1>2, <1>3
  <2>4. RingNotOverrun'
    BY <1>1, <1>2, <1>4, <2>3 DEF RingNotOverrun
  <2> QED
    BY <1>1, <1>5, <2>2, <2>4 DEF RingInv
<1>8. Goes(owner, "ok", from[owner], want[owner], n[owner])
  BY <1>1, <1>2, Unmoved DEF Goes, Goto
<1>9. /\ pc'[owner] = "ok"
      /\ \A s \in Threads : s # owner => pc'[s] = pc[s] /\ from'[s] = from[s] /\ n'[s] = n[s]
  BY <1>2, <1>8, GoesTo
<1>10. OwnerInv'
  BY <1>1, <1>4, <1>9 DEF OwnerInv
<1>11. HistoryInv => HistoryInv'
  <2>1. pc'[owner] \notin Claiming
    BY <1>9 DEF Claiming
  <2> QED
    BY <1>1, <1>2, <1>5, <1>9, <2>1, HistoryStays
<1>12. AnswerInv => AnswerInv'
  <2> SUFFICES ASSUME AnswerInv PROVE AnswerInv'
    OBVIOUS
  <2>1. Older(log) /\ Older(received)
    BY <1>1 DEF AnswerInv
  <2>2. EndsWithBatch(log)'
    <3>1. EndsWithBatch(log \o batch)
      BY <1>3, <2>1, Appended
    <3> QED
      BY <1>1, <3>1, Zenon DEF EndsWithBatch
  <2>3. Older(received)'
    BY <1>1, <2>1 DEF Older
  <2> QED
    BY <1>1, <1>9, <2>2, <2>3 DEF AnswerInv
<1>13. head' \in Nat /\ head <= head' /\ tail' \in Nat /\ tail <= tail'
  BY <1>1, <1>2, <1>3
<1> QED
  BY <1>1, <1>2, <1>5, <1>6, <1>7, <1>8, <1>10, <1>11, <1>12, <1>13, OwnerMoves

(* The owner gives up, or goes on with what it was about to push.            *)
LEMMA PushGoesOn ==
    ASSUME IInv, NEW label \in {"write", "overflow", "err", "ok"},
           NEW h \in Nat, pc[owner] \in {"publish", "overflow"},
           from' = [from EXCEPT ![owner] = h], Goto(owner, label),
           UNCHANGED <<ring, cachedHead, popping, copied, pushing, log, delivered, received>>,
           label = "write" => pc[owner] = "overflow" /\ tail + Len(batch) <= head + Capacity,
           label = "overflow" => /\ pc[owner] = "overflow" /\ h = head
                                 /\ tail + Len(batch) > head + Capacity,
           label = "ok" => "lockFreePushMany" \in Operations
    PROVE  IInv'
<1>1. UNCHANGED <<tail, head, buffer, cachedHead, want, n, copied, op, batch, written, issued, log,
                  delivered, received>>
  BY DEF ring, pushing, popping
<1>2. /\ ThreadsTyped /\ owner \in Threads /\ tail \in Nat /\ head \in Nat /\ cachedHead \in Nat
      /\ cachedHead <= head /\ tail <= head + Capacity
      /\ want[owner] \in Nat /\ n[owner] \in Nat /\ OwnerLabels = Labels(owner)
  BY OwnerFacts
<1>3. /\ op \in Operations \union {"none"}
      /\ op \in Single => Len(batch) = 1
      /\ op \in Overflowing => Len(batch) <= Taken + 1
      /\ pc[owner] = "overflow" => written = 0 /\ Len(batch) >= 1 /\ op \in Overflowing
  BY OwnerFacts DEF OwnerInv
<1>4. Goes(owner, label, h, want[owner], n[owner])
  BY <1>1, <1>2, Unmoved DEF Goes, Goto
<1>5. label \in OwnerLabels /\ label \notin Claiming
  BY DEF OwnerLabels, Claiming
<1>6. pc'[owner] = label /\ from'[owner] = h
  BY <1>2, <1>4, <1>5, GoesTo
<1>7. OwnerInv'
  <2>1. \A i \in 1 .. 0 : buffer'[Slot(tail' + i - 1)] = batch'[i]
    OBVIOUS
  <2>2. Len(batch) >= 1 => 0 < Len(batch)
    BY BatchFacts
  <2> QED
    BY <1>1, <1>2, <1>3, <1>6, <2>1, <2>2 DEF OwnerInv
<1>8. pc[owner] # "ok" /\ cachedHead' \in Nat /\ cachedHead' <= head
  BY <1>1, <1>2
<1> QED
  BY <1>1, <1>2, <1>4, <1>5, <1>7, <1>8, OwnerAlone

LEMMA FitsIsSpace ==
    ASSUME IInv
    PROVE  Fits(head) <=> tail + Len(batch) <= head + Capacity
<1>1. tail \in Nat /\ head \in Nat /\ Len(batch) \in Nat
  BY OwnerFacts, BatchFacts
<1> QED
  BY <1>1 DEF Fits

LEMMA MissStep ==
    ASSUME IInv, DoNotCommit \/ MissHalf \/ ReceiverIsLocked \/ MissHalfOnce
    PROVE  IInv'
<1>1. /\ ThreadsTyped /\ owner \in Threads /\ head \in Nat /\ tail \in Nat /\ from[owner] \in Nat
      /\ from = [from EXCEPT ![owner] = from[owner]] /\ Len(batch) \in Nat
  BY OwnerFacts, Unmoved, BatchFacts
<1>2. tail + Len(batch) > head + Capacity \/ Fits(head)
  BY <1>1, FitsIsSpace
<1>3. CASE DoNotCommit
  BY <1>1, <1>3, PushGoesOn DEF DoNotCommit
<1>4. CASE ReceiverIsLocked
  BY <1>1, <1>4, PushGoesOn DEF ReceiverIsLocked
<1>5. CASE MissHalf
  <2>1. CASE Fits(head)
    BY <1>1, <1>5, <2>1, FitsIsSpace, PushGoesOn DEF MissHalf
  <2>2. CASE ~Fits(head)
    BY <1>1, <1>2, <1>5, <2>2, PushGoesOn DEF MissHalf
  <2> QED
    BY <2>1, <2>2
<1>6. CASE MissHalfOnce
  <2>1. /\ pc[owner] = "overflow" /\ op \in LockFree /\ head # from[owner]
        /\ from' = [from EXCEPT ![owner] = from[owner]]
        /\ UNCHANGED <<ring, cachedHead, popping, copied, pushing, log, delivered, received>>
    BY <1>1, <1>6 DEF MissHalfOnce
  <2>2. /\ from[owner] <= head /\ tail <= from[owner] + Capacity
        /\ op \in Single => Len(batch) = 1
        /\ op \in Operations \union {"none"}
    BY <2>1, OwnerFacts DEF OwnerInv
  <2>3. CASE op \in Single \/ Fits(head)
    <3>1. Goto(owner, "write")
      BY <1>6, <2>3 DEF MissHalfOnce
    <3>2. op \in Single => tail + Len(batch) <= head + Capacity
      <4>1. tail + 1 <= head + Capacity
        BY <1>1, <2>1, <2>2
      <4> QED
        BY <2>2, <4>1
    <3>3. tail + Len(batch) <= head + Capacity
      BY <2>3, <3>2, FitsIsSpace
    <3> QED
      BY <1>1, <2>1, <3>1, <3>3, PushGoesOn
  <2>4. CASE ~(op \in Single \/ Fits(head))
    <3>1. Goto(owner, "ok")
      BY <1>6, <2>4 DEF MissHalfOnce
    <3>2. op = "lockFreePushMany"
      BY <2>1, <2>4, Kinds
    <3>3. "lockFreePushMany" \in Operations
      BY <2>2, <3>2, Kinds
    <3> QED
      BY <1>1, <2>1, <3>1, <3>3, PushGoesOn
  <2> QED
    BY <2>3, <2>4
<1> QED
  BY <1>3, <1>4, <1>5, <1>6

LEMMA TakeHalfStep == ASSUME IInv, TakeHalf PROVE IInv'
<1>1. /\ UNCHANGED <<tail, buffer, cachedHead, from, want, n, copied, op, batch, written, issued,
                     log, delivered, received>>
      /\ pc[owner] = "overflow" /\ head = from[owner] /\ head' = head + Taken /\ Goto(owner, "move")
  BY DEF TakeHalf, pushing, popping
<1>2. /\ ThreadsTyped /\ owner \in Threads /\ tail \in Nat /\ head \in Nat /\ cachedHead \in Nat
      /\ cachedHead <= head /\ head <= tail /\ tail <= head + Capacity
      /\ from[owner] \in Nat /\ want[owner] \in Nat /\ n[owner] \in Nat
      /\ "move" \in OwnerLabels /\ "move" \in Labels(owner)
  BY OwnerFacts DEF OwnerLabels
<1>3. /\ RingTyped /\ PushTyped /\ HistoryTyped /\ RingInv /\ Len(batch) \in Nat
  BY Invariants, BatchFacts
<1>4. /\ op \in Operations \union {"none"}
      /\ op \in Single => Len(batch) = 1
      /\ op \in Overflowing => Len(batch) <= Taken + 1
      /\ op \in Overflowing /\ tail + Len(batch) > head + Capacity
  BY <1>1, OwnerFacts DEF OwnerInv
<1>5. /\ Taken \in Nat /\ Moved(head) \in Nat
      /\ Taken <= Moved(head) /\ Moved(head) <= Capacity - Taken
  BY <1>2, LensOfHalf, HalfOfCapacity
<1>6. head + Moved(head) <= tail /\ head + Taken <= tail
  <2>1. Len(batch) <= Taken + 1
    BY <1>4
  <2>2. head + Capacity <= tail + Taken
    BY <1>2, <1>3, <1>4, <1>5, <2>1
  <2> QED
    BY <1>2, <1>5, <2>2
<1>7. head' \in Nat /\ head <= head' /\ tail' \in Nat /\ tail <= tail' /\ tail' = tail
  BY <1>1, <1>2, <1>5
<1>8. RingTyped' /\ PushTyped' /\ HistoryTyped'
  BY <1>1, <1>3, <1>7 DEF RingTyped, PushTyped, HistoryTyped
<1>9. InPlace(head, tail)
  BY <1>3 DEF RingInv
<1>10. RingInv'
  <2>1. \A t \in head + Taken .. tail - 1 : t \in head .. tail - 1
    BY <1>2, <1>5
  <2>2. InPlace(head, tail)'
    BY <1>1, <1>9, <2>1 DEF InPlace
  <2>3. cachedHead <= head + Taken /\ head + Taken <= tail /\ tail <= head + Taken + Capacity
    BY <1>2, <1>5, <1>6
  <2>4. RingNotOverrun'
    BY <1>1, <2>3 DEF RingNotOverrun
  <2> QED
    BY <1>1, <1>3, <2>2, <2>4 DEF RingInv
<1>11. Goes(owner, "move", from[owner], want[owner], n[owner])
  BY <1>1, <1>2, Unmoved DEF Goes, Goto
<1>12. /\ pc'[owner] = "move" /\ from'[owner] = head /\ n'[owner] = n[owner]
       /\ \A s \in Threads : s # owner => pc'[s] = pc[s] /\ from'[s] = from[s] /\ n'[s] = n[s]
  BY <1>1, <1>2, <1>11, GoesTo
<1>13. OwnerInv'
  <2>1. \A t \in head .. head + Moved(head) - 1 : t \in head .. tail - 1
    BY <1>2, <1>5, <1>6
  <2>2. \A t \in head .. head + Moved(head) - 1 : buffer'[Slot(t)] = log'[t + 1]
    BY <1>1, <1>9, <2>1 DEF InPlace
  <2>3. from'[owner] + Taken <= head'
    <3>1. head + Taken <= head'
      BY <1>1, <1>2, <1>5
    <3> QED
      BY <1>12, <3>1
  <2>4. /\ from'[owner] + Moved(from'[owner]) <= tail'
        /\ InPlace(from[owner], from[owner] + Moved(from[owner]))'
    <3>1. Moved(from'[owner]) = Moved(head)
      BY <1>12
    <3>2. InPlace(from[owner], from[owner] + Moved(from[owner]))'
      <4>1. (head + Moved(head)) - 1 = head + Moved(head) - 1
        BY <1>2, <1>5
      <4> QED
        BY <1>12, <2>2, <3>1, <4>1 DEF InPlace
    <3> QED
      BY <1>1, <1>6, <1>12, <3>1, <3>2
  <2> QED
    BY <1>1, <1>4, <1>12, <2>3, <2>4 DEF OwnerInv
<1>14. HistoryInv => HistoryInv'
  <2>1. Claims(owner)' = head .. head + Taken - 1
    BY <1>12, ClaimedTickets DEF Claims
  <2> QED
    BY <1>1, <1>2, <1>5, <1>12, <2>1, HistoryClaims
<1>15. AnswerInv => AnswerInv'
  <2>1. pc[owner] # "ok" /\ pc'[owner] # "ok"
    BY <1>1, <1>12
  <2> QED
    BY <1>1, <2>1, AnswerStays
<1>16. \A i \in 1 .. tail : log'[i] = log[i]
  BY <1>1
<1> QED
  BY <1>1, <1>2, <1>7, <1>8, <1>10, <1>11, <1>13, <1>14, <1>15, <1>16, OwnerMoves

(* Each value that an overflow moves was pushed before.                      *)
LEMMA MovedValues ==
    ASSUME IInv, pc[owner] = "move", NEW h, h = from[owner]
    PROVE  /\ Left(h) \in Seq(Nat) /\ Right(h) \in Seq(Nat)
           /\ \A i \in 1 .. Len(Left(h)) : \E j \in 1 .. Len(log) : Left(h)[i] = log[j]
           /\ \A i \in 1 .. Len(Right(h)) : \E j \in 1 .. Len(log) : Right(h)[i] = log[j]
<1>1. /\ h \in Nat /\ tail \in Nat /\ Len(log) = tail /\ log \in Seq(Nat)
      /\ h + Moved(h) <= tail /\ InPlace(h, h + Moved(h))
  <2>1. h \in Nat /\ tail \in Nat /\ Len(log) = tail /\ log \in Seq(Nat)
    BY OwnerFacts, Counters, Invariants DEF HistoryTyped
  <2>2. OwnerInv
    BY OwnerFacts
  <2> QED
    BY <2>1, <2>2 DEF OwnerInv
<1>2. RightLen(h) \in Nat /\ LeftLen(h) \in Nat /\ Moved(h) = RightLen(h) + LeftLen(h)
  BY <1>1, LensOfHalf
<1>3. ASSUME NEW k \in 0 .. Moved(h) - 1
      PROVE  \E j \in 1 .. Len(log) : buffer[Slot(h + k)] = log[j]
  <2> DEFINE t == h + k
             past == h + Moved(h)
  <2>1. Moved(h) \in Nat /\ past \in Nat /\ past <= tail
    <3>1. Moved(h) \in Nat
      BY <1>2
    <3>2. h \in Nat /\ h + Moved(h) <= tail
      BY <1>1
    <3> QED
      BY <3>1, <3>2
  <2>0. h \in Nat /\ tail \in Nat /\ k \in Nat /\ k < Moved(h)
    BY <1>1, <2>1
  <2>2. t \in h .. past - 1 /\ t + 1 \in 1 .. tail
    BY <2>0, <2>1
  <2> HIDE DEF t, past
  <2>3. InPlace(h, past)
    BY <1>1 DEF past
  <2>4. buffer[Slot(t)] = log[t + 1]
    BY <2>2, <2>3, Zenon DEF InPlace
  <2>5. t + 1 \in 1 .. Len(log)
    BY <1>1, <2>2
  <2> QED
    BY <2>4, <2>5 DEF t
<1>4. \A j \in 1 .. Len(log) : log[j] \in Nat
  BY <1>1
<1>5. ASSUME NEW i \in 1 .. RightLen(h)
      PROVE  \E j \in 1 .. Len(log) : Right(h)[i] = log[j]
  <2>1. i - 1 \in 0 .. Moved(h) - 1
    BY <1>2
  <2>2. Right(h)[i] = buffer[Slot(h + (i - 1))]
    BY <1>1, SlicesAreTickets
  <2> QED
    BY <1>3, <2>1, <2>2
<1>6. ASSUME NEW i \in 1 .. LeftLen(h)
      PROVE  \E j \in 1 .. Len(log) : Left(h)[i] = log[j]
  <2>1. RightLen(h) + i - 1 \in 0 .. Moved(h) - 1
    BY <1>2
  <2>2. Left(h)[i] = buffer[Slot(h + (RightLen(h) + i - 1))]
    BY <1>1, SlicesAreTickets
  <2> QED
    BY <1>3, <2>1, <2>2
<1>7. Right(h) \in [1 .. RightLen(h) -> Nat] /\ Left(h) \in [1 .. LeftLen(h) -> Nat]
  <2>1. \A i \in 1 .. RightLen(h) : Right(h)[i] \in Nat
    BY <1>4, <1>5
  <2>2. \A i \in 1 .. LeftLen(h) : Left(h)[i] \in Nat
    BY <1>4, <1>6
  <2>3. Right(h) = [i \in 1 .. RightLen(h) |-> Right(h)[i]]
    BY DEF Right
  <2>4. Left(h) = [i \in 1 .. LeftLen(h) |-> Left(h)[i]]
    BY DEF Left
  <2> QED
    BY <2>1, <2>2, <2>3, <2>4
<1>8. \A k \in Nat : \A f \in [1 .. k -> Nat] : f \in Seq(Nat) /\ Len(f) = k
  OBVIOUS
<1>9. /\ Right(h) \in Seq(Nat) /\ Len(Right(h)) = RightLen(h)
      /\ Left(h) \in Seq(Nat) /\ Len(Left(h)) = LeftLen(h)
  BY <1>2, <1>7, <1>8
<1> QED
  BY <1>5, <1>6, <1>9, Zenon

LEMMA OlderTogether ==
    ASSUME NEW a \in Seq(Nat), NEW b \in Seq(Nat), Older(a), Older(b)
    PROVE  Older(a \o b)
<1> DEFINE c == a \o b
<1>1. /\ Len(a) \in Nat /\ Len(b) \in Nat /\ Len(c) = Len(a) + Len(b)
      /\ \A i \in 1 .. Len(a) : c[i] = a[i]
      /\ \A i \in 1 .. Len(b) : c[Len(a) + i] = b[i]
  BY Concatenated, Zenon
<1> DEFINE k == Len(a)
           m == Len(b)
           old == issued - Len(batch)
<1>2. /\ k \in Nat /\ m \in Nat /\ Len(c) = k + m
      /\ \A i \in 1 .. k : c[i] = a[i] /\ a[i] <= old
      /\ \A i \in 1 .. m : c[k + i] = b[i] /\ b[i] <= old
  BY <1>1 DEF Older
<1> HIDE DEF c, k, m, old
<1>3. ASSUME NEW i \in 1 .. k + m PROVE c[i] <= old
  <2>1. CASE i <= k
    <3>1. i \in 1 .. k
      BY <1>2, <2>1
    <3> QED
      BY <1>2, <3>1
  <2>2. CASE ~(i <= k)
    <3>1. i - k \in 1 .. m /\ k + (i - k) = i
      BY <1>2, <2>2
    <3>2. c[k + (i - k)] = b[i - k] /\ b[i - k] <= old
      BY <1>2, <3>1
    <3> QED
      BY <3>1, <3>2
  <2> QED
    BY <2>1, <2>2
<1>4. \A i \in 1 .. Len(c) : c[i] <= old
  BY <1>2, <1>3
<1> QED
  BY <1>4 DEF Older, c, old

LEMMA MoveHalfStep == ASSUME IInv, MoveHalf PROVE IInv'
<1> DEFINE h == from[owner]
           past == h + RightLen(h) + LeftLen(h) - 1
           f == [t \in h .. past |-> buffer[Slot(t)]]
           prior == received \o Left(h) \o Right(h)
<1>1. /\ UNCHANGED <<tail, head, buffer, cachedHead, from, want, n, copied, op, batch, written,
                     issued, log>>
      /\ pc[owner] = "move" /\ Goto(owner, "ok")
      /\ received' = prior \o batch /\ Delivers(f)
  BY DEF MoveHalf, ring, pushing, popping
<1>2. /\ ThreadsTyped /\ owner \in Threads /\ tail \in Nat /\ head \in Nat /\ cachedHead \in Nat
      /\ from[owner] \in Nat /\ want[owner] \in Nat /\ n[owner] \in Nat
      /\ "ok" \in OwnerLabels /\ "ok" \in Labels(owner)
  BY OwnerFacts DEF OwnerLabels
<1>3. /\ RingTyped /\ PushTyped /\ HistoryTyped /\ RingInv /\ batch \in Seq(Nat)
      /\ received \in Seq(Nat) /\ DOMAIN delivered \subseteq Nat
  BY Invariants, BatchFacts DEF HistoryTyped
<1>4. /\ op \in Operations \union {"none"}
      /\ op \in Single => Len(batch) = 1
      /\ op \in Overflowing => Len(batch) <= Taken + 1
      /\ h + Moved(h) <= tail /\ InPlace(h, h + Moved(h))
  BY <1>1, OwnerFacts DEF OwnerInv
<1>5. /\ RightLen(h) \in Nat /\ LeftLen(h) \in Nat /\ Moved(h) = RightLen(h) + LeftLen(h)
      /\ Taken \in Nat /\ Taken <= Moved(h) /\ Moved(h) <= Capacity - Taken
  BY <1>2, LensOfHalf, HalfOfCapacity
<1>6. /\ Left(h) \in Seq(Nat) /\ Right(h) \in Seq(Nat)
      /\ \A i \in 1 .. Len(Left(h)) : \E j \in 1 .. Len(log) : Left(h)[i] = log[j]
      /\ \A i \in 1 .. Len(Right(h)) : \E j \in 1 .. Len(log) : Right(h)[i] = log[j]
  BY <1>1, MovedValues
<1>7. /\ received \o Left(h) \in Seq(Nat) /\ prior \in Seq(Nat) /\ prior \o batch \in Seq(Nat)
  BY <1>3, <1>6, Concatenated, Zenon
<1>8. past = h + Moved(h) - 1
  BY <1>2, <1>5
<1>9. /\ DOMAIN f = h .. past /\ DOMAIN f \subseteq Nat
      /\ \A t \in h .. past : f[t] = log[t + 1]
  <2>1. h .. past \subseteq Nat
    BY <1>2
  <2>2. \A t \in h .. past : buffer[Slot(t)] = log[t + 1]
    <3>1. h .. past = h .. (h + Moved(h)) - 1
      BY <1>2, <1>5, <1>8
    <3> QED
      BY <1>4, <3>1, Zenon DEF InPlace
  <2> HIDE DEF past
  <2> QED
    BY <2>1, <2>2
<1>10. /\ DOMAIN delivered' = DOMAIN delivered \union DOMAIN f
       /\ \A k \in DOMAIN f : delivered'[k] = f[k]
       /\ \A k \in DOMAIN delivered : k \notin DOMAIN f => delivered'[k] = delivered[k]
  <2> HIDE DEF f
  <2> QED
    BY <1>1 DEF Delivers
<1> HIDE DEF f, past, prior
<1>11. RingTyped' /\ PushTyped' /\ HistoryTyped'
  <2>1. received' \in Seq(Nat) /\ DOMAIN delivered' \subseteq Nat
    BY <1>1, <1>3, <1>7, <1>9, <1>10
  <2> QED
    BY <1>1, <1>3, <2>1 DEF RingTyped, PushTyped, HistoryTyped
<1>12. RingInv'
  BY <1>1, <1>3 DEF RingInv, RingNotOverrun, InPlace
<1>13. Goes(owner, "ok", from[owner], want[owner], n[owner])
  BY <1>1, <1>2, Unmoved DEF Goes, Goto
<1>14. /\ pc'[owner] = "ok"
       /\ \A s \in Threads : s # owner => pc'[s] = pc[s] /\ from'[s] = from[s] /\ n'[s] = n[s]
  BY <1>2, <1>13, GoesTo
<1>15. OwnerInv'
  BY <1>1, <1>4, <1>14 DEF OwnerInv
<1>16. HistoryInv /\ Capacity = 2 * Taken => HistoryInv'
  <2> SUFFICES ASSUME HistoryInv, Capacity = 2 * Taken PROVE HistoryInv'
    OBVIOUS
  <2>1. Moved(h) = Taken
    BY <1>5
  <2>2. Claims(owner) = h .. past
    BY <1>1, <1>8, <2>1, ClaimedTickets DEF Claims
  <2>3. pc'[owner] \notin Claiming
    BY <1>14 DEF Claiming
  <2>4. DOMAIN delivered' = DOMAIN delivered \union Claims(owner)
    BY <1>9, <1>10, <2>2
  <2>5. \A k \in Claims(owner) : delivered'[k] = log[k + 1]
    BY <1>9, <1>10, <2>2
  <2>6. \A k \in DOMAIN delivered : k \notin Claims(owner) => delivered'[k] = delivered[k]
    BY <1>9, <1>10, <2>2
  <2> QED
    BY <1>1, <1>2, <1>14, <2>3, <2>4, <2>5, <2>6, HistoryDelivers
<1>17. AnswerInv => AnswerInv'
  <2> SUFFICES ASSUME AnswerInv PROVE AnswerInv'
    OBVIOUS
  <2>1. Older(log) /\ Older(received)
    BY <1>1 DEF AnswerInv
  <2>2. Older(Left(h)) /\ Older(Right(h))
    BY <1>6, <2>1, Zenon DEF Older
  <2>3. Older(prior)
    <3>1. Older(received \o Left(h))
      BY <1>3, <1>6, <2>1, <2>2, OlderTogether
    <3> QED
      BY <1>6, <1>7, <2>2, <3>1, OlderTogether DEF prior
  <2>4. EndsWithBatch(received)'
    <3>1. EndsWithBatch(prior \o batch)
      BY <1>3, <1>7, <2>3, Appended
    <3> QED
      BY <1>1, <3>1, Zenon DEF EndsWithBatch
  <2>5. Older(log)'
    BY <1>1, <2>1 DEF Older
  <2> QED
    BY <1>1, <1>14, <2>4, <2>5 DEF AnswerInv
<1>18. head' \in Nat /\ head <= head' /\ tail' \in Nat /\ tail <= tail'
  BY <1>1, <1>2
<1>19. \A i \in 1 .. tail : log'[i] = log[i]
  BY <1>1
<1> QED
  BY <1>1, <1>2, <1>11, <1>12, <1>13, <1>15, <1>16, <1>17, <1>18, <1>19, OwnerMoves

(* Whatever a push answered, there is nothing but what the owner was handed. *)
LEMMA EndedIsIssued ==
    ASSUME AnswerInv, NEW seq \in Seq(Nat), EndsWithBatch(seq) \/ Older(seq),
           batch \in Seq(Nat), issued \in Nat
    PROVE  \A i \in 1 .. Len(seq) : seq[i] <= issued
<1> DEFINE b == Len(batch)
           k == Len(seq)
<1>1. b \in Nat /\ k \in Nat /\ \A i \in 1 .. k : seq[i] \in Nat
  OBVIOUS
<1>2. \A i \in 1 .. b : batch[i] <= issued
  BY DEF AnswerInv
<1>3. CASE Older(seq)
  <2>1. \A i \in 1 .. k : seq[i] <= issued - b
    BY <1>3 DEF Older
  <2> HIDE DEF b, k
  <2> SUFFICES \A i \in 1 .. k : seq[i] <= issued
    BY DEF k
  <2> QED
    BY <1>1, <2>1
<1>4. CASE EndsWithBatch(seq)
  <2>1. /\ b <= k
        /\ \A i \in 1 .. k - b : seq[i] <= issued - b
        /\ \A i \in 1 .. b : seq[k - b + i] = batch[i]
    BY <1>4 DEF EndsWithBatch
  <2> HIDE DEF b, k
  <2> SUFFICES ASSUME NEW i \in 1 .. k PROVE seq[i] <= issued
    BY DEF k
  <2>2. CASE i <= k - b
    <3>1. i \in 1 .. k - b
      BY <1>1, <2>2
    <3> QED
      BY <1>1, <2>1, <3>1
  <2>3. CASE ~(i <= k - b)
    <3>1. i - (k - b) \in 1 .. b /\ k - b + (i - (k - b)) = i
      BY <1>1, <2>1, <2>3
    <3>2. seq[k - b + (i - (k - b))] = batch[i - (k - b)]
      BY <2>1, <3>1
    <3> QED
      BY <1>2, <3>1, <3>2
  <2> QED
    BY <2>2, <2>3
<1> QED
  BY <1>3, <1>4

LEMMA PushReturnsStep == ASSUME IInv, PushReturns PROVE IInv'
<1>1. /\ UNCHANGED <<tail, head, buffer, cachedHead, want, n, copied, issued, log, delivered,
                     received>>
      /\ pc[owner] \in {"ok", "err"} /\ op' = "none" /\ batch' = <<>> /\ written' = 0
      /\ from' = [from EXCEPT ![owner] = 0] /\ Goto(owner, "idle")
  BY DEF PushReturns, ring, popping
<1>2. /\ ThreadsTyped /\ owner \in Threads /\ tail \in Nat /\ head \in Nat
      /\ want[owner] \in Nat /\ n[owner] \in Nat /\ 0 \in Nat
      /\ "idle" \in OwnerLabels /\ "idle" \in Labels(owner)
  BY OwnerFacts DEF OwnerLabels
<1>3. RingTyped /\ PushTyped /\ HistoryTyped /\ RingInv
  BY Invariants
<1>4. batch' \in Seq(Nat) /\ Len(batch') = 0 /\ written' \in 0 .. Len(batch')
  BY <1>1
<1>5. RingTyped' /\ PushTyped' /\ HistoryTyped'
  BY <1>1, <1>3, <1>4 DEF RingTyped, PushTyped, HistoryTyped
<1>6. RingInv'
  BY <1>1, <1>3 DEF RingInv, RingNotOverrun, InPlace
<1>7. Goes(owner, "idle", 0, want[owner], n[owner])
  BY <1>1, <1>2, Unmoved DEF Goes, Goto
<1>8. /\ pc'[owner] = "idle"
      /\ \A s \in Threads : s # owner => pc'[s] = pc[s] /\ from'[s] = from[s] /\ n'[s] = n[s]
  BY <1>2, <1>7, GoesTo
<1>9. OwnerInv'
  BY <1>1, <1>8, Kinds DEF OwnerInv
<1>10. HistoryInv => HistoryInv'
  <2>1. pc'[owner] \notin Claiming
    BY <1>8 DEF Claiming
  <2> QED
    BY <1>1, <1>2, <1>8, <2>1, HistoryStays
<1>11. AnswerInv => AnswerInv'
  <2> SUFFICES ASSUME AnswerInv PROVE AnswerInv'
    OBVIOUS
  <2>1. log \in Seq(Nat) /\ received \in Seq(Nat) /\ batch \in Seq(Nat) /\ issued \in Nat
    BY <1>3, BatchFacts DEF HistoryTyped
  <2>2. /\ \A i \in 1 .. Len(log) : log[i] <= issued
        /\ \A i \in 1 .. Len(received) : received[i] <= issued
    BY <2>1, EndedIsIssued DEF AnswerInv
  <2>3. issued' - Len(batch') = issued
    BY <1>1, <1>4, <2>1
  <2>4. Older(log)' /\ Older(received)'
    BY <1>1, <2>2, <2>3 DEF Older
  <2> QED
    BY <1>1, <1>4, <1>8, <2>4 DEF AnswerInv
<1>12. head' \in Nat /\ head <= head' /\ tail' \in Nat /\ tail <= tail'
  BY <1>1, <1>2
<1>13. \A i \in 1 .. tail : log'[i] = log[i]
  BY <1>1
<1> QED
  BY <1>1, <1>2, <1>5, <1>6, <1>7, <1>9, <1>10, <1>11, <1>12, <1>13, OwnerMoves

LEMMA ProducerLenStep == ASSUME IInv, ProducerLen PROVE IInv'
<1>1. /\ UNCHANGED <<tail, head, buffer, pc, from, want, n, copied, op, batch, written, issued,
                     log, delivered, received>>
      /\ pc[owner] = "idle" /\ cachedHead' = head
  BY DEF ProducerLen, ring, popping, pushing
<1>2. /\ ThreadsTyped /\ owner \in Threads /\ head \in Nat /\ OwnerInv
      /\ from[owner] \in Nat /\ want[owner] \in Nat /\ n[owner] \in Nat
      /\ "idle" \in OwnerLabels /\ "idle" \notin Claiming
  BY OwnerFacts DEF OwnerLabels, Claiming
<1>3. Goes(owner, "idle", from[owner], want[owner], n[owner])
  BY <1>1, <1>2, Unmoved DEF Goes
<1>4. batch = <<>> /\ op \in Operations \union {"none"} /\ (op \in Single => Len(batch) = 1)
      /\ (op \in Overflowing => Len(batch) <= Taken + 1)
  BY <1>1, <1>2 DEF OwnerInv
<1>5. OwnerInv'
  BY <1>1, <1>4 DEF OwnerInv
<1>6. pc[owner] # "ok" /\ "idle" # "ok" /\ cachedHead' \in Nat /\ cachedHead' <= head
  BY <1>1, <1>2
<1> QED
  BY <1>1, <1>2, <1>3, <1>5, <1>6, OwnerAlone

(* A pop aims at the values from h on, and claims nothing yet.               *)
LEMMA OwnerAims ==
    ASSUME IInv, pc[owner] \in {"idle", "popRefresh", "popCas"},
           NEW label \in {"popRefresh", "popCas"}, NEW h \in Nat, NEW w \in Nat, NEW k \in Nat,
           Goes(owner, label, h, w, k), h <= head, h + k <= tail,
           UNCHANGED <<tail, head, buffer, op, batch, written, issued, log, delivered, received,
                       copied>>,
           cachedHead' \in Nat, cachedHead' <= head
    PROVE  IInv'
<1>1. /\ ThreadsTyped /\ owner \in Threads /\ OwnerInv
      /\ label \in OwnerLabels /\ label \in Labels(owner) /\ label \notin Claiming
  BY OwnerFacts DEF OwnerLabels, Claiming
<1>2. pc'[owner] = label /\ from'[owner] = h /\ n'[owner] = k
  BY <1>1 DEF Goes, ThreadsTyped
<1>3. batch = <<>> /\ op \in Operations \union {"none"} /\ (op \in Single => Len(batch) = 1)
      /\ (op \in Overflowing => Len(batch) <= Taken + 1)
  BY <1>1 DEF OwnerInv
<1>4. OwnerInv'
  BY <1>2, <1>3 DEF OwnerInv
<1>5. pc[owner] # "ok" /\ label # "ok"
  OBVIOUS
<1> QED
  BY <1>1, <1>4, <1>5, OwnerAlone

LEMMA SmallerIsBoth ==
    \A i, j \in Nat : Smaller(i, j) \in Nat /\ Smaller(i, j) <= i /\ Smaller(i, j) <= j
BY DEF Smaller

LEMMA AimStep ==
    ASSUME IInv, pc[owner] \in {"idle", "popRefresh", "popCas"},
           NEW h \in Nat, h <= head, NEW w \in Nat, want' = [want EXCEPT ![owner] = w], Aim(h, w),
           UNCHANGED <<tail, head, buffer, cachedHead, op, batch, written, issued, log, delivered,
                       received, copied>>
    PROVE  IInv'
<1> DEFINE k == Smaller(w, tail - h)
           label == IF k = 0 THEN "popRefresh" ELSE "popCas"
<1>1. /\ ThreadsTyped /\ owner \in Threads /\ tail \in Nat /\ head \in Nat /\ cachedHead \in Nat
      /\ cachedHead <= head /\ head <= tail
  BY OwnerFacts
<1>2. tail - h \in Nat
  BY <1>1
<1>3. k \in Nat /\ k <= tail - h
  BY <1>2, SmallerIsBoth
<1>4. h + k <= tail
  BY <1>1, <1>3
<1>5. n' = [n EXCEPT ![owner] = k] /\ n'[owner] = k
  BY <1>1 DEF Aim, ThreadsTyped
<1>6. Goes(owner, label, h, w, k)
  BY <1>5 DEF Goes, Aim, Goto
<1>7. label \in {"popRefresh", "popCas"} /\ cachedHead' \in Nat /\ cachedHead' <= head
  BY <1>1
<1> HIDE DEF k, label
<1> QED
  BY <1>3, <1>4, <1>6, <1>7, OwnerAims

LEMMA StartProducerPopStep ==
    ASSUME IInv, NEW k \in DstLens, StartProducerPop(k) PROVE IInv'
<1>1. /\ UNCHANGED <<tail, head, buffer, cachedHead, op, batch, written, issued, log, delivered,
                     received, copied>>
      /\ pc[owner] = "idle" /\ want' = [want EXCEPT ![owner] = k] /\ Aim(cachedHead, k)
  BY DEF StartProducerPop, ring, pushing
<1>2. k \in Nat /\ cachedHead \in Nat /\ cachedHead <= head
  BY LensAssumption, OwnerFacts
<1> QED
  BY <1>1, <1>2, AimStep

LEMMA PopMissStep == ASSUME IInv, PopMiss PROVE IInv'
<1>1. /\ UNCHANGED <<tail, head, buffer, cachedHead, want, op, batch, written, issued, log,
                     delivered, received, copied>>
      /\ pc[owner] = "popCas" /\ Aim(head, want[owner])
  BY DEF PopMiss, ring, pushing
<1>2. /\ want[owner] \in Nat /\ head \in Nat /\ head <= head
      /\ want' = [want EXCEPT ![owner] = want[owner]]
  BY <1>1, OwnerFacts, Unmoved
<1> QED
  BY <1>1, <1>2, AimStep

LEMMA PopRefreshStep == ASSUME IInv, PopRefresh PROVE IInv'
<1>1. /\ UNCHANGED <<tail, head, buffer, op, batch, written, issued, log, delivered, received,
                     copied>>
      /\ pc[owner] = "popRefresh" /\ cachedHead' = head
  BY DEF PopRefresh, ring, pushing
<1>2. /\ ThreadsTyped /\ owner \in Threads /\ tail \in Nat /\ head \in Nat /\ head <= tail
      /\ want[owner] \in Nat /\ OwnerInv /\ 0 \in Nat
      /\ "idle" \in OwnerLabels /\ "idle" \in Labels(owner) /\ "idle" \notin Claiming
  BY OwnerFacts DEF OwnerLabels, Claiming
<1>3. cachedHead' \in Nat /\ cachedHead' <= head
  BY <1>1, <1>2
<1>4. CASE head = from[owner]
  <2>1. Goes(owner, "idle", 0, 0, 0)
    BY <1>4 DEF PopRefresh, EndPop, Goes, Goto
  <2>2. pc'[owner] = "idle"
    BY <1>2, <2>1, GoesTo
  <2>3. batch = <<>> /\ op \in Operations \union {"none"} /\ (op \in Single => Len(batch) = 1)
        /\ (op \in Overflowing => Len(batch) <= Taken + 1)
    BY <1>1, <1>2 DEF OwnerInv
  <2>4. OwnerInv'
    BY <1>1, <2>2, <2>3 DEF OwnerInv
  <2>5. pc[owner] # "ok" /\ "idle" # "ok"
    BY <1>1
  <2> QED
    BY <1>1, <1>2, <1>3, <2>1, <2>4, <2>5, OwnerAlone
<1>5. CASE head # from[owner]
  <2> DEFINE k == Smaller(want[owner], tail - head)
  <2>1. tail - head \in Nat
    BY <1>2
  <2>2. k \in Nat /\ k <= tail - head
    BY <1>2, <2>1, SmallerIsBoth
  <2>3. head + k <= tail /\ head <= head
    BY <1>2, <2>2
  <2>4. Goes(owner, "popCas", head, want[owner], k)
    BY <1>2, <1>5, Unmoved DEF PopRefresh, Goes, Goto
  <2>5. pc[owner] \in {"idle", "popRefresh", "popCas"} /\ "popCas" \in {"popRefresh", "popCas"}
    BY <1>1
  <2> HIDE DEF k
  <2> QED
    BY <1>1, <1>2, <1>3, <2>2, <2>3, <2>4, <2>5, OwnerAims
<1> QED
  BY <1>4, <1>5

LEMMA PopCasStep == ASSUME IInv, PopCas PROVE IInv'
<1> DEFINE k == n[owner]
<1>1. /\ UNCHANGED <<tail, buffer, from, want, n, copied, op, batch, written, issued, log,
                     delivered, received>>
      /\ pc[owner] = "popCas" /\ head = from[owner] /\ head' = head + k /\ cachedHead' = head'
      /\ Goto(owner, "popRead")
  BY DEF PopCas, pushing, popping
<1>2. /\ ThreadsTyped /\ owner \in Threads /\ tail \in Nat /\ head \in Nat
      /\ head <= tail /\ tail <= head + Capacity
      /\ from[owner] \in Nat /\ want[owner] \in Nat /\ k \in Nat
      /\ "popRead" \in OwnerLabels /\ "popRead" \in Labels(owner)
  BY OwnerFacts DEF OwnerLabels
<1>3. RingTyped /\ PushTyped /\ HistoryTyped /\ RingInv /\ OwnerInv
  BY Invariants
<1>4. /\ head + k <= tail /\ batch = <<>> /\ op \in Operations \union {"none"}
      /\ (op \in Single => Len(batch) = 1) /\ (op \in Overflowing => Len(batch) <= Taken + 1)
  BY <1>1, <1>3 DEF OwnerInv
<1>5. InPlace(head, tail)
  BY <1>3 DEF RingInv
<1> HIDE DEF k
<1>6. /\ head' \in Nat /\ head <= head' /\ head' <= tail /\ tail <= head' + Capacity
      /\ tail' = tail /\ tail' \in Nat /\ tail <= tail' /\ cachedHead' \in Nat
  BY <1>1, <1>2, <1>4
<1>7. RingTyped' /\ PushTyped' /\ HistoryTyped'
  BY <1>1, <1>3, <1>6 DEF RingTyped, PushTyped, HistoryTyped
<1>8. RingInv'
  <2>1. \A t \in head' .. tail - 1 : t \in head .. tail - 1
    BY <1>2, <1>6
  <2>2. InPlace(head, tail)'
    BY <1>1, <1>5, <2>1 DEF InPlace
  <2>3. RingNotOverrun'
    BY <1>1, <1>6 DEF RingNotOverrun
  <2> QED
    BY <1>1, <1>3, <2>2, <2>3 DEF RingInv
<1>9. Goes(owner, "popRead", from[owner], want[owner], k)
  BY <1>1, <1>2, Unmoved DEF Goes, Goto, k
<1>10. /\ pc'[owner] = "popRead" /\ from'[owner] = head /\ n'[owner] = k
       /\ \A s \in Threads : s # owner => pc'[s] = pc[s] /\ from'[s] = from[s] /\ n'[s] = n[s]
  BY <1>1, <1>2, <1>9, GoesTo
<1>11. OwnerInv'
  <2>1. \A t \in head .. head + k - 1 : t \in head .. tail - 1
    BY <1>2, <1>4
  <2>2. \A t \in head .. head + k - 1 : buffer'[Slot(t)] = log'[t + 1]
    BY <1>1, <1>5, <2>1 DEF InPlace
  <2>3. InPlace(from[owner], from[owner] + n[owner])'
    <3>1. (head + k) - 1 = head + k - 1
      BY <1>2
    <3> QED
      BY <1>10, <2>2, <3>1 DEF InPlace
  <2>4. from'[owner] + n'[owner] <= head'
    BY <1>1, <1>2, <1>10
  <2> QED
    BY <1>1, <1>4, <1>10, <2>3, <2>4 DEF OwnerInv
<1>12. HistoryInv => HistoryInv'
  <2>1. Claims(owner)' = head .. head + k - 1
    BY <1>10, ClaimedTickets DEF Claims
  <2> QED
    BY <1>1, <1>2, <1>10, <2>1, HistoryClaims
<1>13. AnswerInv => AnswerInv'
  <2>1. pc[owner] # "ok" /\ pc'[owner] # "ok"
    BY <1>1, <1>10
  <2> QED
    BY <1>1, <2>1, AnswerStays
<1>14. \A i \in 1 .. tail : log'[i] = log[i]
  BY <1>1
<1> QED
  BY <1>1, <1>2, <1>6, <1>7, <1>8, <1>9, <1>11, <1>12, <1>13, <1>14, OwnerMoves

LEMMA PopReadStep == ASSUME IInv, PopRead PROVE IInv'
<1> DEFINE h == from[owner]
           k == n[owner]
           f == [t \in h .. h + k - 1 |-> buffer[Slot(t)]]
<1>1. /\ UNCHANGED <<tail, head, buffer, cachedHead, op, batch, written, issued, log, received,
                     copied>>
      /\ pc[owner] = "popRead" /\ Delivers(f) /\ EndPop(owner)
  BY DEF PopRead, ring, pushing
<1>2. /\ ThreadsTyped /\ owner \in Threads /\ tail \in Nat /\ head \in Nat /\ head <= tail
      /\ h \in Nat /\ k \in Nat /\ 0 \in Nat
      /\ "idle" \in OwnerLabels /\ "idle" \in Labels(owner)
  BY OwnerFacts DEF OwnerLabels
<1>3. RingTyped /\ PushTyped /\ HistoryTyped /\ RingInv /\ OwnerInv
  BY Invariants
<1>4. /\ InPlace(h, h + k) /\ batch = <<>> /\ op \in Operations \union {"none"}
      /\ (op \in Single => Len(batch) = 1) /\ (op \in Overflowing => Len(batch) <= Taken + 1)
  BY <1>1, <1>3 DEF OwnerInv
<1>5. Claims(owner) = h .. h + k - 1
  BY <1>1, ClaimedTickets DEF Claims
<1>6. DOMAIN f = Claims(owner) /\ Claims(owner) \subseteq Nat
  BY <1>2, <1>5
<1>7. \A t \in Claims(owner) : f[t] = log[t + 1]
  BY <1>2, <1>4, <1>5 DEF InPlace
<1> HIDE DEF f
<1>8. /\ DOMAIN delivered' = DOMAIN delivered \union Claims(owner)
      /\ \A t \in Claims(owner) : delivered'[t] = log[t + 1]
      /\ \A t \in DOMAIN delivered : t \notin Claims(owner) => delivered'[t] = delivered[t]
  BY <1>1, <1>6, <1>7 DEF Delivers
<1>9. Goes(owner, "idle", 0, 0, 0)
  BY <1>1 DEF EndPop, Goes, Goto
<1>10. /\ pc'[owner] = "idle"
       /\ \A s \in Threads : s # owner => pc'[s] = pc[s] /\ from'[s] = from[s] /\ n'[s] = n[s]
  BY <1>2, <1>9, GoesTo
<1>11. RingTyped' /\ PushTyped' /\ HistoryTyped'
  BY <1>1, <1>3, <1>6, <1>8 DEF RingTyped, PushTyped, HistoryTyped
<1>12. RingInv'
  BY <1>1, <1>3 DEF RingInv, RingNotOverrun, InPlace
<1>13. OwnerInv'
  BY <1>1, <1>4, <1>10 DEF OwnerInv
<1>14. HistoryInv => HistoryInv'
  <2>1. pc'[owner] \notin Claiming
    BY <1>10 DEF Claiming
  <2> QED
    BY <1>1, <1>2, <1>8, <1>10, <2>1, HistoryDelivers
<1>15. AnswerInv => AnswerInv'
  <2>1. pc[owner] # "ok" /\ pc'[owner] # "ok"
    BY <1>1, <1>10
  <2> QED
    BY <1>1, <2>1, AnswerStays
<1>16. head' \in Nat /\ head <= head' /\ tail' \in Nat /\ tail <= tail'
  BY <1>1, <1>2
<1>17. \A i \in 1 .. tail : log'[i] = log[i]
  BY <1>1
<1> QED
  BY <1>1, <1>2, <1>9, <1>11, <1>12, <1>13, <1>14, <1>15, <1>16, <1>17, OwnerMoves

LEMMA OwnerStepStep == ASSUME IInv, OwnerStep PROVE IInv'
BY RefreshHeadStep, WriteNextStep, StoreTailStep, MissStep, TakeHalfStep, MoveHalfStep,
   PushReturnsStep, PopRefreshStep, PopCasStep, PopMissStep, PopReadStep DEF OwnerStep

LEMMA OwnerStartStep == ASSUME IInv, Disciplined, OwnerStart PROVE IInv'
<1>1. ASSUME NEW o \in Operations, StartPush(o) PROVE IInv'
  BY <1>1, StartPushStep
<1>2. ASSUME NEW o \in Operations, NEW k \in SliceLens, StartPushMany(o, k) PROVE IInv'
  BY <1>2, StartPushManyStep
<1>3. ASSUME "pushManyUnchecked" \in Operations, NEW k \in SliceLens, StartPushManyUnchecked(k)
      PROVE  IInv'
  BY <1>3, StartPushManyUncheckedStep
<1>4. ASSUME "copyAndCommitIf" \in Operations,
             NEW k \in SliceLens, NEW l \in 0 .. k - 1, StartCopyAndCommitIf(k - l, l)
      PROVE  IInv'
  BY <1>4, StartCopyAndCommitIfStep
<1>5. ASSUME NEW k \in DstLens, StartProducerPop(k) PROVE IInv'
  BY <1>5, StartProducerPopStep
<1> QED
  BY <1>1, <1>2, <1>3, <1>4, <1>5, ProducerLenStep DEF OwnerStart

LEMMA IInvStutters == ASSUME IInv, UNCHANGED vars PROVE IInv'
<1>1. UNCHANGED <<tail, head, buffer, cachedHead, pc, from, want, n, copied, op, batch, written,
                  issued, log, delivered, received>>
  BY DEF vars
<1>2. TypeOK' = TypeOK
  BY <1>1 DEF TypeOK
<1>3. RingInv' = RingInv
  BY <1>1 DEF RingInv, RingNotOverrun, InPlace
<1>4. head \in Nat /\ head <= head
  BY Counters
<1>5. OwnerInv'
  BY <1>1, <1>4, OwnerStays
<1>6. \A c \in Consumers : ConsumerInv(c)' = ConsumerInv(c)
  BY <1>1 DEF ConsumerInv, CopiedFrom
<1>7. HistoryInv' = HistoryInv
  BY <1>1 DEF HistoryInv, Claims
<1>8. AnswerInv => AnswerInv'
  BY <1>1, AnswerStays
<1> QED
  BY <1>2, <1>3, <1>5, <1>6, <1>7, <1>8 DEF IInv

LEMMA IInvStep == ASSUME Disciplined, IInv, [Next]_vars PROVE IInv'
<1>1. ASSUME NEW c \in Consumers, ConsumerStart(c) \/ ConsumerStep(c) PROVE IInv'
  BY <1>1, ConsumerNext
<1> QED
  BY <1>1, OwnerStartStep, OwnerStepStep, IInvStutters DEF Next

-----------------------------------------------------------------------------
(* The theorems *)

(* Whatever the owner, who looks before it relies on its old copy of head,   *)
(* and any number of stealing consumers do in whatever order, the invariant  *)
(* above holds: it is what the code relies on at each of its steps.          *)
THEOREM Invariance == ASSUME Disciplined PROVE Spec => []IInv
<1>1. IInv /\ [Next]_vars => IInv'
  BY IInvStep
<1> QED
  BY <1>1, IInvInit, PTL DEF Spec

(* The types of the variables are kept.                                      *)
THEOREM TypeCorrect == ASSUME Disciplined PROVE Spec => []TypeOK
<1>1. IInv => TypeOK
  BY DEF IInv
<1> QED
  BY <1>1, Invariance, PTL

(* The owner's cached head is never ahead of head, head never of tail, and   *)
(* the owner's writes never reach a value that nobody has claimed.           *)
THEOREM RingNotOverrunHolds == ASSUME Disciplined PROVE Spec => []RingNotOverrun
<1>1. IInv => RingNotOverrun
  BY DEF IInv, RingInv
<1> QED
  BY <1>1, Invariance, PTL

(* Every value in the ring is in the slot of its ticket, and so is every     *)
(* value that a pop or an overflow has claimed and not read yet.             *)
THEOREM ValuesInPlaceHolds == ASSUME Disciplined PROVE Spec => []ValuesInPlace
<1>1. IInv => ValuesInPlace
  <2> SUFFICES ASSUME IInv PROVE ValuesInPlace
    OBVIOUS
  <2>1. InPlace(head, tail) /\ OwnerInv /\ from[owner] \in Nat /\ n[owner] \in Nat
    BY OwnerFacts, Invariants DEF RingInv
  <2>2. \A t \in head .. tail - 1 : buffer[Slot(t)] = log[t + 1]
    BY <2>1 DEF InPlace
  <2>3. ASSUME pc[owner] = "popRead", NEW t \in from[owner] .. from[owner] + n[owner] - 1
        PROVE  buffer[Slot(t)] = log[t + 1]
    <3>1. InPlace(from[owner], from[owner] + n[owner])
      BY <2>1, <2>3 DEF OwnerInv
    <3> QED
      BY <2>1, <2>3, <3>1 DEF InPlace
  <2>4. ASSUME pc[owner] = "move", NEW t \in from[owner] .. from[owner] + Taken - 1
        PROVE  buffer[Slot(t)] = log[t + 1]
    <3>1. InPlace(from[owner], from[owner] + Moved(from[owner]))
      BY <2>1, <2>4 DEF OwnerInv
    <3>2. Taken \in Nat /\ Moved(from[owner]) \in Nat /\ Taken <= Moved(from[owner])
      BY <2>1, LensOfHalf, HalfOfCapacity
    <3>3. t \in from[owner] .. (from[owner] + Moved(from[owner])) - 1
      BY <2>1, <2>4, <3>2
    <3> QED
      BY <3>1, <3>3 DEF InPlace
  <2> QED
    BY <2>2, <2>3, <2>4 DEF ValuesInPlace
<1> QED
  BY <1>1, Invariance, PTL

(* When a consumer's CAS is going to succeed, or has succeeded, what it has  *)
(* copied is what was pushed, although the copy was made without any lock    *)
(* while the owner was writing.                                              *)
THEOREM CopyIsValidHolds == ASSUME Disciplined PROVE Spec => []CopyIsValid
<1>1. IInv => CopyIsValid
  <2> SUFFICES ASSUME IInv, NEW c \in Consumers,
                      pc[c] = "return" \/ (pc[c] = "cas" /\ from[c] = head)
               PROVE  /\ from[c] + n[c] <= tail
                      /\ copied[c] = SubSeq(log, from[c] + 1, from[c] + n[c])
    BY DEF CopyIsValid
  <2> DEFINE h == from[c]
             k == n[c]
             seq == copied[c]
  <2>1. /\ h \in Nat /\ k \in Nat /\ tail \in Nat /\ head \in Nat /\ head <= tail
        /\ log \in Seq(Nat) /\ Len(log) = tail
    BY Counters, Invariants, Members, Unmoved DEF HistoryTyped
  <2>2. seq \in Seq(Nat \union {Empty})
    BY Invariants, CopyOf
  <2>3. Len(seq) = k /\ h + k <= tail /\ CopiedFrom(h, seq)
    <3>1. ConsumerInv(c)
      BY Invariants
    <3> QED
      BY <2>1, <3>1 DEF ConsumerInv
  <2>4. \A i \in 1 .. k : seq[i] = log[h + i]
    BY <2>3 DEF CopiedFrom
  <2> HIDE DEF h, k, seq
  <2>5. SubSeq(log, h + 1, h + k) = [i \in 1 .. k |-> log[h + i]]
    <3>1. h + k - (h + 1) + 1 = k /\ \A i \in 1 .. k : (h + 1) + i - 1 = h + i
      BY <2>1
    <3>2. SubSeq(log, h + 1, h + k)
            = [i \in 1 .. (h + k - (h + 1) + 1) |-> log[(h + 1) + i - 1]]
      BY <2>1
    <3> QED
      BY <3>1, <3>2
  <2>6. seq = [i \in 1 .. k |-> seq[i]]
    BY <2>2, <2>3
  <2>7. seq = SubSeq(log, h + 1, h + k)
    BY <2>4, <2>5, <2>6
  <2> QED
    BY <2>3, <2>7 DEF h, k, seq
<1> QED
  BY <1>1, Invariance, PTL

(* How often a value of the batch occurs.                                    *)
LEMMA OlderOccurrences ==
    ASSUME AnswerInv, batch \in Seq(Nat), issued \in Nat, NEW i \in 1 .. Len(batch),
           NEW seq \in Seq(Nat), Older(seq)
    PROVE  Cardinality(Occurrences(batch[i], seq)) = 0
<1>1. batch[i] > issued - Len(batch)
  BY DEF AnswerInv
<1>2. \A j \in 1 .. Len(seq) : seq[j] <= issued - Len(batch)
  BY DEF Older
<1>3. DOMAIN seq = 1 .. Len(seq) /\ \A j \in 1 .. Len(seq) : seq[j] \in Nat
  OBVIOUS
<1>4. batch[i] \in Nat /\ Len(batch) \in Nat
  OBVIOUS
<1>5. ASSUME NEW j \in DOMAIN seq PROVE seq[j] # batch[i]
  <2>1. seq[j] \in Nat /\ seq[j] <= issued - Len(batch)
    BY <1>2, <1>3
  <2> QED
    BY <1>1, <1>4, <2>1
<1>6. Occurrences(batch[i], seq) = {}
  BY <1>5 DEF Occurrences
<1> QED
  BY <1>6, FS_EmptySet

LEMMA BatchOccurrences ==
    ASSUME AnswerInv, batch \in Seq(Nat), issued \in Nat, NEW i \in 1 .. Len(batch),
           NEW seq \in Seq(Nat), EndsWithBatch(seq)
    PROVE  Cardinality(Occurrences(batch[i], seq)) = 1
<1> DEFINE b == Len(batch)
           m == Len(seq)
           p == m - b + i
<1>1. /\ batch[i] > issued - b /\ b \in Nat /\ m \in Nat /\ batch[i] \in Nat /\ i \in 1 .. b
      /\ \A j \in 1 .. b : batch[j] = batch[i] => j = i
  BY DEF AnswerInv
<1>2. /\ b <= m
      /\ \A j \in 1 .. m - b : seq[j] <= issued - b
      /\ \A j \in 1 .. b : seq[m - b + j] = batch[j]
  BY DEF EndsWithBatch
<1>3. DOMAIN seq = 1 .. m /\ \A j \in 1 .. m : seq[j] \in Nat
  OBVIOUS
<1> HIDE DEF b, m
<1>4. p \in 1 .. m
  BY <1>1, <1>2
<1>5. seq[p] = batch[i]
  BY <1>1, <1>2
<1>6. ASSUME NEW j \in 1 .. m, seq[j] = batch[i] PROVE j = p
  <2>1. CASE j <= m - b
    <3>1. j \in 1 .. m - b
      BY <1>1, <1>2, <2>1
    <3>2. seq[j] <= issued - b
      BY <1>2, <3>1
    <3> QED
      BY <1>1, <1>6, <3>2
  <2>2. CASE ~(j <= m - b)
    <3> DEFINE q == j - (m - b)
    <3>1. q \in 1 .. b /\ m - b + q = j
      BY <1>1, <1>2, <2>2
    <3>2. seq[m - b + q] = batch[q]
      BY <1>2, <3>1
    <3>3. batch[q] = batch[i]
      BY <1>6, <3>1, <3>2
    <3>4. q = i
      BY <1>1, <3>1, <3>3
    <3> QED
      BY <3>1, <3>4
  <2> QED
    BY <2>1, <2>2
<1> HIDE DEF p
<1>7. Occurrences(batch[i], seq) = {p}
  BY <1>3, <1>4, <1>5, <1>6 DEF Occurrences
<1> QED
  BY <1>7, FS_Singleton

(* A push that answers Ok has put each of its values in the ring or handed   *)
(* it to the BatchReceiver, once, and a push that answers Err has done       *)
(* neither; lockFreePushMany may answer Ok having done neither.              *)
THEOREM AnswerIsTrueHolds ==
    ASSUME Disciplined, "lockFreePushMany" \notin Operations
    PROVE  Spec => []AnswerIsTrue
<1>1. IInv => AnswerIsTrue
  <2> SUFFICES ASSUME IInv, pc[owner] \in {"ok", "err"}, NEW i \in DOMAIN batch
               PROVE  Cardinality(Occurrences(batch[i], log))
                        + Cardinality(Occurrences(batch[i], received))
                      = IF pc[owner] = "ok" THEN 1 ELSE 0
    BY DEF AnswerIsTrue
  <2>1. AnswerInv
    BY DEF IInv
  <2>2. batch \in Seq(Nat) /\ issued \in Nat /\ log \in Seq(Nat) /\ received \in Seq(Nat)
    BY BatchFacts, Invariants DEF HistoryTyped
  <2>3. i \in 1 .. Len(batch)
    BY <2>2
  <2>4. Older(log) => Cardinality(Occurrences(batch[i], log)) = 0
    BY <2>1, <2>2, <2>3, OlderOccurrences
  <2>5. Older(received) => Cardinality(Occurrences(batch[i], received)) = 0
    BY <2>1, <2>2, <2>3, OlderOccurrences
  <2>6. EndsWithBatch(log) => Cardinality(Occurrences(batch[i], log)) = 1
    BY <2>1, <2>2, <2>3, BatchOccurrences
  <2>7. EndsWithBatch(received) => Cardinality(Occurrences(batch[i], received)) = 1
    BY <2>1, <2>2, <2>3, BatchOccurrences
  <2>8. IF pc[owner] = "ok" THEN \/ EndsWithBatch(log) /\ Older(received)
                                 \/ Older(log) /\ EndsWithBatch(received)
                            ELSE Older(log) /\ Older(received)
    BY <2>1 DEF AnswerInv
  <2> QED
    BY <2>4, <2>5, <2>6, <2>7, <2>8
<1> QED
  BY <1>1, Invariance, PTL

-----------------------------------------------------------------------------
(* The refinement *)

(* A batch is one that the log's Push may append.                            *)
BatchInv ==
    /\ issued \in 0 .. MaxPushes
    /\ Len(batch) \in SliceLens \union {0, 1}
    /\ \A i \in 1 .. Len(batch) : batch[i] \in 1 .. MaxPushes

LEMMA BatchInvStep == ASSUME IInv, BatchInv, [Next]_vars PROVE BatchInv'
<1>1. ASSUME NEW o, NEW k \in Nat, k \in SliceLens \union {1}, Begin(o, Fresh(k)) PROVE BatchInv'
  <2>1. issued \in Nat /\ Len(Fresh(k)) = k /\ \A i \in 1 .. k : Fresh(k)[i] = issued + i
    BY <1>1, BatchFacts, FreshValues
  <2>2. batch' = Fresh(k) /\ issued' = issued + k /\ issued + k <= MaxPushes
    BY <1>1, <2>1 DEF Begin
  <2>3. \A i \in 1 .. k : issued + i \in 1 .. MaxPushes
    BY <2>1, <2>2, BoundAssumption
  <2>4. issued + k \in 0 .. MaxPushes
    BY <2>1, <2>2, BoundAssumption
  <2> QED
    BY <1>1, <2>1, <2>2, <2>3, <2>4 DEF BatchInv
<1>2. ASSUME NEW k \in SliceLens, NEW l \in 0 .. k - 1, StartCopyAndCommitIf(k - l, l)
      PROVE  BatchInv'
  <2> DEFINE r == k - l
             values == Swapped(r, l)
  <2>1. k \in Nat /\ l \in Nat /\ r \in Nat /\ r + l = k /\ issued \in Nat
    BY LensAssumption, BatchFacts
  <2>2. Begin("copyAndCommitIf", values)
    BY <1>2 DEF StartCopyAndCommitIf, Swapped
  <2> HIDE DEF r
  <2>3. /\ Len(values) = r + l
        /\ \A i \in 1 .. l : values[i] = issued + (r + i)
        /\ \A i \in 1 .. r : values[l + i] = issued + i
    BY <2>1, SwappedSlices
  <2> HIDE DEF values
  <2>4. batch' = values /\ issued' = issued + k /\ issued + k <= MaxPushes
    BY <2>1, <2>2, <2>3 DEF Begin
  <2>5. ASSUME NEW i \in 1 .. k PROVE values[i] \in 1 .. MaxPushes
    <3>1. CASE i <= l
      <4>1. i \in 1 .. l /\ issued + (r + i) \in 1 .. MaxPushes
        BY <2>1, <2>4, <3>1, BoundAssumption
      <4> QED
        BY <2>3, <4>1
    <3>2. CASE ~(i <= l)
      <4>1. /\ i - l \in 1 .. r /\ l + (i - l) = i
            /\ issued + (i - l) \in 1 .. MaxPushes
        BY <2>1, <2>4, <3>2, BoundAssumption
      <4>2. values[l + (i - l)] = issued + (i - l)
        BY <2>3, <4>1
      <4> QED
        BY <4>1, <4>2
    <3> QED
      BY <3>1, <3>2
  <2>6. issued + k \in 0 .. MaxPushes
    BY <2>1, <2>4, BoundAssumption
  <2> QED
    BY <2>1, <2>3, <2>4, <2>5, <2>6 DEF BatchInv
<1>3. CASE OwnerStart
  <2>1. \A k \in SliceLens \union {1} : k \in Nat
    BY LensAssumption
  <2>2. ProducerLen \/ (\E k \in DstLens : StartProducerPop(k)) => UNCHANGED <<batch, issued>>
    BY DEF ProducerLen, StartProducerPop, pushing
  <2> QED
    BY <1>1, <1>2, <1>3, <2>1, <2>2
       DEF OwnerStart, StartPush, StartPushMany, StartPushManyUnchecked, BatchInv
<1>4. CASE PushReturns
  <2>1. batch' = <<>> /\ issued' = issued
    BY <1>4 DEF PushReturns
  <2> QED
    BY <2>1 DEF BatchInv
<1>5. CASE \/ RefreshHead \/ WriteNext \/ StoreTail \/ DoNotCommit
           \/ TakeHalf \/ MissHalf \/ ReceiverIsLocked \/ MissHalfOnce \/ MoveHalf
           \/ PopRefresh \/ PopCas \/ PopMiss \/ PopRead
           \/ \E c \in Consumers : ConsumerStart(c) \/ ConsumerStep(c)
           \/ UNCHANGED vars
  <2>1. UNCHANGED <<batch, issued>>
    BY <1>5 DEF RefreshHead, WriteNext, StoreTail, DoNotCommit, TakeHalf, MissHalf,
                ReceiverIsLocked, MissHalfOnce, MoveHalf, PopRefresh, PopCas, PopMiss, PopRead,
                ConsumerStart, StartSteal, StartPopMany, ConsumerStep, LoadHead, LoadTail,
                CopyNext, ClaimCopied, ForgetCopied, Return, pushing, vars
  <2> QED
    BY <2>1 DEF BatchInv
<1> QED
  BY <1>3, <1>4, <1>5 DEF Next, OwnerStep

(* A thread that delivers what it has claimed delivers it for the log.       *)
LEMMA DeliversForLog ==
    ASSUME IInv, HistoryInv, NEW t \in Threads, NEW f, Delivers(f),
           DOMAIN f = Claims(t), Claims(t) \subseteq Nat,
           \A k \in Claims(t) : f[k] = log[k + 1],
           UNCHANGED <<head, log>>
    PROVE  Log!Next
<1>1. \A k \in Claims(t) : k < head /\ k \notin DOMAIN delivered
  BY DEF HistoryInv
<1>2. head \in Nat
  BY Counters
<1>3. delivered' = [k \in DOMAIN delivered \union Claims(t) |->
                      IF k \in Claims(t) THEN log[k + 1] ELSE delivered[k]]
  BY DEF Delivers
<1>4. Log!Deliver(Claims(t))
  BY <1>1, <1>3 DEF Log!Deliver
<1>5. Claims(t) \in SUBSET (0 .. head - 1)
  BY <1>1, <1>2
<1> QED
  BY <1>4, <1>5 DEF Log!Next

LEMMA ClaimsForLog ==
    ASSUME IInv, NEW k \in 1 .. Capacity, head + k <= tail, head' = head + k,
           UNCHANGED <<log, delivered>>
    PROVE  Log!Next
<1>1. head + k <= Len(log)
  BY Counters
<1>2. Log!Claim(k)
  BY <1>1 DEF Log!Claim
<1> QED
  BY <1>2 DEF Log!Next

LEMMA StoreTailForLog == ASSUME IInv, BatchInv, StoreTail PROVE Log!Next
<1>1. pc[owner] = "publish" /\ log' = log \o batch /\ UNCHANGED <<head, delivered>>
  BY DEF StoreTail
<1>2. tail + Len(batch) <= head + Capacity /\ Len(batch) >= 1
  BY <1>1, OwnerFacts DEF OwnerInv
<1>3. tail \in Nat /\ head \in Nat /\ Len(log) = tail /\ batch \in Seq(Nat) /\ Len(batch) \in Nat
  BY Counters, BatchFacts
<1>4. Len(log) + Len(batch) - head <= Capacity
  BY <1>2, <1>3
<1>5. Log!Push(batch)
  BY <1>1, <1>4 DEF Log!Push
<1>6. Len(batch) \in SliceLens \union {1}
  BY <1>2, <1>3 DEF BatchInv
<1>7. batch \in [1 .. Len(batch) -> 1 .. MaxPushes]
  <2>1. batch = [i \in 1 .. Len(batch) |-> batch[i]]
    BY <1>3
  <2> QED
    BY <2>1 DEF BatchInv
<1>8. batch \in UNION {[1 .. k -> 1 .. MaxPushes] : k \in SliceLens \union {1}}
  BY <1>6, <1>7
<1> QED
  BY <1>5, <1>8 DEF Log!Next

LEMMA TakeHalfForLog == ASSUME IInv, TakeHalf PROVE Log!Next \/ UNCHANGED Log!absVars
<1>1. head' = head + Taken /\ UNCHANGED <<tail, log, delivered>>
  BY DEF TakeHalf
<1>2. /\ head \in Nat /\ tail \in Nat /\ Taken \in Nat /\ Taken <= Capacity
      /\ pc[owner] = "overflow" /\ head = from[owner]
  BY Counters, HalfOfCapacity DEF TakeHalf
<1>3. head + Taken <= tail
  <2>1. /\ tail + Len(batch) > head + Capacity /\ op \in Overflowing
        /\ Len(batch) <= Taken + 1
    BY <1>2, OwnerFacts DEF OwnerInv
  <2>2. Len(batch) \in Nat /\ 2 * Taken <= Capacity
    BY BatchFacts, HalfOfCapacity
  <2> QED
    BY <1>2, <2>1, <2>2
<1>4. CASE Taken = 0
  BY <1>1, <1>2, <1>4 DEF Log!absVars
<1>5. CASE Taken # 0
  <2>1. Taken \in 1 .. Capacity
    BY <1>2, <1>5
  <2> QED
    BY <1>1, <1>3, <2>1, ClaimsForLog
<1> QED
  BY <1>4, <1>5

LEMMA PopCasForLog == ASSUME IInv, PopCas PROVE Log!Next \/ UNCHANGED Log!absVars
<1> DEFINE k == n[owner]
<1>1. /\ head' = head + k /\ UNCHANGED <<tail, log, delivered>>
      /\ pc[owner] = "popCas" /\ head = from[owner]
  BY DEF PopCas
<1>2. head \in Nat /\ tail \in Nat /\ tail <= head + Capacity /\ k \in Nat
  BY OwnerFacts
<1>3. head + k <= tail
  BY <1>1, OwnerFacts DEF OwnerInv
<1> HIDE DEF k
<1>4. CASE k = 0
  BY <1>1, <1>2, <1>4 DEF Log!absVars
<1>5. CASE k # 0
  <2>1. k \in 1 .. Capacity
    BY <1>2, <1>3, <1>5
  <2> QED
    BY <1>1, <1>3, <2>1, ClaimsForLog
<1> QED
  BY <1>4, <1>5

LEMMA ClaimCopiedForLog == ASSUME IInv, NEW c \in Consumers, ClaimCopied(c) PROVE Log!Next
<1> DEFINE k == n[c]
<1>1. /\ head' = head + k /\ UNCHANGED <<tail, log, delivered>>
      /\ pc[c] = "cas" /\ head = from[c]
  BY DEF ClaimCopied
<1>2. head \in Nat /\ tail \in Nat /\ tail <= head + Capacity /\ k \in Nat
  BY OwnerFacts, Invariants, Members, Unmoved
<1>3. head + k <= tail /\ k >= 1
  <2>1. ConsumerInv(c)
    BY Invariants
  <2> QED
    BY <1>1, <2>1 DEF ConsumerInv
<1> HIDE DEF k
<1>4. k \in 1 .. Capacity
  BY <1>2, <1>3
<1> QED
  BY <1>1, <1>3, <1>4, ClaimsForLog

LEMMA MoveHalfForLog ==
    ASSUME IInv, HistoryInv, Capacity = 2 * Taken, MoveHalf PROVE Log!Next
<1> DEFINE h == from[owner]
           past == h + RightLen(h) + LeftLen(h) - 1
           f == [t \in h .. past |-> buffer[Slot(t)]]
<1>1. pc[owner] = "move" /\ Delivers(f) /\ UNCHANGED <<head, log>>
  BY DEF MoveHalf, ring, pushing
<1>2. h \in Nat /\ InPlace(h, h + Moved(h)) /\ owner \in Threads
  BY <1>1, OwnerFacts DEF OwnerInv
<1>3. /\ RightLen(h) \in Nat /\ LeftLen(h) \in Nat /\ Moved(h) = RightLen(h) + LeftLen(h)
      /\ Taken \in Nat /\ Moved(h) = Taken
  BY <1>2, LensOfHalf, HalfOfCapacity
<1>4. past = h + Taken - 1
  BY <1>2, <1>3
<1>5. Claims(owner) = h .. past
  BY <1>1, <1>4, ClaimedTickets DEF Claims
<1>6. \A t \in h .. past : buffer[Slot(t)] = log[t + 1]
  <2>1. h .. past = h .. (h + Moved(h)) - 1
    BY <1>2, <1>3, <1>4
  <2> QED
    BY <1>2, <2>1, Zenon DEF InPlace
<1>7. DOMAIN f = Claims(owner) /\ Claims(owner) \subseteq Nat
  BY <1>2, <1>5
<1>8. \A t \in Claims(owner) : f[t] = log[t + 1]
  BY <1>5, <1>6
<1> HIDE DEF f
<1> QED
  BY <1>1, <1>2, <1>7, <1>8, DeliversForLog

LEMMA PopReadForLog == ASSUME IInv, HistoryInv, PopRead PROVE Log!Next
<1> DEFINE h == from[owner]
           k == n[owner]
           f == [t \in h .. h + k - 1 |-> buffer[Slot(t)]]
<1>1. pc[owner] = "popRead" /\ Delivers(f) /\ UNCHANGED <<head, log>>
  BY DEF PopRead, ring
<1>2. h \in Nat /\ k \in Nat /\ InPlace(h, h + k) /\ owner \in Threads
  BY <1>1, OwnerFacts DEF OwnerInv
<1>3. Claims(owner) = h .. h + k - 1
  BY <1>1, ClaimedTickets DEF Claims
<1>4. DOMAIN f = Claims(owner) /\ Claims(owner) \subseteq Nat
  BY <1>2, <1>3
<1>5. \A t \in Claims(owner) : f[t] = log[t + 1]
  BY <1>2, <1>3 DEF InPlace
<1> HIDE DEF f
<1> QED
  BY <1>1, <1>2, <1>4, <1>5, DeliversForLog

LEMMA ReturnForLog == ASSUME IInv, HistoryInv, NEW c \in Consumers, Return(c) PROVE Log!Next
<1>1. /\ Claims(c) \subseteq Nat /\ UNCHANGED <<head, log>> /\ c \in Threads
      /\ delivered' = [t \in DOMAIN delivered \union Claims(c) |->
                         IF t \in Claims(c) THEN log[t + 1] ELSE delivered[t]]
  BY ReturnDelivers, Members DEF Return, ring
<1> DEFINE f == [t \in Claims(c) |-> log[t + 1]]
<1>2. DOMAIN f = Claims(c) /\ \A t \in Claims(c) : f[t] = log[t + 1]
  OBVIOUS
<1>3. Delivers(f)
  BY <1>1 DEF Delivers
<1> HIDE DEF f
<1> QED
  BY <1>1, <1>2, <1>3, DeliversForLog

(* The ring implements the log, whoever claims: pushes append, claims take   *)
(* the oldest values, and what a thread has claimed is delivered to it once  *)
(* and as it was pushed.  An overflow keeps this only if the capacity is     *)
(* even: else it may hand over one value that it has not claimed.            *)
THEOREM ImplementsLog ==
    ASSUME Disciplined, Capacity = 2 * Taken PROVE Spec => LogSpec
<1>1. Init => Log!Init
  BY DEF Init, Log!Init
<1>2. Init => BatchInv
  BY BoundAssumption DEF Init, BatchInv
<1>3. IInv /\ BatchInv /\ [Next]_vars => BatchInv'
  BY BatchInvStep
<1>4. IInv /\ BatchInv /\ [Next]_vars => [Log!Next]_Log!absVars
  <2> SUFFICES ASSUME IInv, BatchInv, [Next]_vars PROVE Log!Next \/ UNCHANGED Log!absVars
    OBVIOUS
  <2>1. HistoryInv
    BY DEF IInv
  <2>2. StoreTail => Log!Next
    BY StoreTailForLog
  <2>3. TakeHalf \/ PopCas => Log!Next \/ UNCHANGED Log!absVars
    BY TakeHalfForLog, PopCasForLog
  <2>4. MoveHalf \/ PopRead => Log!Next
    BY <2>1, MoveHalfForLog, PopReadForLog
  <2>5. ASSUME NEW c \in Consumers, ClaimCopied(c) \/ Return(c) PROVE Log!Next
    BY <2>1, <2>5, ClaimCopiedForLog, ReturnForLog
  <2>6. CASE OwnerStart
    BY <2>6 DEF OwnerStart, StartPush, StartPushMany, StartPushManyUnchecked, Begin,
                StartCopyAndCommitIf, ProducerLen, StartProducerPop, ring, Log!absVars
  <2>7. CASE \/ RefreshHead \/ WriteNext \/ DoNotCommit
             \/ MissHalf \/ ReceiverIsLocked \/ MissHalfOnce \/ PushReturns
             \/ PopRefresh \/ PopMiss \/ UNCHANGED vars
    BY <2>7 DEF RefreshHead, WriteNext, DoNotCommit, MissHalf, ReceiverIsLocked, MissHalfOnce,
                PushReturns, PopRefresh, PopMiss, ring, vars, Log!absVars
  <2>8. ASSUME NEW c \in Consumers,
               ConsumerStart(c) \/ LoadHead(c) \/ LoadTail(c) \/ CopyNext(c) \/ ForgetCopied(c)
        PROVE  UNCHANGED Log!absVars
    BY <2>8 DEF ConsumerStart, StartSteal, StartPopMany, LoadHead, LoadTail, CopyNext,
                ForgetCopied, ring, Log!absVars
  <2> QED
    BY <2>2, <2>3, <2>4, <2>5, <2>6, <2>7, <2>8 DEF Next, OwnerStep, ConsumerStep
<1> QED
  BY <1>1, <1>2, <1>3, <1>4, Invariance, PTL DEF Spec, LogSpec, Log!Spec

-----------------------------------------------------------------------------
(* Where what the comments say is true *)

(* A consumer does not move the owner.                                       *)
LEMMA ConsumerLeavesOwner ==
    ASSUME IInv, NEW c \in Consumers, ConsumerStart(c) \/ ConsumerStep(c)
    PROVE  pc'[owner] = pc[owner]
<1>1. owner \in Threads /\ ThreadsTyped /\ c # owner
  BY OwnerFacts, Members
<1>2. \A label : Goto(c, label) => pc'[owner] = pc[owner]
  BY <1>1 DEF Goto, ThreadsTyped
<1>3. CASE ConsumerStart(c) \/ LoadHead(c) \/ LoadTail(c)
  BY <1>2, <1>3 DEF ConsumerStart, StartSteal, StartPopMany, LoadHead, LoadTail, EndPop
<1>4. CASE CopyNext(c) \/ ClaimCopied(c) \/ ForgetCopied(c) \/ Return(c)
  BY <1>2, <1>4 DEF CopyNext, ClaimCopied, ForgetCopied, Return, EndPop
<1> QED
  BY <1>3, <1>4 DEF ConsumerStep

(* "The queue is not full" when a single push writes, as the comment before  *)
(* push_unchecked says, if the owner looks before it relies on its old copy  *)
(* of head; for an owner that does not, the run that shows the finding ends  *)
(* in a push that writes to a full ring.                                     *)
THEOREM SinglePushHasSpaceHolds == ASSUME Disciplined PROVE Spec => SinglePushHasSpace
<1>1. IInv /\ [Next]_vars =>
        (pc[owner] \in {"idle", "refresh"} /\ pc'[owner] = "write" /\ op' \in Single =>
           tail - head < Capacity)
  <2> SUFFICES ASSUME IInv, [Next]_vars, pc[owner] \in {"idle", "refresh"}, pc'[owner] = "write"
               PROVE  tail - head < Capacity
    OBVIOUS
  <2>1. IInv'
    BY IInvStep
  <2>2. OwnerInv' /\ tail' \in Nat /\ head' \in Nat /\ Len(batch') \in Nat
    <3>1. IInv' => OwnerInv' /\ TypeOK'
      BY DEF IInv
    <3>2. TypeOK' => tail' \in Nat /\ head' \in Nat /\ batch' \in Seq(Nat)
      BY DEF TypeOK
    <3> QED
      BY <2>1, <3>1, <3>2
  <2>3. tail' + Len(batch') <= head' + Capacity /\ Len(batch') >= 1
    BY <2>2 DEF OwnerInv
  <2>4. tail' = tail /\ head' = head
    <3>1. ASSUME NEW c \in Consumers PROVE ~(ConsumerStart(c) \/ ConsumerStep(c))
      BY ConsumerLeavesOwner
    <3>2. OwnerStart => UNCHANGED <<tail, head>>
      BY DEF OwnerStart, StartPush, StartPushMany, StartPushManyUnchecked, StartCopyAndCommitIf,
             Begin, ProducerLen, StartProducerPop, ring
    <3>3. OwnerStep => UNCHANGED <<tail, head>>
      BY DEF OwnerStep, RefreshHead, WriteNext, StoreTail, DoNotCommit, TakeHalf, MissHalf,
             ReceiverIsLocked, MissHalfOnce, MoveHalf, PushReturns, PopRefresh, PopCas, PopMiss,
             PopRead, ring
    <3> QED
      BY <3>1, <3>2, <3>3 DEF Next, vars
  <2> QED
    BY <2>2, <2>3, <2>4
<1> QED
  BY <1>1, Invariance, PTL DEF Spec, SinglePushHasSpace

(* An overflow of a single push hands over one value more than               *)
(* NUM_VALUES_TAKEN, as the comment of that constant says, if the capacity   *)
(* is even.                                                                  *)
THEOREM OverflowTakesHalfHolds ==
    ASSUME Disciplined, Capacity = 2 * Taken PROVE Spec => OverflowTakesHalf
<1>1. IInv /\ [Next]_vars =>
        (pc[owner] = "move" /\ op \in Single /\ pc'[owner] = "ok" =>
           Len(received') = Len(received) + Taken + 1)
  <2> SUFFICES ASSUME IInv, [Next]_vars,
                      pc[owner] = "move", op \in Single, pc'[owner] = "ok"
               PROVE  Len(received') = Len(received) + Taken + 1
    OBVIOUS
  <2> DEFINE h == from[owner]
  <2>1. MoveHalf
    <3>1. ASSUME NEW c \in Consumers PROVE ~(ConsumerStart(c) \/ ConsumerStep(c))
      BY ConsumerLeavesOwner
    <3>2. ~OwnerStart /\ ~UNCHANGED vars
      BY DEF OwnerStart, StartPush, StartPushMany, StartPushManyUnchecked, StartCopyAndCommitIf,
             Begin, ProducerLen, StartProducerPop, vars
    <3>3. OwnerStep => MoveHalf
      BY DEF OwnerStep, RefreshHead, WriteNext, StoreTail, DoNotCommit, TakeHalf, MissHalf,
             ReceiverIsLocked, MissHalfOnce, PushReturns, PopRefresh, PopCas, PopMiss, PopRead
    <3> QED
      BY <3>1, <3>2, <3>3 DEF Next
  <2>2. received' = received \o Left(h) \o Right(h) \o batch
    BY <2>1 DEF MoveHalf
  <2>3. Left(h) \in Seq(Nat) /\ Right(h) \in Seq(Nat)
    BY MovedValues
  <2>4. received \in Seq(Nat) /\ batch \in Seq(Nat) /\ h \in Nat
    BY Invariants, BatchFacts, OwnerFacts DEF HistoryTyped
  <2>5. Len(batch) = 1
    BY OwnerFacts DEF OwnerInv
  <2>6. /\ RightLen(h) \in Nat /\ LeftLen(h) \in Nat /\ RightLen(h) + LeftLen(h) = Taken
        /\ Taken \in Nat
    <3>1. /\ RightLen(h) \in Nat /\ LeftLen(h) \in Nat /\ Moved(h) = RightLen(h) + LeftLen(h)
          /\ Taken <= Moved(h) /\ Moved(h) <= Capacity - Taken
      BY <2>4, LensOfHalf
    <3>2. Taken \in Nat
      BY HalfOfCapacity
    <3> QED
      BY <3>1, <3>2
  <2>7. Len(Left(h)) = LeftLen(h) /\ Len(Right(h)) = RightLen(h)
    <3>1. \A k \in Nat : \A s \in Seq(Nat) : DOMAIN s = 1 .. k => Len(s) = k
      OBVIOUS
    <3>2. DOMAIN Left(h) = 1 .. LeftLen(h) /\ DOMAIN Right(h) = 1 .. RightLen(h)
      BY DEF Left, Right
    <3> QED
      BY <2>3, <2>6, <3>1, <3>2
  <2> DEFINE first == received \o Left(h)
             second == first \o Right(h)
  <2>8. first \in Seq(Nat) /\ Len(first) = Len(received) + Len(Left(h)) /\ Len(received) \in Nat
    BY <2>3, <2>4, Concatenated, Zenon
  <2>9. second \in Seq(Nat) /\ Len(second) = Len(first) + Len(Right(h))
    BY <2>3, <2>8, Concatenated, Zenon
  <2>10. Len(second \o batch) = Len(second) + Len(batch)
    BY <2>4, <2>9, Concatenated, Zenon
  <2>11. Len(received') = Len(second \o batch)
    BY <2>2
  <2> DEFINE r == Len(received)
  <2> HIDE DEF first, second, r
  <2>12. Len(second \o batch) = r + LeftLen(h) + RightLen(h) + 1
    BY <2>5, <2>7, <2>8, <2>9, <2>10 DEF r
  <2>13. r \in Nat
    BY <2>8 DEF r
  <2> HIDE DEF h
  <2>14. Len(second \o batch) = r + Taken + 1
    BY <2>6, <2>12, <2>13
  <2> QED
    BY <2>11, <2>14 DEF r
<1> QED
  BY <1>1, Invariance, PTL DEF Spec, OverflowTakesHalf
=============================================================================
