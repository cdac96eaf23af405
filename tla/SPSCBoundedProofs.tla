------------------------- MODULE SPSCBoundedProofs -------------------------
(***************************************************************************)
(* Theorems about SPSCBounded for every capacity, every set of values and  *)
(* slices of every length, with loads that may be stale.                   *)
(*                                                                         *)
(* cachedHead <= head <= cachedTail <= tail <= cachedHead + Capacity is    *)
(* kept because each side moves its own counter only within what its copy  *)
(* of the other counter allows.  It puts the tickets being written and the *)
(* tickets being read less than a lap apart, hence in different slots.     *)
(***************************************************************************)
EXTENDS SPSCBounded, RingTheorems

USE CapacityAssumption

-----------------------------------------------------------------------------
(* The slots *)

LEMMA SlotInRing ==
    ASSUME NEW t \in Nat
    PROVE  Slot(t) \in 0 .. Capacity - 1
BY DivMod DEF Slot

LEMMA SlotsDiffer ==
    ASSUME NEW s \in Nat, NEW t \in Nat, s < t, t < s + Capacity
    PROVE  Slot(s) # Slot(t)
<1>1. s \in Int /\ t \in Int
  OBVIOUS
<1>2. s % Capacity = t % Capacity => s + Capacity <= t
  BY <1>1, SlotsRepeatByLaps, Zenon
<1> QED
  BY <1>2 DEF Slot

(* Writing the slot of u leaves alone every other ticket of its lap. *)
LEMMA WriteElsewhere ==
    ASSUME NEW u \in Nat, NEW t \in Nat, NEW v,
           t # u, t < u + Capacity, u < t + Capacity,
           DOMAIN buffer = 0 .. Capacity - 1
    PROVE  [buffer EXCEPT ![Slot(u)] = v][Slot(t)] = buffer[Slot(t)]
<1>1. Slot(t) # Slot(u)
  BY SlotsDiffer
<1>2. Slot(t) \in 0 .. Capacity - 1
  BY SlotInRing
<1> QED
  BY <1>1, <1>2

LEMMA HeadLoaded ==
    ASSUME cachedHead \in Nat, head \in Nat, cachedHead <= head, NEW h \in HeadLoads
    PROVE  h \in Nat /\ cachedHead <= h /\ h <= head
BY DEF HeadLoads

LEMMA TailLoaded ==
    ASSUME cachedTail \in Nat, tail \in Nat, cachedTail <= tail, NEW t \in TailLoads
    PROVE  t \in Nat /\ cachedTail <= t /\ t <= tail
BY DEF TailLoads

LEMMA AimIsThere ==
    ASSUME NEW t \in Nat, head \in Nat, want \in Nat, head <= t
    PROVE  Aim(t) \in Nat /\ head + Aim(t) <= t
<1>1. CASE want = 0
  <2> DEFINE d == t - head
  <2>1. d \in Nat
    OBVIOUS
  <2>2. d = 2 * (d \div 2) + (d % 2) /\ d \div 2 \in Int /\ d % 2 \in 0 .. 1
    BY <2>1, DivMod
  <2>3. Aim(t) = d \div 2
    BY <1>1 DEF Aim
  <2> HIDE DEF d
  <2>4. d \div 2 \in Nat /\ d \div 2 <= d
    BY <2>1, <2>2
  <2> QED
    BY <2>3, <2>4 DEF d
<1>2. CASE want # 0
  BY <1>2 DEF Aim, Smaller
<1> QED
  BY <1>1, <1>2

-----------------------------------------------------------------------------
(* The initial states *)

LEMMA IInvInit == Init => IInv
<1> SUFFICES ASSUME Init PROVE IInv
  OBVIOUS
<1>1. TypeOK
  BY DEF Init, TypeOK
<1>2. CountersInOrder /\ RingInv
  BY DEF Init, CountersInOrder, RingInv
<1>3. ProducerInv /\ ConsumerInv /\ HistoryInv
  BY DEF Init, ProducerInv, ConsumerInv, HistoryInv, Returned
<1> QED
  BY <1>1, <1>2, <1>3 DEF IInv

-----------------------------------------------------------------------------
(* The other side is not disturbed *)

LEMMA ConsumerStays ==
    ASSUME IInv, UNCHANGED <<head, consumer, delivered>>,
           \A i \in 1 .. tail : log'[i] = log[i]
    PROVE  ConsumerInv' /\ HistoryInv'
<1>1. /\ head \in Nat /\ tail \in Nat /\ cachedTail \in Nat /\ n \in Nat
      /\ copied \in Seq(Values \union {Empty})
      /\ head <= cachedTail /\ cachedTail <= tail
      /\ DOMAIN delivered \subseteq Nat
  BY DEF IInv, TypeOK, CountersInOrder
<1>2. /\ head' = head /\ cachedTail' = cachedTail /\ cpc' = cpc /\ n' = n /\ copied' = copied
      /\ delivered' = delivered
  BY DEF consumer
<1>3. ConsumerInv
  BY DEF IInv
<1>4. ConsumerInv'
  <2>1. Len(copied) \in Nat
    BY <1>1
  <2>2. ASSUME cpc = "read" PROVE HasRead(head, Len(copied))'
    <3>1. head + Len(copied) <= tail /\ HasRead(head, Len(copied))
      BY <1>1, <1>3, <2>1, <2>2 DEF ConsumerInv
    <3> QED
      BY <1>1, <1>2, <2>1, <3>1 DEF HasRead
  <2>3. ASSUME cpc = "store" PROVE HasRead(head, n)'
    <3>1. head + n <= tail /\ HasRead(head, n)
      BY <1>1, <1>3, <2>3 DEF ConsumerInv
    <3> QED
      BY <1>1, <1>2, <3>1 DEF HasRead
  <2>4. ASSUME cpc = "return" PROVE HasRead(head - n, n)'
    <3>1. n <= head /\ head <= tail /\ HasRead(head - n, n)
      BY <1>1, <1>3, <2>4 DEF ConsumerInv
    <3> QED
      BY <1>1, <1>2, <3>1 DEF HasRead
  <2> QED
    BY <1>2, <1>3, <2>2, <2>3, <2>4 DEF ConsumerInv
<1>5. HistoryInv'
  <2>1. HistoryInv /\ Returned <= head /\ Returned' = Returned
    BY <1>1, <1>2 DEF IInv, Returned
  <2> QED
    BY <1>1, <1>2, <2>1 DEF HistoryInv, Returned
<1> QED
  BY <1>4, <1>5

LEMMA ProducerStays ==
    ASSUME ProducerInv, UNCHANGED <<tail, buffer, producer>>
    PROVE  ProducerInv'
BY DEF ProducerInv, producer

-----------------------------------------------------------------------------
(* The producer's steps *)

LEMMA BeginStep ==
    ASSUME IInv,
           NEW o \in {"one", "many", "unchecked", "copyAndCommitIf"},
           NEW values \in Seq(Values), Len(values) >= 1, o = "one" => Len(values) = 1,
           NEW place \in {"write", "refresh"},
           place = "write" => Fits(cachedHead, Len(values)),
           Begin(o, values, place)
    PROVE  IInv'
<1>1. /\ UNCHANGED <<tail, head, buffer, cachedHead, cachedTail, log, delivered, consumer>>
      /\ UNCHANGED <<cpc, want, n, copied>>
      /\ ppc' = place /\ op' = o /\ batch' = values /\ written' = 0
  BY DEF Begin, ring, consumer
<1>2. TypeOK' /\ CountersInOrder' /\ RingInv'
  BY <1>1 DEF IInv, TypeOK, CountersInOrder, RingInv
<1>3. ProducerInv'
  <2>1. place = "write" => tail + Len(values) <= cachedHead + Capacity
    <3>1. tail \in Nat /\ cachedHead \in Nat /\ Len(values) \in Nat
      BY DEF IInv, TypeOK
    <3> QED
      BY <3>1 DEF Fits
  <2> QED
    BY <1>1, <2>1 DEF ProducerInv
<1>4. ConsumerInv' /\ HistoryInv'
  BY <1>1, ConsumerStays
<1> QED
  BY <1>2, <1>3, <1>4 DEF IInv

LEMMA RefreshHeadStep == IInv /\ RefreshHead => IInv'
<1> SUFFICES ASSUME IInv, RefreshHead PROVE IInv'
  OBVIOUS
<1>1. /\ UNCHANGED <<tail, head, buffer, written, cachedTail, log, delivered, consumer>>
      /\ UNCHANGED <<cpc, want, n, copied>>
  BY DEF RefreshHead, ring, consumer
<1>2. /\ tail \in Nat /\ head \in Nat /\ cachedHead \in Nat /\ batch \in Seq(Values)
      /\ cachedHead <= head /\ tail <= cachedHead + Capacity
  BY DEF IInv, TypeOK, CountersInOrder
<1>3. PICK h \in HeadLoads :
        /\ cachedHead' = h
        /\ \/ /\ IF op = "one" THEN h # cachedHead ELSE Fits(h, Len(batch))
              /\ ppc' = "write" /\ op' = op /\ batch' = batch
           \/ ppc' = "idle" /\ op' = "none" /\ batch' = <<>>
  BY DEF RefreshHead
<1>4. h \in Nat /\ cachedHead <= h /\ h <= head
  BY <1>2, HeadLoaded
<1>5. TypeOK'
  <2>1. TypeOK
    BY DEF IInv
  <2>2. cachedHead' \in Nat
    BY <1>3, <1>4
  <2>3. batch' = batch \/ batch' = <<>>
    BY <1>3
  <2>4. batch' \in Seq(Values)
    <3>1. <<>> \in Seq(Values)
      OBVIOUS
    <3> QED
      BY <1>2, <2>3, <3>1, Zenon
  <2>5. ppc' \in {"idle", "write"} /\ op' \in {"none", op}
    BY <1>3
  <2> QED
    BY <1>1, <2>1, <2>2, <2>4, <2>5 DEF TypeOK
<1>6. CountersInOrder' /\ RingInv'
  BY <1>1, <1>2, <1>3, <1>4 DEF IInv, CountersInOrder, RingInv
<1>7. ProducerInv'
  <2>1. ppc = "refresh" /\ Len(batch) >= 1 /\ written = 0 /\ (op = "one" => Len(batch) = 1)
    BY DEF RefreshHead, IInv, ProducerInv
  <2>2. CASE ppc' = "idle" /\ op' = "none" /\ batch' = <<>>
    BY <2>2 DEF ProducerInv
  <2>3. CASE /\ IF op = "one" THEN h # cachedHead ELSE Fits(h, Len(batch))
             /\ ppc' = "write" /\ op' = op /\ batch' = batch
    <3>1. Len(batch) \in Nat
      BY <1>2
    <3>2. ASSUME op = "one" PROVE tail + Len(batch) <= h + Capacity
      <4>1. h # cachedHead /\ Len(batch) = 1
        BY <2>1, <2>3, <3>2
      <4> QED
        BY <1>2, <1>4, <4>1
    <3>3. ASSUME op # "one" PROVE tail + Len(batch) <= h + Capacity
      <4>1. Fits(h, Len(batch))
        BY <2>3, <3>3
      <4> QED
        BY <1>2, <1>4, <3>1, <4>1 DEF Fits
    <3>4. tail + Len(batch) <= h + Capacity
      BY <3>2, <3>3
    <3> QED
      BY <1>1, <1>3, <2>1, <2>3, <3>4 DEF ProducerInv
  <2> QED
    BY <1>3, <2>2, <2>3
<1>8. ConsumerInv' /\ HistoryInv'
  BY <1>1, ConsumerStays
<1> QED
  BY <1>5, <1>6, <1>7, <1>8 DEF IInv

LEMMA WriteNextStep == IInv /\ WriteNext => IInv'
<1> SUFFICES ASSUME IInv, WriteNext PROVE IInv'
  OBVIOUS
<1>1. /\ UNCHANGED <<tail, head, cachedHead, op, batch, cachedTail, log, delivered, consumer>>
      /\ UNCHANGED <<cpc, want, n, copied>>
      /\ ppc = "write" /\ written' = written + 1
      /\ ppc' = IF written + 1 = Len(batch) THEN "publish" ELSE "write"
      /\ buffer' = [buffer EXCEPT ![Slot(tail + written)] = batch[written + 1]]
  BY DEF WriteNext, consumer
<1>2. /\ tail \in Nat /\ head \in Nat /\ cachedHead \in Nat /\ written \in Nat
      /\ batch \in Seq(Values) /\ Len(batch) \in Nat
      /\ buffer \in [0 .. Capacity - 1 -> Values \union {Empty}]
      /\ cachedHead <= head /\ head <= tail
      /\ written < Len(batch) /\ tail + Len(batch) <= cachedHead + Capacity
      /\ \A i \in 1 .. written : buffer[Slot(tail + i - 1)] = batch[i]
  BY <1>1 DEF IInv, TypeOK, CountersInOrder, ProducerInv
<1>3. batch[written + 1] \in Values
  BY <1>2
<1>4. ASSUME NEW t \in head .. tail + written - 1
      PROVE  buffer'[Slot(t)] = buffer[Slot(t)]
  <2>1. t \in Nat /\ tail + written \in Nat
    BY <1>2
  <2>2. t # tail + written /\ t < tail + written + Capacity /\ tail + written < t + Capacity
    BY <1>2
  <2>3. DOMAIN buffer = 0 .. Capacity - 1
    BY <1>2
  <2> QED
    BY <1>1, <2>1, <2>2, <2>3, WriteElsewhere
<1>5. buffer'[Slot(tail + written)] = batch[written + 1]
  <2>1. tail + written \in Nat
    BY <1>2
  <2>2. Slot(tail + written) \in 0 .. Capacity - 1
    BY <2>1, SlotInRing
  <2> QED
    BY <1>1, <1>2, <2>2
<1>6. TypeOK'
  <2>1. TypeOK
    BY DEF IInv
  <2>2. buffer' \in [0 .. Capacity - 1 -> Values \union {Empty}]
    BY <1>1, <1>2, <1>3
  <2>3. written' \in Nat
    BY <1>1, <1>2
  <2>4. ppc' \in {"publish", "write"}
    BY <1>1
  <2> QED
    BY <1>1, <2>1, <2>2, <2>3, <2>4 DEF TypeOK
<1>7. CountersInOrder' /\ RingInv'
  <2>1. CountersInOrder'
    BY <1>1 DEF IInv, CountersInOrder
  <2>2. ASSUME NEW t \in head .. tail - 1
        PROVE  buffer'[Slot(t)] = log[t + 1]
    <3>1. t \in head .. tail + written - 1
      BY <1>2
    <3> QED
      BY <1>4, <3>1 DEF IInv, RingInv
  <2> QED
    BY <1>1, <2>1, <2>2 DEF IInv, RingInv, Slot
<1>8. ProducerInv'
  <2>1. \A i \in 1 .. written + 1 : buffer'[Slot(tail + i - 1)] = batch[i]
    <3> SUFFICES ASSUME NEW i \in 1 .. written + 1
                 PROVE  buffer'[Slot(tail + i - 1)] = batch[i]
      OBVIOUS
    <3>1. CASE i <= written
      <4>1. i \in 1 .. written /\ tail + i - 1 \in head .. tail + written - 1
        BY <1>2, <3>1
      <4> QED
        BY <1>2, <1>4, <4>1
    <3>2. CASE i = written + 1
      <4>1. tail + i - 1 = tail + written
        BY <1>2, <3>2
      <4> QED
        BY <1>5, <3>2, <4>1
    <3> QED
      BY <1>2, <3>1, <3>2
  <2>2. Len(batch) >= 1 /\ (op = "one" => Len(batch) = 1)
    BY <1>1 DEF IInv, ProducerInv
  <2> QED
    BY <1>1, <1>2, <2>1, <2>2 DEF ProducerInv, Slot
<1>9. ConsumerInv' /\ HistoryInv'
  BY <1>1, ConsumerStays
<1> QED
  BY <1>6, <1>7, <1>8, <1>9 DEF IInv

LEMMA StoreTailStep == IInv /\ StoreTail => IInv'
<1> SUFFICES ASSUME IInv, StoreTail PROVE IInv'
  OBVIOUS
<1>1. /\ UNCHANGED <<head, buffer, cachedHead, cachedTail, delivered, consumer>>
      /\ UNCHANGED <<cpc, want, n, copied>>
      /\ ppc = "publish" /\ tail' = tail + Len(batch) /\ log' = log \o batch
      /\ ppc' = "idle" /\ op' = "none" /\ batch' = <<>> /\ written' = 0
  BY DEF StoreTail, EndPush, consumer
<1>2. /\ tail \in Nat /\ head \in Nat /\ cachedHead \in Nat /\ cachedTail \in Nat
      /\ batch \in Seq(Values) /\ Len(batch) \in Nat /\ log \in Seq(Values) /\ Len(log) = tail
      /\ cachedHead <= head /\ head <= cachedTail /\ cachedTail <= tail
      /\ written = Len(batch) /\ tail + Len(batch) <= cachedHead + Capacity
      /\ \A i \in 1 .. written : buffer[Slot(tail + i - 1)] = batch[i]
      /\ \A t \in head .. tail - 1 : buffer[Slot(t)] = log[t + 1]
  BY <1>1 DEF IInv, TypeOK, CountersInOrder, ProducerInv, RingInv
<1>3. /\ log' \in Seq(Values) /\ Len(log') = tail + Len(batch)
      /\ \A i \in 1 .. tail : log'[i] = log[i]
      /\ \A i \in 1 .. Len(batch) : log'[tail + i] = batch[i]
  <2>1. log \o batch \in Seq(Values) /\ Len(log \o batch) = Len(log) + Len(batch)
    BY <1>2
  <2>2. \A i \in 1 .. Len(log) : (log \o batch)[i] = log[i]
    BY <1>2
  <2>3. \A i \in 1 .. Len(batch) : (log \o batch)[Len(log) + i] = batch[i]
    BY <1>2
  <2> QED
    BY <1>1, <1>2, <2>1, <2>2, <2>3
<1>4. TypeOK'
  <2>1. TypeOK
    BY DEF IInv
  <2>2. tail' \in Nat /\ batch' \in Seq(Values) /\ log' \in Seq(Values)
    BY <1>1, <1>2, <1>3
  <2> QED
    BY <1>1, <2>1, <2>2 DEF TypeOK
<1>5. CountersInOrder'
  BY <1>1, <1>2 DEF CountersInOrder
<1>6. RingInv'
  <2>1. ASSUME NEW t \in head .. tail + Len(batch) - 1
        PROVE  buffer[Slot(t)] = log'[t + 1]
    <3>1. CASE t < tail
      BY <1>2, <1>3, <3>1
    <3>2. CASE t >= tail
      <4> DEFINE i == t - tail + 1
      <4>1. i \in 1 .. Len(batch) /\ tail + i = t + 1 /\ tail + i - 1 = t
        BY <1>2, <3>2
      <4> HIDE DEF i
      <4>2. buffer[Slot(tail + i - 1)] = batch[i] /\ log'[tail + i] = batch[i]
        BY <1>2, <1>3, <4>1
      <4> QED
        BY <4>1, <4>2
    <3> QED
      BY <1>2, <3>1, <3>2
  <2> QED
    BY <1>1, <1>2, <1>3, <2>1 DEF RingInv
<1>7. ProducerInv'
  BY <1>1 DEF ProducerInv
<1>8. ConsumerInv' /\ HistoryInv'
  BY <1>1, <1>3, ConsumerStays
<1> QED
  BY <1>4, <1>5, <1>6, <1>7, <1>8 DEF IInv

LEMMA DoNotCommitStep == IInv /\ DoNotCommit => IInv'
<1> SUFFICES ASSUME IInv, DoNotCommit PROVE IInv'
  OBVIOUS
<1>1. /\ UNCHANGED <<tail, head, buffer, cachedHead, cachedTail, log, delivered, consumer>>
      /\ UNCHANGED <<cpc, want, n, copied>>
      /\ ppc' = "idle" /\ op' = "none" /\ batch' = <<>> /\ written' = 0
  BY DEF DoNotCommit, EndPush, ring, consumer
<1>2. TypeOK' /\ CountersInOrder' /\ RingInv'
  BY <1>1 DEF IInv, TypeOK, CountersInOrder, RingInv
<1>3. ProducerInv'
  BY <1>1 DEF ProducerInv
<1>4. ConsumerInv' /\ HistoryInv'
  BY <1>1, ConsumerStays
<1> QED
  BY <1>2, <1>3, <1>4 DEF IInv

LEMMA ProducerLenStep == IInv /\ ProducerLen => IInv'
<1> SUFFICES ASSUME IInv, ProducerLen PROVE IInv'
  OBVIOUS
<1>1. /\ UNCHANGED <<tail, head, buffer, cachedTail, log, delivered, consumer>>
      /\ UNCHANGED <<cpc, want, n, copied>>
      /\ UNCHANGED <<ppc, op, batch, written>>
      /\ ppc = "idle" /\ cachedHead' \in HeadLoads
  BY DEF ProducerLen, ring, consumer
<1>2. /\ tail \in Nat /\ head \in Nat /\ cachedHead \in Nat
      /\ cachedHead <= head /\ tail <= cachedHead + Capacity
  BY DEF IInv, TypeOK, CountersInOrder
<1>3. cachedHead' \in Nat /\ cachedHead <= cachedHead' /\ cachedHead' <= head
  BY <1>1, <1>2, HeadLoaded
<1>4. TypeOK' /\ CountersInOrder' /\ RingInv'
  <2>1. TypeOK'
    BY <1>1, <1>3 DEF IInv, TypeOK
  <2>2. CountersInOrder'
    <3>1. head <= cachedTail /\ cachedTail <= tail
      BY DEF IInv, CountersInOrder
    <3>2. \A h \in Nat : cachedHead <= h /\ h <= head => tail <= h + Capacity
      BY <1>2
    <3> QED
      BY <1>1, <1>3, <3>1, <3>2 DEF CountersInOrder
  <2>3. RingInv'
    BY <1>1 DEF IInv, RingInv
  <2> QED
    BY <2>1, <2>2, <2>3
<1>5. ProducerInv'
  BY <1>1 DEF IInv, ProducerInv
<1>6. ConsumerInv' /\ HistoryInv'
  BY <1>1, ConsumerStays
<1> QED
  BY <1>4, <1>5, <1>6 DEF IInv
-----------------------------------------------------------------------------
(* The consumer's steps *)

LEMMA StartPopManyStep ==
    ASSUME IInv, NEW k \in DstLens, StartPopMany(k)
    PROVE  IInv'
<1>1. /\ UNCHANGED <<tail, head, buffer, cachedHead, cachedTail, copied, log, delivered, producer>>
      /\ UNCHANGED <<ppc, op, batch, written>>
      /\ cpc = "idle" /\ want' = k /\ n' = Smaller(k, cachedTail - head)
      /\ cpc' = IF cachedTail - head < k THEN "refresh" ELSE "read"
  BY DEF StartPopMany, ring, producer
<1>2. /\ tail \in Nat /\ head \in Nat /\ cachedTail \in Nat /\ head <= cachedTail
      /\ k \in Nat /\ k >= 1 /\ copied = <<>>
  BY <1>1, LensAssumption DEF IInv, TypeOK, CountersInOrder, ConsumerInv
<1>3. n' \in Nat /\ (cpc' = "read" => n' >= 1 /\ head + n' <= cachedTail)
  <2>1. CASE cachedTail - head < k
    <3>1. n' = cachedTail - head /\ cpc' = "refresh"
      BY <1>1, <1>2, <2>1 DEF Smaller
    <3> QED
      BY <1>2, <3>1
  <2>2. CASE ~(cachedTail - head < k)
    <3>1. n' = k
      BY <1>1, <1>2, <2>2 DEF Smaller
    <3> QED
      BY <1>2, <2>2, <3>1
  <2> QED
    BY <2>1, <2>2
<1>4. TypeOK'
  <2>1. cpc' \in {"refresh", "read"} /\ want' \in Nat
    BY <1>1, <1>2
  <2> QED
    BY <1>1, <1>3, <2>1 DEF IInv, TypeOK
<1>5. CountersInOrder' /\ RingInv'
  BY <1>1 DEF IInv, CountersInOrder, RingInv
<1>6. ProducerInv'
  BY <1>1, ProducerStays DEF IInv
<1>7. ConsumerInv'
  <2>1. Len(copied) = 0 /\ cpc' \in {"refresh", "read"}
    BY <1>1, <1>2
  <2>2. HasRead(head, Len(copied))'
    BY <1>1, <1>2, <2>1 DEF HasRead
  <2> QED
    BY <1>1, <1>2, <1>3, <2>1, <2>2 DEF ConsumerInv
<1>8. HistoryInv'
  BY <1>1 DEF IInv, HistoryInv, Returned
<1> QED
  BY <1>4, <1>5, <1>6, <1>7, <1>8 DEF IInv

LEMMA StartStealStep == IInv /\ StartSteal => IInv'
<1> SUFFICES ASSUME IInv, StartSteal PROVE IInv'
  OBVIOUS
<1>1. /\ UNCHANGED <<tail, head, buffer, cachedHead, cachedTail, n, copied, log, delivered>>
      /\ UNCHANGED <<ppc, op, batch, written, producer>>
      /\ cpc = "idle" /\ want' = 0 /\ cpc' = "refresh"
  BY DEF StartSteal, ring, producer
<1>2. TypeOK' /\ CountersInOrder' /\ RingInv'
  BY <1>1 DEF IInv, TypeOK, CountersInOrder, RingInv
<1>3. ProducerInv'
  BY <1>1, ProducerStays DEF IInv
<1>4. ConsumerInv' /\ HistoryInv'
  BY <1>1 DEF IInv, ConsumerInv, HistoryInv, Returned
<1> QED
  BY <1>2, <1>3, <1>4 DEF IInv

LEMMA RefreshTailStep == IInv /\ RefreshTail => IInv'
<1> SUFFICES ASSUME IInv, RefreshTail PROVE IInv'
  OBVIOUS
<1>1. /\ UNCHANGED <<tail, head, buffer, cachedHead, log, delivered, producer>>
      /\ UNCHANGED <<ppc, op, batch, written>>
      /\ cpc = "refresh"
  BY DEF RefreshTail, ring, producer
<1>2. /\ tail \in Nat /\ head \in Nat /\ cachedTail \in Nat /\ want \in Nat
      /\ head <= cachedTail /\ cachedTail <= tail /\ copied = <<>>
  BY <1>1 DEF IInv, TypeOK, CountersInOrder, ConsumerInv
<1>3. PICK t \in TailLoads :
        LET few == IF want = 0 THEN MinSteal ELSE 1
        IN  /\ cachedTail' = t
            /\ \/ Aim(t) < few /\ EndPop
               \/ Aim(t) >= few /\ n' = Aim(t) /\ cpc' = "read" /\ UNCHANGED <<want, copied>>
  BY DEF RefreshTail
<1>4. t \in Nat /\ cachedTail <= t /\ t <= tail
  BY <1>2, TailLoaded
<1>5. Aim(t) \in Nat /\ head + Aim(t) <= t
  BY <1>2, <1>4, AimIsThere
<1>6. /\ cachedTail' = t
      /\ copied' = <<>> /\ n' \in Nat /\ want' \in Nat
      /\ \/ cpc' = "idle"
         \/ cpc' = "read" /\ n' >= 1 /\ head + n' <= t
  <2>1. CASE EndPop
    BY <1>3, <2>1 DEF EndPop
  <2>2. CASE /\ Aim(t) >= IF want = 0 THEN MinSteal ELSE 1
             /\ n' = Aim(t) /\ cpc' = "read" /\ UNCHANGED <<want, copied>>
    <3>1. Aim(t) >= 1
      BY <1>5, <2>2, LensAssumption
    <3> QED
      BY <1>2, <1>3, <1>5, <2>2, <3>1
  <2> QED
    BY <1>3, <2>1, <2>2
<1>7. TypeOK'
  <2>1. copied' \in Seq(Values \union {Empty}) /\ cachedTail' \in Nat
    BY <1>4, <1>6
  <2>2. cpc' \in {"idle", "read"}
    BY <1>6
  <2> QED
    BY <1>1, <1>6, <2>1, <2>2 DEF IInv, TypeOK
<1>8. CountersInOrder'
  <2>1. head <= t /\ cachedHead <= head /\ tail <= cachedHead + Capacity
    BY <1>2, <1>4 DEF IInv, CountersInOrder
  <2> QED
    BY <1>1, <1>4, <1>6, <2>1 DEF CountersInOrder
<1>9. RingInv'
  BY <1>1 DEF IInv, RingInv
<1>10. ProducerInv'
  BY <1>1, ProducerStays DEF IInv
<1>11. ConsumerInv'
  <2>1. Len(copied') = 0
    BY <1>6
  <2>2. HasRead(head, Len(copied))'
    BY <1>1, <2>1 DEF HasRead
  <2> QED
    BY <1>1, <1>6, <2>1, <2>2 DEF ConsumerInv
<1>12. HistoryInv'
  BY <1>1, <1>6 DEF IInv, HistoryInv, Returned
<1> QED
  BY <1>7, <1>8, <1>9, <1>10, <1>11, <1>12 DEF IInv

LEMMA ReadNextStep == IInv /\ ReadNext => IInv'
<1> SUFFICES ASSUME IInv, ReadNext PROVE IInv'
  OBVIOUS
<1> DEFINE m == Len(copied)
<1>1. /\ UNCHANGED <<tail, head, buffer, cachedHead, cachedTail, want, n, log, delivered>>
      /\ UNCHANGED <<ppc, op, batch, written, producer>>
      /\ cpc = "read" /\ copied' = Append(copied, buffer[Slot(head + m)])
      /\ cpc' = IF m + 1 = n THEN "store" ELSE "read"
  BY DEF ReadNext, ring, producer
<1>2. /\ tail \in Nat /\ head \in Nat /\ cachedTail \in Nat /\ n \in Nat /\ m \in Nat
      /\ copied \in Seq(Values \union {Empty})
      /\ buffer \in [0 .. Capacity - 1 -> Values \union {Empty}]
      /\ cachedTail <= tail /\ n >= 1 /\ head + n <= cachedTail
      /\ m < n /\ HasRead(head, m)
      /\ \A t \in head .. tail - 1 : buffer[Slot(t)] = log[t + 1]
  BY <1>1 DEF IInv, TypeOK, CountersInOrder, ConsumerInv, RingInv
<1>3. buffer[Slot(head + m)] = log[head + m + 1]
  <2>1. head + m \in head .. tail - 1
    BY <1>2
  <2> QED
    BY <1>2, <2>1
<1>4. buffer[Slot(head + m)] \in Values \union {Empty}
  <2>1. head + m \in Nat
    BY <1>2
  <2>2. Slot(head + m) \in 0 .. Capacity - 1
    BY <2>1, SlotInRing
  <2> QED
    BY <1>2, <2>2
<1>5. copied' \in Seq(Values \union {Empty})
  BY <1>1, <1>2, <1>4
<1>6. Len(copied') = m + 1
  BY <1>1, <1>2
<1>7. \A i \in 1 .. m + 1 : copied'[i] = log[head + i]
  <2> SUFFICES ASSUME NEW i \in 1 .. m + 1 PROVE copied'[i] = log[head + i]
    OBVIOUS
  <2>1. CASE i <= m
    <3>1. i \in 1 .. m /\ copied[i] = log[head + i]
      BY <1>2, <2>1 DEF HasRead
    <3>2. Append(copied, buffer[Slot(head + m)])[i] = copied[i]
      BY <1>2, <3>1
    <3> QED
      BY <1>1, <3>1, <3>2
  <2>2. CASE i = m + 1
    <3>1. Append(copied, buffer[Slot(head + m)])[m + 1] = buffer[Slot(head + m)]
      BY <1>2
    <3>2. head + i = head + m + 1
      BY <1>2, <2>2
    <3> QED
      BY <1>1, <1>3, <2>2, <3>1, <3>2
  <2> QED
    BY <1>2, <2>1, <2>2
<1> HIDE DEF m
<1>8. TypeOK'
  <2>1. cpc' \in {"store", "read"}
    BY <1>1
  <2> QED
    BY <1>1, <1>5, <2>1 DEF IInv, TypeOK
<1>9. CountersInOrder' /\ RingInv'
  BY <1>1 DEF IInv, CountersInOrder, RingInv
<1>10. ProducerInv'
  BY <1>1, ProducerStays DEF IInv
<1>11. ConsumerInv'
  <2>1. HasRead(head, Len(copied))'
    BY <1>1, <1>6, <1>7 DEF HasRead
  <2>2. cpc' = "store" => HasRead(head, n)'
    BY <1>1, <1>6, <1>7 DEF HasRead
  <2>3. cpc' = "read" => m + 1 < n
    BY <1>1, <1>2
  <2> QED
    BY <1>1, <1>2, <1>6, <2>1, <2>2, <2>3 DEF ConsumerInv
<1>12. HistoryInv'
  BY <1>1 DEF IInv, HistoryInv, Returned
<1> QED
  BY <1>8, <1>9, <1>10, <1>11, <1>12 DEF IInv

LEMMA StoreHeadStep == IInv /\ StoreHead => IInv'
<1> SUFFICES ASSUME IInv, StoreHead PROVE IInv'
  OBVIOUS
<1>1. /\ UNCHANGED <<tail, buffer, cachedHead, cachedTail, want, n, copied, log, delivered>>
      /\ UNCHANGED <<ppc, op, batch, written, producer>>
      /\ cpc = "store" /\ cpc' = "return" /\ head' = head + n
  BY DEF StoreHead, producer
<1>2. /\ tail \in Nat /\ head \in Nat /\ cachedHead \in Nat /\ cachedTail \in Nat /\ n \in Nat
      /\ cachedHead <= head /\ cachedTail <= tail /\ tail <= cachedHead + Capacity
      /\ n >= 1 /\ head + n <= cachedTail /\ HasRead(head, n)
  BY <1>1 DEF IInv, TypeOK, CountersInOrder, ConsumerInv
<1>3. TypeOK'
  <2>1. head' \in Nat
    BY <1>1, <1>2
  <2> QED
    BY <1>1, <2>1 DEF IInv, TypeOK
<1>4. CountersInOrder'
  BY <1>1, <1>2 DEF CountersInOrder
<1>5. RingInv'
  <2>1. \A t \in head + n .. tail - 1 : t \in head .. tail - 1
    BY <1>2
  <2> QED
    BY <1>1, <2>1 DEF IInv, RingInv, Slot
<1>6. ProducerInv'
  BY <1>1, ProducerStays DEF IInv
<1>7. ConsumerInv'
  <2>1. head' - n' = head /\ n' <= head'
    BY <1>1, <1>2
  <2>2. HasRead(head - n, n)'
    BY <1>1, <1>2, <2>1 DEF HasRead
  <2> QED
    BY <1>1, <1>2, <2>1, <2>2 DEF ConsumerInv
<1>8. HistoryInv'
  <2>1. Returned' = head /\ Returned = head
    BY <1>1, <1>2 DEF Returned
  <2> QED
    BY <1>1, <2>1 DEF IInv, HistoryInv
<1> QED
  BY <1>3, <1>4, <1>5, <1>6, <1>7, <1>8 DEF IInv

(* What a Return delivers: the values of the tickets it has just claimed. *)
LEMMA ReturnDelivers ==
    ASSUME IInv, Return
    PROVE  /\ \A t \in DOMAIN delivered : t < head - n
           /\ DOMAIN delivered' = DOMAIN delivered \union (head - n .. head - 1)
           /\ \A t \in DOMAIN delivered : delivered'[t] = delivered[t]
           /\ \A t \in head - n .. head - 1 : delivered'[t] = log[t + 1]
<1>1. /\ cpc = "return"
      /\ delivered' = [t \in DOMAIN delivered \union (head - n .. head - 1) |->
                          IF t >= head - n THEN copied[t - (head - n) + 1] ELSE delivered[t]]
  BY DEF Return
<1>2. /\ head \in Nat /\ n \in Nat /\ n <= head /\ HasRead(head - n, n)
      /\ DOMAIN delivered \subseteq Nat
  BY <1>1 DEF IInv, TypeOK, ConsumerInv
<1>3. \A t \in DOMAIN delivered : t < head - n
  BY <1>1 DEF IInv, HistoryInv, Returned
<1>4. \A t \in DOMAIN delivered : delivered'[t] = delivered[t]
  <2>1. \A t \in DOMAIN delivered : ~(t >= head - n)
    BY <1>2, <1>3
  <2> QED
    BY <1>1, <2>1
<1>5. ASSUME NEW t \in head - n .. head - 1 PROVE delivered'[t] = log[t + 1]
  <2> DEFINE i == t - (head - n) + 1
  <2>1. i \in 1 .. n /\ head - n + i = t + 1 /\ t >= head - n
    BY <1>2
  <2>2. delivered'[t] = copied[i]
    BY <1>1, <2>1
  <2> HIDE DEF i
  <2>3. copied[i] = log[head - n + i]
    BY <1>2, <2>1 DEF HasRead
  <2> QED
    BY <2>1, <2>2, <2>3
<1> QED
  BY <1>1, <1>3, <1>4, <1>5

LEMMA ReturnStep == IInv /\ Return => IInv'
<1> SUFFICES ASSUME IInv, Return PROVE IInv'
  OBVIOUS
<1>1. /\ UNCHANGED <<tail, head, buffer, cachedHead, cachedTail, log>>
      /\ UNCHANGED <<ppc, op, batch, written, producer>>
      /\ cpc = "return" /\ cpc' = "idle" /\ want' = 0 /\ n' = 0 /\ copied' = <<>>
  BY DEF Return, EndPop, ring, producer
<1>2. head \in Nat /\ n \in Nat /\ n <= head /\ DOMAIN delivered \subseteq Nat
  BY <1>1 DEF IInv, TypeOK, ConsumerInv
<1>3. TypeOK'
  <2>1. head - n .. head - 1 \subseteq Nat
    BY <1>2
  <2>2. DOMAIN delivered' \subseteq Nat
    BY <1>2, <2>1, ReturnDelivers
  <2>3. copied' \in Seq(Values \union {Empty})
    BY <1>1
  <2> QED
    BY <1>1, <2>2, <2>3 DEF IInv, TypeOK
<1>4. CountersInOrder' /\ RingInv'
  BY <1>1 DEF IInv, CountersInOrder, RingInv
<1>5. ProducerInv'
  BY <1>1, ProducerStays DEF IInv
<1>6. ConsumerInv'
  BY <1>1 DEF ConsumerInv
<1>7. HistoryInv'
  <2>1. Returned' = head
    BY <1>1 DEF Returned
  <2>2. ASSUME NEW t \in DOMAIN delivered PROVE t < head /\ delivered'[t] = log[t + 1]
    <3>1. t \in Nat /\ t < head - n /\ delivered'[t] = delivered[t]
      BY <1>2, ReturnDelivers
    <3> QED
      BY <1>2, <3>1 DEF IInv, HistoryInv
  <2>3. ASSUME NEW t \in head - n .. head - 1 PROVE t < head /\ delivered'[t] = log[t + 1]
    BY <1>2, ReturnDelivers
  <2> QED
    BY <1>1, <2>1, <2>2, <2>3, ReturnDelivers DEF HistoryInv
<1> QED
  BY <1>3, <1>4, <1>5, <1>6, <1>7 DEF IInv

LEMMA ConsumerLenStep == IInv /\ ConsumerLen => IInv'
<1> SUFFICES ASSUME IInv, ConsumerLen PROVE IInv'
  OBVIOUS
<1>1. /\ UNCHANGED <<tail, head, buffer, cachedHead, cpc, want, n, copied, log, delivered>>
      /\ UNCHANGED <<ppc, op, batch, written, producer>>
      /\ cpc = "idle" /\ cachedTail' \in TailLoads
  BY DEF ConsumerLen, ring, producer
<1>2. /\ tail \in Nat /\ head \in Nat /\ cachedTail \in Nat
      /\ head <= cachedTail /\ cachedTail <= tail
  BY DEF IInv, TypeOK, CountersInOrder
<1>3. cachedTail' \in Nat /\ cachedTail <= cachedTail' /\ cachedTail' <= tail
  BY <1>1, <1>2, TailLoaded
<1>4. TypeOK'
  BY <1>1, <1>3 DEF IInv, TypeOK
<1>5. CountersInOrder'
  <2>1. \A t \in Nat : cachedTail <= t => head <= t
    BY <1>2
  <2> QED
    BY <1>1, <1>3, <2>1 DEF IInv, CountersInOrder
<1>6. RingInv'
  BY <1>1 DEF IInv, RingInv
<1>7. ProducerInv'
  BY <1>1, ProducerStays DEF IInv
<1>8. ConsumerInv' /\ HistoryInv'
  BY <1>1 DEF IInv, ConsumerInv, HistoryInv, Returned
<1> QED
  BY <1>4, <1>5, <1>6, <1>7, <1>8 DEF IInv
-----------------------------------------------------------------------------
(* The starts of the producer's operations *)

LEMMA SliceFacts ==
    ASSUME NEW lens, lens \subseteq Nat \ {0}, NEW slice \in Slices(lens)
    PROVE  slice \in Seq(Values) /\ Len(slice) \in Nat /\ Len(slice) >= 1
<1>1. PICK k \in lens : slice \in [1 .. k -> Values]
  BY DEF Slices
<1>2. k \in Nat /\ k >= 1
  OBVIOUS
<1>3. slice \in Seq(Values) /\ Len(slice) = k
  BY <1>1, <1>2
<1> QED
  BY <1>2, <1>3

LEMMA ProducerStartStep == IInv /\ ProducerStart => IInv'
<1> SUFFICES ASSUME IInv, ProducerStart PROVE IInv'
  OBVIOUS
<1>1. ASSUME NEW v \in Values, StartMaybePush(v) PROVE IInv'
  <2> DEFINE place == IF Fits(cachedHead, 1) THEN "write" ELSE "refresh"
  <2>1. <<v>> \in Seq(Values) /\ Len(<<v>>) = 1 /\ Len(<<v>>) >= 1
    OBVIOUS
  <2>2. Begin("one", <<v>>, place)
    BY <1>1 DEF StartMaybePush
  <2>3. place \in {"write", "refresh"} /\ (place = "write" => Fits(cachedHead, Len(<<v>>)))
    BY <2>1
  <2>4. "one" \in {"one", "many", "unchecked", "copyAndCommitIf"}
    OBVIOUS
  <2> HIDE DEF place
  <2> QED
    BY <2>1, <2>2, <2>3, <2>4, BeginStep, Zenon
<1>2. ASSUME NEW slice \in Slices(SliceLens), StartMaybePushMany(slice) PROVE IInv'
  <2>1. slice \in Seq(Values) /\ Len(slice) >= 1
    BY SliceFacts, LensAssumption
  <2>2. CASE Fits(cachedHead, Len(slice))
    BY <1>2, <2>1, <2>2, BeginStep DEF StartMaybePushMany
  <2>3. CASE ~Fits(cachedHead, Len(slice))
    BY <1>2, <2>1, <2>3, BeginStep DEF StartMaybePushMany
  <2> QED
    BY <2>2, <2>3
<1>3. ASSUME NEW slice \in Slices(SliceLens), StartPushManyUnchecked(slice) PROVE IInv'
  <2>1. slice \in Seq(Values) /\ Len(slice) >= 1
    BY SliceFacts, LensAssumption
  <2> QED
    BY <1>3, <2>1, BeginStep DEF StartPushManyUnchecked
<1>4. ASSUME NEW slice \in Slices(SliceLens), NEW left \in Slices(SliceLens) \union {<<>>},
             StartCopyAndCommitIf(slice, left)
      PROVE  IInv'
  <2>1. slice \in Seq(Values) /\ Len(slice) \in Nat /\ Len(slice) >= 1
    BY SliceFacts, LensAssumption
  <2>2. left \in Seq(Values) /\ Len(left) \in Nat
    <3>1. CASE left = <<>>
      BY <3>1
    <3>2. CASE left \in Slices(SliceLens)
      BY <3>2, SliceFacts, LensAssumption
    <3> QED
      BY <3>1, <3>2
  <2>3. left \o slice \in Seq(Values) /\ Len(left \o slice) = Len(left) + Len(slice)
    BY <2>1, <2>2
  <2>4. Len(left \o slice) >= 1
    BY <2>1, <2>2, <2>3
  <2>5. Fits(cachedHead, Len(left \o slice))
    <3>1. tail \in Nat /\ cachedHead = tail /\ Len(slice) + Len(left) <= Capacity
      BY <1>4 DEF IInv, TypeOK, StartCopyAndCommitIf
    <3> QED
      BY <2>1, <2>2, <2>3, <3>1 DEF Fits
  <2>6. Begin("copyAndCommitIf", left \o slice, "write")
    BY <1>4 DEF StartCopyAndCommitIf
  <2> QED
    BY <2>3, <2>4, <2>5, <2>6, BeginStep
<1> QED
  BY <1>1, <1>2, <1>3, <1>4 DEF ProducerStart

-----------------------------------------------------------------------------
(* The theorems *)

LEMMA IInvStep == IInv /\ [Next]_vars => IInv'
<1> SUFFICES ASSUME IInv, [Next]_vars PROVE IInv'
  OBVIOUS
<1>1. CASE ProducerStart
  BY <1>1, ProducerStartStep
<1>2. CASE ProducerStep
  BY <1>2, RefreshHeadStep, WriteNextStep, StoreTailStep, DoNotCommitStep, ProducerLenStep
     DEF ProducerStep
<1>3. CASE ConsumerStart
  BY <1>3, StartStealStep, StartPopManyStep DEF ConsumerStart
<1>4. CASE ConsumerStep
  BY <1>4, RefreshTailStep, ReadNextStep, StoreHeadStep, ReturnStep, ConsumerLenStep
     DEF ConsumerStep
<1>5. CASE UNCHANGED vars
  <2>1. UNCHANGED <<tail, head, buffer, cachedHead, cachedTail, ppc, op, batch, written,
                    cpc, want, n, copied, log, delivered>>
    BY <1>5 DEF vars
  <2>2. TypeOK' /\ CountersInOrder' /\ RingInv'
    BY <2>1 DEF IInv, TypeOK, CountersInOrder, RingInv
  <2>3. ProducerInv' /\ ConsumerInv' /\ HistoryInv'
    BY <2>1 DEF IInv, ProducerInv, ConsumerInv, HistoryInv, Returned, HasRead
  <2> QED
    BY <2>2, <2>3 DEF IInv
<1> QED
  BY <1>1, <1>2, <1>3, <1>4, <1>5 DEF Next

(* The inductive invariant holds in every reachable state.                   *)
THEOREM Invariance == Spec => []IInv
BY IInvInit, IInvStep, PTL DEF Spec

(* The types of the variables.                                               *)
THEOREM TypeCorrect == Spec => []TypeOK
<1>1. IInv => TypeOK
  BY DEF IInv
<1> QED
  BY <1>1, Invariance, PTL

(* The copies of the counters, however old, are on the safe side.            *)
THEOREM CountersInOrderHolds == Spec => []CountersInOrder
<1>1. IInv => CountersInOrder
  BY DEF IInv
<1> QED
  BY <1>1, Invariance, PTL

(* The producer never writes the slot the consumer is reading.               *)
THEOREM NoRaceHolds == Spec => []NoRace
<1>1. IInv => NoRace
  <2> SUFFICES ASSUME IInv, ppc = "write", cpc = "read"
               PROVE  Slot(tail + written) # Slot(head + Len(copied))
    BY DEF NoRace
  <2>1. /\ tail \in Nat /\ head \in Nat /\ cachedHead \in Nat /\ cachedTail \in Nat
        /\ written \in Nat /\ Len(batch) \in Nat /\ n \in Nat /\ Len(copied) \in Nat
    BY DEF IInv, TypeOK
  <2>2. /\ cachedHead <= head /\ cachedTail <= tail
        /\ written < Len(batch) /\ tail + Len(batch) <= cachedHead + Capacity
        /\ Len(copied) < n /\ head + n <= cachedTail
    BY DEF IInv, CountersInOrder, ProducerInv, ConsumerInv
  <2>3. head + Len(copied) \in Nat /\ tail + written \in Nat
    BY <2>1
  <2>4. /\ head + Len(copied) < tail + written
        /\ tail + written < head + Len(copied) + Capacity
    BY <2>1, <2>2
  <2> QED
    BY <2>3, <2>4, SlotsDiffer
<1> QED
  BY <1>1, Invariance, PTL

(* The consumer reads the values pushed with the tickets it claims.          *)
THEOREM ReadsPushedValuesHolds == Spec => []ReadsPushedValues
<1>1. IInv => ReadsPushedValues
  BY DEF IInv, ConsumerInv, ReadsPushedValues
<1> QED
  BY <1>1, Invariance, PTL

(* The queue, for every capacity and with loads that may be stale, does no   *)
(* more than append the batches that fit to a log, claim the oldest entries, *)
(* and hand over each claimed value once.                                    *)
THEOREM ImplementsLog == Spec => LogSpec
<1>1. Init => Log!Init
  BY DEF Init, Log!Init
<1>2. IInv /\ [Next]_vars => [Log!Next]_Log!absVars
  <2> SUFFICES ASSUME IInv, [Next]_vars PROVE Log!Next \/ UNCHANGED Log!absVars
    OBVIOUS
  <2>1. ASSUME StoreTail PROVE Log!Next
    <3>1. /\ tail \in Nat /\ head \in Nat /\ cachedHead \in Nat /\ cachedTail \in Nat
          /\ batch \in Seq(Values) /\ Len(batch) \in Nat /\ Len(log) = tail
      BY DEF IInv, TypeOK, RingInv
    <3>2. /\ cachedHead <= head /\ head <= tail
          /\ tail + Len(batch) <= cachedHead + Capacity /\ Len(batch) >= 1
      BY <2>1, <3>1 DEF StoreTail, IInv, CountersInOrder, ProducerInv
    <3>3. Log!Push(batch)
      <4>1. head' = head /\ delivered' = delivered /\ log' = log \o batch
        BY <2>1 DEF StoreTail
      <4>2. Len(log) + Len(batch) - head <= Capacity
        BY <3>1, <3>2
      <4> QED
        BY <4>1, <4>2 DEF Log!Push
    <3>4. Len(batch) \in 1 .. Capacity /\ batch \in [1 .. Len(batch) -> Values]
      BY <3>1, <3>2
    <3> QED
      BY <3>3, <3>4 DEF Log!Next
  <2>2. ASSUME StoreHead PROVE Log!Next
    <3>1. /\ tail \in Nat /\ head \in Nat /\ cachedHead \in Nat /\ cachedTail \in Nat
          /\ n \in Nat /\ Len(log) = tail
      BY DEF IInv, TypeOK, RingInv
    <3>2. /\ cachedHead <= head /\ cachedTail <= tail /\ tail <= cachedHead + Capacity
          /\ n >= 1 /\ head + n <= cachedTail
      BY <2>2 DEF StoreHead, IInv, CountersInOrder, ConsumerInv
    <3>3. n \in 1 .. Capacity /\ head + n <= Len(log)
      BY <3>1, <3>2
    <3>4. Log!Claim(n)
      BY <2>2, <3>3 DEF StoreHead, Log!Claim
    <3> QED
      BY <3>3, <3>4 DEF Log!Next
  <2>3. ASSUME Return PROVE Log!Next
    <3> DEFINE S == head - n .. head - 1
    <3>1. head \in Nat /\ n \in Nat /\ n <= head
      BY <2>3 DEF Return, IInv, TypeOK, ConsumerInv
    <3>2. \A t \in DOMAIN delivered : t \in Nat /\ t < head - n
      BY <2>3, ReturnDelivers DEF IInv, TypeOK
    <3>3. \A t \in S : t < head /\ t \notin DOMAIN delivered
      BY <3>1, <3>2
    <3>4. delivered' = [t \in DOMAIN delivered \union S |->
                           IF t \in S THEN log[t + 1] ELSE delivered[t]]
      <4>1. \A t \in DOMAIN delivered \union S :
              delivered'[t] = IF t \in S THEN log[t + 1] ELSE delivered[t]
        BY <2>3, <3>3, ReturnDelivers
      <4>2. delivered' = [t \in DOMAIN delivered' |-> delivered'[t]]
        BY <2>3 DEF Return
      <4>3. DOMAIN delivered' = DOMAIN delivered \union S
        BY <2>3, ReturnDelivers
      <4> HIDE DEF S
      <4> QED
        BY <4>1, <4>2, <4>3
    <3>5. log' = log /\ head' = head
      BY <2>3 DEF Return, ring
    <3>6. S \in SUBSET (0 .. head - 1)
      BY <3>1
    <3> HIDE DEF S
    <3>7. Log!Deliver(S)
      BY <3>3, <3>4, <3>5 DEF Log!Deliver
    <3> QED
      BY <3>6, <3>7 DEF Log!Next
  <2>4. ASSUME ProducerStart PROVE UNCHANGED Log!absVars
    BY <2>4 DEF ProducerStart, StartMaybePush, StartMaybePushMany, StartPushManyUnchecked,
       StartCopyAndCommitIf, Begin, ring, Log!absVars
  <2>5. ASSUME RefreshHead \/ WriteNext \/ DoNotCommit \/ ProducerLen PROVE UNCHANGED Log!absVars
    BY <2>5 DEF RefreshHead, WriteNext, DoNotCommit, ProducerLen, ring, Log!absVars
  <2>6. ASSUME ConsumerStart PROVE UNCHANGED Log!absVars
    BY <2>6 DEF ConsumerStart, StartSteal, StartPopMany, ring, Log!absVars
  <2>7. ASSUME RefreshTail \/ ReadNext \/ ConsumerLen PROVE UNCHANGED Log!absVars
    BY <2>7 DEF RefreshTail, ReadNext, ConsumerLen, ring, Log!absVars
  <2>8. ASSUME UNCHANGED vars PROVE UNCHANGED Log!absVars
    BY <2>8 DEF vars, Log!absVars
  <2> QED
    BY <2>1, <2>2, <2>3, <2>4, <2>5, <2>6, <2>7, <2>8 DEF Next, ProducerStep, ConsumerStep
<1> QED
  BY <1>1, <1>2, Invariance, PTL DEF Spec, LogSpec, Log!Spec
=============================================================================
