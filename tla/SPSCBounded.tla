---------------------------- MODULE SPSCBounded ----------------------------
(***************************************************************************)
(* spsc/const_bounded.rs: the single-producer single-consumer bounded      *)
(* ring.  tail and the buffer belong to the producer, head to the          *)
(* consumer, and no operation has a loop or a CAS: each side judges the    *)
(* ring by its own copy of the other's counter, cached_head or             *)
(* cached_tail, and reloads it only when the copy is not good enough.      *)
(*                                                                         *)
(* Loads of the other side's counter, stores of one's own, and accesses to *)
(* a slot are steps of their own.  A load may be stale, but never older    *)
(* than the copy the same side has.                                        *)
(*                                                                         *)
(* log and delivered are history: what was pushed, and what the consumer   *)
(* got, by ticket.                                                         *)
(***************************************************************************)
EXTENDS Integers, Sequences

CONSTANTS
    Values,         \* what may be pushed
    Empty,          \* the contents of a slot never written
    Capacity,       \* CAPACITY
    MinSteal,       \* the fewest values a steal takes: 4, or 1 with the feature always_steal
    SliceLens,      \* the lengths of the slices given to the producer
    DstLens,        \* the lengths of the slices given to pop_many
    MaxPushes,      \* bound: no push begins once tail has reached it
    StaleLoads      \* may a load miss the latest stores?

ASSUME EmptyAssumption == Empty \notin Values
ASSUME CapacityAssumption == Capacity \in Nat \ {0}
ASSUME LensAssumption ==
    SliceLens \subseteq Nat \ {0} /\ DstLens \subseteq Nat \ {0} /\ MinSteal \in Nat \ {0}
ASSUME BoundAssumption == MaxPushes \in Nat
ASSUME StaleAssumption == StaleLoads \in BOOLEAN

VARIABLES
    tail, head, buffer,         \* the ring
    cachedHead, cachedTail,     \* cached_head of the producer, cached_tail of the consumer
    ppc, op, batch, written,    \* the producer: its place, its push, the values, how many are written
    cpc, want, n, copied,       \* the consumer: its place, what it asks for, gets, and has read
    log, delivered              \* history

ring     == <<tail, head, buffer>>
producer == <<cachedHead, ppc, op, batch, written>>
consumer == <<cachedTail, cpc, want, n, copied>>
vars     == <<tail, head, buffer, cachedHead, cachedTail, ppc, op, batch, written,
              cpc, want, n, copied, log, delivered>>

Slot(t) == t % Capacity
Smaller(i, j) == IF i <= j THEN i ELSE j
Slices(lens) == UNION {[1 .. k -> Values] : k \in lens}

HeadLoads == IF StaleLoads THEN cachedHead .. head ELSE {head}
TailLoads == IF StaleLoads THEN cachedTail .. tail ELSE {tail}

Init ==
    /\ tail = 0 /\ head = 0 /\ cachedHead = 0 /\ cachedTail = 0
    /\ buffer = [i \in 0 .. Capacity - 1 |-> Empty]
    /\ ppc = "idle" /\ op = "none" /\ batch = <<>> /\ written = 0
    /\ cpc = "idle" /\ want = 0 /\ n = 0 /\ copied = <<>>
    /\ log = <<>> /\ delivered = [t \in {} |-> Empty]

-----------------------------------------------------------------------------
(* The producer *)

FitsOneMore(h, k) == tail - h + k <= Capacity + 1   \* mutant
Fits(h, k)        == tail - h + k <= Capacity

Begin(o, values, place) ==
    /\ ppc = "idle"
    /\ tail < MaxPushes
    /\ ppc' = place /\ op' = o /\ batch' = values /\ written' = 0
    /\ UNCHANGED <<ring, cachedHead, consumer, log, delivered>>

(* maybe_push ("one"); maybe_push_many and the lock-free forms ("many")      *)
StartMaybePush(v) == Begin("one", <<v>>, IF Fits(cachedHead, 1) THEN "write" ELSE "refresh")

StartMaybePushMany(slice) ==
    Begin("many", slice, IF Fits(cachedHead, Len(slice)) THEN "write" ELSE "refresh")

(* The caller vouches for the space, by what len() has told it.              *)
StartPushManyUnchecked(slice) ==
    /\ Fits(cachedHead, Len(slice))
    /\ Begin("unchecked", slice, "write")

(* The producer steals from another queue into this one, which is empty as   *)
(* far as len() tells.  The method's (right, left) arrive as (left, right),  *)
(* and the right one is copied first.                                        *)
StartCopyAndCommitIf(right, left) ==
    /\ cachedHead = tail
    /\ Len(right) + Len(left) <= Capacity
    /\ Begin("copyAndCommitIf", left \o right, "write")

(* maybe_push takes it that there is space when head has moved; else Err.    *)
RefreshHead ==
    /\ ppc = "refresh"
    /\ \E h \in HeadLoads :
         /\ cachedHead' = h
         /\ \/ /\ IF op = "one" THEN h # cachedHead ELSE Fits(h, Len(batch))
               /\ ppc' = "write"
               /\ UNCHANGED <<op, batch>>
            \/ /\ IF op = "one" THEN h = cachedHead ELSE ~Fits(h, Len(batch))
               /\ ppc' = "idle" /\ op' = "none" /\ batch' = <<>>
    /\ UNCHANGED <<ring, written, consumer, log, delivered>>

WriteNext ==
    /\ ppc = "write"
    /\ buffer' = [buffer EXCEPT ![Slot(tail + written)] = batch[written + 1]]
    /\ written' = written + 1
    /\ ppc' = IF written + 1 = Len(batch) THEN "publish" ELSE "write"
    /\ UNCHANGED <<tail, head, cachedHead, op, batch, consumer, log, delivered>>

EndPush == ppc' = "idle" /\ op' = "none" /\ batch' = <<>> /\ written' = 0

StoreTail ==
    /\ ppc = "publish"
    /\ tail' = tail + Len(batch)
    /\ log' = log \o batch
    /\ EndPush
    /\ UNCHANGED <<head, buffer, cachedHead, consumer, delivered>>

(* ... unless the other queue's CAS has failed                               *)
DoNotCommit ==
    /\ ppc = "publish"
    /\ op = "copyAndCommitIf"
    /\ EndPush
    /\ UNCHANGED <<ring, cachedHead, consumer, log, delivered>>

ProducerLen ==
    /\ ppc = "idle"
    /\ cachedHead' \in HeadLoads
    /\ UNCHANGED <<ring, ppc, op, batch, written, consumer, log, delivered>>

-----------------------------------------------------------------------------
(* The consumer *)

StartPopMany(k) ==
    /\ cpc = "idle"
    /\ want' = k
    /\ n' = Smaller(k, cachedTail - head)
    /\ cpc' = IF cachedTail - head < k THEN "refresh" ELSE "read"
    /\ UNCHANGED <<ring, producer, cachedTail, copied, log, delivered>>

(* steal_into looks at tail first, and takes half of what it sees.           *)
StartSteal ==
    /\ cpc = "idle"
    /\ want' = 0
    /\ cpc' = "refresh"
    /\ UNCHANGED <<ring, producer, cachedTail, n, copied, log, delivered>>

AimUnlimited(t) == IF want = 0 THEN (t - head) \div 2 ELSE want       \* mutant
Aim(t) == IF want = 0 THEN (t - head) \div 2 ELSE Smaller(want, t - head)

EndPop == cpc' = "idle" /\ want' = 0 /\ n' = 0 /\ copied' = <<>>

RefreshTail ==
    /\ cpc = "refresh"
    /\ \E t \in TailLoads :
         LET few == IF want = 0 THEN MinSteal ELSE 1
         IN  /\ cachedTail' = t
             /\ \/ Aim(t) < few /\ EndPop
                \/ Aim(t) >= few /\ n' = Aim(t) /\ cpc' = "read" /\ UNCHANGED <<want, copied>>
    /\ UNCHANGED <<ring, producer, log, delivered>>

ReadNext ==
    /\ cpc = "read"
    /\ copied' = Append(copied, buffer[Slot(head + Len(copied))])
    /\ cpc' = IF Len(copied) + 1 = n THEN "store" ELSE "read"
    /\ UNCHANGED <<ring, producer, cachedTail, want, n, log, delivered>>

(* For steal_into this is the commit condition of the destination.           *)
StoreHead ==
    /\ cpc = "store"
    /\ head' = head + n
    /\ cpc' = "return"
    /\ UNCHANGED <<tail, buffer, producer, cachedTail, want, n, copied, log, delivered>>

(* mutant: the next pop starts with what this one has read                   *)
ReturnAndKeep ==
    /\ cpc = "return"
    /\ delivered' = [t \in DOMAIN delivered \union (head - n .. head - 1) |->
                        IF t >= head - n THEN copied[t - (head - n) + 1] ELSE delivered[t]]
    /\ cpc' = "idle" /\ want' = 0 /\ n' = 0 /\ UNCHANGED copied
    /\ UNCHANGED <<ring, producer, cachedTail, log>>

Return ==
    /\ cpc = "return"
    /\ delivered' = [t \in DOMAIN delivered \union (head - n .. head - 1) |->
                        IF t >= head - n THEN copied[t - (head - n) + 1] ELSE delivered[t]]
    /\ EndPop
    /\ UNCHANGED <<ring, producer, cachedTail, log>>

ConsumerLen ==
    /\ cpc = "idle"
    /\ cachedTail' \in TailLoads
    /\ UNCHANGED <<ring, producer, cpc, want, n, copied, log, delivered>>

-----------------------------------------------------------------------------
ProducerStep == RefreshHead \/ WriteNext \/ StoreTail \/ DoNotCommit \/ ProducerLen
ConsumerStep == RefreshTail \/ ReadNext \/ StoreHead \/ Return \/ ConsumerLen

ProducerStart ==
    \/ \E v \in Values : StartMaybePush(v)
    \/ \E slice \in Slices(SliceLens) :
         \/ StartMaybePushMany(slice)
         \/ StartPushManyUnchecked(slice)
         \/ \E left \in Slices(SliceLens) \union {<<>>} : StartCopyAndCommitIf(slice, left)

ConsumerStart == StartSteal \/ \E k \in DstLens : StartPopMany(k)

Next == ProducerStart \/ ProducerStep \/ ConsumerStart \/ ConsumerStep

Spec == Init /\ [][Next]_vars

-----------------------------------------------------------------------------
(* Safety *)

(* The types of the variables.                                               *)
TypeOK ==
    /\ tail \in Nat /\ head \in Nat /\ cachedHead \in Nat /\ cachedTail \in Nat
    /\ buffer \in [0 .. Capacity - 1 -> Values \union {Empty}]
    /\ ppc \in {"idle", "refresh", "write", "publish"}
    /\ op \in {"none", "one", "many", "unchecked", "copyAndCommitIf"}
    /\ batch \in Seq(Values)
    /\ written \in Nat
    /\ cpc \in {"idle", "refresh", "read", "store", "return"}
    /\ want \in Nat /\ n \in Nat
    /\ copied \in Seq(Values \union {Empty})
    /\ log \in Seq(Values)
    /\ DOMAIN delivered \subseteq Nat

(* However old the two copies are: the producer's view of the free space and *)
(* the consumer's view of the values are always on the safe side.            *)
CountersInOrder ==
    cachedHead <= head /\ head <= cachedTail /\ cachedTail <= tail /\ tail <= cachedHead + Capacity

(* The producer never writes the slot the consumer is reading: their         *)
(* accesses to the buffer need no other synchronisation.                     *)
NoRace ==
    ppc = "write" /\ cpc = "read" => Slot(tail + written) # Slot(head + Len(copied))

(* What the consumer has read, at the store of head and before its return,   *)
(* is what was pushed with these tickets.                                    *)
HasRead(first, k) == Len(copied) = k /\ \A i \in 1 .. k : copied[i] = log[first + i]

ReadsPushedValues ==
    /\ cpc = "store" => HasRead(head, n)
    /\ cpc = "return" => HasRead(head - n, n)

(* The ring keeps the promise of QueueLog.                                   *)
Log == INSTANCE QueueLog WITH
           Batches <- UNION {[1 .. k -> Values] : k \in 1 .. Capacity}, claimed <- head
LogSpec == Log!Spec

-----------------------------------------------------------------------------
(* The inductive invariant *)

RingInv ==
    /\ Len(log) = tail
    /\ \A t \in head .. tail - 1 : buffer[Slot(t)] = log[t + 1]

(* The values of a push have their space before the first of them is         *)
(* written, by the producer's own copy of head.                              *)
ProducerInv ==
    /\ ppc # "idle" => Len(batch) >= 1
    /\ op = "one" => Len(batch) = 1
    /\ ppc = "refresh" => written = 0
    /\ ppc \in {"write", "publish"} =>
         /\ tail + Len(batch) <= cachedHead + Capacity
         /\ \A i \in 1 .. written : buffer[Slot(tail + i - 1)] = batch[i]
    /\ ppc = "write" => written < Len(batch)
    /\ ppc = "publish" => written = Len(batch)

(* The values of a pop are there before the first of them is read, by the    *)
(* consumer's own copy of tail.                                              *)
ConsumerInv ==
    /\ cpc \in {"idle", "refresh"} => copied = <<>>
    /\ cpc \in {"read", "store"} => n >= 1 /\ head + n <= cachedTail
    /\ cpc = "read" => Len(copied) < n /\ HasRead(head, Len(copied))
    /\ cpc = "store" => HasRead(head, n)
    /\ cpc = "return" => 1 <= n /\ n <= head /\ HasRead(head - n, n)

Returned == IF cpc = "return" THEN head - n ELSE head

HistoryInv == \A t \in DOMAIN delivered : t < Returned /\ delivered[t] = log[t + 1]

(* Each side's copy of the other's counter is on the safe side, and what a   *)
(* push or a pop has done so far is within what that copy allows.            *)
IInv == TypeOK /\ CountersInOrder /\ RingInv /\ ProducerInv /\ ConsumerInv /\ HistoryInv
=============================================================================
