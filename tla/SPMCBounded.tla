---------------------------- MODULE SPMCBounded ----------------------------
(***************************************************************************)
(* spmc/const_bounded.rs: the single-producer multi-consumer bounded ring, *)
(* the local queue of one worker.                                          *)
(*                                                                         *)
(* The owner alone writes tail and the buffer.  head is claimed by a CAS:  *)
(* by the owner (pop, pop_many, an overflow) and by the consumers          *)
(* (pop_many, steal_into), who copy the values first and throw the copy    *)
(* away when the CAS fails.  The owner judges the free space by its        *)
(* cached_head, an old copy of head.  When the ring overflows, half of it  *)
(* moves to the BatchReceiver, the queue all workers share.                *)
(*                                                                         *)
(* Every access to head, tail and the buffer that another thread could     *)
(* observe or disturb is a step of its own.  Accesses are sequentially     *)
(* consistent.  Values are numbered in the order they are handed to the    *)
(* owner's operations.                                                     *)
(*                                                                         *)
(* History: log is what was pushed to the ring, by ticket; delivered what  *)
(* left it, by ticket; received what the BatchReceiver was given.          *)
(***************************************************************************)
EXTENDS Integers, Sequences, FiniteSets

CONSTANTS
    owner,          \* the thread of the producer
    Consumers,      \* the threads of the consumers
    Empty,          \* the contents of a slot never written
    Capacity,       \* CAPACITY
    MinSteal,       \* the fewest values a steal takes: 4, or 1 with the feature always_steal
    Operations,     \* which pushes the owner uses
    SliceLens,      \* the lengths of the slices given to the owner's pushes
    DstLens,        \* the lengths of the slices given to the pops
    OwnerLooks,     \* does the owner call len() or pop() before it relies on the cached head?
    MaxPushes       \* bound: how many values are handed to the owner

Single    == {"push", "lockFreePush", "maybePush"}
Many      == {"pushMany", "lockFreePushMany", "maybePushMany"}
Unchecked == {"pushManyUnchecked", "copyAndCommitIf"}
Maybe     == {"maybePush", "maybePushMany"}
LockFree  == {"lockFreePush", "lockFreePushMany"}

ASSUME ThreadsAssumption == owner \notin Consumers
ASSUME CapacityAssumption == Capacity \in Nat /\ Capacity >= 1
ASSUME EmptyAssumption == Empty \notin Nat
ASSUME OperationsAssumption == Operations \subseteq Single \union Many \union Unchecked
ASSUME LensAssumption ==
    SliceLens \subseteq Nat \ {0} /\ DstLens \subseteq Nat \ {0} /\ MinSteal \in Nat \ {0}
ASSUME BoundAssumption == MaxPushes \in Nat
ASSUME OwnerAssumption == OwnerLooks \in BOOLEAN

Threads == Consumers \union {owner}
Taken   == Capacity \div 2      \* NUM_VALUES_TAKEN

VARIABLES
    tail, head, buffer,     \* the ring
    cachedHead,             \* cached_head, which only the owner uses
    pc,                     \* where each thread stands
    from,                   \* each thread's local copy of head
    want, n,                \* how many values a pop asks for, and is about to claim
    copied,                 \* what a consumer has copied so far
    op, batch, written,     \* the owner's push: which one, its values, how many are written
    issued,                 \* history: how many values the owner was handed
    log, delivered,         \* history: what was pushed to the ring, what has left it
    received                \* history: what the BatchReceiver was given, in order

ring    == <<tail, head, buffer>>
pushing == <<op, batch, written, issued>>
popping == <<want, n>>
vars    == <<tail, head, buffer, cachedHead, pc, from, want, n, copied, op, batch, written,
             issued, log, delivered, received>>

Slot(t) == t % Capacity
Smaller(i, j) == IF i <= j THEN i ELSE j

Init ==
    /\ tail = 0 /\ head = 0 /\ cachedHead = 0
    /\ buffer = [i \in 0 .. Capacity - 1 |-> Empty]
    /\ pc = [t \in Threads |-> "idle"]
    /\ from = [t \in Threads |-> 0]
    /\ want = [t \in Threads |-> 0]
    /\ n = [t \in Threads |-> 0]
    /\ copied = [c \in Consumers |-> <<>>]
    /\ op = "none" /\ batch = <<>> /\ written = 0 /\ issued = 0
    /\ log = <<>> /\ delivered = [t \in {} |-> Empty] /\ received = <<>>

Goto(t, label) == pc' = [pc EXCEPT ![t] = label]

(* A pop ends: its locals are gone.                                          *)
EndPop(t) ==
    /\ Goto(t, "idle")
    /\ from' = [from EXCEPT ![t] = 0]
    /\ want' = [want EXCEPT ![t] = 0]
    /\ n' = [n EXCEPT ![t] = 0]

(* The tickets in the domain of f have left the ring, with these values.     *)
Delivers(f) ==
    delivered' = [t \in DOMAIN delivered \union DOMAIN f |->
                    IF t \in DOMAIN f THEN f[t] ELSE delivered[t]]

-----------------------------------------------------------------------------
(* The owner's pushes *)

(* Does the cached head leave too little space?                              *)
MustRefreshOneLate(o, k) ==     \* mutant
    \/ o \in Single /\ tail - cachedHead > Capacity
    \/ o \in Many /\ tail - cachedHead + k > Capacity + 1

MustRefresh(o, k) ==
    \/ o \in Single \ Maybe /\ tail - cachedHead = Capacity
    \/ o \in Single \intersect Maybe /\ tail - cachedHead >= Capacity
    \/ o \in Many /\ tail - cachedHead + k > Capacity

Begin(o, values) ==
    /\ pc[owner] = "idle"
    /\ issued + Len(values) <= MaxPushes
    /\ issued' = issued + Len(values)
    /\ op' = o /\ batch' = values /\ written' = 0
    /\ Goto(owner, IF MustRefresh(o, Len(values)) THEN "refresh" ELSE "write")
    /\ UNCHANGED <<ring, cachedHead, from, popping, copied, log, delivered, received>>

Fresh(k) == [i \in 1 .. k |-> issued + i]

(* An owner that looks makes single pushes only with a cached head of this   *)
(* lap, and vouches for space or emptiness only by what len() or pop() told. *)
StartPush(o) ==
    /\ o \in Single
    /\ OwnerLooks => tail - cachedHead <= Capacity
    /\ Begin(o, Fresh(1))

StartPushMany(o, k) == o \in Many /\ Begin(o, Fresh(k))

KnownHead == IF OwnerLooks THEN cachedHead ELSE head

StartPushManyUnchecked(k) ==
    /\ tail + k <= KnownHead + Capacity
    /\ Begin("pushManyUnchecked", Fresh(k))

(* The owner steals: another queue's steal_into copies into this one, which  *)
(* is empty, a slice of r values and then one of l.  The method takes them   *)
(* as (right, left) and hands them to producer_copy_and_commit_if as (left,  *)
(* right), which copies its right first.                                     *)
StartCopyAndCommitIf(r, l) ==
    /\ KnownHead = tail
    /\ r + l <= Capacity
    /\ Begin("copyAndCommitIf", SubSeq(Fresh(r + l), r + 1, r + l) \o Fresh(r))

(* A single push that sees head moved takes it that there is space.          *)
RefreshHead ==
    /\ pc[owner] = "refresh"
    /\ cachedHead' = head
    /\ from' = [from EXCEPT ![owner] = head]
    /\ LET full == IF op \in Single THEN head = cachedHead
                                    ELSE tail - head + Len(batch) > Capacity
       IN  \/ ~full /\ Goto(owner, "write")
           \/ full /\ op \in Maybe /\ Goto(owner, "err")
           \/ full /\ op \notin Maybe /\ Goto(owner, "overflow")
    /\ UNCHANGED <<ring, popping, copied, pushing, log, delivered, received>>

WriteNext ==
    /\ pc[owner] = "write"
    /\ buffer' = [buffer EXCEPT ![Slot(tail + written)] = batch[written + 1]]
    /\ written' = written + 1
    /\ Goto(owner, IF written' = Len(batch) THEN "publish" ELSE "write")
    /\ UNCHANGED <<tail, head, cachedHead, from, popping, copied, op, batch, issued, log,
                   delivered, received>>

(* ... for copy_and_commit_if when the other queue's CAS has succeeded       *)
StoreTail ==
    /\ pc[owner] = "publish"
    /\ tail' = tail + Len(batch)
    /\ log' = log \o batch
    /\ Goto(owner, "ok")
    /\ UNCHANGED <<head, buffer, cachedHead, from, popping, copied, pushing, delivered,
                   received>>

(* ... and when it has failed                                                *)
DoNotCommit ==
    /\ pc[owner] = "publish"
    /\ op = "copyAndCommitIf"
    /\ Goto(owner, "err")
    /\ UNCHANGED <<ring, cachedHead, from, popping, copied, pushing, log, delivered, received>>

-----------------------------------------------------------------------------
(* The overflow: half of the ring, and what is pushed, to the BatchReceiver  *)

Fits(h) == tail - h + Len(batch) <= Capacity

(* head_idx < NUM_VALUES_TAKEN ? one slice : the end of the buffer and its   *)
(* beginning                                                                 *)
RightLen(h) == IF Slot(h) < Taken THEN Taken ELSE Capacity - Slot(h)
LeftLenOneMore(h) == IF Slot(h) < Taken THEN 0 ELSE Slot(h) - Taken + 1    \* mutant
LeftLen(h)  == IF Slot(h) < Taken THEN 0 ELSE Slot(h) - Taken
Right(h) == [i \in 1 .. RightLen(h) |-> buffer[Slot(h) + i - 1]]
Left(h)  == [i \in 1 .. LeftLen(h) |-> buffer[i - 1]]

TakeHalf ==
    /\ pc[owner] = "overflow"
    /\ head = from[owner]
    /\ head' = head + Taken
    /\ Goto(owner, "move")
    /\ UNCHANGED <<tail, buffer, cachedHead, from, popping, copied, pushing, log, delivered,
                   received>>

(* mutant: a lost race means there is space                                  *)
MissHalfAndWrite ==
    /\ pc[owner] = "overflow"
    /\ op \notin LockFree
    /\ from' = [from EXCEPT ![owner] = head]
    /\ Goto(owner, "write")
    /\ UNCHANGED <<ring, cachedHead, popping, copied, pushing, log, delivered, received>>

(* The weak CAS of push and push_many fails: perhaps there is space now.     *)
MissHalf ==
    /\ pc[owner] = "overflow"
    /\ op \notin LockFree
    /\ from' = [from EXCEPT ![owner] = head]
    /\ Goto(owner, IF Fits(head) THEN "write" ELSE "overflow")
    /\ UNCHANGED <<ring, cachedHead, popping, copied, pushing, log, delivered, received>>

(* mutant: the lock-free pushes answer Ok(()) when the receiver is locked    *)
ReceiverIsLockedOk ==
    /\ pc[owner] = "overflow"
    /\ op \in LockFree
    /\ Goto(owner, "ok")
    /\ UNCHANGED <<ring, cachedHead, from, popping, copied, pushing, log, delivered, received>>

(* The lock-free pushes do not wait for the receiver's lock ...              *)
ReceiverIsLocked ==
    /\ pc[owner] = "overflow"
    /\ op \in LockFree
    /\ Goto(owner, "err")
    /\ UNCHANGED <<ring, cachedHead, from, popping, copied, pushing, log, delivered, received>>

(* ... and make one strong CAS under it.  When it fails push expects space;  *)
(* push_many looks for it, and returns Ok(()) without it as well.            *)
MissHalfOnce ==
    /\ pc[owner] = "overflow"
    /\ op \in LockFree
    /\ head # from[owner]
    /\ Goto(owner, IF op \in Single \/ Fits(head) THEN "write" ELSE "ok")
    /\ UNCHANGED <<ring, cachedHead, from, popping, copied, pushing, log, delivered, received>>

(* The callers pass (left, right) to a receiver that stores its first        *)
(* argument first.  push and push_many wait here for the receiver's lock,    *)
(* which all workers share; the lock-free pushes have it already.            *)
MoveHalf ==
    /\ pc[owner] = "move"
    /\ LET h == from[owner]
       IN  /\ received' = received \o Left(h) \o Right(h) \o batch
           /\ Delivers([t \in h .. h + RightLen(h) + LeftLen(h) - 1 |-> buffer[Slot(t)]])
    /\ Goto(owner, "ok")
    /\ UNCHANGED <<ring, cachedHead, from, popping, copied, pushing, log>>

(* mutant: the next push starts with this one's count                        *)
PushReturnsUncounted ==
    /\ pc[owner] \in {"ok", "err"}
    /\ op' = "none" /\ batch' = <<>> /\ UNCHANGED written
    /\ from' = [from EXCEPT ![owner] = 0]
    /\ Goto(owner, "idle")
    /\ UNCHANGED <<ring, cachedHead, popping, copied, issued, log, delivered, received>>

PushReturns ==
    /\ pc[owner] \in {"ok", "err"}
    /\ op' = "none" /\ batch' = <<>> /\ written' = 0
    /\ from' = [from EXCEPT ![owner] = 0]
    /\ Goto(owner, "idle")
    /\ UNCHANGED <<ring, cachedHead, popping, copied, issued, log, delivered, received>>

-----------------------------------------------------------------------------
(* producer_len *)

ProducerLen ==
    /\ pc[owner] = "idle"
    /\ cachedHead' = head
    /\ UNCHANGED <<ring, pc, from, popping, copied, pushing, log, delivered, received>>

(* producer_pop_many; producer_pop is a producer_pop_many of one value.      *)

Aim(h, k) ==
    /\ from' = [from EXCEPT ![owner] = h]
    /\ n' = [n EXCEPT ![owner] = Smaller(k, tail - h)]
    /\ Goto(owner, IF n'[owner] = 0 THEN "popRefresh" ELSE "popCas")

StartProducerPop(k) ==
    /\ pc[owner] = "idle"
    /\ want' = [want EXCEPT ![owner] = k]
    /\ Aim(cachedHead, k)
    /\ UNCHANGED <<ring, cachedHead, copied, pushing, log, delivered, received>>

(* mutant: a pop waits for a value                                           *)
PopRefreshAndRetry ==
    /\ pc[owner] = "popRefresh"
    /\ cachedHead' = head
    /\ Aim(head, want[owner])
    /\ UNCHANGED <<ring, want, copied, pushing, log, delivered, received>>

PopRefresh ==
    /\ pc[owner] = "popRefresh"
    /\ cachedHead' = head
    /\ IF head = from[owner]
         THEN EndPop(owner)
         ELSE /\ from' = [from EXCEPT ![owner] = head]
              /\ n' = [n EXCEPT ![owner] = Smaller(want[owner], tail - head)]
              /\ Goto(owner, "popCas")
              /\ UNCHANGED want
    /\ UNCHANGED <<ring, copied, pushing, log, delivered, received>>

PopCas ==
    /\ pc[owner] = "popCas"
    /\ head = from[owner]
    /\ head' = head + n[owner]
    /\ cachedHead' = head'
    /\ Goto(owner, "popRead")
    /\ UNCHANGED <<tail, buffer, from, popping, copied, pushing, log, delivered, received>>

PopMiss ==
    /\ pc[owner] = "popCas"
    /\ Aim(head, want[owner])
    /\ UNCHANGED <<ring, cachedHead, want, copied, pushing, log, delivered, received>>

PopRead ==
    /\ pc[owner] = "popRead"
    /\ Delivers([t \in from[owner] .. from[owner] + n[owner] - 1 |-> buffer[Slot(t)]])
    /\ EndPop(owner)
    /\ UNCHANGED <<ring, cachedHead, copied, pushing, log, received>>

-----------------------------------------------------------------------------
(* The consumers: consumer_pop_many, and steal_into, which takes half of     *)
(* what it sees.                                                             *)

StartPopMany(c, k) ==
    /\ pc[c] = "idle"
    /\ want' = [want EXCEPT ![c] = k]
    /\ Goto(c, "loadHead")
    /\ UNCHANGED <<ring, cachedHead, from, n, copied, pushing, log, delivered, received>>

StartSteal(c) ==
    /\ pc[c] = "idle"
    /\ want' = [want EXCEPT ![c] = 0]
    /\ Goto(c, "loadHead")
    /\ UNCHANGED <<ring, cachedHead, from, n, copied, pushing, log, delivered, received>>

Stealing(c) == want[c] = 0

LoadHead(c) ==
    /\ pc[c] = "loadHead"
    /\ from' = [from EXCEPT ![c] = head]
    /\ Goto(c, "loadTail")
    /\ UNCHANGED <<ring, cachedHead, popping, copied, pushing, log, delivered, received>>

(* More than the ring can hold: the head is stale.                           *)
LoadTail(c) ==
    /\ pc[c] = "loadTail"
    /\ LET len  == tail - from[c]
           aim  == IF Stealing(c) THEN len \div 2 ELSE Smaller(want[c], len)
           most == IF Stealing(c) THEN Taken ELSE Capacity
           few  == IF Stealing(c) THEN MinSteal ELSE 1
       IN  \/ aim > most /\ Goto(c, "loadHead") /\ UNCHANGED <<from, popping>>
           \/ aim < few /\ EndPop(c)
           \/ /\ aim \in few .. most
              /\ n' = [n EXCEPT ![c] = aim]
              /\ Goto(c, "copy")
              /\ UNCHANGED <<from, want>>
    /\ UNCHANGED <<ring, cachedHead, copied, pushing, log, delivered, received>>

CopyNext(c) ==
    /\ pc[c] = "copy"
    /\ copied' = [copied EXCEPT ![c] = Append(@, buffer[Slot(from[c] + Len(@))])]
    /\ Goto(c, IF Len(copied'[c]) = n[c] THEN "cas" ELSE "copy")
    /\ UNCHANGED <<ring, cachedHead, from, popping, pushing, log, delivered, received>>

ClaimCopied(c) ==
    /\ pc[c] = "cas"
    /\ head = from[c]
    /\ head' = head + n[c]
    /\ Goto(c, "return")
    /\ UNCHANGED <<tail, buffer, cachedHead, from, popping, copied, pushing, log, delivered,
                   received>>

(* mutant: the copy is kept for the next CAS                                 *)
KeepCopied(c) ==
    /\ pc[c] = "cas"
    /\ head # from[c]
    /\ from' = [from EXCEPT ![c] = head]
    /\ UNCHANGED <<ring, cachedHead, pc, popping, copied, pushing, log, delivered, received>>

ForgetCopied(c) ==
    /\ pc[c] = "cas"
    /\ head # from[c]
    /\ from' = [from EXCEPT ![c] = head]
    /\ copied' = [copied EXCEPT ![c] = <<>>]
    /\ Goto(c, "loadTail")
    /\ UNCHANGED <<ring, cachedHead, popping, pushing, log, delivered, received>>

(* pop_many returns n; steal_into's destination commits, and then it too.    *)
Return(c) ==
    /\ pc[c] = "return"
    /\ Delivers([t \in from[c] .. from[c] + n[c] - 1 |-> copied[c][t - from[c] + 1]])
    /\ copied' = [copied EXCEPT ![c] = <<>>]
    /\ EndPop(c)
    /\ UNCHANGED <<ring, cachedHead, pushing, log, received>>

-----------------------------------------------------------------------------
OwnerStep ==
    \/ RefreshHead \/ WriteNext \/ StoreTail \/ DoNotCommit
    \/ TakeHalf \/ MissHalf \/ ReceiverIsLocked \/ MissHalfOnce \/ MoveHalf \/ PushReturns
    \/ PopRefresh \/ PopCas \/ PopMiss \/ PopRead

ConsumerStep(c) ==
    \/ LoadHead(c) \/ LoadTail(c) \/ CopyNext(c) \/ ClaimCopied(c) \/ ForgetCopied(c)
    \/ Return(c)

OwnerStart ==
    \/ \E o \in Operations :
         \/ StartPush(o)
         \/ \E k \in SliceLens : StartPushMany(o, k)
         \/ o = "pushManyUnchecked" /\ \E k \in SliceLens : StartPushManyUnchecked(k)
         \/ o = "copyAndCommitIf" /\ \E k \in SliceLens : \E l \in 0 .. k - 1 :
                                          StartCopyAndCommitIf(k - l, l)
    \/ ProducerLen
    \/ \E k \in DstLens : StartProducerPop(k)

ConsumerStart(c) == StartSteal(c) \/ \E k \in DstLens : StartPopMany(c, k)

Next ==
    \/ OwnerStart \/ OwnerStep
    \/ \E c \in Consumers : ConsumerStart(c) \/ ConsumerStep(c)

Spec == Init /\ [][Next]_vars

-----------------------------------------------------------------------------
(* Safety *)

OwnerLabels ==
    {"idle", "refresh", "write", "publish", "overflow", "move", "ok", "err", "popRefresh", "popCas", "popRead"}
ConsumerLabels == {"idle", "loadHead", "loadTail", "copy", "cas", "return"}

(* The types of the variables.                                               *)
TypeOK ==
    /\ tail \in Nat /\ head \in Nat /\ cachedHead \in Nat
    /\ buffer \in [0 .. Capacity - 1 -> Nat \union {Empty}]
    /\ pc \in [Threads -> OwnerLabels \union ConsumerLabels]
    /\ pc[owner] \in OwnerLabels /\ \A c \in Consumers : pc[c] \in ConsumerLabels
    /\ from \in [Threads -> Nat]
    /\ want \in [Threads -> Nat]
    /\ n \in [Threads -> Nat]
    /\ copied \in [Consumers -> Seq(Nat \union {Empty})]
    /\ op \in Single \union Many \union Unchecked \union {"none"}
    /\ batch \in Seq(Nat) /\ written \in 0 .. Len(batch)
    /\ issued \in Nat
    /\ log \in Seq(Nat) /\ received \in Seq(Nat)
    /\ DOMAIN delivered \subseteq Nat

(* The owner's cached head is never ahead of head, nor head of tail, nor     *)
(* tail of the space: no slot is reused before its value has been claimed.   *)
RingNotOverrun == cachedHead <= head /\ head <= tail /\ tail <= head + Capacity

(* Every value in the ring is where its ticket says, even while the owner is *)
(* writing, and so is every value the owner has claimed but not read yet.    *)
ValuesInPlace ==
    /\ \A t \in head .. tail - 1 : buffer[Slot(t)] = log[t + 1]
    /\ pc[owner] = "popRead" =>
         \A t \in from[owner] .. from[owner] + n[owner] - 1 : buffer[Slot(t)] = log[t + 1]
    /\ pc[owner] = "move" =>
         \A t \in from[owner] .. from[owner] + Taken - 1 : buffer[Slot(t)] = log[t + 1]

(* A consumer whose CAS is going to succeed takes no more than was pushed,   *)
(* and has copied the values as they were pushed, however long ago it loaded *)
(* head and whatever was written since; so the optimistic copy needs no      *)
(* check but the CAS.                                                        *)
CopyIsValid ==
    \A c \in Consumers :
        pc[c] = "return" \/ (pc[c] = "cas" /\ from[c] = head) =>
            /\ from[c] + n[c] <= tail
            /\ copied[c] = SubSeq(log, from[c] + 1, from[c] + n[c])

(* When a push answers Ok each of its values is in the ring's log or with    *)
(* the BatchReceiver, once; when it answers Err, in neither.                 *)
Occurrences(v, seq) == {i \in DOMAIN seq : seq[i] = v}

AnswerIsTrue ==
    pc[owner] \in {"ok", "err"} =>
        \A i \in DOMAIN batch :
            Cardinality(Occurrences(batch[i], log)) + Cardinality(Occurrences(batch[i], received))
                = IF pc[owner] = "ok" THEN 1 ELSE 0

(* The ring keeps the promise of QueueLog: whoever claims, the claims follow *)
(* the order of the pushes, every claimed value is delivered once and as it  *)
(* was pushed, and no more than Capacity are in the ring.                    *)
Log == INSTANCE QueueLog WITH
           Batches <- UNION {[1 .. k -> 1 .. MaxPushes] : k \in SliceLens \union {1}},
           claimed <- head
LogSpec == Log!Spec

-----------------------------------------------------------------------------
(* The inductive invariant *)

Overflowing == (Single \union Many) \ Maybe

(* How the owner has to be used: it looks at head before it relies on its    *)
(* old copy, and pushes no slice so long that an overflow, which may find a  *)
(* ring that is not full, would take more than is in it.                     *)
Disciplined ==
    /\ OwnerLooks
    /\ Operations \intersect Overflowing \intersect Many # {} =>
         \A k \in SliceLens : k <= Taken + 1

InPlace(first, past) == \A t \in first .. past - 1 : buffer[Slot(t)] = log[t + 1]

RingInv == Len(log) = tail /\ RingNotOverrun /\ InPlace(head, tail)

(* What an overflow from h hands over: one more than Taken when the capacity *)
(* is odd and the values are in two slices.                                  *)
Moved(h) == RightLen(h) + LeftLen(h)

(* How far the owner is, and what it may rely on although head may move.     *)
OwnerInv ==
    LET at == pc[owner]
        h  == from[owner]
        k  == Len(batch)
    IN  /\ at \in {"idle", "popRefresh", "popCas", "popRead"} => batch = <<>>
        /\ op \in Operations \union {"none"}
        /\ op \in Single => k = 1
        /\ op \in Overflowing => k <= Taken + 1
        /\ at \in {"refresh", "overflow"} => written = 0 /\ k >= 1
        /\ at = "refresh" => op \in Single \union Many
        /\ at = "overflow" => op \in Overflowing
        /\ at = "refresh" /\ op \in Single => tail = cachedHead + Capacity
        /\ at \in {"write", "publish"} =>
             /\ tail + k <= head + Capacity
             /\ k >= 1
             /\ \A i \in 1 .. written : buffer[Slot(tail + i - 1)] = batch[i]
        /\ at = "write" => written < k
        /\ at = "publish" => written = k
        /\ at = "overflow" => h <= head /\ tail <= h + Capacity /\ tail + k > h + Capacity
        /\ at = "move" => h + Taken <= head /\ h + Moved(h) <= tail /\ InPlace(h, h + Moved(h))
        /\ at = "popCas" => h <= head /\ h + n[owner] <= tail
        /\ at = "popRead" => h + n[owner] <= head /\ InPlace(h, h + n[owner])

CopiedFrom(h, seq) == \A i \in 1 .. Len(seq) : seq[i] = log[h + i]

(* A copy is as good as the head it started from is present.                 *)
ConsumerInv(c) ==
    /\ pc[c] \in {"idle", "loadHead", "loadTail"} => copied[c] = <<>>
    /\ pc[c] \in {"loadTail", "copy", "cas"} => from[c] <= head
    /\ pc[c] \in {"copy", "cas"} =>
         /\ n[c] >= 1 /\ from[c] + n[c] <= tail
         /\ from[c] = head => CopiedFrom(from[c], copied[c])
    /\ pc[c] = "copy" => Len(copied[c]) < n[c]
    /\ pc[c] \in {"cas", "return"} => Len(copied[c]) = n[c]
    /\ pc[c] = "return" => from[c] + n[c] <= head /\ CopiedFrom(from[c], copied[c])

(* The tickets that a thread has claimed and not delivered yet               *)
ClaimedAt(label, h, k) ==
    CASE label \in {"return", "popRead"} -> h .. h + k - 1
      [] label = "move" -> h .. h + Taken - 1
      [] OTHER -> {}
Claims(t) == ClaimedAt(pc[t], from[t], n[t])

(* A claimed ticket is claimed by one thread or delivered, not both.         *)
HistoryInv ==
    /\ \A k \in DOMAIN delivered : k < head /\ delivered[k] = log[k + 1]
    /\ \A t \in Threads : \A k \in Claims(t) : k < head /\ k \notin DOMAIN delivered
    /\ \A s, t \in Threads : s # t => Claims(s) \intersect Claims(t) = {}

(* Every value of seq is older than those of the batch, or of the batch.     *)
Older(seq) == \A i \in 1 .. Len(seq) : seq[i] <= issued - Len(batch)
EndsWithBatch(seq) ==
    /\ Len(batch) <= Len(seq)
    /\ \A i \in 1 .. Len(seq) - Len(batch) : seq[i] <= issued - Len(batch)
    /\ \A i \in 1 .. Len(batch) : seq[Len(seq) - Len(batch) + i] = batch[i]

AnswerInv ==
    /\ \A i \in 1 .. Len(batch) : batch[i] > issued - Len(batch) /\ batch[i] <= issued
    /\ \A i, j \in 1 .. Len(batch) : batch[i] = batch[j] => i = j
    /\ IF pc[owner] = "ok"
         THEN \/ EndsWithBatch(log) /\ Older(received)
              \/ Older(log) /\ EndsWithBatch(received)
         ELSE Older(log) /\ Older(received)

(* An odd capacity breaks HistoryInv, and lockFreePushMany AnswerInv: see    *)
(* OverflowTakesHalf and AnswerIsTrue.                                       *)
IInv ==
    /\ TypeOK /\ RingInv /\ OwnerInv /\ \A c \in Consumers : ConsumerInv(c)
    /\ Capacity = 2 * Taken => HistoryInv
    /\ "lockFreePushMany" \notin Operations => AnswerInv

-----------------------------------------------------------------------------
(* Progress *)

Blocking == Overflowing \ LockFree

(* push or push_many waits for the receiver's Mutex, which the other workers *)
(* may hold for any time, or for ever.                                       *)
WaitsForReceiver == pc[owner] = "move" /\ op \in Blocking

(* The scheduler runs the thread again and again, and its weak CAS does not  *)
(* fail forever against an unmoved head.  Nothing says that an owner who     *)
(* waits for the receiver's Mutex ever gets it.                              *)
FairOwner ==
    WF_vars(OwnerStep /\ ~WaitsForReceiver) /\ SF_vars(TakeHalf) /\ SF_vars(PopCas)
FairConsumer(c) == WF_vars(ConsumerStep(c))

(* "All queues are lock-free (or lock-free with the proper generics)", says  *)
(* lib.rs: every operation returns if only its own thread keeps running,     *)
(* wherever the others have stopped, with one exception.  push and push_many *)
(* "may be non-lock-free" (spmc_producer.rs): they return too, or are left   *)
(* waiting for the receiver, and nowhere else.  (MaxPushes bounds how often  *)
(* the others can win the CAS.)                                              *)
OperationsReturn ==
    /\ FairOwner => ((pc[owner] # "idle") ~> (pc[owner] = "idle" \/ WaitsForReceiver))
    /\ \A c \in Consumers : FairConsumer(c) => ((pc[c] # "idle") ~> (pc[c] = "idle"))

-----------------------------------------------------------------------------
(* What the code's comments and assertions say, and the code does not keep   *)

(* "The queue is not full" says the comment before push_unchecked: a single  *)
(* push writes only when there is space.                                     *)
SinglePushHasSpace ==
    [][pc[owner] \in {"idle", "refresh"} /\ pc'[owner] = "write" /\ op' \in Single =>
          tail - head < Capacity]_vars

(* NUM_VALUES_TAKEN "is one less than the number of values pushed to the     *)
(* global queue": an overflow of a single push hands over that many.         *)
OverflowTakesHalf ==
    [][pc[owner] = "move" /\ op \in Single /\ pc'[owner] = "ok" =>
          Len(received') = Len(received) + Taken + 1]_vars
=============================================================================
