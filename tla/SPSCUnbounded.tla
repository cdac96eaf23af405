--------------------------- MODULE SPSCUnbounded ---------------------------
(***************************************************************************)
(* spsc/unbounded.rs: the single-producer single-consumer queue that       *)
(* grows.  The values lie in the buffer of a version; the producer makes a *)
(* larger one when a push does not fit, swaps it into the cell             *)
(* last_version, and stores its id and the new tail as one word.  The      *)
(* consumer works on the version it has cached until the word names a      *)
(* newer one, and gives up when the cell is locked just then.              *)
(*                                                                         *)
(* Accesses to head, the word, the cell, its lock and the slots are steps  *)
(* of their own.  A load of head or of the word may be stale, but never    *)
(* older than what the same side has loaded before.                        *)
(*                                                                         *)
(* log and delivered are history, by ticket.                               *)
(***************************************************************************)
EXTENDS NaiveRWLock, BufferVersions

CONSTANTS
    producer, consumer, \* the two threads
    FirstCapacity,      \* the capacity of version 0
    MinSteal,           \* the fewest values a steal takes: 4, or 1 with the feature always_steal
    DstCapacity,        \* the capacity of the queue that a steal fills
    SliceLens,          \* the lengths of the slices given to the pushes
    DstLens,            \* the lengths of the slices given to pop_many
    Capacities,         \* what reserve is asked for
    MaxPushes,          \* bound: how many values are handed to the producer
    StaleLoads          \* may a load miss the latest stores?

ASSUME ThreadsAssumption == producer # consumer /\ Threads = {producer, consumer}
ASSUME CapacityAssumption == FirstCapacity \in Nat \ {0} /\ Capacities \subseteq Nat
ASSUME LensAssumption ==
    /\ SliceLens \subseteq Nat \ {0} /\ DstLens \subseteq Nat \ {0}
    /\ MinSteal \in Nat \ {0} /\ DstCapacity \in Nat \ {0}
ASSUME EmptyAssumption == Empty \notin Nat
ASSUME MovedIsNoVersion == Moved \notin Nat
ASSUME BoundAssumption == MaxPushes \in Nat
ASSUME StaleAssumption == StaleLoads \in BOOLEAN

VARIABLES
    tail, wordId,               \* tail_and_version
    past,                       \* older words that the consumer may still load
    head, cachedHead,
    caps, buffers, refs,        \* the versions by id: capacity, buffer, count of references
    pver, cver,                 \* the ids of the two cached versions
    ppc, op,                    \* the producer: its place and its operation,
    batch, base, written,       \* the values to push, their first ticket, how many are written,
    newCap,                     \* the capacity to grow to, or 0
    issued,                     \* history: how many values it was handed
    cpc, cop, want, n, copied,  \* the consumer: place, operation, what it asks for, gets, has read
    log, delivered              \* history

word     == <<tail, wordId>>
versions == <<caps, buffers, refs>>
pushing  == <<batch, base, written, issued>>
thief    == <<past, cver, cpc, cop, want, n, copied>>
owner    == <<cachedHead, pver, ppc, op, batch, base, written, newCap, issued>>
vars     == <<tail, wordId, past, head, cachedHead, caps, buffers, refs, lockVars, pver, cver,
              ppc, op, batch, base, written, newCap, issued, cpc, cop, want, n, copied,
              log, delivered>>

Smaller(i, j) == IF i <= j THEN i ELSE j
Value(v, t) == buffers[v][PhysicalIndex(t, caps[v])]
Word == [id |-> wordId, tail |-> tail]

HeadLoads == IF StaleLoads THEN cachedHead .. head ELSE {head}
WordLoads == IF StaleLoads THEN past \union {Word} ELSE {Word}

(* The consumer has loaded the word s: it will not load an older one.        *)
Looks(s) == past' = {u \in past : u.id >= s.id /\ u.tail >= s.tail}

Init ==
    /\ tail = 0 /\ wordId = 0 /\ past = {} /\ head = 0 /\ cachedHead = 0
    /\ caps = [v \in 0 .. 0 |-> FirstCapacity]
    /\ buffers = [v \in 0 .. 0 |-> AllocNew(FirstCapacity)]
    /\ refs = [v \in 0 .. 0 |-> 3]
    /\ LockInit /\ cell = 0 /\ pver = 0 /\ cver = 0
    /\ ppc = "idle" /\ op = "none" /\ batch = <<>> /\ base = 0 /\ written = 0 /\ newCap = 0
    /\ issued = 0
    /\ cpc = "idle" /\ cop = "none" /\ want = 0 /\ n = 0 /\ copied = <<>>
    /\ log = <<>> /\ delivered = [t \in {} |-> Empty]

(* The references to dropped go down by one and those to made up by one: the *)
(* last one that is dropped takes the buffer with it.                        *)
Exchange(dropped, made) ==
    /\ refs' = [v \in DOMAIN refs |->
                  refs[v] + (IF v = made THEN 1 ELSE 0) - (IF v = dropped THEN 1 ELSE 0)]
    /\ buffers' = [v \in DOMAIN buffers |->
                     IF refs'[v] = 0 THEN AllocNew(caps[v]) ELSE buffers[v]]
    /\ UNCHANGED caps

Drop(v) == Exchange(v, Moved)

-----------------------------------------------------------------------------
(* The producer *)

(* The version that a push writes to: the new one once there is one.         *)
At == IF newCap = 0 THEN pver ELSE pver + 1

FitsOneMore(h, k) == tail - h + k <= caps[pver] + 1     \* mutant
Fits(h, k)        == tail - h + k <= caps[pver]

Begin(o, values, place) ==
    /\ ppc = "idle"
    /\ issued + Len(values) <= MaxPushes
    /\ issued' = issued + Len(values)
    /\ ppc' = place /\ op' = o
    /\ batch' = values /\ base' = tail /\ written' = 0
    /\ UNCHANGED <<word, head, cachedHead, versions, lockVars, pver, thief, log, delivered>>

Fresh(k) == [i \in 1 .. k |-> issued + i]

(* producer_push: maybe_push and lock_free_maybe_push                        *)
StartPush ==
    /\ Begin("push", Fresh(1), IF tail - cachedHead = caps[pver] THEN "refresh" ELSE "write")
    /\ UNCHANGED newCap

(* producer_push_many: maybe_push_many and lock_free_maybe_push_many         *)
StartPushMany(k) ==
    /\ Begin("pushMany", Fresh(k), IF Fits(cachedHead, k) THEN "write" ELSE "refresh")
    /\ UNCHANGED newCap

(* The caller vouches for the space, by what len() has told it.              *)
StartPushManyUnchecked(k) ==
    /\ Fits(cachedHead, k)
    /\ Begin("pushManyUnchecked", Fresh(k), "write")
    /\ UNCHANGED newCap

(* The producer steals from another queue into this one, which is empty as   *)
(* far as len() tells: a slice of r values and one of l.  The method's       *)
(* (right, left) arrive as (left, right), and the right one is copied first. *)
StartCopyAndCommitIf(r, l) ==
    /\ cachedHead = tail
    /\ r + l <= caps[pver]
    /\ Begin("copyAndCommitIf", [i \in 1 .. r + l |-> issued + (IF i <= l THEN r + i ELSE i - l)],
             "write")
    /\ UNCHANGED newCap

(* producer_reserve believes the cached head.                                *)
StartReserve(c) ==
    /\ c > caps[pver]
    /\ newCap' = c
    /\ Begin("reserve", <<>>, "grow")

(* A push of one takes it that there is space when head has moved.           *)
RefreshHead ==
    /\ ppc = "refresh"
    /\ \E h \in HeadLoads :
         /\ cachedHead' = h
         /\ \/ /\ IF op = "push" THEN h # cachedHead ELSE Fits(h, Len(batch))
               /\ ppc' = "write"
               /\ UNCHANGED newCap
            \/ /\ IF op = "push" THEN h = cachedHead ELSE ~Fits(h, Len(batch))
               /\ ppc' = "grow"
               /\ newCap' = GreaterCapacity(caps[pver])
    /\ UNCHANGED <<word, head, versions, lockVars, pver, op, pushing, thief, log, delivered>>

(* handle_overflow looks for a capacity ...                                  *)
Enlarge ==
    /\ ppc = "grow"
    /\ newCap <= caps[pver] + Len(batch)
    /\ newCap' = GreaterCapacity(newCap)
    /\ UNCHANGED <<word, head, cachedHead, versions, lockVars, pver, ppc, op, pushing, thief,
                   log, delivered>>

Extended(f, x) == [v \in 0 .. pver + 1 |-> IF v <= pver THEN f[v] ELSE x]

(* ... and creates the new version, to which it holds two references.        *)
Grow ==
    /\ ppc = "grow"
    /\ newCap > caps[pver] + Len(batch)
    /\ caps' = Extended(caps, newCap)
    /\ buffers' = Extended(buffers, Grown(buffers[pver], caps[pver], cachedHead, tail, newCap))
    /\ refs' = Extended(refs, 2)
    /\ base' = GrownTail(caps[pver], cachedHead, tail)
    /\ ppc' = "swap"
    /\ UNCHANGED <<word, head, cachedHead, lockVars, pver, op, batch, written, newCap, issued,
                   thief, log, delivered>>

(* last_version.swap                                                         *)
SwapStep(lockStep) ==
    /\ ppc = "swap"
    /\ lockStep
    /\ UNCHANGED <<word, head, cachedHead, pver, op, pushing, newCap, thief, log, delivered>>

SwapTryWrite == SwapStep(TryWrite(producer)) /\ UNCHANGED <<ppc, versions>>
SwapTakeOut  == SwapStep(TakeOut(producer)) /\ UNCHANGED <<ppc, versions>>
SwapPutIn    == SwapStep(PutIn(producer, At)) /\ Drop(pver) /\ UNCHANGED ppc
SwapUnlock   ==
    /\ SwapStep(WriteUnlock(producer))
    /\ ppc' = IF batch = <<>> THEN "publish" ELSE "write"
    /\ UNCHANGED versions

WriteNext ==
    /\ ppc = "write"
    /\ buffers' = [buffers EXCEPT ![At][PhysicalIndex(base + written, caps[At])] =
                                      batch[written + 1]]
    /\ written' = written + 1
    /\ ppc' = IF written + 1 = Len(batch) THEN "publish" ELSE "write"
    /\ UNCHANGED <<word, head, cachedHead, caps, refs, lockVars, pver, op, batch, base, newCap,
                   issued, thief, log, delivered>>

EndPush ==
    /\ ppc = "publish"
    /\ ppc' = "idle" /\ op' = "none"
    /\ batch' = <<>> /\ base' = 0 /\ written' = 0 /\ newCap' = 0
    /\ UNCHANGED <<head, cachedHead, lockVars, issued, cver, cpc, cop, want, n, copied,
                   delivered>>

(* mutant: the new version goes into the cell but not into the word          *)
StoreTailOnly ==
    /\ EndPush
    /\ tail' = base + Len(batch)
    /\ past' = past \union {Word}
    /\ pver' = At
    /\ IF newCap = 0 THEN UNCHANGED versions ELSE Drop(pver)
    /\ log' = log \o batch
    /\ UNCHANGED wordId

(* One store of the word; then the producer's own version is the new one.    *)
StoreWord ==
    /\ EndPush
    /\ tail' = base + Len(batch)
    /\ wordId' = At
    /\ past' = past \union {Word}
    /\ pver' = At
    /\ IF newCap = 0 THEN UNCHANGED versions ELSE Drop(pver)
    /\ log' = log \o batch

(* ... unless the condition of copy_and_commit_if has failed                 *)
DoNotCommit ==
    /\ op = "copyAndCommitIf"
    /\ EndPush
    /\ UNCHANGED <<word, past, versions, pver, log>>

ProducerLen ==
    /\ ppc = "idle"
    /\ cachedHead' \in HeadLoads
    /\ UNCHANGED <<word, head, versions, lockVars, pver, ppc, op, pushing, newCap, thief, log,
                   delivered>>

-----------------------------------------------------------------------------
(* The consumer *)

ConsumerFrame == UNCHANGED <<word, owner, log>>

(* consumer_lock_free_pop_many ("pop"), steal_into ("steal")                 *)
StartPopMany(k) ==
    /\ cpc = "idle"
    /\ cpc' = "load" /\ cop' = "pop" /\ want' = k
    /\ UNCHANGED <<head, versions, lockVars, past, cver, n, copied, delivered>> /\ ConsumerFrame

StartSteal ==
    /\ cpc = "idle"
    /\ cpc' = "load" /\ cop' = "steal"
    /\ UNCHANGED <<head, versions, lockVars, past, cver, want, n, copied, delivered>>
    /\ ConsumerFrame

(* consumer_capacity, and consumer_len, which does not go back to an older   *)
(* version than its own                                                      *)
StartQuery ==
    /\ cpc = "idle"
    /\ \E s \in WordLoads :
         /\ Looks(s)
         /\ \/ s.id # cver /\ cpc' = "update" /\ cop' = "query"
            \/ s.id <= cver /\ UNCHANGED <<cpc, cop>>
    /\ UNCHANGED <<head, versions, lockVars, cver, want, n, copied, delivered>> /\ ConsumerFrame

EndPop == cpc' = "idle" /\ cop' = "none" /\ want' = 0 /\ n' = 0 /\ copied' = <<>>

IsNeverBehind(s) == FALSE       \* mutant
IsBehind(s) == cver < s.id

LoadWord ==
    /\ cpc = "load"
    /\ \E s \in WordLoads :
         LET len == s.tail - head
             aim == IF cop = "steal" THEN len \div 2 ELSE Smaller(want, len)
             few == IF cop = "steal" THEN MinSteal ELSE 1
         IN  /\ Looks(s)
             /\ \/ IsBehind(s) /\ cpc' = "update" /\ UNCHANGED <<cop, want, n, copied>>
                \/ ~IsBehind(s) /\ aim < few /\ EndPop
                \/ /\ ~IsBehind(s)
                   /\ aim >= few
                   /\ n' = IF cop = "steal" THEN Smaller(aim, DstCapacity) ELSE aim
                   /\ cpc' = "read"
                   /\ UNCHANGED <<cop, want, copied>>
    /\ UNCHANGED <<head, versions, lockVars, cver, delivered>> /\ ConsumerFrame

ReadNext ==
    /\ cpc = "read"
    /\ copied' = Append(copied, Value(cver, head + Len(copied)))
    /\ cpc' = IF Len(copied) + 1 = n THEN "store" ELSE "read"
    /\ UNCHANGED <<head, versions, lockVars, past, cver, cop, want, n, delivered>>
    /\ ConsumerFrame

(* For steal_into this is the commit condition of the destination.           *)
StoreHead ==
    /\ cpc = "store"
    /\ head' = head + n
    /\ cpc' = "return"
    /\ UNCHANGED <<versions, lockVars, past, cver, cop, want, n, copied, delivered>>
    /\ ConsumerFrame

Return ==
    /\ cpc = "return"
    /\ delivered' = [t \in DOMAIN delivered \union (head - n .. head - 1) |->
                        IF t >= head - n THEN copied[t - (head - n) + 1] ELSE delivered[t]]
    /\ EndPop
    /\ UNCHANGED <<head, versions, lockVars, past, cver>> /\ ConsumerFrame

-----------------------------------------------------------------------------
(* update_version: try_with on the cell                                      *)

Update(lockStep) ==
    /\ cpc = "update"
    /\ lockStep
    /\ UNCHANGED <<head, versions, past, cver, delivered>> /\ ConsumerFrame

UpdateTryRead ==
    Update(TryRead(consumer) \/ ReadMiss(consumer)) /\ UNCHANGED <<cpc, cop, want, n, copied>>

UpdateCas == Update(ReadCas(consumer)) /\ cpc' = "clone" /\ UNCHANGED <<cop, want, n, copied>>

(* The cell is locked: nothing is popped, and the length is given as 0.      *)
UpdateFails == Update(ReadIsLocked(consumer) \/ ReadMissLocked(consumer)) /\ EndPop

(* mutant: the consumer copies the reference and does not count it           *)
CloneUncounted ==
    /\ cpc = "clone"
    /\ cver' = cell
    /\ Drop(cver)
    /\ cpc' = "updated"
    /\ UNCHANGED <<head, lockVars, past, cop, want, n, copied, delivered>> /\ ConsumerFrame

CloneCell ==
    /\ cpc = "clone"
    /\ cver' = cell
    /\ Exchange(cver, cell)
    /\ cpc' = "updated"
    /\ UNCHANGED <<head, lockVars, past, cop, want, n, copied, delivered>> /\ ConsumerFrame

(* The guard is dropped; the pops load the word again.                       *)
UpdateDone ==
    /\ cpc = "updated"
    /\ ReadUnlock(consumer)
    /\ IF cop = "query" THEN EndPop ELSE cpc' = "load" /\ UNCHANGED <<cop, want, n, copied>>
    /\ UNCHANGED <<head, versions, past, cver, delivered>> /\ ConsumerFrame

-----------------------------------------------------------------------------
ProducerStep ==
    \/ RefreshHead \/ Enlarge \/ Grow
    \/ SwapTryWrite \/ SwapTakeOut \/ SwapPutIn \/ SwapUnlock
    \/ WriteNext \/ StoreWord \/ DoNotCommit

ConsumerStep ==
    \/ LoadWord \/ ReadNext \/ StoreHead \/ Return
    \/ UpdateTryRead \/ UpdateCas \/ UpdateFails \/ CloneCell \/ UpdateDone

ProducerStart ==
    \/ StartPush
    \/ \E k \in SliceLens :
         \/ StartPushMany(k)
         \/ StartPushManyUnchecked(k)
         \/ \E l \in 0 .. k - 1 : StartCopyAndCommitIf(k - l, l)
    \/ \E c \in Capacities : StartReserve(c)
    \/ ProducerLen

ConsumerStart == StartSteal \/ StartQuery \/ \E k \in DstLens : StartPopMany(k)

Next == ProducerStart \/ ProducerStep \/ ConsumerStart \/ ConsumerStep

Spec == Init /\ [][Next]_vars

-----------------------------------------------------------------------------
(* Safety *)

WordType == [id : Nat, tail : Nat]

(* The types of the variables.                                               *)
TypeOK ==
    /\ tail \in Nat /\ wordId \in Nat /\ past \subseteq WordType
    /\ head \in Nat /\ cachedHead \in Nat /\ pver \in Nat /\ cver \in Nat
    /\ DOMAIN buffers = DOMAIN caps
    /\ caps \in [DOMAIN caps -> Nat \ {0}]
    /\ refs \in [DOMAIN caps -> Nat]
    /\ \A v \in DOMAIN caps : buffers[v] \in [0 .. caps[v] - 1 -> Nat \union {Empty}]
    /\ lpc \in [Threads -> LockPlaces] /\ seen \in [Threads -> Int]
    /\ ppc \in {"idle", "refresh", "grow", "swap", "write", "publish"}
    /\ op \in {"none", "push", "pushMany", "pushManyUnchecked", "copyAndCommitIf", "reserve"}
    /\ batch \in Seq(Nat) /\ base \in Nat /\ written \in Nat /\ newCap \in Nat /\ issued \in Nat
    /\ cpc \in {"idle", "load", "read", "store", "return", "update", "clone", "updated"}
    /\ cop \in {"none", "pop", "steal", "query"}
    /\ want \in Nat /\ n \in Nat
    /\ copied \in Seq(Nat \union {Empty})
    /\ log \in Seq(Nat)
    /\ DOMAIN delivered \subseteq Nat

(* The producer never writes the slot the consumer is reading, whichever     *)
(* versions the two have: their accesses need no other synchronisation.      *)
NoRace ==
    ppc = "write" /\ cpc = "read" /\ At = cver =>
        PhysicalIndex(base + written, caps[At]) # PhysicalIndex(head + Len(copied), caps[cver])

(* No version is freed while a handle or the cell refers to it, and every    *)
(* one is when none does: its count is that of its holders.                  *)
Grew == newCap # 0 /\ ppc \in {"swap", "write", "publish"}

One(b) == IF b THEN 1 ELSE 0
Holders(v) ==
    One(pver = v) + One(cver = v) + One(cell = v) + One(cell = Moved /\ v = pver)
      + One(Grew /\ v = pver + 1) + One(Grew /\ v = pver + 1 /\ cell # v)

VersionsAreHeld == \A v \in DOMAIN caps : refs[v] = Holders(v)

(* The queue keeps the promise of QueueLog, with no bound on its size.       *)
Log == INSTANCE QueueLog WITH
           Batches <- UNION {[1 .. k -> 1 .. MaxPushes] : k \in SliceLens \union {1}},
           Capacity <- MaxPushes,
           claimed <- head
LogSpec == Log!Spec

-----------------------------------------------------------------------------
(* Progress *)

FairProducer == WF_vars(ProducerStep) /\ SF_vars(SwapTryWrite)
FairConsumer == WF_vars(ConsumerStep) /\ SF_vars(UpdateCas)

(* An operation of the consumer returns if only its own thread keeps         *)
(* running, wherever the producer has stopped, in the middle of a swap too.  *)
(* The producer needs the consumer to leave the cell.                        *)
OperationsReturn ==
    /\ FairConsumer => ((cpc # "idle") ~> (cpc = "idle"))
    /\ FairProducer /\ FairConsumer => ((ppc # "idle") ~> (ppc = "idle"))

-----------------------------------------------------------------------------
(* The inductive invariant *)

(* The cell holds the version of the word until the producer has put the     *)
(* next one in; the consumer has no newer one than the cell.                 *)
Swapped == Grew /\ (ppc # "swap" \/ lpc[producer] = "replaced")
Newest  == IF Swapped THEN pver + 1 ELSE pver

VersionInv ==
    /\ DOMAIN caps = 0 .. (IF Grew THEN pver + 1 ELSE pver)
    /\ wordId = pver
    /\ cver <= Newest
    /\ cell = IF lpc[producer] = "replacing" THEN Moved ELSE Newest

LockInv ==
    /\ lpc[producer] \in {"out", "writing", "replacing", "replaced"}
    /\ ppc # "swap" => lpc[producer] = "out"
    /\ lpc[consumer] \in {"out", "readCas", "reading"}
    /\ lpc[consumer] = "reading" <=> cpc \in {"clone", "updated"}
    /\ lpc[consumer] = "readCas" => cpc = "update"
    /\ lpc[producer] # "out" => lpc[consumer] # "reading"
    /\ state = IF lpc[producer] # "out" THEN -1 ELSE One(lpc[consumer] = "reading")
    /\ \A t \in Threads : lpc[t] = "readCas" => seen[t] >= 0

(* Every version that is held and no older than a word the consumer may load *)
(* has the values up to the tail of that word.                               *)
HasValues(v, first, end) == \A t \in first .. end - 1 : Value(v, t) = log[t + 1]

Taken == IF cpc \in {"read", "store"} THEN head + n ELSE head

RingInv ==
    /\ Len(log) = tail
    /\ \A s \in past \union {Word} :
         /\ s.id <= wordId /\ Taken <= s.tail /\ s.tail <= tail
         /\ \A v \in DOMAIN caps : v >= s.id /\ refs[v] > 0 => HasValues(v, head, s.tail)

(* The values of a push have their space by the producer's copy of head.     *)
ProducerInv ==
    /\ cachedHead <= head
    /\ tail <= cachedHead + caps[pver]
    /\ ppc = "idle" => batch = <<>>
    /\ ppc # "idle" => base = tail
    /\ ppc \in {"refresh", "grow", "swap"} => written = 0
    /\ ppc \in {"idle", "refresh"} => newCap = 0
    /\ ppc \in {"grow", "swap"} => newCap > 0
    /\ op = "push" => Len(batch) = 1
    /\ op = "copyAndCommitIf" => newCap = 0 /\ ppc \in {"write", "publish"}
    /\ ppc \in {"swap", "write", "publish"} => tail + Len(batch) <= cachedHead + caps[At]
    /\ ppc = "refresh" => batch # <<>>
    /\ ppc = "write" => written < Len(batch)
    /\ ppc = "publish" => written = Len(batch)
    /\ \A i \in 1 .. written : Value(At, tail + i - 1) = batch[i]

(* What the producer was handed is bounded, in slices of these lengths.      *)
IssuedInv ==
    /\ tail + Len(batch) <= issued /\ issued <= MaxPushes
    /\ batch \in Seq(1 .. MaxPushes)
    /\ batch # <<>> => Len(batch) \in SliceLens \union {1}

(* The values of a pop are in the consumer's version before it reads them.   *)
HasRead(first, k) == Len(copied) = k /\ \A i \in 1 .. k : copied[i] = log[first + i]

ConsumerInv ==
    /\ cpc \notin {"read", "store", "return"} => copied = <<>>
    /\ cpc \in {"read", "store"} => n >= 1 /\ HasValues(cver, head, head + n)
    /\ cpc = "read" => Len(copied) < n /\ HasRead(head, Len(copied))
    /\ cpc = "store" => HasRead(head, n)
    /\ cpc = "return" => 1 <= n /\ n <= head /\ HasRead(head - n, n)

Returned == IF cpc = "return" THEN head - n ELSE head

HistoryInv == \A t \in DOMAIN delivered : t < Returned /\ delivered[t] = log[t + 1]

(* The lock keeps the two threads apart in the cell, the references are      *)
(* counted, and what a push or a pop has done so far is within what its copy *)
(* of the other side's counter allows, in whichever version it works.        *)
IInv ==
    /\ TypeOK /\ VersionsAreHeld /\ VersionInv /\ LockInv
    /\ RingInv /\ ProducerInv /\ IssuedInv /\ ConsumerInv /\ HistoryInv
=============================================================================
