--------------------------- MODULE SPMCUnbounded ---------------------------
(***************************************************************************)
(* spmc/unbounded.rs: the single-producer multi-consumer queue that grows. *)
(*                                                                         *)
(* The values lie in the buffer of a version.  When it is full the owner   *)
(* copies what is in it to a larger one, swaps that into the cell          *)
(* last_version, and stores the new version id together with the new tail  *)
(* in one word.  Every handle works on a cached version, and a consumer    *)
(* fetches a new one from the cell when the word has a newer id; it gives  *)
(* up if the owner has the cell locked just then.  Versions are counted    *)
(* references: the last handle that lets go of one frees its buffer.       *)
(*                                                                         *)
(* Accesses to head, to the word, to the cell and its lock, and to the     *)
(* slots are steps of their own, and sequentially consistent.  Only the    *)
(* owner writes slots.  log and delivered are history, by ticket.          *)
(***************************************************************************)
EXTENDS NaiveRWLock, BufferVersions

CONSTANTS
    owner,          \* the thread of the producer
    Consumers,      \* the threads of the consumers
    FirstCapacity,  \* the capacity of version 0
    MinSteal,       \* the fewest values a steal takes: 4, or 1 with the feature always_steal
    DstCapacity,    \* the capacity of the queue that a steal fills
    SliceLens,      \* the lengths of the slices given to the owner's pushes
    DstLens,        \* the lengths of the slices given to the pops
    Capacities,     \* what reserve is asked for
    Modulus,        \* the lengths are computed modulo this
    MaxPushes       \* bound: how many values are handed to the owner

ASSUME ThreadsAssumption == owner \notin Consumers /\ Threads = Consumers \union {owner}
ASSUME CapacityAssumption == FirstCapacity \in Nat \ {0} /\ Capacities \subseteq Nat
ASSUME LensAssumption ==
    /\ SliceLens \subseteq Nat \ {0} /\ DstLens \subseteq Nat \ {0}
    /\ MinSteal \in Nat \ {0} /\ DstCapacity \in Nat \ {0}
ASSUME BoundAssumption == MaxPushes \in Nat /\ Modulus \in Nat \ {0}
ASSUME CellsAssumption == Cells = Nat    \* the ids of the versions

VARIABLES
    tail, wordId,           \* tail_and_version
    head,
    versions,               \* the versions by id: capacity, buffer, and count of references
    cachedHead,             \* cached_head, which only the owner uses
    ver,                    \* the id of each handle's cached version
    pc, op,                 \* where each thread stands, and in which operation
    from,                   \* each thread's local copy of head
    want, n,                \* how many values a pop asks for, and is about to claim
    loaded,                 \* the word as consumer_len has loaded it
    copied,                 \* what a consumer has copied so far
    batch, base, written,   \* the owner's push: its values, their first ticket, how many are written
    newCap,                 \* the capacity to grow to, or 0
    issued,                 \* history: how many values the owner was handed
    log, delivered          \* history: what was pushed, what has left the queue

word    == <<tail, wordId>>
pushing == <<batch, base, written, newCap, issued>>
popping == <<from, want, n, loaded, copied>>
history == <<log, delivered>>
vars    == <<tail, wordId, head, versions, lockVars, cachedHead, ver, pc, op, from, want, n,
             loaded, copied, batch, base, written, newCap, issued, log, delivered>>

Smaller(i, j) == IF i <= j THEN i ELSE j
Length(h, t) == (t - h) % Modulus
Cap(v) == versions[v].cap
Value(v, t) == versions[v].buffer[PhysicalIndex(t, Cap(v))]
NoWord == [id |-> 0, tail |-> 0]

Init ==
    /\ tail = 0 /\ wordId = 0 /\ head = 0 /\ cachedHead = 0
    /\ versions = [v \in {0} |-> [cap |-> FirstCapacity, buffer |-> AllocNew(FirstCapacity),
                                  refs |-> 1 + Cardinality(Threads)]]
    /\ cell = 0 /\ LockInit
    /\ ver = [t \in Threads |-> 0]
    /\ pc = [t \in Threads |-> "idle"]
    /\ op = [t \in Threads |-> "none"]
    /\ from = [t \in Threads |-> 0]
    /\ want = [t \in Threads |-> 0]
    /\ n = [t \in Threads |-> 0]
    /\ loaded = [c \in Consumers |-> NoWord]
    /\ copied = [c \in Consumers |-> <<>>]
    /\ batch = <<>> /\ base = 0 /\ written = 0 /\ newCap = 0 /\ issued = 0
    /\ log = <<>> /\ delivered = [t \in {} |-> Empty]

Goto(t, label) == pc' = [pc EXCEPT ![t] = label]

Start(t, o) ==
    /\ pc[t] = "idle"
    /\ op' = [op EXCEPT ![t] = o]

(* A pop ends: its locals are gone.                                          *)
EndPop(t) ==
    /\ Goto(t, "idle")
    /\ op' = [op EXCEPT ![t] = "none"]
    /\ from' = [from EXCEPT ![t] = 0]
    /\ want' = [want EXCEPT ![t] = 0]
    /\ n' = [n EXCEPT ![t] = 0]

(* The tickets in the domain of f have left the queue, with these values.    *)
Delivers(f) ==
    delivered' = [t \in DOMAIN delivered \union DOMAIN f |->
                    IF t \in DOMAIN f THEN f[t] ELSE delivered[t]]

(* One reference to old is dropped and one to new is made: the last one that *)
(* is dropped takes the buffer with it.                                      *)
Exchange(old, new) ==
    [v \in DOMAIN versions |->
        LET refs == versions[v].refs + (IF v = new THEN 1 ELSE 0) - (IF v = old THEN 1 ELSE 0)
        IN  [versions[v] EXCEPT !.refs = refs,
                                !.buffer = IF refs = 0 THEN AllocNew(Cap(v)) ELSE @]]

(* mutant: the old version is forgotten and not dropped                      *)
DropNothing(old) == versions

Drop(old) == Exchange(old, Moved)

-----------------------------------------------------------------------------
(* The owner's pushes *)

(* The version that a push writes to: the new one once there is one.         *)
At == IF newCap = 0 THEN ver[owner] ELSE ver[owner] + 1

Begin(o, values, place) ==
    /\ Start(owner, o)
    /\ issued + Len(values) <= MaxPushes
    /\ issued' = issued + Len(values)
    /\ batch' = values /\ base' = tail /\ written' = 0
    /\ Goto(owner, place)
    /\ UNCHANGED <<word, head, versions, lockVars, cachedHead, ver, popping, history>>

Fresh(k) == [i \in 1 .. k |-> issued + i]

(* producer_push: push, maybe_push and their lock-free forms                 *)
StartPush ==
    /\ Begin("push", Fresh(1),
             IF tail - cachedHead >= Cap(ver[owner]) THEN "refresh" ELSE "write")
    /\ UNCHANGED newCap

(* producer_push_many: push_many, maybe_push_many and their lock-free forms  *)
StartPushMany(k) ==
    /\ Begin("pushMany", Fresh(k),
             IF tail - cachedHead + k > Cap(ver[owner]) THEN "refresh" ELSE "write")
    /\ UNCHANGED newCap

(* The caller vouches for the space, by what len() has told it.              *)
StartPushManyUnchecked(k) ==
    /\ tail + k <= cachedHead + Cap(ver[owner])
    /\ Begin("pushManyUnchecked", Fresh(k), "write")
    /\ UNCHANGED newCap

(* Another queue's steal_into copies into this one, which is empty as far as *)
(* len() and pop() tell, a slice of r values and then one of l.  The method  *)
(* takes them as (right, left) and hands them on as (left, right), and the   *)
(* right one is copied first.                                                *)
StartCopyAndCommitIf(r, l) ==
    /\ cachedHead = tail
    /\ r + l <= Cap(ver[owner])
    /\ Begin("copyAndCommitIf", SubSeq(Fresh(r + l), r + 1, r + l) \o Fresh(r), "write")
    /\ UNCHANGED newCap

(* producer_reserve believes the cached head.                                *)
StartReserve(c) ==
    /\ c > Cap(ver[owner])
    /\ newCap' = c
    /\ Begin("reserve", <<>>, "grow")

RefreshHead ==
    /\ pc[owner] = "refresh"
    /\ cachedHead' = head
    /\ LET cap  == Cap(ver[owner])
           full == IF op[owner] = "push" THEN head = cachedHead
                                         ELSE tail - head + Len(batch) > cap
       IN  /\ newCap' = IF full THEN GreaterCapacity(cap) ELSE 0
           /\ Goto(owner, IF full THEN "grow" ELSE "write")
    /\ UNCHANGED <<word, head, versions, lockVars, ver, op, popping, batch, base, written,
                   issued, history>>

(* handle_overflow looks for a capacity ...                                  *)
Enlarge ==
    /\ pc[owner] = "grow"
    /\ newCap <= Cap(ver[owner]) + Len(batch)
    /\ newCap' = GreaterCapacity(newCap)
    /\ UNCHANGED <<word, head, versions, lockVars, cachedHead, ver, pc, op, popping, batch,
                   base, written, issued, history>>

(* ... and creates the new version, to which it holds two references.        *)
Grow ==
    /\ pc[owner] = "grow"
    /\ newCap > Cap(ver[owner]) + Len(batch)
    /\ LET old == versions[ver[owner]]
       IN  /\ versions' = [v \in DOMAIN versions \union {ver[owner] + 1} |->
                IF v \in DOMAIN versions THEN versions[v]
                ELSE [cap |-> newCap,
                      buffer |-> Grown(old.buffer, old.cap, cachedHead, tail, newCap),
                      refs |-> 2]]
           /\ base' = GrownTail(old.cap, cachedHead, tail)
    /\ Goto(owner, "swap")
    /\ UNCHANGED <<word, head, lockVars, cachedHead, ver, op, popping, batch, written, newCap,
                   issued, history>>

(* last_version.swap                                                         *)
SwapStep(lockStep) ==
    /\ pc[owner] = "swap"
    /\ lockStep
    /\ UNCHANGED <<word, head, cachedHead, ver, op, popping, pushing, history>>

SwapTryWrite == SwapStep(TryWrite(owner)) /\ UNCHANGED <<pc, versions>>
SwapTakeOut  == SwapStep(TakeOut(owner)) /\ UNCHANGED <<pc, versions>>
SwapPutIn    == SwapStep(PutIn(owner, At)) /\ versions' = Drop(ver[owner]) /\ UNCHANGED pc
SwapUnlock   ==
    /\ SwapStep(WriteUnlock(owner))
    /\ Goto(owner, IF batch = <<>> THEN "publish" ELSE "write")
    /\ UNCHANGED versions

WriteNext ==
    /\ pc[owner] = "write"
    /\ versions' = [versions EXCEPT ![At].buffer[PhysicalIndex(base + written, Cap(At))] =
                                        batch[written + 1]]
    /\ written' = written + 1
    /\ Goto(owner, IF written' = Len(batch) THEN "publish" ELSE "write")
    /\ UNCHANGED <<word, head, lockVars, cachedHead, ver, op, popping, batch, base, newCap,
                   issued, history>>

EndPush ==
    /\ Goto(owner, "idle")
    /\ op' = [op EXCEPT ![owner] = "none"]
    /\ batch' = <<>> /\ base' = 0 /\ written' = 0 /\ newCap' = 0
    /\ UNCHANGED <<head, lockVars, cachedHead, popping, issued, delivered>>

(* One store of the word; then the owner's own version is the new one, if    *)
(* there is one, and the last reference to the old one may be gone.          *)
StoreWord ==
    /\ pc[owner] = "publish"
    /\ tail' = base + Len(batch)
    /\ wordId' = At
    /\ ver' = [ver EXCEPT ![owner] = At]
    /\ versions' = IF newCap = 0 THEN versions ELSE Drop(ver[owner])
    /\ log' = log \o batch
    /\ EndPush

(* ... unless the CAS of the other queue's steal has failed.                 *)
DoNotCommit ==
    /\ pc[owner] = "publish"
    /\ op[owner] = "copyAndCommitIf"
    /\ UNCHANGED <<word, ver, versions, log>>
    /\ EndPush

ProducerLen ==
    /\ pc[owner] = "idle"
    /\ cachedHead' = head
    /\ UNCHANGED <<word, head, versions, lockVars, ver, pc, op, popping, pushing, history>>

-----------------------------------------------------------------------------
(* The owner's pops *)

(* mutant: head and tail are swapped                                         *)
AimBackwards(h, k) ==
    /\ from' = [from EXCEPT ![owner] = h]
    /\ n' = [n EXCEPT ![owner] = Smaller(k, h - tail)]
    /\ Goto(owner, IF n'[owner] = 0 THEN "popRefresh" ELSE "popCas")

Aim(h, k) ==
    /\ from' = [from EXCEPT ![owner] = h]
    /\ n' = [n EXCEPT ![owner] = Smaller(k, tail - h)]
    /\ Goto(owner, IF n'[owner] = 0 THEN "popRefresh" ELSE "popCas")

(* producer_pop ("pop"), producer_pop_many ("popMany")                       *)
StartProducerPop(o, k) ==
    /\ Start(owner, o)
    /\ want' = [want EXCEPT ![owner] = k]
    /\ Aim(cachedHead, k)
    /\ UNCHANGED <<word, head, versions, lockVars, cachedHead, ver, loaded, copied, pushing,
                   history>>

PopRefresh ==
    /\ pc[owner] = "popRefresh"
    /\ cachedHead' = head
    /\ IF head = from[owner]
         THEN EndPop(owner)
         ELSE /\ from' = [from EXCEPT ![owner] = head]
              /\ n' = [n EXCEPT ![owner] = Smaller(want[owner], tail - head)]
              /\ Goto(owner, "popCas")
              /\ UNCHANGED <<op, want>>
    /\ UNCHANGED <<word, head, versions, lockVars, ver, loaded, copied, pushing, history>>

(* Only pop remembers what head is now.                                      *)
PopCas ==
    /\ pc[owner] = "popCas"
    /\ head = from[owner]
    /\ head' = head + n[owner]
    /\ cachedHead' = IF op[owner] = "pop" THEN head' ELSE cachedHead
    /\ Goto(owner, "popRead")
    /\ UNCHANGED <<word, versions, lockVars, ver, op, popping, pushing, history>>

PopMiss ==
    /\ pc[owner] = "popCas"
    /\ Aim(head, want[owner])
    /\ UNCHANGED <<word, head, versions, lockVars, cachedHead, ver, op, want, loaded, copied,
                   pushing, history>>

PopRead ==
    /\ pc[owner] = "popRead"
    /\ Delivers([t \in from[owner] .. from[owner] + n[owner] - 1 |-> Value(ver[owner], t)])
    /\ EndPop(owner)
    /\ UNCHANGED <<word, head, versions, lockVars, cachedHead, ver, loaded, copied, pushing,
                   log>>

-----------------------------------------------------------------------------
(* The consumers: consumer_lock_free_pop_many and steal_into                 *)

LoadsHead(c) ==
    /\ from' = [from EXCEPT ![c] = head]
    /\ Goto(c, "loadWord")
    /\ UNCHANGED <<word, head, versions, lockVars, cachedHead, ver, n, loaded, copied, pushing,
                   history>>

StartPopMany(c, k) ==
    /\ Start(c, "popMany")
    /\ want' = [want EXCEPT ![c] = k]
    /\ LoadsHead(c)

StartSteal(c) == Start(c, "steal") /\ LoadsHead(c) /\ UNCHANGED want

LoadHead(c) == pc[c] = "loadHead" /\ LoadsHead(c) /\ UNCHANGED <<op, want>>

(* mutant: the id of the word is not looked at                               *)
IsNeverBehind(c) == FALSE

IsBehind(c) == ver[c] < wordId

(* More than the version can hold: the head is stale.                        *)
LoadWord(c) ==
    /\ pc[c] = "loadWord"
    /\ LET stealing == op[c] = "steal"
           len   == Length(from[c], tail)
           aim   == IF stealing THEN len \div 2 ELSE Smaller(want[c], len)
           most  == IF stealing THEN Cap(ver[c]) \div 2 ELSE Cap(ver[c])
           few   == IF stealing THEN MinSteal ELSE 1
       IN  \/ IsBehind(c) /\ Goto(c, "update") /\ UNCHANGED <<op, from, want, n>>
           \/ ~IsBehind(c) /\ aim > most /\ Goto(c, "loadHead") /\ UNCHANGED <<op, from, want, n>>
           \/ ~IsBehind(c) /\ aim < few /\ aim <= most /\ EndPop(c)
           \/ /\ ~IsBehind(c)
              /\ aim \in few .. most
              /\ n' = [n EXCEPT ![c] = IF stealing THEN Smaller(aim, DstCapacity) ELSE aim]
              /\ Goto(c, "copy")
              /\ UNCHANGED <<op, from, want>>
    /\ UNCHANGED <<word, head, versions, lockVars, cachedHead, ver, loaded, copied, pushing,
                   history>>

CopyNext(c) ==
    /\ pc[c] = "copy"
    /\ copied' = [copied EXCEPT ![c] = Append(@, Value(ver[c], from[c] + Len(@)))]
    /\ Goto(c, IF Len(copied'[c]) = n[c] THEN "cas" ELSE "copy")
    /\ UNCHANGED <<word, head, versions, lockVars, cachedHead, ver, op, from, want, n, loaded,
                   pushing, history>>

(* mutant: head is stored without being compared                             *)
ClaimAnyway(c) ==
    /\ pc[c] = "cas"
    /\ head' = from[c] + n[c]
    /\ Goto(c, "return")
    /\ UNCHANGED <<word, versions, lockVars, cachedHead, ver, op, popping, pushing, history>>

ClaimCopied(c) ==
    /\ pc[c] = "cas"
    /\ head = from[c]
    /\ head' = head + n[c]
    /\ Goto(c, "return")
    /\ UNCHANGED <<word, versions, lockVars, cachedHead, ver, op, popping, pushing, history>>

ForgetCopied(c) ==
    /\ pc[c] = "cas"
    /\ head # from[c]
    /\ from' = [from EXCEPT ![c] = head]
    /\ copied' = [copied EXCEPT ![c] = <<>>]
    /\ Goto(c, "loadWord")
    /\ UNCHANGED <<word, head, versions, lockVars, cachedHead, ver, op, want, n, loaded, pushing,
                   history>>

(* pop_many returns n; steal_into's destination commits, and then it too.    *)
Return(c) ==
    /\ pc[c] = "return"
    /\ Delivers([t \in from[c] .. from[c] + n[c] - 1 |-> copied[c][t - from[c] + 1]])
    /\ copied' = [copied EXCEPT ![c] = <<>>]
    /\ EndPop(c)
    /\ UNCHANGED <<word, head, versions, lockVars, cachedHead, ver, loaded, pushing, log>>

-----------------------------------------------------------------------------
(* consumer_capacity and consumer_len                                        *)

EndQuery(c) ==
    /\ Goto(c, "idle")
    /\ op' = [op EXCEPT ![c] = "none"]
    /\ loaded' = [loaded EXCEPT ![c] = NoWord]

(* The capacity is asked of the version, if that is the last.                *)
StartCapacity(c) ==
    /\ ver[c] # wordId
    /\ Start(c, "capacity")
    /\ Goto(c, "update")
    /\ UNCHANGED <<word, head, versions, lockVars, cachedHead, ver, popping, pushing, history>>

LoadsWord(c) ==
    /\ loaded' = [loaded EXCEPT ![c] = [id |-> wordId, tail |-> tail]]
    /\ Goto(c, "lenHead")
    /\ UNCHANGED <<word, head, versions, lockVars, cachedHead, ver, from, want, n, copied,
                   pushing, history>>

StartLen(c) == Start(c, "len") /\ LoadsWord(c)
LenWord(c)  == pc[c] = "lenWord" /\ LoadsWord(c) /\ UNCHANGED op

LenAnswer(c) == Length(head, loaded[c].tail)

(* mutant: whatever comes out is the answer                                  *)
LenHeadOnce(c) ==
    /\ pc[c] = "lenHead"
    /\ EndQuery(c)
    /\ UNCHANGED <<word, head, versions, lockVars, cachedHead, ver, from, want, n, copied,
                   pushing, history>>

LenHead(c) ==
    /\ pc[c] = "lenHead"
    /\ \/ LenAnswer(c) <= Cap(ver[c]) /\ EndQuery(c)
       \/ /\ LenAnswer(c) > Cap(ver[c])
          /\ Goto(c, IF loaded[c].id = ver[c] THEN "lenWord" ELSE "update")
          /\ UNCHANGED <<op, loaded>>
    /\ UNCHANGED <<word, head, versions, lockVars, cachedHead, ver, from, want, n, copied,
                   pushing, history>>

-----------------------------------------------------------------------------
(* update_version: try_with on the cell                                      *)

Update(c, lockStep) ==
    /\ pc[c] = "update"
    /\ lockStep
    /\ UNCHANGED <<word, head, versions, cachedHead, ver, pushing, history>>

UpdateTryRead(c) == Update(c, TryRead(c) \/ ReadMiss(c)) /\ UNCHANGED <<pc, op, popping>>
UpdateCas(c)     == Update(c, ReadCas(c)) /\ Goto(c, "clone") /\ UNCHANGED <<op, popping>>

(* The cell is locked: nothing is popped, the length is given as 0, and the  *)
(* capacity is that of the old version.                                      *)
UpdateFails(c) ==
    /\ Update(c, ReadIsLocked(c) \/ ReadMissLocked(c))
    /\ EndPop(c)
    /\ loaded' = [loaded EXCEPT ![c] = NoWord]
    /\ UNCHANGED copied

CloneCell(c) ==
    /\ pc[c] = "clone"
    /\ ver' = [ver EXCEPT ![c] = cell]
    /\ versions' = Exchange(ver[c], cell)
    /\ Goto(c, "updated")
    /\ UNCHANGED <<word, head, lockVars, cachedHead, op, popping, pushing, history>>

(* The pops look at the word again; consumer_len returns what it computed    *)
(* from the word and the head it had loaded before.                          *)
UpdateDone(c) ==
    /\ pc[c] = "updated"
    /\ ReadUnlock(c)
    /\ IF op[c] \in {"popMany", "steal"} THEN Goto(c, "loadWord") /\ UNCHANGED <<op, loaded>>
                                         ELSE EndQuery(c)
    /\ UNCHANGED <<word, head, versions, cachedHead, ver, from, want, n, copied, pushing, history>>

(* The handle of c is dropped, and replaced by a new one: a clone of another *)
(* consumer's, or one that the producer's has spawned.                       *)
CloneHandle(c, t) ==
    /\ pc[c] = "idle" /\ pc[t] = "idle"
    /\ ver[t] # ver[c]
    /\ ver' = [ver EXCEPT ![c] = ver[t]]
    /\ versions' = Exchange(ver[c], ver[t])
    /\ UNCHANGED <<word, head, lockVars, cachedHead, pc, op, popping, pushing, history>>

-----------------------------------------------------------------------------
OwnerStep ==
    \/ RefreshHead \/ Enlarge \/ Grow
    \/ SwapTryWrite \/ SwapTakeOut \/ SwapPutIn \/ SwapUnlock
    \/ WriteNext \/ StoreWord \/ DoNotCommit
    \/ PopRefresh \/ PopCas \/ PopMiss \/ PopRead

ConsumerStep(c) ==
    \/ LoadHead(c) \/ LoadWord(c) \/ CopyNext(c) \/ ClaimCopied(c) \/ ForgetCopied(c)
    \/ Return(c)
    \/ LenWord(c) \/ LenHead(c)
    \/ UpdateTryRead(c) \/ UpdateCas(c) \/ UpdateFails(c) \/ CloneCell(c) \/ UpdateDone(c)

OwnerStart ==
    \/ StartPush
    \/ \E k \in SliceLens :
         \/ StartPushMany(k)
         \/ StartPushManyUnchecked(k)
         \/ \E l \in 0 .. k - 1 : StartCopyAndCommitIf(k - l, l)
    \/ \E c \in Capacities : StartReserve(c)
    \/ ProducerLen
    \/ StartProducerPop("pop", 1)
    \/ \E k \in DstLens : StartProducerPop("popMany", k)

ConsumerStart(c) ==
    \/ StartSteal(c) \/ StartCapacity(c) \/ StartLen(c)
    \/ \E k \in DstLens : StartPopMany(c, k)
    \/ \E t \in Threads \ {c} : CloneHandle(c, t)

Next ==
    \/ OwnerStart \/ OwnerStep
    \/ \E c \in Consumers : ConsumerStart(c) \/ ConsumerStep(c)

Spec == Init /\ [][Next]_vars

-----------------------------------------------------------------------------
(* Safety *)

OwnerLabels ==
    {"idle", "refresh", "grow", "swap", "write", "publish", "popRefresh", "popCas", "popRead"}
ConsumerLabels ==
    {"idle", "loadHead", "loadWord", "copy", "cas", "return", "lenWord", "lenHead",
     "update", "clone", "updated"}

Operations ==
    {"none", "push", "pushMany", "pushManyUnchecked", "copyAndCommitIf", "reserve", "pop",
     "popMany", "steal", "capacity", "len"}

(* The types of the variables.                                               *)
TypeOK ==
    /\ LockTypeOK
    /\ tail \in Nat /\ wordId \in Nat /\ head \in Nat /\ cachedHead \in Nat
    /\ versions = [v \in DOMAIN versions |-> versions[v]]
    /\ \A v \in DOMAIN versions :
         versions[v] \in [cap : Nat \ {0}, refs : Nat,
                          buffer : [0 .. Cap(v) - 1 -> Nat \union {Empty}]]
    /\ ver \in [Threads -> DOMAIN versions]
    /\ pc \in [Threads -> OwnerLabels \union ConsumerLabels] /\ op \in [Threads -> Operations]
    /\ pc[owner] \in OwnerLabels /\ \A c \in Consumers : pc[c] \in ConsumerLabels
    /\ from \in [Threads -> Nat] /\ want \in [Threads -> Nat] /\ n \in [Threads -> Nat]
    /\ loaded \in [Consumers -> [id : Nat, tail : Nat]]
    /\ copied \in [Consumers -> Seq(Nat \union {Empty})]
    /\ batch \in Seq(Nat) /\ base \in Nat /\ written \in 0 .. Len(batch) /\ newCap \in Nat
    /\ issued \in Nat /\ log \in Seq(Nat) /\ DOMAIN delivered \subseteq Nat

(* Every value in the queue is where its ticket says: in the buffer of the   *)
(* version that the word names, and in every newer one, also while the owner *)
(* is growing or writing.  So a consumer may use any of them, and dropping   *)
(* the queue finds every value in the version of the cell.                   *)
ValuesInPlace ==
    /\ tail = Len(log)
    /\ \A v \in DOMAIN versions : v >= wordId =>
         \A t \in head .. tail - 1 : Value(v, t) = log[t + 1]
    /\ pc[owner] = "popRead" =>
         \A t \in from[owner] .. from[owner] + n[owner] - 1 : Value(ver[owner], t) = log[t + 1]

(* A consumer whose CAS is going to succeed takes no more than was pushed,   *)
(* and has copied the values as they were pushed, from whichever version it  *)
(* has, and however often the owner has grown the queue since.               *)
CopyIsValid ==
    \A c \in Consumers :
        pc[c] = "return" \/ (pc[c] = "cas" /\ from[c] = head) =>
            /\ from[c] + n[c] <= tail
            /\ copied[c] = SubSeq(log, from[c] + 1, from[c] + n[c])

(* No version is freed while a handle or the cell refers to it, and every    *)
(* one is freed when none does: its count is that of its holders.            *)
Holders(v) ==
    Cardinality({t \in Threads : ver[t] = v})
      + (IF cell = v \/ (cell = Moved /\ v = ver[owner]) THEN 1 ELSE 0)
      + (IF newCap # 0 /\ v = ver[owner] + 1 THEN (IF cell = v THEN 1 ELSE 2) ELSE 0)

VersionsAreHeld == \A v \in DOMAIN versions : versions[v].refs = Holders(v)

(* len() of a consumer that did not have to update its version tells a       *)
(* number of values that the queue held when the word was loaded.  The       *)
(* answer after a successful update is left out: consumer_len then returns   *)
(* the difference that made it update, which may have wrapped.               *)
LenIsPossible ==
    [][\A c \in Consumers :
         pc[c] = "lenHead" /\ pc'[c] = "idle" => LenAnswer(c) <= tail - head]_vars

(* The queue keeps the promise of QueueLog, with no bound on its size:       *)
(* whoever claims, the claims follow the order of the pushes, and every      *)
(* claimed value is delivered once and as it was pushed.                     *)
Log == INSTANCE QueueLog WITH
           Batches <- UNION {[1 .. k -> 1 .. MaxPushes] : k \in SliceLens \union {1}},
           Capacity <- MaxPushes,
           claimed <- head
LogSpec == Log!Spec

-----------------------------------------------------------------------------
(* The inductive invariant *)

(* The owner has a new version that the word does not name yet.              *)
Grew == newCap # 0 /\ pc[owner] \in {"swap", "write", "publish"}

(* The cell holds the version of the word until the owner has put the next   *)
(* one in; no consumer has a newer one than the cell.                        *)
Swapped == Grew /\ (pc[owner] # "swap" \/ lpc[owner] = "replaced")
Newest  == IF Swapped THEN ver[owner] + 1 ELSE ver[owner]

VersionInv ==
    /\ DOMAIN versions = 0 .. (IF Grew THEN ver[owner] + 1 ELSE ver[owner])
    /\ wordId = ver[owner]
    /\ \A c \in Consumers : ver[c] <= Newest
    /\ cell = IF lpc[owner] = "replacing" THEN Moved ELSE Newest

PlacesInv ==
    /\ lpc[owner] \in {"out", "writing", "replacing", "replaced"}
    /\ pc[owner] # "swap" => lpc[owner] = "out"
    /\ \A c \in Consumers :
         /\ lpc[c] \in {"out", "readCas", "reading"}
         /\ lpc[c] = "reading" <=> pc[c] \in {"clone", "updated"}
         /\ lpc[c] = "readCas" => pc[c] = "update"

(* A version no older than the word has every value in the queue.            *)
HasValues(v, first, end) == \A t \in first .. end - 1 : Value(v, t) = log[t + 1]

RingInv ==
    /\ Len(log) = tail /\ head <= tail
    /\ \A v \in DOMAIN versions : v >= wordId => HasValues(v, head, tail)

(* The values of a push have their space by the owner's copy of head, and    *)
(* what a pop of the owner claims is there.                                  *)
OwnerInv ==
    LET at == pc[owner]
        k  == Len(batch)
    IN  /\ cachedHead <= head
        /\ tail <= cachedHead + Cap(ver[owner])
        /\ at \in {"idle", "popRefresh", "popCas", "popRead"} => batch = <<>>
        /\ at \in {"refresh", "grow", "swap", "write", "publish"} => base = tail
        /\ at \notin {"write", "publish"} => written = 0
        /\ at \notin {"grow", "swap", "write", "publish"} => newCap = 0
        /\ at \in {"grow", "swap"} => newCap > 0
        /\ op[owner] = "push" => k = 1
        /\ op[owner] = "copyAndCommitIf" => newCap = 0 /\ at \in {"write", "publish"}
        /\ at \in {"swap", "write", "publish"} => tail + k <= cachedHead + Cap(At)
        /\ at = "refresh" => k > 0
        /\ at = "write" => written < k
        /\ at = "publish" => written = k
        /\ \A i \in 1 .. written : Value(At, tail + i - 1) = batch[i]
        /\ at = "popRefresh" => from[owner] <= head
        /\ at = "popCas" => from[owner] <= head /\ from[owner] + n[owner] <= tail
        /\ at = "popRead" =>
             /\ from[owner] + n[owner] <= head
             /\ HasValues(ver[owner], from[owner], from[owner] + n[owner])

(* What the owner was handed is bounded, in slices of these lengths.         *)
IssuedInv ==
    /\ tail + Len(batch) <= issued /\ issued <= MaxPushes
    /\ batch \in Seq(1 .. MaxPushes)
    /\ batch # <<>> => Len(batch) \in SliceLens \union {1}

CopiedFrom(h, seq) == \A i \in 1 .. Len(seq) : seq[i] = log[h + i]

(* As long as head is where a copy started, the values are still there, in   *)
(* the consumer's own version, although it may no longer be the word's.      *)
ConsumerInv(c) ==
    /\ from[c] <= head
    /\ pc[c] \notin {"copy", "cas", "return"} => copied[c] = <<>>
    /\ pc[c] \in {"copy", "cas"} =>
         /\ n[c] >= 1 /\ from[c] + n[c] <= tail
         /\ from[c] = head => CopiedFrom(from[c], copied[c])
    /\ pc[c] = "copy" =>
         /\ Len(copied[c]) < n[c]
         /\ from[c] = head => HasValues(ver[c], from[c], from[c] + n[c])
    /\ pc[c] \in {"cas", "return"} => Len(copied[c]) = n[c]
    /\ pc[c] = "return" => from[c] + n[c] <= head /\ CopiedFrom(from[c], copied[c])

(* The tickets that a thread has claimed and not delivered yet               *)
ClaimedAt(label, h, k) == IF label \in {"return", "popRead"} THEN h .. h + k - 1 ELSE {}
Claims(t) == ClaimedAt(pc[t], from[t], n[t])

(* A claimed ticket is claimed by one thread or delivered, not both.         *)
HistoryInv ==
    /\ \A k \in DOMAIN delivered : k < head /\ delivered[k] = log[k + 1]
    /\ \A t \in Threads : \A k \in Claims(t) : k < head /\ k \notin DOMAIN delivered
    /\ \A s, t \in Threads : s # t => Claims(s) \intersect Claims(t) = {}

IInv ==
    /\ TypeOK /\ LockIInv /\ VersionsAreHeld /\ VersionInv /\ PlacesInv
    /\ RingInv /\ OwnerInv /\ IssuedInv /\ \A c \in Consumers : ConsumerInv(c)
    /\ HistoryInv
=============================================================================
