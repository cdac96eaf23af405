---------------------------- MODULE MPMCBounded ----------------------------
(***************************************************************************)
(* mpmc/const_bounded.rs: the multi-producer multi-consumer bounded queue. *)
(*                                                                         *)
(* tail and head count the pushes and the pops; ticket t uses slot         *)
(* t % Capacity.  A thread claims a ticket with a CAS on the counter and   *)
(* only then touches the value of the slot.  It learns from the slot's own *)
(* `state` whether the slot is its to take:                                *)
(*                                                                         *)
(*     state = t                 free for the push with ticket t           *)
(*     state = t + 1             holds the value of ticket t               *)
(*                                                                         *)
(* Every atomic access, and every access to the value of a slot, is a step *)
(* of its own, so any thread may be preempted between any two of them.     *)
(*                                                                         *)
(* pushed and delivered are history: the value of each ticket in the order *)
(* of the claims, and what the pops have read, by ticket.                  *)
(***************************************************************************)
EXTENDS Integers, Sequences

CONSTANTS
    Producers, Consumers,   \* the threads, each in one of the two roles
    Values,                 \* what may be pushed
    Uninit,                 \* the contents of a slot never written
    Capacity,               \* CAPACITY
    DstLens,                \* the lengths of the slices given to pop_many
    DstCapacity,            \* the capacity of the queue given to steal_into
    MaxPushes,              \* bound: no push begins once tail has reached it
    StaleLoads,             \* may a load return an overwritten value?
    Halted                  \* the threads that may stop anywhere for good

ASSUME RolesAssumption == Producers \intersect Consumers = {}
ASSUME UninitAssumption == Uninit \notin Values
ASSUME CapacityAssumption == Capacity \in Nat /\ Capacity >= 2
ASSUME DstAssumption == DstLens \subseteq Nat \ {0} /\ DstCapacity \in Nat
ASSUME StaleAssumption == StaleLoads \in BOOLEAN
ASSUME BoundAssumption == MaxPushes \in Nat
ASSUME HaltedAssumption == Halted \subseteq Producers \union Consumers

Threads == Producers \union Consumers
Slots   == 0 .. Capacity - 1

VARIABLES
    tail, head,     \* the two counters
    state, value,   \* the two fields of each slot
    pc,             \* where each thread stands
    ticket,         \* each thread's local copy of tail or head
    arg,            \* the value a producer is pushing
    left,           \* how many more values a consumer's operation wants
    waits,          \* is a consumer's operation a blocking one (pop, pop_many, steal_into)?
    pushed,         \* history: the value of every claimed push
    delivered       \* history: what the pops have read, by ticket

shared  == <<tail, head, state, value>>
locals  == <<pc, ticket, arg, left, waits>>
history == <<pushed, delivered>>
vars    == <<tail, head, state, value, pc, ticket, arg, left, waits, pushed, delivered>>

Slot(t) == t % Capacity

-----------------------------------------------------------------------------
(* struct State *)

IsSlotFreeInAnyLap(t, s) == s <= t               \* mutant
IsSlotFree(t, s)         == t = s

IsSlotOccupied(t, s) == t + 1 = s

IsQueueEmptyUnlessOccupied(t, s) == t + 1 # s    \* mutant
IsQueueEmptyOneEarly(t, s)       == t = s + 1    \* mutant
IsQueueEmpty(t, s)               == t = s

IsQueueFullUnlessFree(t, s) == t # s             \* mutant
IsQueueFull(t, s)           == t = s + (Capacity - 1)

OccupiedMark(t) == t + 1

FreeMarkOneShort(t)     == t + (Capacity - 1)    \* mutant
FreeMarkPreviousLap(t)  == t - Capacity          \* mutant
FreeMark(t)             == t + Capacity

(* What a load may return.  Stale loads stand for Relaxed and Acquire loads  *)
(* that miss the latest store: any value the location has held, which for a  *)
(* slot's state are the marks below the current one.                         *)
CounterLoads(current) == IF StaleLoads THEN 0 .. current ELSE {current}

StateLoads(t) ==
    IF StaleLoads
      THEN {s \in Slot(t) .. state[Slot(t)] : s % Capacity \in {Slot(t), Slot(t + 1)}}
      ELSE {state[Slot(t)]}

-----------------------------------------------------------------------------
Init ==
    /\ tail = 0
    /\ head = 0
    /\ state = [i \in Slots |-> i]
    /\ value = [i \in Slots |-> Uninit]
    /\ pc = [t \in Threads |-> "idle"]
    /\ ticket = [t \in Threads |-> 0]
    /\ arg = [p \in Producers |-> Uninit]
    /\ left = [c \in Consumers |-> 0]
    /\ waits = [c \in Consumers |-> FALSE]
    /\ pushed = <<>>
    /\ delivered = [n \in {} |-> n]

Goto(t, label) == pc' = [pc EXCEPT ![t] = label]

(* An operation returns: its locals are gone.                                *)
EndPush(p) ==
    /\ Goto(p, "idle")
    /\ ticket' = [ticket EXCEPT ![p] = 0]
    /\ arg' = [arg EXCEPT ![p] = Uninit]

EndPop(c) ==
    /\ Goto(c, "idle")
    /\ ticket' = [ticket EXCEPT ![c] = 0]
    /\ left' = [left EXCEPT ![c] = 0]
    /\ waits' = [waits EXCEPT ![c] = FALSE]

-----------------------------------------------------------------------------
(* maybe_push, and lock_free_maybe_push, which calls it *)

StartPush(p, v) ==
    /\ pc[p] = "idle"
    /\ tail < MaxPushes
    /\ arg' = [arg EXCEPT ![p] = v]
    /\ Goto(p, "loadTail")
    /\ UNCHANGED <<shared, ticket, left, waits, history>>

LoadTail(p) ==
    /\ pc[p] = "loadTail"
    /\ \E t \in CounterLoads(tail) : ticket' = [ticket EXCEPT ![p] = t]
    /\ Goto(p, "pushState")
    /\ UNCHANGED <<shared, arg, left, waits, history>>

(* The slot is free: go for the CAS.  It is full: Err(value).  Neither: the  *)
(* race is lost, reload tail.                                                *)
PushState(p) ==
    /\ pc[p] = "pushState"
    /\ \E s \in StateLoads(ticket[p]) :
         \/ /\ IsSlotFree(ticket[p], s)
            /\ Goto(p, "claimTail")
            /\ UNCHANGED <<ticket, arg>>
         \/ /\ ~IsSlotFree(ticket[p], s)
            /\ IsQueueFull(ticket[p], s)
            /\ EndPush(p)
         \/ /\ ~IsSlotFree(ticket[p], s)
            /\ ~IsQueueFull(ticket[p], s)
            /\ Goto(p, "loadTail")
            /\ UNCHANGED <<ticket, arg>>
    /\ UNCHANGED <<shared, left, waits, history>>

(* mutant: a plain store in the place of the CAS *)
StoreTail(p) ==
    /\ pc[p] = "claimTail"
    /\ tail' = ticket[p] + 1
    /\ pushed' = Append(pushed, arg[p])
    /\ Goto(p, "write")
    /\ UNCHANGED <<head, state, value, ticket, arg, left, waits, delivered>>

ClaimTail(p) ==
    /\ pc[p] = "claimTail"
    /\ tail = ticket[p]
    /\ tail' = tail + 1
    /\ pushed' = Append(pushed, arg[p])
    /\ Goto(p, "write")
    /\ UNCHANGED <<head, state, value, ticket, arg, left, waits, delivered>>

(* compare_exchange_weak fails because tail has moved, or for no reason, and *)
(* returns the current tail in both cases.                                   *)
MissTail(p) ==
    /\ pc[p] = "claimTail"
    /\ ticket' = [ticket EXCEPT ![p] = tail]
    /\ Goto(p, "pushState")
    /\ UNCHANGED <<shared, arg, left, waits, history>>

WriteValue(p) ==
    /\ pc[p] = "write"
    /\ value' = [value EXCEPT ![Slot(ticket[p])] = arg[p]]
    /\ Goto(p, "publish")
    /\ UNCHANGED <<tail, head, state, ticket, arg, left, waits, history>>

MarkAsOccupied(p) ==
    /\ pc[p] = "publish"
    /\ state' = [state EXCEPT ![Slot(ticket[p])] = OccupiedMark(ticket[p])]
    /\ EndPush(p)
    /\ UNCHANGED <<tail, head, value, left, waits, history>>

-----------------------------------------------------------------------------
(* pop, lock_free_pop, pop_many, lock_free_pop_many: a pop is a pop_many of  *)
(* one value.                                                                *)

StartPop(c, n, blocking) ==
    /\ pc[c] = "idle"
    /\ left' = [left EXCEPT ![c] = n]
    /\ waits' = [waits EXCEPT ![c] = blocking]
    /\ Goto(c, "loadHead")
    /\ UNCHANGED <<shared, ticket, arg, history>>

LoadHead(c) ==
    /\ pc[c] = "loadHead"
    /\ \E t \in CounterLoads(head) : ticket' = [ticket EXCEPT ![c] = t]
    /\ Goto(c, "popState")
    /\ UNCHANGED <<shared, arg, left, waits, history>>

(* The slot holds the value: go for the CAS.  It is free: nothing to pop,    *)
(* and the operation ends with what it has.  Neither: reload head.           *)
PopState(c) ==
    /\ pc[c] = "popState"
    /\ \E s \in StateLoads(ticket[c]) :
         \/ /\ IsSlotOccupied(ticket[c], s)
            /\ Goto(c, "claimHead")
            /\ UNCHANGED <<ticket, left, waits>>
         \/ /\ ~IsSlotOccupied(ticket[c], s)
            /\ IsQueueEmpty(ticket[c], s)
            /\ EndPop(c)
         \/ /\ ~IsSlotOccupied(ticket[c], s)
            /\ ~IsQueueEmpty(ticket[c], s)
            /\ Goto(c, "reloadHead")
            /\ UNCHANGED <<ticket, left, waits>>
    /\ UNCHANGED <<shared, arg, history>>

(* mutant: the lock-free operations snooze too *)
ReloadHeadAndRetry(c) ==
    /\ pc[c] = "reloadHead"
    /\ \E t \in CounterLoads(head) : ticket' = [ticket EXCEPT ![c] = t]
    /\ Goto(c, "popState")
    /\ UNCHANGED <<shared, arg, left, waits, history>>

(* An unchanged head ends a lock-free operation with ShouldWait; the others  *)
(* snooze and look again.                                                    *)
ReloadHead(c) ==
    /\ pc[c] = "reloadHead"
    /\ \E t \in CounterLoads(head) :
         \/ /\ t = ticket[c] /\ ~waits[c]
            /\ EndPop(c)
         \/ /\ t # ticket[c] \/ waits[c]
            /\ Goto(c, "popState")
            /\ ticket' = [ticket EXCEPT ![c] = t]
            /\ UNCHANGED <<left, waits>>
    /\ UNCHANGED <<shared, arg, history>>

(* mutant: a plain store in the place of the CAS *)
StoreHead(c) ==
    /\ pc[c] = "claimHead"
    /\ head' = ticket[c] + 1
    /\ Goto(c, "read")
    /\ UNCHANGED <<tail, state, value, ticket, arg, left, waits, history>>

ClaimHead(c) ==
    /\ pc[c] = "claimHead"
    /\ head = ticket[c]
    /\ head' = head + 1
    /\ Goto(c, "read")
    /\ UNCHANGED <<tail, state, value, ticket, arg, left, waits, history>>

MissHead(c) ==
    /\ pc[c] = "claimHead"
    /\ ticket' = [ticket EXCEPT ![c] = head]
    /\ Goto(c, "popState")
    /\ UNCHANGED <<shared, arg, left, waits, history>>

ReadValue(c) ==
    /\ pc[c] = "read"
    /\ delivered' = [n \in DOMAIN delivered \union {ticket[c]} |->
                        IF n = ticket[c] THEN value[Slot(n)] ELSE delivered[n]]
    /\ Goto(c, "free")
    /\ UNCHANGED <<shared, ticket, arg, left, waits, pushed>>

(* ... and the loop of pop_many and steal_into goes on to the next value.    *)
MarkAsFree(c) ==
    /\ pc[c] = "free"
    /\ state' = [state EXCEPT ![Slot(ticket[c])] = FreeMark(ticket[c])]
    /\ \/ left[c] = 1 /\ EndPop(c)
       \/ /\ left[c] # 1
          /\ left' = [left EXCEPT ![c] = @ - 1]
          /\ Goto(c, "loadHead")
          /\ UNCHANGED <<ticket, waits>>
    /\ UNCHANGED <<tail, head, value, arg, history>>

-----------------------------------------------------------------------------
(* steal_into and lock_free_steal_into: len() loads head, then tail, again   *)
(* if they are further apart than the ring is long; then half of that is     *)
(* popped one by one into dst, which is empty and owned by the caller.       *)

ToSteal(len) == IF len \div 2 <= DstCapacity THEN len \div 2 ELSE DstCapacity

StartSteal(c, blocking) ==
    /\ pc[c] = "idle"
    /\ waits' = [waits EXCEPT ![c] = blocking]
    /\ Goto(c, "lenHead")
    /\ UNCHANGED <<shared, ticket, arg, left, history>>

LenHead(c) ==
    /\ pc[c] = "lenHead"
    /\ \E h \in CounterLoads(head) : ticket' = [ticket EXCEPT ![c] = h]
    /\ Goto(c, "lenTail")
    /\ UNCHANGED <<shared, arg, left, waits, history>>

(* A wrapped difference (a tail older than the head) exceeds the capacity.   *)
LenTail(c) ==
    /\ pc[c] = "lenTail"
    /\ \E t \in CounterLoads(tail) :
         LET len == t - ticket[c]
         IN  \/ /\ len \notin 0 .. Capacity
                /\ Goto(c, "lenHead")
                /\ UNCHANGED <<ticket, left, waits>>
             \/ /\ len \in 0 .. Capacity
                /\ ToSteal(len) = 0
                /\ EndPop(c)
             \/ /\ len \in 0 .. Capacity
                /\ ToSteal(len) # 0
                /\ left' = [left EXCEPT ![c] = ToSteal(len)]
                /\ Goto(c, "loadHead")
                /\ UNCHANGED <<ticket, waits>>
    /\ UNCHANGED <<shared, arg, history>>

-----------------------------------------------------------------------------
PushStep(p) ==
    \/ LoadTail(p) \/ PushState(p) \/ ClaimTail(p) \/ MissTail(p)
    \/ WriteValue(p) \/ MarkAsOccupied(p)

PopStep(c) ==
    \/ LoadHead(c) \/ PopState(c) \/ ReloadHead(c) \/ ClaimHead(c) \/ MissHead(c)
    \/ ReadValue(c) \/ MarkAsFree(c) \/ LenHead(c) \/ LenTail(c)

Next ==
    \/ \E p \in Producers : PushStep(p) \/ \E v \in Values : StartPush(p, v)
    \/ \E c \in Consumers :
         \/ PopStep(c)
         \/ \E blocking \in BOOLEAN :
              \/ \E n \in DstLens : StartPop(c, n, blocking)
              \/ StartSteal(c, blocking)

Spec == Init /\ [][Next]_vars

-----------------------------------------------------------------------------
(* Safety *)

ProducerLabels == {"idle", "loadTail", "pushState", "claimTail", "write", "publish"}
ConsumerLabels ==
    {"idle", "loadHead", "popState", "reloadHead", "claimHead", "read", "free",
     "lenHead", "lenTail"}

Writing == {p \in Producers : pc[p] \in {"write", "publish"}}
Reading == {c \in Consumers : pc[c] \in {"read", "free"}}
Holding == Writing \union Reading

(* The types of the variables; a producer in a push holds a real value, and  *)
(* only real values enter the log.                                           *)
TypeOK ==
    /\ tail \in Nat /\ head \in Nat
    /\ state \in [Slots -> Nat]
    /\ value \in [Slots -> Values \union {Uninit}]
    /\ pc \in [Threads -> ProducerLabels \union ConsumerLabels]
    /\ \A p \in Producers : pc[p] \in ProducerLabels
    /\ \A c \in Consumers : pc[c] \in ConsumerLabels
    /\ ticket \in [Threads -> Nat]
    /\ arg \in [Producers -> Values \union {Uninit}]
    /\ \A p \in Producers : pc[p] # "idle" => arg[p] \in Values
    /\ left \in [Consumers -> Int]
    /\ waits \in [Consumers -> BOOLEAN]
    /\ pushed \in Seq(Values)
    /\ DOMAIN delivered \subseteq Nat

(* Between its CAS and the mark that ends its turn a thread is alone in its  *)
(* slot: write_value and read_value never meet in one slot, whatever the lap *)
(* of the other thread.                                                      *)
SlotOwnership ==
    \A s, t \in Holding : s # t => Slot(ticket[s]) # Slot(ticket[t])

(* A pop that has won its CAS finds in the slot the value that was pushed    *)
(* with the same ticket: never an uninitialised slot, an older lap's value   *)
(* or a newer one.                                                           *)
ReadsPushedValue ==
    \A c \in Consumers : pc[c] = "read" => value[Slot(ticket[c])] = pushed[ticket[c] + 1]

(* The counters are checked by nobody (the slots' states stand in for them), *)
(* and yet head never passes tail nor tail the end of the ring: the Drop     *)
(* loop and len() rely on it.                                                *)
CountersInRing == head <= tail /\ tail <= head + Capacity

(* Every claimed ticket is accounted for: its value is still with its        *)
(* writer, or published in its slot, or has been read.                       *)
NothingLost ==
    \A t \in 0 .. tail - 1 :
        \/ t \in DOMAIN delivered
        \/ \E p \in Writing : ticket[p] = t
        \/ state[Slot(t)] = OccupiedMark(t) /\ value[Slot(t)] = pushed[t + 1]

(* The queue keeps the promise of QueueLog: in order of the claims, each     *)
(* value once, and never more than Capacity of them.                         *)
Log == INSTANCE QueueLog WITH
           Batches <- {<<v>> : v \in Values}, log <- pushed, claimed <- head
LogSpec == Log!Spec

-----------------------------------------------------------------------------
(* The inductive invariant *)

(* The mark in each slot belongs to the slot, and to the lap the counters    *)
(* are in.  A mark whose ticket has been claimed is in the hands of the      *)
(* thread that claimed it.                                                   *)
FreeSlot(i, s) ==
    /\ Slot(s) = i
    /\ s < head + Capacity
    /\ tail <= s + Capacity
    /\ s < tail => \E p \in Writing : ticket[p] = s

OccupiedSlot(i, s) ==
    /\ s > 0
    /\ Slot(s - 1) = i
    /\ s <= tail
    /\ tail < s + Capacity
    /\ s <= head => \E c \in Reading : ticket[c] = s - 1

SlotInv == \A i \in Slots : FreeSlot(i, state[i]) \/ OccupiedSlot(i, state[i])

WriterInv ==
    \A p \in Writing :
        /\ head <= ticket[p] /\ ticket[p] < tail
        /\ state[Slot(ticket[p])] = ticket[p]
        /\ pushed[ticket[p] + 1] = arg[p]
        /\ pc[p] = "publish" => value[Slot(ticket[p])] = arg[p]
        /\ \A q \in Writing : ticket[p] = ticket[q] => p = q

ReaderInv ==
    \A c \in Reading :
        /\ ticket[c] < head
        /\ state[Slot(ticket[c])] = OccupiedMark(ticket[c])
        /\ pc[c] = "free" <=> ticket[c] \in DOMAIN delivered
        /\ \A d \in Reading : ticket[c] = ticket[d] => c = d

(* No thread is ahead of the counters, and what a thread about to CAS knows   *)
(* of the slot still holds if its CAS is going to succeed.                   *)
ClaimInv ==
    /\ \A p \in Producers : pc[p] \in {"pushState", "claimTail"} => ticket[p] <= tail
    /\ \A p \in Producers : pc[p] = "claimTail" /\ ticket[p] = tail =>
         state[Slot(tail)] = tail
    /\ \A c \in Consumers : pc[c] \in {"popState", "claimHead"} => ticket[c] <= head
    /\ \A c \in Consumers : pc[c] = "claimHead" /\ ticket[c] = head =>
         state[Slot(head)] = OccupiedMark(head)

HistoryInv ==
    /\ Len(pushed) = tail
    /\ \A i \in Slots : Slot(state[i] - 1) = i /\ state[i] > 0 =>
         value[i] = pushed[state[i]]
    /\ \A n \in DOMAIN delivered : n < head /\ delivered[n] = pushed[n + 1]
    /\ \A n \in 0 .. head - 1 : n \in DOMAIN delivered \/ \E c \in Reading : ticket[c] = n

(* The mark of every slot is of the lap the counters are in, and what is      *)
(* claimed is held by one thread: the reason for all of the above.           *)
IInv ==
    TypeOK /\ CountersInRing /\ SlotInv /\ WriterInv /\ ReaderInv /\ ClaimInv /\ HistoryInv

-----------------------------------------------------------------------------
(* What the answers mean (with StaleLoads = FALSE) *)

ReportsFull(p)  == pc[p] = "pushState" /\ pc'[p] = "idle"
ReportsEmpty(c) == pc[c] = "popState" /\ pc'[c] = "idle"
MustWait(c)     == pc[c] = "popState" /\ pc'[c] = "reloadHead" /\ head = ticket[c]

(* maybe_push answers Err only when all Capacity tickets behind tail are     *)
(* unpopped, or when the pop of the oldest of them has not marked its slot   *)
(* as free yet: the two cases of the comment in maybe_push.                  *)
FullIsJustified ==
    [][\A p \in Producers : ReportsFull(p) =>
          \/ tail - head = Capacity
          \/ \E c \in Reading : ticket[c] = tail - Capacity]_vars

(* A pop answers Empty only when nothing is claimed beyond head, or when the *)
(* push that claimed the ticket at head has not published its value yet.  In *)
(* the second case there may be values behind that one, and "The queue was   *)
(* empty" of lock_free_errors.rs is not true: see MPMCEmptyAnswer.           *)
EmptyIsJustified ==
    [][\A c \in Consumers : ReportsEmpty(c) =>
          \/ head = tail
          \/ \E p \in Writing : ticket[p] = head]_vars

(* A pop finds a slot that is neither occupied nor free at an unmoved head,  *)
(* and so snoozes or answers ShouldWait, only while the queue is empty and a *)
(* pop of the previous lap still reads in that slot.                         *)
WaitIsForAReader ==
    [][\A c \in Consumers : MustWait(c) =>
          /\ head = tail
          /\ \E d \in Reading : ticket[d] = head - Capacity]_vars

-----------------------------------------------------------------------------
(* Progress *)

(* The scheduler runs t again and again, and its weak CAS does not fail      *)
(* forever against an unmoved counter.                                       *)
FairPush(p) == WF_vars(PushStep(p)) /\ SF_vars(ClaimTail(p))
FairPop(c)  == WF_vars(PopStep(c)) /\ SF_vars(ClaimHead(c))

FairSpec ==
    /\ Spec
    /\ \A p \in Producers \ Halted : FairPush(p)
    /\ \A c \in Consumers \ Halted : FairPop(c)

(* With no thread stopped for good, every operation returns.  (MaxPushes     *)
(* bounds how often another thread can win the CAS.)                         *)
OperationsReturn ==
    (\A p \in Producers : FairPush(p)) /\ (\A c \in Consumers : FairPop(c)) =>
        \A t \in Threads : (pc[t] # "idle") ~> (pc[t] = "idle")

(* lock_free_pop, lock_free_pop_many and lock_free_steal_into return if only *)
(* their own thread keeps running, wherever all the others have stopped.     *)
LockFreePopsReturn ==
    \A c \in Consumers :
        FairPop(c) => ((pc[c] # "idle" /\ ~waits[c]) ~> (pc[c] = "idle"))

(* "It is lock-free" says producer.rs of lock_free_maybe_push: it returns    *)
(* wherever the threads in Halted have stopped.                              *)
LockFreePushesReturn ==
    \A p \in Producers \ Halted : (pc[p] # "idle") ~> (pc[p] = "idle")
=============================================================================
