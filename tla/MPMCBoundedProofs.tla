------------------------- MODULE MPMCBoundedProofs -------------------------
(***************************************************************************)
(* Theorems about MPMCBounded for every set of threads, every capacity of  *)
(* at least 2, and loads that may be stale.                                *)
(*                                                                         *)
(* The proofs rest on IInv.  Its core is SlotInv: the mark in a slot is    *)
(* the slot's own, of the lap the counters are in, and a mark whose ticket *)
(* has been claimed is in the hands of exactly one thread.  It follows     *)
(* that a CAS which succeeds was preceded by a look at the slot that is    *)
(* still true, however long ago the thread took it.                        *)
(* What the answers mean is about the present, so those theorems, at the   *)
(* end, are of loads that are exact.                                       *)
(***************************************************************************)
EXTENDS MPMCBounded, TLAPS

USE CapacityAssumption

-----------------------------------------------------------------------------
(* Tickets and slots *)

LEMMA DivMod ==
    ASSUME NEW t \in Int, NEW n \in Nat \ {0}
    PROVE  /\ t = n * (t \div n) + (t % n)
           /\ t \div n \in Int
           /\ t % n \in 0 .. n - 1
BY SMT

LEMMA SlotInRing ==
    ASSUME NEW t \in Int
    PROVE  Slot(t) \in Slots
BY DivMod DEF Slot, Slots

LEMMA SlotOfIndex ==
    ASSUME NEW i \in Slots
    PROVE  Slot(i) = i
BY SMT DEF Slot, Slots

(* Two tickets of one slot are at least a lap apart. *)
LEMMA SlotGap ==
    ASSUME NEW s \in Int, NEW t \in Int, Slot(s) = Slot(t), s < t
    PROVE  s + Capacity <= t
<1> DEFINE r == s % Capacity
           m == s \div Capacity
           n == t \div Capacity
<1>1. s = Capacity * m + r /\ m \in Int /\ r \in Int
  BY DivMod
<1>2. t = Capacity * n + r /\ n \in Int
  BY DivMod DEF Slot
<1> HIDE DEF r, m, n
<1>3. m < n
  BY <1>1, <1>2
<1>4. Capacity * (m + 1) <= Capacity * n
  BY <1>1, <1>2, <1>3
<1>5. Capacity * (m + 1) = Capacity * m + Capacity
  BY <1>1
<1> QED
  BY <1>1, <1>2, <1>4, <1>5

(* The next lap's ticket comes back to the slot. *)
LEMMA SlotNextLap ==
    ASSUME NEW t \in Int
    PROVE  Slot(t + Capacity) = Slot(t)
<1> DEFINE r == t % Capacity
           q == (t + Capacity) % Capacity
           d == ((t + Capacity) \div Capacity) - (t \div Capacity) - 1
<1>1. d \in Int /\ Capacity * d = r - q
  <2> DEFINE m == t \div Capacity
             n == (t + Capacity) \div Capacity
  <2>1. t = Capacity * m + r /\ m \in Int /\ r \in Int
    BY DivMod
  <2>2. t + Capacity = Capacity * n + q /\ n \in Int /\ q \in Int
    BY DivMod
  <2>3. d = n - m - 1
    OBVIOUS
  <2> HIDE DEF m, n, r, q, d
  <2> QED
    BY <2>1, <2>2, <2>3
<1>2. r \in 0 .. Capacity - 1 /\ q \in 0 .. Capacity - 1
  BY DivMod
<1> HIDE DEF d, r, q
<1>3. d = 0
  <2>1. CASE d >= 1
    <3>1. Capacity * d >= Capacity
      BY <2>1, <1>1
    <3> QED
      BY <3>1, <1>1, <1>2
  <2>2. CASE d <= -1
    <3>1. Capacity * d <= -Capacity
      BY <2>2, <1>1
    <3> QED
      BY <3>1, <1>1, <1>2
  <2> QED
    BY <2>1, <2>2, <1>1
<1> QED
  BY <1>1, <1>2, <1>3 DEF r, q, Slot

-----------------------------------------------------------------------------
(* Types *)

LEMMA TypeInit == Init => TypeOK
<1> SUFFICES ASSUME Init PROVE TypeOK
  OBVIOUS
<1>1. state \in [Slots -> Nat]
  BY DEF Init, Slots
<1> QED
  BY <1>1 DEF Init, TypeOK, Threads, ProducerLabels, ConsumerLabels

LEMMA ToStealIsInt ==
    ASSUME NEW len \in Int
    PROVE  ToSteal(len) \in Int
<1>1. len \div 2 \in Int
  BY DivMod
<1> QED
  BY <1>1, DstAssumption DEF ToSteal

LEMMA CounterLoadsAreNat ==
    ASSUME NEW n \in Nat
    PROVE  CounterLoads(n) \subseteq Nat
BY DEF CounterLoads

PcOK ==
    /\ pc \in [Threads -> ProducerLabels \union ConsumerLabels]
    /\ \A p \in Producers : pc[p] \in ProducerLabels
    /\ \A c \in Consumers : pc[c] \in ConsumerLabels

LEMMA ProducerMoves ==
    ASSUME PcOK, NEW p \in Producers, NEW label \in ProducerLabels, Goto(p, label)
    PROVE  PcOK' /\ \A t \in Threads \ {p} : pc'[t] = pc[t]
BY RolesAssumption DEF PcOK, Goto, Threads

LEMMA ConsumerMoves ==
    ASSUME PcOK, NEW c \in Consumers, NEW label \in ConsumerLabels, Goto(c, label)
    PROVE  PcOK' /\ \A t \in Threads \ {c} : pc'[t] = pc[t]
BY RolesAssumption DEF PcOK, Goto, Threads

LEMMA TypeStep == TypeOK /\ [Next]_vars => TypeOK'
<1> SUFFICES ASSUME TypeOK, [Next]_vars PROVE TypeOK'
  OBVIOUS
<1>pc. PcOK
  BY DEF TypeOK, PcOK
<1>1. ASSUME NEW p \in Producers, NEW v \in Values, StartPush(p, v) PROVE TypeOK'
  <2>1. PcOK' /\ \A t \in Threads \ {p} : pc'[t] = pc[t]
    BY <1>1, <1>pc, ProducerMoves DEF StartPush, ProducerLabels
  <2> QED
    BY <1>1, <2>1 DEF StartPush, TypeOK, PcOK, shared, history, Threads
<1>2. ASSUME NEW p \in Producers, PushStep(p) PROVE TypeOK'
  <2>1. PcOK' /\ \A t \in Threads \ {p} : pc'[t] = pc[t]
    <3>1. \E label \in ProducerLabels : Goto(p, label)
      BY <1>2 DEF PushStep, LoadTail, PushState, ClaimTail, MissTail, WriteValue,
                  MarkAsOccupied, EndPush, ProducerLabels
    <3> QED
      BY <3>1, <1>pc, ProducerMoves
  <2>2. /\ arg[p] \in Values /\ left' = left /\ waits' = waits
        /\ arg' = arg \/ EndPush(p)
    BY <1>2 DEF PushStep, LoadTail, PushState, ClaimTail, MissTail, WriteValue,
                MarkAsOccupied, TypeOK
  <2>3. /\ \A q \in Producers : pc'[q] # "idle" => arg'[q] \in Values
        /\ arg' \in [Producers -> Values \union {Uninit}]
        /\ left' \in [Consumers -> Int] /\ waits' \in [Consumers -> BOOLEAN]
    <3>1. CASE arg' = arg
      BY <2>1, <2>2, <3>1 DEF TypeOK, Threads
    <3>2. CASE EndPush(p)
      <4>1. pc'[p] = "idle" /\ arg' = [arg EXCEPT ![p] = Uninit]
        BY <3>2, <1>pc DEF EndPush, Goto, PcOK, Threads
      <4> QED
        BY <2>1, <2>2, <4>1 DEF TypeOK, Threads
    <3> QED
      BY <2>2, <3>1, <3>2
  <2>4. ticket' \in [Threads -> Nat]
    <3>1. UNCHANGED ticket \/ \E n \in Nat : ticket' = [ticket EXCEPT ![p] = n]
      BY <1>2, CounterLoadsAreNat
         DEF PushStep, LoadTail, PushState, ClaimTail, MissTail, WriteValue,
             MarkAsOccupied, EndPush, TypeOK
    <3> QED
      BY <3>1 DEF TypeOK
  <2>5. state' \in [Slots -> Nat]
    <3>1. \/ UNCHANGED state
          \/ state' = [state EXCEPT ![Slot(ticket[p])] = ticket[p] + 1]
      BY <1>2 DEF PushStep, LoadTail, PushState, ClaimTail, MissTail, WriteValue,
                  MarkAsOccupied, OccupiedMark, shared
    <3>2. ticket[p] + 1 \in Nat
      BY DEF TypeOK, Threads
    <3> QED
      BY <3>1, <3>2 DEF TypeOK
  <2>6. value' \in [Slots -> Values \union {Uninit}]
    BY <1>2, <2>2 DEF PushStep, LoadTail, PushState, ClaimTail, MissTail, WriteValue,
                MarkAsOccupied, TypeOK, shared
  <2>7. tail' \in Nat /\ head' \in Nat /\ pushed' \in Seq(Values)
    <3>1. /\ tail' \in {tail, tail + 1} /\ head' = head
          /\ pushed' \in {pushed, Append(pushed, arg[p])}
      BY <1>2 DEF PushStep, LoadTail, PushState, ClaimTail, MissTail, WriteValue,
                  MarkAsOccupied, shared, history
    <3>2. tail \in Nat /\ head \in Nat /\ pushed \in Seq(Values)
      BY DEF TypeOK
    <3>3. Append(pushed, arg[p]) \in Seq(Values)
      BY <3>2, <2>2
    <3> QED
      BY <3>1, <3>2, <3>3
  <2>8. delivered' = delivered
    BY <1>2 DEF PushStep, LoadTail, PushState, ClaimTail, MissTail, WriteValue,
                MarkAsOccupied, history
  <2> QED
    BY <2>1, <2>3, <2>4, <2>5, <2>6, <2>7, <2>8 DEF TypeOK, PcOK
<1>3. ASSUME NEW c \in Consumers, NEW n \in DstLens, NEW blocking \in BOOLEAN,
             StartPop(c, n, blocking)
      PROVE TypeOK'
  <2>1. PcOK' /\ \A t \in Threads \ {c} : pc'[t] = pc[t]
    BY <1>3, <1>pc, ConsumerMoves DEF StartPop, ConsumerLabels
  <2>2. UNCHANGED <<tail, head, state, value, ticket, arg, pushed, delivered>>
    BY <1>3 DEF StartPop, shared, history
  <2>3. left' \in [Consumers -> Int] /\ waits' \in [Consumers -> BOOLEAN]
    BY <1>3, DstAssumption DEF StartPop, TypeOK
  <2>4. \A p \in Producers : pc'[p] # "idle" => arg'[p] \in Values
    BY <2>1, <2>2, RolesAssumption DEF TypeOK, Threads
  <2> QED
    BY <2>1, <2>2, <2>3, <2>4 DEF TypeOK, PcOK
<1>4. ASSUME NEW c \in Consumers, NEW blocking \in BOOLEAN, StartSteal(c, blocking)
      PROVE TypeOK'
  <2>1. PcOK' /\ \A t \in Threads \ {c} : pc'[t] = pc[t]
    BY <1>4, <1>pc, ConsumerMoves DEF StartSteal, ConsumerLabels
  <2> QED
    BY <1>4, <2>1, RolesAssumption
       DEF StartSteal, TypeOK, PcOK, shared, history, Threads
<1>5. ASSUME NEW c \in Consumers, PopStep(c) PROVE TypeOK'
  <2> USE DEF PopStep, LoadHead, PopState, ReloadHead, ClaimHead, MissHead, ReadValue,
              MarkAsFree, LenHead, LenTail, EndPop
  <2>1. PcOK' /\ \A t \in Threads \ {c} : pc'[t] = pc[t]
    <3>1. \E label \in ConsumerLabels : Goto(c, label)
      BY <1>5 DEF ConsumerLabels
    <3> QED
      BY <3>1, <1>pc, ConsumerMoves
  <2>2. /\ tail' \in Nat /\ head' \in Nat
        /\ pushed' = pushed /\ arg' = arg /\ value' = value
    BY <1>5 DEF TypeOK, shared, history
  <2>w. waits' \in [Consumers -> BOOLEAN]
    <3>1. UNCHANGED waits \/ waits' = [waits EXCEPT ![c] = FALSE]
      BY <1>5
    <3> QED
      BY <3>1 DEF TypeOK
  <2>3. \A p \in Producers : pc'[p] # "idle" => arg'[p] \in Values
    BY <2>1, <2>2, RolesAssumption DEF TypeOK, Threads
  <2>4. ticket' \in [Threads -> Nat]
    <3>1. UNCHANGED ticket \/ \E n \in Nat : ticket' = [ticket EXCEPT ![c] = n]
      BY <1>5, CounterLoadsAreNat DEF TypeOK
    <3> QED
      BY <3>1 DEF TypeOK
  <2>5. ticket[c] \in Nat
    BY DEF TypeOK, Threads
  <2>6. state' \in [Slots -> Nat]
    <3>1. FreeMark(ticket[c]) \in Nat
      BY <2>5 DEF FreeMark
    <3>2. UNCHANGED state \/ \E n \in Nat, i \in Int : state' = [state EXCEPT ![i] = n]
      BY <1>5, <2>5, <3>1, SlotInRing DEF shared, Slots
    <3> QED
      BY <3>2 DEF TypeOK
  <2>7. left' \in [Consumers -> Int]
    <3>1. \A t \in CounterLoads(tail) : ToSteal(t - ticket[c]) \in Int
      <4>1. SUFFICES ASSUME NEW t \in CounterLoads(tail) PROVE ToSteal(t - ticket[c]) \in Int
        OBVIOUS
      <4>2. t \in Nat
        BY CounterLoadsAreNat DEF TypeOK
      <4>3. t - ticket[c] \in Int
        BY <4>2, <2>5
      <4> QED
        BY <4>3, ToStealIsInt
    <3>2. UNCHANGED left \/ \E n \in Int : left' = [left EXCEPT ![c] = n]
      BY <1>5, <3>1 DEF TypeOK
    <3> QED
      BY <3>2 DEF TypeOK
  <2>8. DOMAIN delivered' \subseteq Nat
    BY <1>5, <2>5 DEF TypeOK, history
  <2> QED
    BY <2>1, <2>2, <2>w, <2>3, <2>4, <2>6, <2>7, <2>8 DEF TypeOK, PcOK
<1>6. CASE UNCHANGED vars
  BY <1>6 DEF vars, TypeOK
<1> QED
  BY <1>1, <1>2, <1>3, <1>4, <1>5, <1>6 DEF Next

(* Every variable keeps its type: in particular a producer in the middle of  *)
(* a push holds a real value, and only real values enter the log.            *)
THEOREM TypeCorrect == Spec => []TypeOK
BY TypeInit, TypeStep, PTL DEF Spec

-----------------------------------------------------------------------------
(* The inductive invariant: what it says of slots *)

LEMMA SlotNeighbour ==
    ASSUME NEW t \in Int
    PROVE  Slot(t + 1) # Slot(t) /\ Slot(t - 1) # Slot(t)
<1>1. Slot(t + 1) # Slot(t)
  BY SlotGap
<1>2. Slot(t - 1) # Slot(t)
  BY SlotGap
<1> QED
  BY <1>1, <1>2

LEMMA TypeFacts ==
    ASSUME TypeOK
    PROVE  /\ tail \in Nat /\ head \in Nat
           /\ \A t \in Threads : ticket[t] \in Nat
           /\ \A p \in Producers : ticket[p] \in Nat
           /\ \A c \in Consumers : ticket[c] \in Nat
           /\ \A i \in Slots : state[i] \in Nat
           /\ Slots \subseteq Nat
BY DEF TypeOK, Threads, Slots

(* A free mark at or below tail is the ticket of the slot's next push; a     *)
(* look at the slot of tail that found it free is still right.               *)
LEMMA FreeLook ==
    ASSUME IInv, NEW s \in StateLoads(tail), s = tail
    PROVE  state[Slot(tail)] = tail
<1> DEFINE i == Slot(tail)
           m == state[i]
<1>1. tail \in Nat /\ head \in Nat /\ i \in Slots /\ m \in Nat /\ i \in Nat
  BY TypeFacts, SlotInRing DEF IInv
<1>2. tail <= m
  BY <1>1 DEF StateLoads
<1>3. head <= tail
  BY DEF IInv, CountersInRing
<1>4. CASE FreeSlot(i, m)
  <2>1. Slot(m) = Slot(tail) /\ m < head + Capacity
    BY <1>4 DEF FreeSlot
  <2>2. m <= tail
    BY <2>1, <1>1, <1>3, SlotGap
  <2> QED
    BY <1>1, <1>2, <2>2
<1>5. CASE OccupiedSlot(i, m)
  BY <1>1, <1>2, <1>5 DEF OccupiedSlot
<1> QED
  BY <1>1, <1>4, <1>5 DEF IInv, SlotInv

(* So is a look at the slot of head that found it occupied. *)
LEMMA OccupiedLook ==
    ASSUME IInv, NEW s \in StateLoads(head), s = head + 1
    PROVE  state[Slot(head)] = head + 1
<1> DEFINE i == Slot(head)
           m == state[i]
<1>1. tail \in Nat /\ head \in Nat /\ i \in Slots /\ m \in Nat /\ i \in Nat
  BY TypeFacts, SlotInRing DEF IInv
<1>2. head + 1 <= m
  BY <1>1 DEF StateLoads
<1>3. head <= tail /\ tail <= head + Capacity
  BY DEF IInv, CountersInRing
<1>4. CASE FreeSlot(i, m)
  <2>1. Slot(m) = Slot(head) /\ m < head + Capacity
    BY <1>4 DEF FreeSlot
  <2>2. head + Capacity <= m
    BY <2>1, <1>1, <1>2, SlotGap
  <2> QED
    BY <1>1, <2>1, <2>2
<1>5. CASE OccupiedSlot(i, m)
  <2>1. Slot(m - 1) = Slot(head) /\ m <= tail
    BY <1>5 DEF OccupiedSlot
  <2>2. m - 1 <= head
    BY <2>1, <1>1, <1>3, SlotGap
  <2> QED
    BY <1>1, <1>2, <2>2
<1> QED
  BY <1>1, <1>4, <1>5 DEF IInv, SlotInv

(* Two threads that hold tickets hold different slots. *)
LEMMA OwnersApart ==
    ASSUME IInv
    PROVE  SlotOwnership
<1> SUFFICES ASSUME NEW s \in Holding, NEW t \in Holding, s # t,
                    Slot(ticket[s]) = Slot(ticket[t])
             PROVE  FALSE
  BY DEF SlotOwnership
<1>1. ticket[s] \in Nat /\ ticket[t] \in Nat
  BY TypeFacts DEF IInv, Holding, Writing, Reading, Threads
<1>2. CASE s \in Writing /\ t \in Writing
  BY <1>2 DEF IInv, WriterInv
<1>3. CASE s \in Reading /\ t \in Reading
  <2>1. ticket[s] + 1 = ticket[t] + 1
    BY <1>3 DEF IInv, ReaderInv, OccupiedMark
  <2> QED
    BY <2>1, <1>1, <1>3 DEF IInv, ReaderInv
<1>4. CASE s \in Writing /\ t \in Reading
  <2>1. ticket[s] = ticket[t] + 1
    BY <1>4 DEF IInv, WriterInv, ReaderInv, OccupiedMark
  <2> QED
    BY <2>1, <1>1, SlotNeighbour
<1>5. CASE s \in Reading /\ t \in Writing
  <2>1. ticket[t] = ticket[s] + 1
    BY <1>5 DEF IInv, WriterInv, ReaderInv, OccupiedMark
  <2> QED
    BY <2>1, <1>1, SlotNeighbour
<1> QED
  BY <1>2, <1>3, <1>4, <1>5 DEF Holding

-----------------------------------------------------------------------------
(* The inductive invariant: the steps *)

LEMMA IInvInit == Init => IInv
<1> SUFFICES ASSUME Init PROVE IInv
  OBVIOUS
<1>1. TypeOK
  BY TypeInit
<1>2. Writing = {} /\ Reading = {}
  BY DEF Init, Writing, Reading, Threads
<1>3. CountersInRing
  BY DEF Init, CountersInRing
<1>4. SlotInv
  <2>1. \A i \in Slots : FreeSlot(i, state[i])
    BY SlotOfIndex DEF Init, FreeSlot, Slots
  <2> QED
    BY <2>1 DEF SlotInv
<1>5. WriterInv /\ ReaderInv
  BY <1>2 DEF WriterInv, ReaderInv
<1>6. ClaimInv
  BY DEF Init, ClaimInv, Threads
<1>7. HistoryInv
  <2>1. \A i \in Slots : Slot(state[i] - 1) # i
    BY SlotOfIndex, SlotNeighbour DEF Init, Slots
  <2> QED
    BY <2>1 DEF Init, HistoryInv
<1> QED
  BY <1>1, <1>3, <1>4, <1>5, <1>6, <1>7 DEF IInv

(* A step that moves no counter, touches no slot and leaves the threads that *)
(* hold a ticket alone can only disturb ClaimInv.                            *)
LEMMA LocalStep ==
    ASSUME IInv, TypeOK', ClaimInv',
           UNCHANGED <<tail, head, state, value, pushed, delivered>>,
           Writing' = Writing, Reading' = Reading,
           \A t \in Holding : ticket'[t] = ticket[t] /\ pc'[t] = pc[t],
           \A p \in Writing : arg'[p] = arg[p]
    PROVE  IInv'
<1>1. CountersInRing'
  BY DEF IInv, CountersInRing
<1>2. SlotInv'
  BY DEF IInv, SlotInv, FreeSlot, OccupiedSlot, Holding
<1>3. WriterInv'
  BY DEF IInv, WriterInv, Holding
<1>4. ReaderInv'
  BY DEF IInv, ReaderInv, Holding
<1>5. HistoryInv'
  BY DEF IInv, HistoryInv, Holding
<1> QED
  BY <1>1, <1>2, <1>3, <1>4, <1>5 DEF IInv

LEMMA ProducerLocal ==
    ASSUME IInv, TypeOK', NEW p \in Producers,
           \/ \E v \in Values : StartPush(p, v)
           \/ LoadTail(p) \/ PushState(p) \/ MissTail(p)
    PROVE  IInv'
<1> USE DEF StartPush, LoadTail, PushState, MissTail, EndPush
<1>1. PcOK
  BY DEF IInv, TypeOK, PcOK
<1>2. /\ pc[p] \in {"idle", "loadTail", "pushState", "claimTail"}
      /\ \E label \in {"idle", "loadTail", "pushState", "claimTail"} : Goto(p, label)
      /\ \A t \in Threads \ {p} : pc'[t] = pc[t]
      /\ pc'[p] \in {"idle", "loadTail", "pushState", "claimTail"}
  <2>1. /\ pc[p] \in {"idle", "loadTail", "pushState", "claimTail"}
        /\ \E label \in {"idle", "loadTail", "pushState", "claimTail"} : Goto(p, label)
    OBVIOUS
  <2>2. PICK label \in {"idle", "loadTail", "pushState", "claimTail"} : Goto(p, label)
    BY <2>1
  <2>3. label \in ProducerLabels
    BY DEF ProducerLabels
  <2> QED
    BY <2>1, <2>2, <2>3, <1>1, ProducerMoves DEF Goto, PcOK, Threads
<1>3. UNCHANGED <<tail, head, state, value, pushed, delivered>>
  BY DEF shared, history
<1>4. Writing' = Writing /\ Reading' = Reading
  BY <1>2, RolesAssumption DEF Writing, Reading, Threads
<1>5. /\ p \notin Holding
      /\ \A t \in Threads \ {p} : ticket'[t] = ticket[t]
      /\ \A q \in Producers \ {p} : arg'[q] = arg[q]
  BY <1>2, RolesAssumption DEF Holding, Writing, Reading, IInv, TypeOK, Threads
<1>6. ClaimInv'
  <2>1. ASSUME NEW q \in Producers, pc'[q] \in {"pushState", "claimTail"}
        PROVE  ticket'[q] <= tail'
    <3>1. CASE q # p
      BY <3>1, <2>1, <1>2, <1>3, <1>5 DEF IInv, ClaimInv, Threads
    <3>2. CASE q = p /\ ticket' = ticket /\ pc[p] = "pushState"
      BY <3>2, <1>3 DEF IInv, ClaimInv
    <3>3. CASE q = p /\ \E t \in CounterLoads(tail) : ticket' = [ticket EXCEPT ![p] = t]
      BY <3>3, <1>3, TypeFacts DEF CounterLoads, IInv, TypeOK, Threads
    <3>4. CASE q = p /\ ticket' = [ticket EXCEPT ![p] = tail]
      BY <3>4, <1>3, TypeFacts DEF IInv, TypeOK, Threads
    <3> QED
      BY <3>1, <3>2, <3>3, <3>4, <2>1, <1>1 DEF Goto, PcOK, Threads
  <2>2. ASSUME NEW q \in Producers, pc'[q] = "claimTail", ticket'[q] = tail'
        PROVE  state'[Slot(tail')] = tail'
    <3>1. CASE q # p
      BY <3>1, <2>2, <1>2, <1>3, <1>5 DEF IInv, ClaimInv, Threads
    <3>2. CASE q = p
      <4>1. PushState(p) /\ ticket' = ticket
        BY <3>2, <2>2, <1>2, <1>1 DEF Goto, PcOK, Threads
      <4>2. PICK s \in StateLoads(ticket[p]) : s = ticket[p]
        BY <4>1, <3>2, <2>2, <1>1 DEF Goto, PcOK, Threads, IsSlotFree
      <4> QED
        BY <4>1, <4>2, <3>2, <2>2, <1>3, FreeLook
    <3> QED
      BY <3>1, <3>2
  <2>3. \A c \in Consumers : pc'[c] = pc[c] /\ ticket'[c] = ticket[c]
    BY <1>2, <1>5, RolesAssumption DEF Threads
  <2> QED
    BY <2>1, <2>2, <2>3, <1>3 DEF IInv, ClaimInv
<1>7. Holding \subseteq Threads \ {p} /\ Writing \subseteq Producers \ {p}
  BY <1>5 DEF Holding, Writing, Reading, Threads
<1> QED
  BY <1>2, <1>3, <1>4, <1>5, <1>6, <1>7, LocalStep

ConsumerLocalLabels ==
    {"idle", "loadHead", "popState", "reloadHead", "claimHead", "lenHead", "lenTail"}

LEMMA ConsumerLocal ==
    ASSUME IInv, TypeOK', NEW c \in Consumers,
           \/ \E n \in DstLens, blocking \in BOOLEAN : StartPop(c, n, blocking)
           \/ \E blocking \in BOOLEAN : StartSteal(c, blocking)
           \/ LoadHead(c) \/ PopState(c) \/ ReloadHead(c) \/ MissHead(c)
           \/ LenHead(c) \/ LenTail(c)
    PROVE  IInv'
<1> USE DEF StartPop, StartSteal, LoadHead, PopState, ReloadHead, MissHead, LenHead, LenTail,
            EndPop
<1>1. PcOK
  BY DEF IInv, TypeOK, PcOK
<1>2. /\ pc[c] \in ConsumerLocalLabels
      /\ \A t \in Threads \ {c} : pc'[t] = pc[t]
      /\ pc'[c] \in ConsumerLocalLabels
  <2>1. /\ pc[c] \in ConsumerLocalLabels
        /\ \E label \in ConsumerLocalLabels : Goto(c, label)
    BY DEF ConsumerLocalLabels
  <2>2. PICK label \in ConsumerLocalLabels : Goto(c, label)
    BY <2>1
  <2>3. label \in ConsumerLabels
    BY DEF ConsumerLabels, ConsumerLocalLabels
  <2> QED
    BY <2>1, <2>2, <2>3, <1>1, ConsumerMoves DEF Goto, PcOK, Threads
<1>3. UNCHANGED <<tail, head, state, value, arg, pushed, delivered>>
  BY DEF shared, history
<1>4. Writing' = Writing /\ Reading' = Reading
  BY <1>2, RolesAssumption DEF Writing, Reading, Threads, ConsumerLocalLabels
<1>5. /\ c \notin Holding
      /\ \A t \in Threads \ {c} : ticket'[t] = ticket[t]
  BY <1>2, RolesAssumption
     DEF Holding, Writing, Reading, IInv, TypeOK, Threads, ConsumerLocalLabels
<1>6. ClaimInv'
  <2>1. ASSUME NEW d \in Consumers, pc'[d] \in {"popState", "claimHead"}
        PROVE  ticket'[d] <= head'
    <3>1. CASE d # c
      BY <3>1, <2>1, <1>2, <1>3, <1>5 DEF IInv, ClaimInv, Threads
    <3>2. CASE d = c /\ ticket' = ticket /\ pc[c] = "popState"
      BY <3>2, <1>3 DEF IInv, ClaimInv
    <3>3. CASE d = c /\ \E t \in CounterLoads(head) : ticket' = [ticket EXCEPT ![c] = t]
      BY <3>3, <1>3, TypeFacts DEF CounterLoads, IInv, TypeOK, Threads
    <3>4. CASE d = c /\ ticket' = [ticket EXCEPT ![c] = head]
      BY <3>4, <1>3, TypeFacts DEF IInv, TypeOK, Threads
    <3> QED
      BY <3>1, <3>2, <3>3, <3>4, <2>1, <1>1 DEF Goto, PcOK, Threads
  <2>2. ASSUME NEW d \in Consumers, pc'[d] = "claimHead", ticket'[d] = head'
        PROVE  state'[Slot(head')] = OccupiedMark(head')
    <3>1. CASE d # c
      BY <3>1, <2>2, <1>2, <1>3, <1>5 DEF IInv, ClaimInv, Threads
    <3>2. CASE d = c
      <4>1. PopState(c) /\ ticket' = ticket
        BY <3>2, <2>2, <1>2, <1>1 DEF Goto, PcOK, Threads
      <4>2. PICK s \in StateLoads(ticket[c]) : s = ticket[c] + 1
        BY <4>1, <3>2, <2>2, <1>1 DEF Goto, PcOK, Threads, IsSlotOccupied
      <4> QED
        BY <4>1, <4>2, <3>2, <2>2, <1>3, OccupiedLook DEF OccupiedMark
    <3> QED
      BY <3>1, <3>2
  <2>3. \A p \in Producers : pc'[p] = pc[p] /\ ticket'[p] = ticket[p]
    BY <1>2, <1>5, RolesAssumption DEF Threads
  <2> QED
    BY <2>1, <2>2, <2>3, <1>3 DEF IInv, ClaimInv
<1>7. Holding \subseteq Threads \ {c}
  BY <1>5 DEF Holding, Writing, Reading, Threads
<1> QED
  BY <1>2, <1>3, <1>4, <1>5, <1>6, <1>7, LocalStep

(* The CAS on tail: the mark of the claimed slot is the ticket, so the slot  *)
(* was free, and no other slot waits for this ticket.                        *)
LEMMA ClaimTailStep ==
    ASSUME IInv, TypeOK', NEW p \in Producers, ClaimTail(p)
    PROVE  IInv'
<1>1. /\ tail' = tail + 1 /\ ticket[p] = tail
      /\ UNCHANGED <<head, state, value, ticket, arg, delivered>>
      /\ pushed' = Append(pushed, arg[p])
  BY DEF ClaimTail
<1>2. /\ pc[p] = "claimTail" /\ pc'[p] = "write"
      /\ \A t \in Threads \ {p} : pc'[t] = pc[t]
  BY ProducerMoves DEF ClaimTail, IInv, TypeOK, PcOK, Goto, ProducerLabels, Threads
<1>3. /\ Writing' = Writing \union {p} /\ p \notin Writing
      /\ Reading' = Reading
      /\ \A t \in Holding : pc'[t] = pc[t]
      /\ p \in Writing'
  BY <1>2, RolesAssumption DEF Writing, Reading, Holding, Threads
<1>4. /\ tail \in Nat /\ head \in Nat
      /\ \A t \in Threads : ticket[t] \in Nat
      /\ \A i \in Slots : state[i] \in Nat
      /\ Slot(tail) \in Slots
  BY TypeFacts, SlotInRing DEF IInv
<1>5. state[Slot(tail)] = tail
  BY <1>1, <1>2 DEF IInv, ClaimInv
<1>6. head <= tail /\ tail < head + Capacity
  <2>1. FreeSlot(Slot(tail), tail) \/ OccupiedSlot(Slot(tail), tail)
    BY <1>4, <1>5 DEF IInv, SlotInv
  <2>2. Slot(tail - 1) # Slot(tail)
    BY <1>4, SlotNeighbour
  <2> QED
    BY <2>1, <2>2 DEF FreeSlot, OccupiedSlot, IInv, CountersInRing
<1>7. CountersInRing'
  BY <1>1, <1>4, <1>6 DEF CountersInRing
<1>8. SlotInv'
  <2> SUFFICES ASSUME NEW i \in Slots, NEW s \in Nat, s = state[i]
               PROVE  FreeSlot(i, s)' \/ OccupiedSlot(i, s)'
    BY <1>1, <1>4 DEF SlotInv
  <2>1. s \in Int /\ tail \in Nat /\ head \in Nat
    BY <1>4
  <2>2. CASE FreeSlot(i, s)
    <3>1. Slot(s) = i /\ s < head + Capacity /\ tail <= s + Capacity
      BY <2>2 DEF FreeSlot
    <3>2. tail # s + Capacity
      <4>1. SUFFICES ASSUME tail = s + Capacity PROVE FALSE
        OBVIOUS
      <4>2. Slot(tail) = i
        <5>1. Slot(s + Capacity) = Slot(s)
          BY <2>1, SlotNextLap
        <5> QED
          BY <5>1, <4>1, <3>1
      <4> QED
        BY <4>1, <4>2, <1>5, <2>1
    <3>3. ASSUME s < tail + 1 PROVE \E q \in Writing' : ticket'[q] = s
      <4>1. CASE s < tail
        BY <4>1, <2>2, <1>1, <1>3 DEF FreeSlot
      <4>2. CASE s = tail
        BY <4>2, <1>1, <1>3
      <4> QED
        BY <4>1, <4>2, <3>3, <2>1
    <3>4. tail + 1 <= s + Capacity
      BY <3>1, <3>2, <2>1
    <3> QED
      BY <3>1, <3>3, <3>4, <1>1 DEF FreeSlot
  <2>3. CASE OccupiedSlot(i, s)
    <3>1. s > 0 /\ Slot(s - 1) = i /\ s <= tail /\ tail < s + Capacity
      BY <2>3 DEF OccupiedSlot
    <3>2. tail # s - 1 + Capacity
      <4>1. SUFFICES ASSUME tail = (s - 1) + Capacity PROVE FALSE
        BY <2>1
      <4>2. s - 1 \in Int /\ Slot((s - 1) + Capacity) = Slot(s - 1)
        BY <2>1, SlotNextLap
      <4>3. Slot(tail) = i
        BY <4>1, <4>2, <3>1
      <4> QED
        BY <4>1, <4>3, <1>5, <2>1
    <3>3. tail + 1 < s + Capacity
      BY <3>1, <3>2, <2>1
    <3> QED
      BY <2>3, <3>1, <3>3, <2>1, <1>1, <1>3, <1>4 DEF OccupiedSlot
  <2> QED
    BY <2>2, <2>3 DEF IInv, SlotInv
<1>9. /\ Len(pushed) = tail /\ pushed \in Seq(Values)
      /\ Len(pushed') = tail + 1 /\ pushed'[tail + 1] = arg[p]
      /\ \A n \in 1 .. tail : pushed'[n] = pushed[n]
  <2>1. Len(pushed) = tail /\ pushed \in Seq(Values)
    BY DEF IInv, HistoryInv, TypeOK
  <2> QED
    BY <2>1, <1>1
<1>10. WriterInv'
  <2>1. ASSUME NEW q \in Writing
        PROVE  /\ head <= ticket[q] /\ ticket[q] < tail /\ ticket[q] \in Nat
               /\ state[Slot(ticket[q])] = ticket[q]
               /\ pushed'[ticket[q] + 1] = arg[q]
               /\ pc'[q] = "publish" => value[Slot(ticket[q])] = arg[q]
               /\ \A r \in Writing : ticket[q] = ticket[r] => q = r
    BY <1>2, <1>3, <1>4, <1>9 DEF IInv, WriterInv, Writing, Threads
  <2> SUFFICES ASSUME NEW q \in Writing'
               PROVE  /\ head <= ticket[q] /\ ticket[q] < tail + 1
                      /\ state[Slot(ticket[q])] = ticket[q]
                      /\ pushed'[ticket[q] + 1] = arg[q]
                      /\ pc'[q] = "publish" => value[Slot(ticket[q])] = arg[q]
                      /\ \A r \in Writing' : ticket[q] = ticket[r] => q = r
    BY <1>1 DEF WriterInv
  <2>2. CASE q = p
    <3>1. \A r \in Writing : ticket[r] # ticket[p]
      BY <2>1, <1>1, <1>4
    <3> QED
      BY <3>1, <2>2, <1>1, <1>2, <1>3, <1>4, <1>5, <1>6, <1>9
  <2>3. CASE q \in Writing
    <3>1. ticket[q] # ticket[p] /\ ticket[q] < tail + 1
      BY <2>1, <2>3, <1>1, <1>4
    <3> QED
      BY <3>1, <2>1, <2>3, <1>3
  <2> QED
    BY <2>2, <2>3, <1>3
<1>11. ReaderInv'
  BY <1>1, <1>3 DEF IInv, ReaderInv, Holding
<1>12. ClaimInv'
  <2>1. ASSUME NEW q \in Producers, pc'[q] \in {"pushState", "claimTail"}
        PROVE  ticket'[q] < tail'
    <3>1. q # p /\ pc[q] \in {"pushState", "claimTail"} /\ ticket[q] \in Nat
      BY <2>1, <1>2, <1>4 DEF Threads
    <3> QED
      BY <3>1, <1>1, <1>4 DEF IInv, ClaimInv
  <2>2. \A c \in Consumers : pc'[c] = pc[c]
    BY <1>2, RolesAssumption DEF Threads
  <2>3. \A q \in Producers : ticket'[q] \in Nat /\ tail' \in Nat
    BY <1>1, <1>4 DEF Threads
  <2> QED
    BY <2>1, <2>2, <2>3, <1>1 DEF IInv, ClaimInv
<1>13. HistoryInv'
  <2>1. ASSUME NEW i \in Slots, Slot(state[i] - 1) = i, state[i] > 0
        PROVE  value[i] = pushed'[state[i]]
    <3>1. value[i] = pushed[state[i]]
      BY <2>1 DEF IInv, HistoryInv
    <3>2. state[i] <= tail
      <4>1. Slot(state[i]) # i
        <5>1. state[i] \in Int
          BY <1>4
        <5> QED
          BY <5>1, <2>1, SlotNeighbour
      <4> QED
        BY <4>1 DEF IInv, SlotInv, FreeSlot, OccupiedSlot
    <3> QED
      BY <3>1, <3>2, <2>1, <1>4, <1>9
  <2>2. ASSUME NEW n \in DOMAIN delivered
        PROVE  n < head /\ delivered[n] = pushed'[n + 1]
    <3>1. n \in Nat /\ n < head /\ delivered[n] = pushed[n + 1]
      BY DEF IInv, TypeOK, HistoryInv
    <3> QED
      BY <3>1, <1>4, <1>6, <1>9
  <2>3. \A n \in 0 .. head - 1 : n \in DOMAIN delivered \/ \E c \in Reading : ticket[c] = n
    BY DEF IInv, HistoryInv
  <2> QED
    BY <2>1, <2>2, <2>3, <1>1, <1>3, <1>9 DEF HistoryInv
<1> QED
  BY <1>7, <1>8, <1>10, <1>11, <1>12, <1>13 DEF IInv

(* write_value: nobody else uses the slot, and its mark is a free one, so no *)
(* published value is overwritten.                                           *)
LEMMA WriteValueStep ==
    ASSUME IInv, TypeOK', NEW p \in Producers, WriteValue(p)
    PROVE  IInv'
<1>1. /\ value' = [value EXCEPT ![Slot(ticket[p])] = arg[p]]
      /\ UNCHANGED <<tail, head, state, ticket, arg, pushed, delivered>>
  BY DEF WriteValue, history
<1>2. /\ pc[p] = "write" /\ pc'[p] = "publish"
      /\ \A t \in Threads \ {p} : pc'[t] = pc[t]
  BY ProducerMoves DEF WriteValue, IInv, TypeOK, PcOK, Goto, ProducerLabels, Threads
<1>3. /\ p \in Writing /\ Writing' = Writing /\ Reading' = Reading
      /\ \A t \in Holding \ {p} : pc'[t] = pc[t]
      /\ p \notin Reading
  BY <1>2, RolesAssumption DEF Writing, Reading, Holding, Threads
<1>4. /\ ticket[p] \in Nat /\ Slot(ticket[p]) \in Slots
      /\ state[Slot(ticket[p])] = ticket[p]
  BY <1>3, TypeFacts, SlotInRing DEF IInv, WriterInv
<1>5. /\ value'[Slot(ticket[p])] = arg[p]
      /\ \A i \in Slots : i # Slot(ticket[p]) => value'[i] = value[i]
  BY <1>1, <1>4 DEF IInv, TypeOK
<1>6. CountersInRing' /\ SlotInv'
  BY <1>1, <1>3 DEF IInv, CountersInRing, SlotInv, FreeSlot, OccupiedSlot
<1>7. WriterInv'
  <2> SUFFICES ASSUME NEW q \in Writing, pc'[q] = "publish"
               PROVE  value'[Slot(ticket[q])] = arg[q]
    BY <1>1, <1>3 DEF IInv, WriterInv
  <2>1. CASE q = p
    BY <2>1, <1>5
  <2>2. CASE q # p
    <3>1. Slot(ticket[q]) # Slot(ticket[p])
      BY <2>2, <1>3, OwnersApart DEF SlotOwnership, Holding
    <3>2. Slot(ticket[q]) \in Slots
      BY TypeFacts, SlotInRing DEF IInv, Writing
    <3> QED
      BY <3>1, <3>2, <2>2, <1>3, <1>5 DEF IInv, WriterInv, Holding
  <2> QED
    BY <2>1, <2>2
<1>8. ReaderInv'
  BY <1>1, <1>3 DEF IInv, ReaderInv, Holding
<1>9. ClaimInv'
  BY <1>1, <1>2, RolesAssumption DEF IInv, ClaimInv, Threads
<1>10. HistoryInv'
  <2>1. Slot(state[Slot(ticket[p])] - 1) # Slot(ticket[p])
    BY <1>4, SlotNeighbour
  <2> QED
    BY <2>1, <1>1, <1>3, <1>5 DEF IInv, HistoryInv
<1> QED
  BY <1>6, <1>7, <1>8, <1>9, <1>10 DEF IInv

(* mark_as_occupied publishes the ticket before any pop can have claimed it. *)
LEMMA MarkAsOccupiedStep ==
    ASSUME IInv, TypeOK', NEW p \in Producers, MarkAsOccupied(p)
    PROVE  IInv'
<1>1. /\ state' = [state EXCEPT ![Slot(ticket[p])] = ticket[p] + 1]
      /\ UNCHANGED <<tail, head, value, pushed, delivered>>
      /\ \A t \in Threads \ {p} : ticket'[t] = ticket[t]
      /\ \A q \in Producers \ {p} : arg'[q] = arg[q]
  BY DEF MarkAsOccupied, EndPush, OccupiedMark, history, IInv, TypeOK
<1>2. /\ pc[p] = "publish" /\ pc'[p] = "idle"
      /\ \A t \in Threads \ {p} : pc'[t] = pc[t]
  BY ProducerMoves DEF MarkAsOccupied, EndPush, IInv, TypeOK, PcOK, Goto, ProducerLabels, Threads
<1>3. /\ p \in Writing /\ Writing' = Writing \ {p} /\ Reading' = Reading
      /\ \A t \in Holding \ {p} : pc'[t] = pc[t] /\ ticket'[t] = ticket[t]
      /\ p \notin Reading
  BY <1>1, <1>2, RolesAssumption DEF Writing, Reading, Holding, Threads
<1>own. /\ \A q \in Writing' : ticket'[q] = ticket[q] /\ arg'[q] = arg[q] /\ q # p
        /\ \A c \in Reading' : ticket'[c] = ticket[c]
  BY <1>1, <1>3 DEF Writing, Reading, Threads
<1>4. /\ ticket[p] \in Nat /\ Slot(ticket[p]) \in Slots
      /\ head <= ticket[p] /\ ticket[p] < tail
      /\ state[Slot(ticket[p])] = ticket[p]
      /\ value[Slot(ticket[p])] = arg[p] /\ pushed[ticket[p] + 1] = arg[p]
      /\ tail \in Nat /\ head \in Nat
      /\ \A i \in Slots : state[i] \in Nat
  BY <1>2, <1>3, TypeFacts, SlotInRing DEF IInv, WriterInv
<1>5. /\ state'[Slot(ticket[p])] = ticket[p] + 1
      /\ \A i \in Slots : i # Slot(ticket[p]) => state'[i] = state[i]
  BY <1>1, <1>4 DEF IInv, TypeOK
<1>6. \A t \in Holding \ {p} : /\ Slot(ticket[t]) # Slot(ticket[p])
                               /\ Slot(ticket[t]) \in Slots
  BY <1>3, OwnersApart, TypeFacts, SlotInRing
     DEF SlotOwnership, Holding, Writing, Reading, IInv
<1>7. CountersInRing'
  BY <1>1 DEF IInv, CountersInRing
<1>8. SlotInv'
  <2> SUFFICES ASSUME NEW i \in Slots
               PROVE  FreeSlot(i, state[i])' \/ OccupiedSlot(i, state[i])'
    BY <1>1 DEF SlotInv
  <2>1. CASE i = Slot(ticket[p])
    <3>1. Slot(ticket[p] - 1) # Slot(ticket[p])
      BY <1>4, SlotNeighbour
    <3>2. tail <= ticket[p] + Capacity
      BY <3>1, <1>4 DEF IInv, SlotInv, FreeSlot, OccupiedSlot
    <3>3. state'[i] = ticket[p] + 1
      BY <2>1, <1>5
    <3>4. OccupiedSlot(i, state[i])'
      BY <3>2, <3>3, <2>1, <1>1, <1>4 DEF OccupiedSlot
    <3> QED
      BY <3>4
  <2>2. CASE i # Slot(ticket[p])
    <3>1. state'[i] = state[i]
      BY <2>2, <1>5
    <3>2. CASE FreeSlot(i, state[i])
      <4>1. \A q \in Writing : ticket[q] = state[i] => q # p
        BY <3>2, <2>2 DEF FreeSlot
      <4> QED
        BY <4>1, <3>1, <3>2, <1>1, <1>3, <1>own DEF FreeSlot
    <3>3. CASE OccupiedSlot(i, state[i])
      BY <3>1, <3>3, <1>1, <1>3, <1>own DEF OccupiedSlot
    <3> QED
      BY <3>2, <3>3 DEF IInv, SlotInv
  <2> QED
    BY <2>1, <2>2
<1>9. WriterInv'
  BY <1>1, <1>3, <1>own, <1>5, <1>6 DEF IInv, WriterInv, Holding
<1>10. ReaderInv'
  BY <1>1, <1>3, <1>own, <1>5, <1>6 DEF IInv, ReaderInv, Holding
<1>11. ClaimInv'
  <2>1. ASSUME NEW q \in Producers, pc'[q] = "claimTail", ticket[q] = tail
        PROVE  state'[Slot(tail)] = tail
    <3>1. q # p /\ state[Slot(tail)] = tail /\ Slot(tail) \in Slots
      BY <2>1, <1>2, <1>4, SlotInRing DEF IInv, ClaimInv, Threads
    <3> QED
      BY <3>1, <1>4, <1>5
  <2>2. ASSUME NEW c \in Consumers, pc'[c] = "claimHead", ticket[c] = head
        PROVE  state'[Slot(head)] = head + 1
    <3>1. state[Slot(head)] = head + 1 /\ Slot(head) \in Slots
      BY <2>2, <1>2, <1>4, SlotInRing, RolesAssumption
         DEF IInv, ClaimInv, Threads, OccupiedMark
    <3>2. Slot(head + 1) # Slot(head)
      BY <1>4, SlotNeighbour
    <3>3. Slot(head) # Slot(ticket[p])
      BY <3>1, <3>2, <1>4
    <3> QED
      BY <3>1, <3>3, <1>5
  <2>3. /\ \A q \in Producers : pc'[q] \in {"pushState", "claimTail"} =>
             pc'[q] = pc[q] /\ ticket'[q] = ticket[q]
        /\ \A c \in Consumers : pc'[c] = pc[c] /\ ticket'[c] = ticket[c]
    BY <1>1, <1>2, RolesAssumption DEF Threads
  <2> QED
    BY <2>1, <2>2, <2>3, <1>1 DEF IInv, ClaimInv, OccupiedMark
<1>12. HistoryInv'
  <2> SUFFICES ASSUME NEW i \in Slots, Slot(state'[i] - 1) = i, state'[i] > 0
               PROVE  value[i] = pushed[state'[i]]
    BY <1>1, <1>3, <1>own DEF IInv, HistoryInv
  <2>1. CASE i = Slot(ticket[p])
    BY <2>1, <1>4, <1>5
  <2>2. CASE i # Slot(ticket[p])
    BY <2>2, <1>5 DEF IInv, HistoryInv
  <2> QED
    BY <2>1, <2>2
<1> QED
  BY <1>7, <1>8, <1>9, <1>10, <1>11, <1>12 DEF IInv

(* The CAS on head: the slot holds the value of the claimed ticket.          *)
LEMMA ClaimHeadStep ==
    ASSUME IInv, TypeOK', NEW c \in Consumers, ClaimHead(c)
    PROVE  IInv'
<1>1. /\ head' = head + 1 /\ ticket[c] = head
      /\ UNCHANGED <<tail, state, value, ticket, arg, pushed, delivered>>
  BY DEF ClaimHead, history
<1>2. /\ pc[c] = "claimHead" /\ pc'[c] = "read"
      /\ \A t \in Threads \ {c} : pc'[t] = pc[t]
  BY ConsumerMoves DEF ClaimHead, IInv, TypeOK, PcOK, Goto, ConsumerLabels, Threads
<1>3. /\ Reading' = Reading \union {c} /\ c \notin Reading
      /\ Writing' = Writing
      /\ \A t \in Holding : pc'[t] = pc[t]
      /\ c \in Reading'
  BY <1>2, RolesAssumption DEF Writing, Reading, Holding, Threads
<1>4. /\ tail \in Nat /\ head \in Nat
      /\ \A t \in Threads : ticket[t] \in Nat
      /\ \A i \in Slots : state[i] \in Nat
      /\ Slot(head) \in Slots
  BY TypeFacts, SlotInRing DEF IInv
<1>5. state[Slot(head)] = head + 1
  BY <1>1, <1>2 DEF IInv, ClaimInv, OccupiedMark
<1>6. head + 1 <= tail
  <2>1. Slot(head + 1) # Slot(head)
    BY <1>4, SlotNeighbour
  <2> QED
    BY <2>1, <1>4, <1>5 DEF IInv, SlotInv, FreeSlot, OccupiedSlot
<1>7. CountersInRing'
  BY <1>1, <1>4, <1>6 DEF IInv, CountersInRing
<1>8. SlotInv'
  <2> SUFFICES ASSUME NEW i \in Slots, NEW s \in Nat, s = state[i]
               PROVE  FreeSlot(i, s)' \/ OccupiedSlot(i, s)'
    BY <1>1, <1>4 DEF SlotInv
  <2>1. CASE FreeSlot(i, s)
    BY <2>1, <1>1, <1>3, <1>4 DEF FreeSlot
  <2>2. CASE OccupiedSlot(i, s)
    <3>1. ASSUME s <= head + 1 PROVE \E d \in Reading' : ticket[d] = s - 1
      <4>1. CASE s <= head
        BY <4>1, <2>2, <1>3 DEF OccupiedSlot
      <4>2. CASE s = head + 1
        BY <4>2, <1>1, <1>3, <1>4
      <4> QED
        BY <4>1, <4>2, <3>1, <1>4
    <3> QED
      BY <3>1, <2>2, <1>1 DEF OccupiedSlot
  <2> QED
    BY <2>1, <2>2 DEF IInv, SlotInv
<1>9. WriterInv'
  <2>1. ASSUME NEW p \in Writing PROVE head + 1 <= ticket[p]
    <3>1. ticket[p] # head
      BY <1>4, <1>5 DEF IInv, WriterInv
    <3>2. ticket[p] \in Nat /\ head <= ticket[p]
      BY <1>4 DEF IInv, WriterInv, Writing, Threads
    <3> QED
      BY <3>1, <3>2, <1>4
  <2> QED
    BY <2>1, <1>1, <1>3 DEF IInv, WriterInv, Holding
<1>10. ReaderInv'
  <2>1. ASSUME NEW d \in Reading
        PROVE  /\ ticket[d] < head /\ ticket[d] \in Nat
               /\ state[Slot(ticket[d])] = OccupiedMark(ticket[d])
               /\ pc'[d] = "free" <=> ticket[d] \in DOMAIN delivered
               /\ \A e \in Reading : ticket[d] = ticket[e] => d = e
    BY <1>3, <1>4 DEF IInv, ReaderInv, Reading, Holding, Threads
  <2>2. head \notin DOMAIN delivered
    BY <1>4 DEF IInv, HistoryInv
  <2> SUFFICES ASSUME NEW d \in Reading'
               PROVE  /\ ticket[d] < head + 1
                      /\ state[Slot(ticket[d])] = OccupiedMark(ticket[d])
                      /\ pc'[d] = "free" <=> ticket[d] \in DOMAIN delivered
                      /\ \A e \in Reading' : ticket[d] = ticket[e] => d = e
    BY <1>1 DEF ReaderInv
  <2>3. \A e \in Reading : ticket[e] # ticket[c]
    BY <2>1, <1>1, <1>4
  <2>4. CASE d = c
    BY <2>2, <2>3, <2>4, <1>1, <1>2, <1>3, <1>4, <1>5 DEF OccupiedMark
  <2>5. CASE d \in Reading
    <3>1. ticket[d] # ticket[c] /\ ticket[d] < head + 1
      BY <2>1, <2>3, <2>5, <1>4
    <3> QED
      BY <3>1, <2>1, <2>5, <1>3
  <2> QED
    BY <2>4, <2>5, <1>3
<1>11. ClaimInv'
  <2>1. ASSUME NEW d \in Consumers, pc'[d] \in {"popState", "claimHead"}
        PROVE  ticket'[d] < head'
    <3>1. d # c /\ pc[d] \in {"popState", "claimHead"} /\ ticket[d] \in Nat
      BY <2>1, <1>2, <1>4 DEF Threads
    <3> QED
      BY <3>1, <1>1, <1>4 DEF IInv, ClaimInv
  <2>2. \A p \in Producers : pc'[p] = pc[p]
    BY <1>2, RolesAssumption DEF Threads
  <2>3. \A d \in Consumers : ticket'[d] \in Nat /\ head' \in Nat
    BY <1>1, <1>4 DEF Threads
  <2> QED
    BY <2>1, <2>2, <2>3, <1>1 DEF IInv, ClaimInv
<1>12. HistoryInv'
  <2>1. \A n \in DOMAIN delivered : n \in Nat /\ n < head => n < head + 1
    BY <1>4
  <2>2. ASSUME NEW n \in 0 .. head
        PROVE  n \in DOMAIN delivered \/ \E d \in Reading' : ticket[d] = n
    <3>1. CASE n = head
      BY <3>1, <1>1, <1>3
    <3>2. CASE n # head
      <4>1. n \in 0 .. head - 1
        BY <3>2, <1>4
      <4> QED
        BY <4>1, <1>3 DEF IInv, HistoryInv
    <3> QED
      BY <3>1, <3>2
  <2>3. head' - 1 = head
    BY <1>1, <1>4
  <2> QED
    BY <2>1, <2>2, <2>3, <1>1 DEF IInv, TypeOK, HistoryInv
<1> QED
  BY <1>7, <1>8, <1>9, <1>10, <1>11, <1>12 DEF IInv

(* read_value finds what was pushed with the ticket.                         *)
LEMMA ReaderFinds ==
    ASSUME IInv, NEW c \in Reading
    PROVE  value[Slot(ticket[c])] = pushed[ticket[c] + 1]
<1>1. ticket[c] \in Nat /\ Slot(ticket[c]) \in Slots
  BY TypeFacts, SlotInRing DEF IInv, Reading
<1>2. state[Slot(ticket[c])] = ticket[c] + 1
  BY DEF IInv, ReaderInv, OccupiedMark
<1> QED
  BY <1>1, <1>2 DEF IInv, HistoryInv

LEMMA ReadValueStep ==
    ASSUME IInv, TypeOK', NEW c \in Consumers, ReadValue(c)
    PROVE  IInv'
<1>1. /\ delivered' = [n \in DOMAIN delivered \union {ticket[c]} |->
                          IF n = ticket[c] THEN value[Slot(n)] ELSE delivered[n]]
      /\ UNCHANGED <<tail, head, state, value, ticket, arg, pushed>>
  BY DEF ReadValue, shared
<1>2. /\ pc[c] = "read" /\ pc'[c] = "free"
      /\ \A t \in Threads \ {c} : pc'[t] = pc[t]
  BY ConsumerMoves DEF ReadValue, IInv, TypeOK, PcOK, Goto, ConsumerLabels, Threads
<1>3. /\ c \in Reading /\ Writing' = Writing /\ Reading' = Reading
      /\ \A t \in Holding \ {c} : pc'[t] = pc[t]
      /\ c \notin Writing
  BY <1>2, RolesAssumption DEF Writing, Reading, Holding, Threads
<1>4. CountersInRing' /\ SlotInv'
  BY <1>1, <1>3 DEF IInv, CountersInRing, SlotInv, FreeSlot, OccupiedSlot
<1>5. WriterInv'
  BY <1>1, <1>3 DEF IInv, WriterInv, Holding
<1>6. ReaderInv'
  <2> SUFFICES ASSUME NEW d \in Reading
               PROVE  pc'[d] = "free" <=> ticket[d] \in DOMAIN delivered'
    BY <1>1, <1>3 DEF IInv, ReaderInv
  <2>1. CASE d = c
    BY <2>1, <1>1, <1>2
  <2>2. CASE d # c
    <3>1. ticket[d] # ticket[c]
      BY <2>2, <1>3 DEF IInv, ReaderInv
    <3> QED
      BY <3>1, <2>2, <1>1, <1>3 DEF IInv, ReaderInv, Holding
  <2> QED
    BY <2>1, <2>2
<1>7. ClaimInv'
  BY <1>1, <1>2, RolesAssumption DEF IInv, ClaimInv, Threads
<1>8. HistoryInv'
  <2>1. ticket[c] < head /\ value[Slot(ticket[c])] = pushed[ticket[c] + 1]
    BY <1>3, ReaderFinds DEF IInv, ReaderInv
  <2>2. \A n \in DOMAIN delivered' : n < head /\ delivered'[n] = pushed[n + 1]
    BY <2>1, <1>1 DEF IInv, HistoryInv
  <2> QED
    BY <2>2, <1>1, <1>3 DEF IInv, HistoryInv
<1> QED
  BY <1>4, <1>5, <1>6, <1>7, <1>8 DEF IInv

(* mark_as_free hands the slot to the next lap, whose ticket is not claimed  *)
(* yet.                                                                      *)
LEMMA MarkAsFreeStep ==
    ASSUME IInv, TypeOK', NEW c \in Consumers, MarkAsFree(c)
    PROVE  IInv'
<1>1. /\ state' = [state EXCEPT ![Slot(ticket[c])] = ticket[c] + Capacity]
      /\ UNCHANGED <<tail, head, value, arg, pushed, delivered>>
      /\ \A t \in Threads \ {c} : ticket'[t] = ticket[t]
  BY DEF MarkAsFree, EndPop, FreeMark, history, IInv, TypeOK
<1>2. /\ pc[c] = "free" /\ pc'[c] \in {"idle", "loadHead"}
      /\ \A t \in Threads \ {c} : pc'[t] = pc[t]
  <2>1. \E label \in {"idle", "loadHead"} : Goto(c, label)
    BY DEF MarkAsFree, EndPop
  <2> QED
    BY <2>1, ConsumerMoves DEF MarkAsFree, IInv, TypeOK, PcOK, Goto, ConsumerLabels, Threads
<1>3. /\ c \in Reading /\ Reading' = Reading \ {c} /\ Writing' = Writing
      /\ \A t \in Holding \ {c} : pc'[t] = pc[t] /\ ticket'[t] = ticket[t]
      /\ c \notin Writing
  BY <1>1, <1>2, RolesAssumption DEF Writing, Reading, Holding, Threads
<1>own. /\ \A p \in Writing' : ticket'[p] = ticket[p]
        /\ \A d \in Reading' : ticket'[d] = ticket[d] /\ d # c
  BY <1>1, <1>3 DEF Writing, Reading, Threads
<1>4. /\ ticket[c] \in Nat /\ Slot(ticket[c]) \in Slots
      /\ ticket[c] < head
      /\ state[Slot(ticket[c])] = ticket[c] + 1
      /\ tail \in Nat /\ head \in Nat
      /\ \A i \in Slots : state[i] \in Nat
  BY <1>3, TypeFacts, SlotInRing DEF IInv, ReaderInv, OccupiedMark
<1>5. /\ state'[Slot(ticket[c])] = ticket[c] + Capacity
      /\ \A i \in Slots : i # Slot(ticket[c]) => state'[i] = state[i]
  BY <1>1, <1>4 DEF IInv, TypeOK
<1>6. \A t \in Holding \ {c} : /\ Slot(ticket[t]) # Slot(ticket[c])
                               /\ Slot(ticket[t]) \in Slots
  BY <1>3, OwnersApart, TypeFacts, SlotInRing
     DEF SlotOwnership, Holding, Writing, Reading, IInv
<1>7. CountersInRing'
  BY <1>1 DEF IInv, CountersInRing
<1>8. tail < ticket[c] + 1 + Capacity
  <2>1. Slot(ticket[c] + 1) # Slot(ticket[c])
    BY <1>4, SlotNeighbour
  <2> QED
    BY <2>1, <1>4 DEF IInv, SlotInv, FreeSlot, OccupiedSlot
<1>9. SlotInv'
  <2> SUFFICES ASSUME NEW i \in Slots
               PROVE  FreeSlot(i, state[i])' \/ OccupiedSlot(i, state[i])'
    BY <1>1 DEF SlotInv
  <2>1. CASE i = Slot(ticket[c])
    <3>1. Slot(ticket[c] + Capacity) = Slot(ticket[c])
      BY <1>4, SlotNextLap
    <3>2. state'[i] = ticket[c] + Capacity
      BY <2>1, <1>5
    <3>3. FreeSlot(i, state[i])'
      BY <3>1, <3>2, <2>1, <1>1, <1>4, <1>8 DEF FreeSlot
    <3> QED
      BY <3>3
  <2>2. CASE i # Slot(ticket[c])
    <3>1. state'[i] = state[i]
      BY <2>2, <1>5
    <3>2. CASE FreeSlot(i, state[i])
      BY <3>1, <3>2, <1>1, <1>3, <1>own DEF FreeSlot
    <3>3. CASE OccupiedSlot(i, state[i])
      <4>1. \A d \in Reading : ticket[d] = state[i] - 1 => d # c
        BY <3>3, <2>2 DEF OccupiedSlot
      <4> QED
        BY <4>1, <3>1, <3>3, <1>1, <1>3, <1>own DEF OccupiedSlot
    <3> QED
      BY <3>2, <3>3 DEF IInv, SlotInv
  <2> QED
    BY <2>1, <2>2
<1>10. WriterInv'
  BY <1>1, <1>3, <1>own, <1>5, <1>6 DEF IInv, WriterInv, Holding
<1>11. ReaderInv'
  BY <1>1, <1>3, <1>own, <1>5, <1>6 DEF IInv, ReaderInv, Holding
<1>12. ClaimInv'
  <2>1. ASSUME NEW p \in Producers, pc'[p] = "claimTail", ticket[p] = tail
        PROVE  state'[Slot(tail)] = tail
    <3>1. state[Slot(tail)] = tail /\ Slot(tail) \in Slots
      BY <2>1, <1>2, <1>4, SlotInRing, RolesAssumption DEF IInv, ClaimInv, Threads
    <3>2. Slot(tail) # Slot(ticket[c])
      <4>1. tail # ticket[c] + 1 \/ Slot(ticket[c] + 1) # Slot(ticket[c])
        BY <1>4, SlotNeighbour
      <4> QED
        BY <4>1, <3>1, <1>4
    <3> QED
      BY <3>1, <3>2, <1>5
  <2>2. ASSUME NEW d \in Consumers, pc'[d] = "claimHead", ticket[d] = head
        PROVE  state'[Slot(head)] = head + 1
    <3>1. state[Slot(head)] = head + 1 /\ Slot(head) \in Slots
      BY <2>2, <1>2, <1>4, SlotInRing DEF IInv, ClaimInv, Threads, OccupiedMark
    <3>2. Slot(head) # Slot(ticket[c])
      BY <3>1, <1>4
    <3> QED
      BY <3>1, <3>2, <1>5
  <2>3. /\ \A d \in Consumers : pc'[d] \in {"popState", "claimHead"} =>
             pc'[d] = pc[d] /\ ticket'[d] = ticket[d]
        /\ \A p \in Producers : pc'[p] = pc[p] /\ ticket'[p] = ticket[p]
    BY <1>1, <1>2, RolesAssumption DEF Threads
  <2> QED
    BY <2>1, <2>2, <2>3, <1>1 DEF IInv, ClaimInv, OccupiedMark
<1>13. HistoryInv'
  <2> SUFFICES ASSUME NEW i \in Slots, Slot(state'[i] - 1) = i, state'[i] > 0
               PROVE  value[i] = pushed[state'[i]]
    <3>1. ticket[c] \in DOMAIN delivered
      BY <1>2, <1>3 DEF IInv, ReaderInv
    <3>2. \A n \in 0 .. head - 1 : n \in DOMAIN delivered \/ \E d \in Reading' : ticket[d] = n
      BY <3>1, <1>3 DEF IInv, HistoryInv
    <3> QED
      BY <3>2, <1>1, <1>own DEF IInv, HistoryInv
  <2>1. i # Slot(ticket[c])
    <3>1. SUFFICES ASSUME i = Slot(ticket[c]) PROVE FALSE
      OBVIOUS
    <3>2. Slot(ticket[c] + Capacity) = Slot(ticket[c])
      BY <1>4, SlotNextLap
    <3>3. ticket[c] + Capacity \in Int
      BY <1>4
    <3>4. Slot((ticket[c] + Capacity) - 1) # Slot(ticket[c] + Capacity)
      BY <3>3, SlotNeighbour
    <3> QED
      BY <3>1, <3>2, <3>4, <1>5
  <2> QED
    BY <2>1, <1>5 DEF IInv, HistoryInv
<1> QED
  BY <1>7, <1>9, <1>10, <1>11, <1>12, <1>13 DEF IInv

LEMMA IInvStep == IInv /\ [Next]_vars => IInv'
<1> SUFFICES ASSUME IInv, [Next]_vars PROVE IInv'
  OBVIOUS
<1>1. TypeOK'
  BY TypeStep DEF IInv
<1>2. ASSUME NEW p \in Producers, PushStep(p) \/ \E v \in Values : StartPush(p, v)
      PROVE  IInv'
  BY <1>1, <1>2, ProducerLocal, ClaimTailStep, WriteValueStep, MarkAsOccupiedStep
     DEF PushStep
<1>3. ASSUME NEW c \in Consumers,
             \/ PopStep(c)
             \/ \E blocking \in BOOLEAN :
                  \/ \E n \in DstLens : StartPop(c, n, blocking)
                  \/ StartSteal(c, blocking)
      PROVE  IInv'
  BY <1>1, <1>3, ConsumerLocal, ClaimHeadStep, ReadValueStep, MarkAsFreeStep DEF PopStep
<1>4. CASE UNCHANGED vars
  <2>1. Writing' = Writing /\ Reading' = Reading
    BY <1>4 DEF vars, Writing, Reading
  <2> QED
    BY <1>1, <1>4, <2>1
       DEF vars, IInv, CountersInRing, SlotInv, FreeSlot, OccupiedSlot, WriterInv,
           ReaderInv, ClaimInv, HistoryInv
<1> QED
  BY <1>2, <1>3, <1>4 DEF Next

-----------------------------------------------------------------------------
(* What follows for every execution *)

THEOREM Invariance == Spec => []IInv
BY IInvInit, IInvStep, PTL DEF Spec

(* No two threads are ever between their CAS and their mark in one slot.     *)
THEOREM SlotOwnershipHolds == Spec => []SlotOwnership
BY Invariance, OwnersApart, PTL

(* Every pop reads the value pushed with its ticket.                         *)
THEOREM ReadsPushedValueHolds == Spec => []ReadsPushedValue
<1>1. IInv => ReadsPushedValue
  BY ReaderFinds DEF ReadsPushedValue, Reading
<1> QED
  BY <1>1, Invariance, PTL

(* The queue never holds fewer than 0 nor more than Capacity values.         *)
THEOREM CountersInRingHolds == Spec => []CountersInRing
<1>1. IInv => CountersInRing
  BY DEF IInv
<1> QED
  BY <1>1, Invariance, PTL

(* Every value pushed is with its writer, in its slot, or has been read.     *)
THEOREM NothingLostHolds == Spec => []NothingLost
<1>1. IInv => NothingLost
  <2> SUFFICES ASSUME IInv, NEW t \in 0 .. tail - 1, t \notin DOMAIN delivered,
                      ~ \E p \in Writing : ticket[p] = t
               PROVE  state[Slot(t)] = t + 1 /\ value[Slot(t)] = pushed[t + 1]
    BY DEF NothingLost, OccupiedMark
  <2>1. /\ t \in Nat /\ tail \in Nat /\ head \in Nat /\ t < tail
        /\ Slot(t) \in Slots /\ state[Slot(t)] \in Nat
        /\ tail <= head + Capacity
    BY TypeFacts, SlotInRing DEF IInv, CountersInRing
  <2>2. state[Slot(t)] = t + 1
    <3>1. CASE t < head
      <4>1. PICK c \in Reading : ticket[c] = t
        BY <3>1, <2>1 DEF IInv, HistoryInv
      <4> QED
        BY <4>1 DEF IInv, ReaderInv, OccupiedMark
    <3>2. CASE head <= t
      <4> SUFFICES ASSUME NEW s \in Nat, s = state[Slot(t)] PROVE s = t + 1
        BY <2>1
      <4>1. CASE FreeSlot(Slot(t), s)
        <5>1. Slot(s) = Slot(t) /\ s < head + Capacity /\ tail <= s + Capacity
          BY <4>1 DEF FreeSlot
        <5>2. s = t
          BY <5>1, <3>2, <2>1, SlotGap
        <5> QED
          BY <5>2, <4>1, <2>1 DEF FreeSlot
      <4>2. CASE OccupiedSlot(Slot(t), s)
        <5>1. /\ s - 1 \in Int /\ Slot(s - 1) = Slot(t)
              /\ s <= tail /\ tail < s + Capacity
          BY <4>2 DEF OccupiedSlot
        <5>2. ~(s - 1 < t) /\ ~(t < s - 1)
          BY <5>1, <3>2, <2>1, SlotGap
        <5> QED
          BY <5>1, <5>2, <2>1
      <4> QED
        BY <4>1, <4>2, <2>1 DEF IInv, SlotInv
    <3> QED
      BY <3>1, <3>2, <2>1
  <2>3. (t + 1) - 1 = t
    BY <2>1
  <2>4. Slot(state[Slot(t)] - 1) = Slot(t) /\ state[Slot(t)] > 0
    BY <2>1, <2>2, <2>3
  <2> QED
    BY <2>1, <2>2, <2>4 DEF IInv, HistoryInv
<1> QED
  BY <1>1, Invariance, PTL

(* The queue, with threads preempted between any two accesses and loads that *)
(* may be stale, does no more than append to a log, claim its oldest entry,  *)
(* and hand the claimed value over once.                                     *)
THEOREM ImplementsLog == Spec => LogSpec
<1>1. Init => Log!Init
  BY DEF Init, Log!Init
<1>2. IInv /\ [Next]_vars => [Log!Next]_Log!absVars
  <2> SUFFICES ASSUME IInv, [Next]_vars PROVE Log!Next \/ UNCHANGED Log!absVars
    OBVIOUS
  <2>1. ASSUME NEW p \in Producers, ClaimTail(p) PROVE Log!Next
    <3>1. /\ tail = ticket[p] /\ head' = head /\ delivered' = delivered
          /\ pushed' = Append(pushed, arg[p])
      BY <2>1 DEF ClaimTail
    <3>2. /\ pushed \in Seq(Values) /\ Len(pushed) = tail /\ arg[p] \in Values
          /\ tail \in Nat /\ head \in Nat /\ tail' \in Nat
      BY <2>1, TypeStep DEF ClaimTail, IInv, TypeOK, HistoryInv
    <3>3. tail + 1 <= head + Capacity
      <4>1. IInv' /\ tail' = tail + 1
        BY <2>1, IInvStep DEF ClaimTail
      <4> QED
        BY <4>1, <3>1 DEF IInv, CountersInRing
    <3>4. Log!Push(<<arg[p]>>)
      BY <3>1, <3>2, <3>3 DEF Log!Push
    <3> QED
      BY <3>2, <3>4 DEF Log!Next
  <2>2. ASSUME NEW c \in Consumers, ClaimHead(c) PROVE Log!Next
    <3>1. head' = head + 1 /\ UNCHANGED <<tail, pushed, delivered>>
      BY <2>2 DEF ClaimHead, history
    <3>2. head + 1 <= Len(pushed)
      BY <3>1, IInvStep DEF IInv, CountersInRing, HistoryInv
    <3>3. Log!Claim(1)
      BY <3>1, <3>2 DEF Log!Claim
    <3> QED
      BY <3>3 DEF Log!Next
  <2>3. ASSUME NEW c \in Consumers, ReadValue(c) PROVE Log!Next
    <3>1. c \in Reading /\ ticket[c] \in Nat /\ head \in Nat
      BY <2>3, TypeFacts DEF ReadValue, Reading, IInv
    <3>2. /\ ticket[c] < head /\ ticket[c] \notin DOMAIN delivered
          /\ value[Slot(ticket[c])] = pushed[ticket[c] + 1]
      BY <2>3, <3>1, ReaderFinds DEF ReadValue, IInv, ReaderInv
    <3>3. Log!Deliver({ticket[c]})
      BY <2>3, <3>2 DEF ReadValue, shared, Log!Deliver
    <3>4. {ticket[c]} \in SUBSET (0 .. head - 1)
      BY <3>1, <3>2
    <3> QED
      BY <3>3, <3>4 DEF Log!Next
  <2>4. CASE \/ \E p \in Producers :
                  \/ LoadTail(p) \/ PushState(p) \/ MissTail(p) \/ WriteValue(p)
                  \/ MarkAsOccupied(p)
                  \/ \E v \in Values : StartPush(p, v)
             \/ \E c \in Consumers :
                  \/ LoadHead(c) \/ PopState(c) \/ ReloadHead(c) \/ MissHead(c)
                  \/ MarkAsFree(c) \/ LenHead(c) \/ LenTail(c)
                  \/ \E blocking \in BOOLEAN :
                       \/ \E n \in DstLens : StartPop(c, n, blocking)
                       \/ StartSteal(c, blocking)
             \/ UNCHANGED vars
    BY <2>4 DEF LoadTail, PushState, MissTail, WriteValue, MarkAsOccupied, StartPush,
                LoadHead, PopState, ReloadHead, MissHead, MarkAsFree, LenHead, LenTail,
                StartPop, StartSteal, shared, history, vars, Log!absVars
  <2> QED
    BY <2>1, <2>2, <2>3, <2>4 DEF Next, PushStep, PopStep
<1> QED
  BY <1>1, <1>2, Invariance, PTL DEF Spec, LogSpec, Log!Spec
-----------------------------------------------------------------------------
(* What the answers mean, for a thread that reads the present mark *)

(* A thread leaves the look at its slot only by that look.                   *)
LEMMA OnlyLooks ==
    ASSUME TypeOK, [Next]_vars
    PROVE  /\ \A p \in Producers : pc[p] = "pushState" /\ pc'[p] = "idle" => PushState(p)
           /\ \A c \in Consumers :
                pc[c] = "popState" /\ pc'[c] \in {"idle", "reloadHead"} => PopState(c)
<1>1. PcOK
  BY DEF TypeOK, PcOK
<1>2. ASSUME NEW p \in Producers, PushStep(p) \/ \E v \in Values : StartPush(p, v)
      PROVE  /\ \A t \in Threads \ {p} : pc'[t] = pc[t]
             /\ pc[p] = "pushState" => PushState(p)
  <2>1. PICK label \in ProducerLabels : Goto(p, label)
    BY <1>2 DEF PushStep, LoadTail, PushState, ClaimTail, MissTail, WriteValue, MarkAsOccupied,
                EndPush, StartPush, ProducerLabels
  <2>2. pc[p] = "pushState" => PushState(p)
    BY <1>2 DEF PushStep, LoadTail, ClaimTail, MissTail, WriteValue, MarkAsOccupied, StartPush
  <2> QED
    BY <1>1, <2>1, <2>2, ProducerMoves
<1>3. ASSUME NEW c \in Consumers,
             \/ PopStep(c)
             \/ \E blocking \in BOOLEAN :
                  \/ \E n \in DstLens : StartPop(c, n, blocking)
                  \/ StartSteal(c, blocking)
      PROVE  /\ \A t \in Threads \ {c} : pc'[t] = pc[t]
             /\ pc[c] = "popState" => PopState(c)
  <2>1. PICK label \in ConsumerLabels : Goto(c, label)
    BY <1>3 DEF PopStep, LoadHead, PopState, ReloadHead, ClaimHead, MissHead, ReadValue, MarkAsFree,
                LenHead, LenTail, EndPop, StartPop, StartSteal, ConsumerLabels
  <2>2. pc[c] = "popState" => PopState(c)
    BY <1>3 DEF PopStep, LoadHead, ReloadHead, ClaimHead, MissHead, ReadValue, MarkAsFree, LenHead,
                LenTail, StartPop, StartSteal
  <2> QED
    BY <1>1, <2>1, <2>2, ConsumerMoves
<1>4. CASE UNCHANGED vars
  BY <1>4 DEF vars
<1> QED
  BY <1>2, <1>3, <1>4, RolesAssumption DEF Next, Threads

(* The mark that a thread with ticket t finds, if the load is exact.         *)
LEMMA MarkFound ==
    ASSUME IInv, NEW t \in Nat
    PROVE  LET m == state[Slot(t)]
           IN  /\ m \in Nat
               /\ FreeSlot(Slot(t), m) \/ OccupiedSlot(Slot(t), m)
               /\ tail \in Nat /\ head \in Nat /\ head <= tail /\ tail <= head + Capacity
               /\ Capacity \in Nat
BY SlotInRing, TypeFacts DEF IInv, SlotInv, CountersInRing

(* A slot that is in the way of a push is the one that tail has come round   *)
(* to, a lap later, and its value has not been popped or not been freed.     *)
LEMMA FullLook ==
    ASSUME IInv, NEW t \in Nat, IsQueueFull(t, state[Slot(t)]), t <= tail
    PROVE  \/ tail - head = Capacity
           \/ \E c \in Reading : ticket[c] = tail - Capacity
<1> DEFINE m == state[Slot(t)]
<1>1. /\ m \in Nat /\ t = m + (Capacity - 1)
      /\ FreeSlot(Slot(t), m) \/ OccupiedSlot(Slot(t), m)
      /\ tail \in Nat /\ head \in Nat /\ head <= tail /\ tail <= head + Capacity
      /\ Capacity \in Nat
  BY MarkFound DEF IsQueueFull
<1> HIDE DEF m
<1>2. Slot(m) # Slot(t)
  <2>1. Slot(m + Capacity) = Slot(m) /\ m + Capacity = t + 1
    BY <1>1, SlotNextLap
  <2> QED
    BY <2>1, SlotNeighbour
<1>3. m <= tail /\ tail < m + Capacity /\ (m <= head => \E c \in Reading : ticket[c] = m - 1)
  BY <1>1, <1>2 DEF FreeSlot, OccupiedSlot
<1>4. tail = t /\ m - 1 = tail - Capacity
  BY <1>1, <1>3
<1>5. CASE m <= head
  BY <1>3, <1>4, <1>5
<1>6. CASE m > head
  BY <1>1, <1>4, <1>6
<1> QED
  BY <1>1, <1>5, <1>6

(* A free slot at a pop's ticket is free because nobody has claimed the      *)
(* ticket, or because who has claimed it has not marked the slot.            *)
LEMMA EmptyLook ==
    ASSUME IInv, NEW t \in Nat, IsQueueEmpty(t, state[Slot(t)]), t <= head
    PROVE  head = tail \/ \E p \in Writing : ticket[p] = head
<1> DEFINE m == state[Slot(t)]
<1>1. /\ FreeSlot(Slot(t), m) \/ OccupiedSlot(Slot(t), m)
      /\ tail \in Nat /\ head \in Nat /\ head <= tail
  BY MarkFound DEF IsQueueEmpty
<1>2. m = t
  BY DEF IsQueueEmpty
<1> HIDE DEF m
<1>3. Slot(m - 1) # Slot(t)
  BY <1>2, SlotNeighbour
<1>4. m < tail => \E p \in Writing : ticket[p] = m
  BY <1>1, <1>3 DEF FreeSlot, OccupiedSlot
<1>5. ASSUME NEW p \in Writing, ticket[p] = m PROVE ticket[p] = head
  <2>1. head <= ticket[p]
    BY DEF IInv, WriterInv
  <2> QED
    BY <1>1, <1>2, <1>5, <2>1
<1> QED
  BY <1>1, <1>2, <1>4, <1>5

(* A slot of the head that is neither occupied nor free is still being read  *)
(* for the lap before, and there is nothing to pop behind it.                *)
LEMMA WaitLook ==
    ASSUME IInv, ~IsSlotOccupied(head, state[Slot(head)]), ~IsQueueEmpty(head, state[Slot(head)])
    PROVE  head = tail /\ \E d \in Reading : ticket[d] = head - Capacity
<1> DEFINE m == state[Slot(head)]
<1>0. head \in Nat
  BY TypeFacts DEF IInv
<1>1. /\ m \in Nat /\ m # head /\ m # head + 1
      /\ FreeSlot(Slot(head), m) \/ OccupiedSlot(Slot(head), m)
      /\ tail \in Nat /\ head \in Nat /\ head <= tail /\ tail <= head + Capacity
      /\ Capacity \in Nat
  BY <1>0, MarkFound DEF IsSlotOccupied, IsQueueEmpty
<1> HIDE DEF m
<1>2. ASSUME FreeSlot(Slot(head), m) PROVE FALSE
  <2>1. /\ Slot(m) = Slot(head) /\ m < head + Capacity /\ tail <= m + Capacity
        /\ m < tail => \E p \in Writing : ticket[p] = m
    BY <1>2 DEF FreeSlot
  <2>2. ~(head < m)
    BY <1>1, <2>1, SlotGap
  <2>3. m < head
    BY <1>1, <2>2
  <2>4. PICK p \in Writing : ticket[p] = m
    BY <1>1, <2>1, <2>3
  <2>5. head <= ticket[p]
    BY DEF IInv, WriterInv
  <2> QED
    BY <1>1, <2>3, <2>4, <2>5
<1>3. /\ m > 0 /\ Slot(m - 1) = Slot(head) /\ m <= tail /\ tail < m + Capacity
      /\ m <= head => \E c \in Reading : ticket[c] = m - 1
  BY <1>1, <1>2 DEF OccupiedSlot
<1>4. ~(head < m - 1)
  <2>1. head < m - 1 => head + Capacity <= m - 1
    BY <1>1, <1>3, SlotGap
  <2> QED
    BY <1>1, <1>3, <2>1
<1>5. m - 1 < head
  BY <1>1, <1>4
<1>6. (m - 1) + Capacity <= head
  BY <1>1, <1>3, <1>5, SlotGap
<1>7. head = tail /\ m - 1 = head - Capacity /\ m <= head
  BY <1>1, <1>3, <1>6
<1> QED
  BY <1>3, <1>7

(* maybe_push says that the queue is full only when it is, or when the pop   *)
(* of the oldest value has claimed it and not freed its slot: what the       *)
(* comment in maybe_push says of the two cases.                              *)
THEOREM FullIsJustifiedHolds == ASSUME ~StaleLoads PROVE Spec => FullIsJustified
<1> DEFINE Justified == \A p \in Producers : ReportsFull(p) =>
             \/ tail - head = Capacity
             \/ \E c \in Reading : ticket[c] = tail - Capacity
<1>1. IInv /\ [Next]_vars => Justified
  <2> SUFFICES ASSUME IInv, [Next]_vars, NEW p \in Producers, ReportsFull(p)
               PROVE  \/ tail - head = Capacity
                      \/ \E c \in Reading : ticket[c] = tail - Capacity
    OBVIOUS
  <2>1. TypeOK /\ ticket[p] \in Nat
    BY TypeFacts DEF IInv
  <2>2. pc[p] = "pushState" /\ pc'[p] = "idle" /\ PushState(p)
    BY <2>1, OnlyLooks DEF ReportsFull
  <2>3. IsQueueFull(ticket[p], state[Slot(ticket[p])])
    <3>1. DOMAIN pc = Threads /\ p \in Threads
      BY <2>1 DEF TypeOK, Threads
    <3>2. ASSUME NEW label, Goto(p, label) PROVE label = "idle"
      BY <2>2, <3>1, <3>2 DEF Goto
    <3> QED
      BY <2>2, <3>2 DEF PushState, StateLoads
  <2>4. ticket[p] <= tail
    BY <2>2 DEF IInv, ClaimInv
  <2> QED
    BY <2>1, <2>3, <2>4, FullLook
<1> QED
  BY <1>1, Invariance, PTL DEF Spec, FullIsJustified

(* A pop says that the queue is empty only when it is, or when the push of   *)
(* the next value has claimed its ticket and not published it.               *)
THEOREM EmptyIsJustifiedHolds == ASSUME ~StaleLoads PROVE Spec => EmptyIsJustified
<1> DEFINE Justified == \A c \in Consumers : ReportsEmpty(c) =>
             \/ head = tail
             \/ \E p \in Writing : ticket[p] = head
<1>1. IInv /\ [Next]_vars => Justified
  <2> SUFFICES ASSUME IInv, [Next]_vars, NEW c \in Consumers, ReportsEmpty(c)
               PROVE  head = tail \/ \E p \in Writing : ticket[p] = head
    OBVIOUS
  <2>1. TypeOK /\ ticket[c] \in Nat
    BY TypeFacts DEF IInv
  <2>2. pc[c] = "popState" /\ pc'[c] = "idle" /\ PopState(c)
    BY <2>1, OnlyLooks DEF ReportsEmpty
  <2>3. IsQueueEmpty(ticket[c], state[Slot(ticket[c])])
    <3>1. DOMAIN pc = Threads /\ c \in Threads
      BY <2>1 DEF TypeOK, Threads
    <3>2. ASSUME NEW label, Goto(c, label) PROVE label = "idle"
      BY <2>2, <3>1, <3>2 DEF Goto
    <3> QED
      BY <2>2, <3>2 DEF PopState, StateLoads
  <2>4. ticket[c] <= head
    BY <2>2 DEF IInv, ClaimInv
  <2> QED
    BY <2>1, <2>3, <2>4, EmptyLook
<1> QED
  BY <1>1, Invariance, PTL DEF Spec, EmptyIsJustified

(* A pop snoozes, or answers ShouldWait, only while the queue is empty and a *)
(* pop of the lap before is still in the slot of the head.                   *)
THEOREM WaitIsForAReaderHolds == ASSUME ~StaleLoads PROVE Spec => WaitIsForAReader
<1> DEFINE Justified == \A c \in Consumers : MustWait(c) =>
             /\ head = tail
             /\ \E d \in Reading : ticket[d] = head - Capacity
<1>1. IInv /\ [Next]_vars => Justified
  <2> SUFFICES ASSUME IInv, [Next]_vars, NEW c \in Consumers, MustWait(c)
               PROVE  head = tail /\ \E d \in Reading : ticket[d] = head - Capacity
    OBVIOUS
  <2>1. TypeOK /\ head = ticket[c]
    BY DEF IInv, MustWait
  <2>2. pc[c] = "popState" /\ pc'[c] = "reloadHead" /\ PopState(c)
    BY <2>1, OnlyLooks DEF MustWait
  <2>3. ~IsSlotOccupied(head, state[Slot(head)]) /\ ~IsQueueEmpty(head, state[Slot(head)])
    <3>1. DOMAIN pc = Threads /\ c \in Threads
      BY <2>1 DEF TypeOK, Threads
    <3>2. ASSUME NEW label, Goto(c, label) PROVE label = "reloadHead"
      BY <2>2, <3>1, <3>2 DEF Goto
    <3> QED
      BY <2>1, <2>2, <3>2 DEF PopState, EndPop, StateLoads
  <2> QED
    BY <2>3, WaitLook
<1> QED
  BY <1>1, Invariance, PTL DEF Spec, WaitIsForAReader
=============================================================================
