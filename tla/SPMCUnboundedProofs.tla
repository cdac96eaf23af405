------------------------ MODULE SPMCUnboundedProofs ------------------------
(***************************************************************************)
(* Theorems about SPMCUnbounded for any number of consumers, every         *)
(* capacity to begin with, every slice, and any number of growths.         *)
(*                                                                         *)
(* The order of the growth is what counts: the values are copied, the cell *)
(* is exchanged, the new values are written, and only then the word names  *)
(* the new version.  So every version from that of the word on has every   *)
(* value in the queue.  A consumer that works in an older one still finds  *)
(* there what was in the queue when it loaded the word, because it holds   *)
(* the version and nobody writes to it; and if head has moved since, its   *)
(* CAS fails.                                                              *)
(***************************************************************************)
EXTENDS SPMCUnbounded, NaiveRWLockProofs, BufferTheorems

-----------------------------------------------------------------------------
(* The parts of TypeOK *)

Labels(t) == IF t = owner THEN OwnerLabels ELSE ConsumerLabels

SharedTyped ==
    /\ tail \in Nat /\ wordId \in Nat /\ head \in Nat /\ cachedHead \in Nat
    /\ log \in Seq(Nat) /\ DOMAIN delivered \subseteq Nat
VersionsTyped ==
    /\ versions = [v \in DOMAIN versions |-> versions[v]]
    /\ \A v \in DOMAIN versions :
         versions[v] \in [cap : Nat \ {0}, refs : Nat,
                          buffer : [0 .. Cap(v) - 1 -> Nat \union {Empty}]]
ThreadsTyped ==
    /\ pc \in [Threads -> OwnerLabels \union ConsumerLabels] /\ op \in [Threads -> Operations]
    /\ \A t \in Threads : pc[t] \in Labels(t)
    /\ from \in [Threads -> Nat] /\ want \in [Threads -> Nat] /\ n \in [Threads -> Nat]
ConsumersTyped ==
    /\ loaded \in [Consumers -> [id : Nat, tail : Nat]]
    /\ copied \in [Consumers -> Seq(Nat \union {Empty})]
PushTyped ==
    /\ batch \in Seq(Nat) /\ base \in Nat /\ written \in 0 .. Len(batch) /\ newCap \in Nat
    /\ issued \in Nat

LEMMA Members ==
    owner \in Threads /\ \A c \in Consumers : c \in Threads /\ c # owner
BY ThreadsAssumption

LEMMA TypeParts ==
    TypeOK <=> /\ LockTypeOK /\ SharedTyped /\ VersionsTyped /\ ver \in [Threads -> DOMAIN versions]
               /\ ThreadsTyped /\ ConsumersTyped /\ PushTyped
<1>1. (pc[owner] \in OwnerLabels /\ \A c \in Consumers : pc[c] \in ConsumerLabels)
        <=> \A t \in Threads : pc[t] \in Labels(t)
  BY Members, ThreadsAssumption DEF Labels
<1> QED
  BY <1>1 DEF TypeOK, SharedTyped, VersionsTyped, ThreadsTyped, ConsumersTyped, PushTyped

LEMMA TypePartsNext ==
    TypeOK' <=> /\ LockTypeOK' /\ SharedTyped' /\ VersionsTyped'
                /\ ver' \in [Threads -> DOMAIN versions']
                /\ ThreadsTyped' /\ ConsumersTyped' /\ PushTyped'
<1>1. (pc'[owner] \in OwnerLabels /\ \A c \in Consumers : pc'[c] \in ConsumerLabels)
        <=> \A t \in Threads : pc'[t] \in Labels(t)
  BY Members, ThreadsAssumption DEF Labels
<1> QED
  BY <1>1 DEF TypeOK, SharedTyped, VersionsTyped, ThreadsTyped, ConsumersTyped, PushTyped

(* Thread t goes to a label with this operation and these locals, and no     *)
(* other thread moves.                                                       *)
Goes(t, label, o, h, w, k) ==
    /\ pc' = [pc EXCEPT ![t] = label]
    /\ op' = [op EXCEPT ![t] = o]
    /\ from' = [from EXCEPT ![t] = h]
    /\ want' = [want EXCEPT ![t] = w]
    /\ n' = [n EXCEPT ![t] = k]

(* What the others see of a step of thread t                                 *)
OthersStay(t) ==
    \A s \in Threads : s # t =>
        pc'[s] = pc[s] /\ op'[s] = op[s] /\ from'[s] = from[s] /\ n'[s] = n[s]

LEMMA GoesTo ==
    ASSUME ThreadsTyped, NEW t \in Threads, NEW label \in Labels(t), NEW o \in Operations,
           NEW h \in Nat, NEW w \in Nat, NEW k \in Nat, Goes(t, label, o, h, w, k)
    PROVE  /\ ThreadsTyped' /\ OthersStay(t)
           /\ pc'[t] = label /\ op'[t] = o /\ from'[t] = h /\ want'[t] = w /\ n'[t] = k
<1>1. label \in OwnerLabels \union ConsumerLabels
  BY DEF Labels
<1>2. /\ pc' \in [Threads -> OwnerLabels \union ConsumerLabels] /\ op' \in [Threads -> Operations]
      /\ from' \in [Threads -> Nat] /\ want' \in [Threads -> Nat] /\ n' \in [Threads -> Nat]
  BY <1>1 DEF ThreadsTyped, Goes
<1>3. pc'[t] = label /\ op'[t] = o /\ from'[t] = h /\ want'[t] = w /\ n'[t] = k
  BY DEF ThreadsTyped, Goes
<1>4. ASSUME NEW s \in Threads, s # t
      PROVE  pc'[s] = pc[s] /\ op'[s] = op[s] /\ from'[s] = from[s] /\ n'[s] = n[s]
  BY <1>4 DEF ThreadsTyped, Goes
<1>5. \A s \in Threads : pc'[s] \in Labels(s)
  BY <1>3, <1>4 DEF ThreadsTyped
<1> QED
  BY <1>2, <1>3, <1>4, <1>5 DEF ThreadsTyped, OthersStay

(* A local that a step leaves alone.                                         *)
LEMMA Unmoved ==
    ASSUME ThreadsTyped, NEW t \in Threads
    PROVE  /\ from = [from EXCEPT ![t] = from[t]]
           /\ want = [want EXCEPT ![t] = want[t]]
           /\ n = [n EXCEPT ![t] = n[t]]
           /\ pc = [pc EXCEPT ![t] = pc[t]]
           /\ op = [op EXCEPT ![t] = op[t]]
           /\ from[t] \in Nat /\ want[t] \in Nat /\ n[t] \in Nat /\ pc[t] \in Labels(t)
           /\ op[t] \in Operations
BY DEF ThreadsTyped

-----------------------------------------------------------------------------
(* What IInv says of the counters and the versions *)

LEMMA Invariants ==
    IInv => /\ LockTypeOK /\ SharedTyped /\ VersionsTyped /\ ver \in [Threads -> DOMAIN versions]
            /\ ThreadsTyped /\ ConsumersTyped /\ PushTyped
            /\ LockIInv /\ VersionsAreHeld /\ VersionInv /\ PlacesInv /\ RingInv /\ OwnerInv
            /\ IssuedInv /\ HistoryInv /\ \A c \in Consumers : ConsumerInv(c)
BY TypeParts DEF IInv

LEMMA Counters ==
    IInv => /\ tail \in Nat /\ head \in Nat /\ cachedHead \in Nat
            /\ cachedHead <= head /\ head <= tail /\ Len(log) = tail
<1> SUFFICES ASSUME IInv
             PROVE  /\ tail \in Nat /\ head \in Nat /\ cachedHead \in Nat
                    /\ cachedHead <= head /\ head <= tail /\ Len(log) = tail
  OBVIOUS
<1>1. SharedTyped /\ RingInv /\ OwnerInv
  BY Invariants
<1>2. cachedHead <= head
  BY <1>1 DEF OwnerInv
<1> QED
  BY <1>1, <1>2 DEF SharedTyped, RingInv

LEMMA VersionFacts ==
    ASSUME VersionsTyped, NEW v \in DOMAIN versions
    PROVE  /\ Cap(v) \in Nat \ {0} /\ versions[v].refs \in Nat
           /\ versions[v].buffer \in [0 .. Cap(v) - 1 -> Nat \union {Empty}]
BY DEF VersionsTyped, Cap

LEMMA VersionOf ==
    ASSUME IInv, NEW t \in Threads
    PROVE  ver[t] \in DOMAIN versions /\ ver[t] \in Nat
<1>1. ver[t] \in DOMAIN versions
  BY Invariants
<1>2. ver[owner] \in DOMAIN versions
  BY Members, Invariants
<1>3. DOMAIN versions = 0 .. (IF Grew THEN ver[owner] + 1 ELSE ver[owner])
  BY Invariants DEF VersionInv
<1> QED
  BY <1>1, <1>3

(* The versions that are newer than the word, and what the cell holds.       *)
LEMMA Versions ==
    ASSUME IInv
    PROVE  /\ ver[owner] \in Nat /\ ver[owner] \in DOMAIN versions /\ wordId = ver[owner]
           /\ Newest \in Nat /\ Newest \in DOMAIN versions /\ ver[owner] <= Newest
           /\ Newest <= ver[owner] + 1
           /\ DOMAIN versions = 0 .. (IF Grew THEN ver[owner] + 1 ELSE ver[owner])
           /\ \A v \in DOMAIN versions : v \in Nat /\ v # Moved
<1>1. ver[owner] \in Nat /\ ver[owner] \in DOMAIN versions
  BY VersionOf, Members
<1>2. /\ DOMAIN versions = 0 .. (IF Grew THEN ver[owner] + 1 ELSE ver[owner])
      /\ wordId = ver[owner]
  BY Invariants DEF VersionInv
<1>3. Newest \in Nat /\ Newest \in DOMAIN versions /\ ver[owner] <= Newest /\ Newest <= ver[owner] + 1
  BY <1>1, <1>2 DEF Newest, Swapped
<1>4. \A v \in DOMAIN versions : v \in Nat
  BY <1>1, <1>2
<1>5. Moved \notin Nat
  BY MovedAssumption, CellsAssumption
<1> QED
  BY <1>1, <1>2, <1>3, <1>4, <1>5

(* The version that a push writes to.                                        *)
LEMMA PushVersion ==
    ASSUME IInv, pc[owner] \in {"swap", "write", "publish"}
    PROVE  /\ At \in DOMAIN versions /\ At \in Nat /\ ver[owner] <= At /\ At <= ver[owner] + 1
           /\ newCap = 0 => At = ver[owner]
           /\ newCap # 0 => At = ver[owner] + 1 /\ Grew
<1>1. /\ ver[owner] \in Nat /\ ver[owner] \in DOMAIN versions
      /\ DOMAIN versions = 0 .. (IF Grew THEN ver[owner] + 1 ELSE ver[owner])
  BY Versions
<1>2. Grew <=> newCap # 0
  BY DEF Grew
<1> QED
  BY <1>1, <1>2 DEF At

-----------------------------------------------------------------------------
(* References *)

Handles(v) == {t \in Threads : ver[t] = v}

LEMMA HandlesCount ==
    ASSUME NEW v
    PROVE  /\ IsFiniteSet(Handles(v)) /\ Cardinality(Handles(v)) \in Nat
           /\ Holders(v) \in Nat /\ Cardinality(Handles(v)) <= Holders(v)
           /\ \A t \in Threads : ver[t] = v => Cardinality(Handles(v)) > 0
<1>1. Handles(v) \subseteq Threads
  BY DEF Handles
<1>2. IsFiniteSet(Handles(v))
  BY <1>1, ThreadsFinite, FS_Subset
<1>3. Cardinality(Handles(v)) \in Nat /\ (Cardinality(Handles(v)) = 0 <=> Handles(v) = {})
  BY <1>2, FS_CardinalityType, FS_EmptySet
<1>4. \A t \in Threads : ver[t] = v => Handles(v) # {}
  BY DEF Handles
<1>5. Holders(v) \in Nat /\ Cardinality(Handles(v)) <= Holders(v)
  BY <1>3 DEF Holders, Handles
<1> QED
  BY <1>2, <1>3, <1>4, <1>5

LEMMA HandlesCountNext ==
    ASSUME NEW v
    PROVE  /\ Holders(v)' \in Nat
           /\ \A t \in Threads : ver'[t] = v => Holders(v)' > 0
<1> DEFINE S == {t \in Threads : ver'[t] = v}
<1>1. S \subseteq Threads
  OBVIOUS
<1>2. IsFiniteSet(S)
  BY <1>1, ThreadsFinite, FS_Subset
<1>3. Cardinality(S) \in Nat /\ (Cardinality(S) = 0 <=> S = {})
  BY <1>2, FS_CardinalityType, FS_EmptySet
<1>4. \A t \in Threads : ver'[t] = v => S # {}
  OBVIOUS
<1>5. Holders(v)' \in Nat /\ Cardinality(S) <= Holders(v)'
  BY <1>3 DEF Holders
<1> HIDE DEF S
<1> QED
  BY <1>3, <1>4, <1>5

(* A handle that goes from one version to another is counted by the other.   *)
LEMMA HandleMoves ==
    ASSUME ver \in [Threads -> DOMAIN versions], NEW t \in Threads, NEW new, new # ver[t],
           ver' = [ver EXCEPT ![t] = new], NEW v
    PROVE  Cardinality(Handles(v)') =
             Cardinality(Handles(v)) + (IF v = new THEN 1 ELSE 0) - (IF v = ver[t] THEN 1 ELSE 0)
<1>1. IsFiniteSet(Handles(v)) /\ Cardinality(Handles(v)) \in Nat
  BY HandlesCount
<1>2. CASE v = new
  <2>1. Handles(v)' = Handles(v) \union {t} /\ t \notin Handles(v)
    BY <1>2 DEF Handles
  <2>2. Cardinality(Handles(v)') = Cardinality(Handles(v)) + 1
    BY <1>1, <2>1, FS_AddElement
  <2> QED
    BY <1>1, <1>2, <2>2
<1>3. CASE v = ver[t]
  <2>1. Handles(v)' = Handles(v) \ {t} /\ t \in Handles(v)
    BY <1>3 DEF Handles
  <2>2. Cardinality(Handles(v)') = Cardinality(Handles(v)) - 1
    BY <1>1, <2>1, FS_RemoveElement
  <2> QED
    BY <1>1, <1>3, <2>2
<1>4. CASE v # new /\ v # ver[t]
  <2>1. Handles(v)' = Handles(v)
    BY <1>4 DEF Handles
  <2> QED
    BY <1>1, <1>4, <2>1
<1> QED
  BY <1>2, <1>3, <1>4

(* A version that is held after the exchange was held before, and is         *)
(* untouched.                                                                *)
LEMMA Exchanged ==
    ASSUME VersionsTyped, NEW old, NEW new, versions' = Exchange(old, new)
    PROVE  /\ DOMAIN versions' = DOMAIN versions
           /\ versions' = [v \in DOMAIN versions' |-> versions'[v]]
           /\ \A v \in DOMAIN versions :
                /\ Cap(v)' = Cap(v)
                /\ versions'[v].refs = versions[v].refs + (IF v = new THEN 1 ELSE 0)
                                                        - (IF v = old THEN 1 ELSE 0)
                /\ versions'[v].refs # 0 => versions'[v].buffer = versions[v].buffer
                /\ versions'[v].refs \in Nat =>
                     versions'[v] \in [cap : Nat \ {0}, refs : Nat,
                                       buffer : [0 .. Cap(v) - 1 -> Nat \union {Empty}]]
<1>1. DOMAIN versions' = DOMAIN versions /\ versions' = [v \in DOMAIN versions' |-> versions'[v]]
  BY DEF Exchange
<1>2. ASSUME NEW v \in DOMAIN versions
      PROVE  /\ Cap(v)' = Cap(v)
             /\ versions'[v].refs = versions[v].refs + (IF v = new THEN 1 ELSE 0)
                                                     - (IF v = old THEN 1 ELSE 0)
             /\ versions'[v].refs # 0 => versions'[v].buffer = versions[v].buffer
             /\ versions'[v].refs \in Nat =>
                  versions'[v] \in [cap : Nat \ {0}, refs : Nat,
                                    buffer : [0 .. Cap(v) - 1 -> Nat \union {Empty}]]
  <2> DEFINE r == versions[v].refs + (IF v = new THEN 1 ELSE 0) - (IF v = old THEN 1 ELSE 0)
             b == IF r = 0 THEN AllocNew(Cap(v)) ELSE versions[v].buffer
  <2>1. versions'[v] = [versions[v] EXCEPT !.refs = r, !.buffer = b]
    BY DEF Exchange
  <2>2. versions[v] \in [cap : Nat \ {0}, refs : Nat,
                         buffer : [0 .. Cap(v) - 1 -> Nat \union {Empty}]]
    BY DEF VersionsTyped
  <2>3. b \in [0 .. Cap(v) - 1 -> Nat \union {Empty}]
    BY <2>2 DEF AllocNew
  <2>4. r # 0 => b = versions[v].buffer
    OBVIOUS
  <2> HIDE DEF r, b
  <2>5. versions'[v].cap = versions[v].cap /\ versions'[v].refs = r /\ versions'[v].buffer = b
    BY <2>1, <2>2
  <2>6. r \in Nat => versions'[v] \in [cap : Nat \ {0}, refs : Nat,
                                       buffer : [0 .. Cap(v) - 1 -> Nat \union {Empty}]]
    BY <2>1, <2>2, <2>3
  <2> QED
    BY <2>4, <2>5, <2>6 DEF Cap, r
<1> QED
  BY <1>1, <1>2

-----------------------------------------------------------------------------
(* What a step leaves alone stays true *)

(* The versions that the word may name have their values untouched.          *)
Spared ==
    /\ DOMAIN versions \subseteq DOMAIN versions'
    /\ \A v \in DOMAIN versions : v >= ver[owner] =>
         Cap(v)' = Cap(v) /\ versions'[v].buffer = versions[v].buffer

LEMMA SparedValue ==
    ASSUME NEW v, Cap(v)' = Cap(v), versions'[v].buffer = versions[v].buffer, NEW t
    PROVE  Value(v, t)' = Value(v, t)
BY DEF Value

LEMMA VersionsStay ==
    ASSUME IInv, UNCHANGED <<wordId, ver, cell, newCap>>, versions' = versions,
           pc'[owner] = pc[owner], lpc'[owner] = lpc[owner]
    PROVE  VersionsAreHeld' /\ VersionInv' /\ VersionsTyped' /\ ver' \in [Threads -> DOMAIN versions']
<1>1. VersionsAreHeld'
  BY Invariants DEF VersionsAreHeld, Holders
<1>2. (Grew <=> Grew') /\ (Swapped <=> Swapped')
  BY DEF Grew, Swapped
<1>3. VersionInv'
  BY <1>2, Invariants DEF VersionInv, Newest
<1>4. VersionsTyped'
  BY Invariants DEF VersionsTyped, Cap
<1> QED
  BY <1>1, <1>3, <1>4, Invariants

LEMMA RingStays ==
    ASSUME IInv, Spared, DOMAIN versions' = DOMAIN versions, UNCHANGED <<tail, wordId, log>>,
           head' \in Nat, head <= head', head' <= tail
    PROVE  RingInv'
<1>1. head \in Nat /\ tail \in Nat
  BY Counters
<1>2. ASSUME NEW v \in DOMAIN versions, v >= wordId PROVE HasValues(v, head, tail)'
  <2>1. HasValues(v, head, tail)
    BY <1>2, Invariants DEF RingInv
  <2>2. Cap(v)' = Cap(v) /\ versions'[v].buffer = versions[v].buffer
    BY <1>2, Versions DEF Spared
  <2>3. \A t \in head' .. tail - 1 : t \in head .. tail - 1
    BY <1>1
  <2>4. \A t : Value(v, t)' = Value(v, t)
    BY <2>2, SparedValue
  <2> QED
    BY <2>1, <2>3, <2>4 DEF HasValues
<1> QED
  BY <1>2, Invariants DEF RingInv

LEMMA OwnerStays ==
    ASSUME IInv, Spared,
           pc'[owner] = pc[owner], op'[owner] = op[owner], from'[owner] = from[owner],
           n'[owner] = n[owner], ver'[owner] = ver[owner],
           UNCHANGED <<tail, log, cachedHead, batch, base, written, newCap, issued>>,
           head' \in Nat, head <= head'
    PROVE  OwnerInv' /\ IssuedInv'
<1>1. /\ tail \in Nat /\ head \in Nat /\ from[owner] \in Nat /\ n[owner] \in Nat
      /\ cachedHead \in Nat /\ written \in Nat
  BY Counters, Invariants, Members, Unmoved DEF PushTyped
<1>2. OwnerInv /\ IssuedInv
  BY Invariants
<1>3. /\ Cap(ver[owner])' = Cap(ver[owner])
      /\ \A t : Value(ver[owner], t)' = Value(ver[owner], t)
  BY Versions, SparedValue DEF Spared, Cap
<1>4. At' = At
  BY DEF At
<1>5. ASSUME pc[owner] \in {"swap", "write", "publish"}
      PROVE  Cap(At)' = Cap(At) /\ \A t : Value(At, t)' = Value(At, t)
  <2>1. At \in DOMAIN versions /\ At >= ver[owner]
    BY <1>5, PushVersion, Versions
  <2>2. versions'[At].cap = versions[At].cap /\ versions'[At].buffer = versions[At].buffer
    BY <2>1 DEF Spared, Cap
  <2> QED
    BY <1>4, <2>2 DEF Cap, Value
<1>6. \A i \in 1 .. written : Value(At, tail + i - 1)' = batch[i]
  <2>1. CASE pc[owner] \in {"swap", "write", "publish"}
    BY <1>2, <1>5, <2>1 DEF OwnerInv
  <2>2. CASE pc[owner] \notin {"swap", "write", "publish"}
    BY <1>2, <2>2 DEF OwnerInv
  <2> QED
    BY <2>1, <2>2
<1>7. HasValues(ver[owner], from[owner], from[owner] + n[owner])
        => HasValues(ver[owner], from[owner], from[owner] + n[owner])'
  BY <1>3 DEF HasValues
<1>8. OwnerInv'
  <2> DEFINE at == pc[owner]
             k  == Len(batch)
  <2>1. cachedHead <= head'
    BY <1>1, <1>2 DEF OwnerInv
  <2>2. at \in {"swap", "write", "publish"} => tail + k <= cachedHead + Cap(At)'
    BY <1>2, <1>5 DEF OwnerInv
  <2>3. at \in {"popRefresh", "popCas"} => from[owner] <= head'
    BY <1>1, <1>2 DEF OwnerInv
  <2>4. at = "popRead" => from[owner] + n[owner] <= head'
    BY <1>1, <1>2 DEF OwnerInv
  <2> QED
    BY <1>2, <1>3, <1>4, <1>6, <1>7, <2>1, <2>2, <2>3, <2>4 DEF OwnerInv
<1>9. IssuedInv'
  BY <1>2 DEF IssuedInv
<1> QED
  BY <1>8, <1>9

LEMMA CopyOf ==
    ASSUME ConsumersTyped, NEW c \in Consumers
    PROVE  copied[c] \in Seq(Nat \union {Empty}) /\ Len(copied[c]) \in Nat
<1>1. copied[c] \in Seq(Nat \union {Empty})
  BY DEF ConsumersTyped
<1> QED
  BY <1>1

LEMMA ConsumerStays ==
    ASSUME IInv, NEW c \in Consumers,
           pc'[c] = pc[c], from'[c] = from[c], n'[c] = n[c], copied'[c] = copied[c],
           ver'[c] = ver[c],
           head' \in Nat, head <= head', tail' \in Nat, tail <= tail',
           \A i \in 1 .. tail : log'[i] = log[i],
           \A t \in head .. tail - 1 : Value(ver[c], t)' = Value(ver[c], t)
    PROVE  ConsumerInv(c)'
<1>1. /\ tail \in Nat /\ head \in Nat /\ head <= tail
      /\ from[c] \in Nat /\ n[c] \in Nat /\ Len(copied[c]) \in Nat
  BY Counters, Invariants, Members, Unmoved, CopyOf
<1>2. ConsumerInv(c)
  BY Invariants
<1>3. CopiedFrom(from[c], copied[c]) /\ from[c] + Len(copied[c]) <= tail
        => CopiedFrom(from[c], copied[c])'
  <2> SUFFICES ASSUME CopiedFrom(from[c], copied[c]), from[c] + Len(copied[c]) <= tail,
                      NEW i \in 1 .. Len(copied[c])
               PROVE  copied[c][i] = log'[from[c] + i]
    BY DEF CopiedFrom
  <2>1. from[c] + i \in 1 .. tail
    BY <1>1
  <2>2. copied[c][i] = log[from[c] + i]
    BY DEF CopiedFrom
  <2> QED
    BY <2>1, <2>2
<1>4. ASSUME pc[c] = "return" PROVE CopiedFrom(from[c], copied[c])'
  BY <1>1, <1>2, <1>3, <1>4 DEF ConsumerInv
<1>5. ASSUME pc[c] \in {"copy", "cas"}, from'[c] = head'
      PROVE  CopiedFrom(from[c], copied[c])'
  <2>1. from[c] = head
    BY <1>1, <1>2, <1>5 DEF ConsumerInv
  <2>2. from[c] + Len(copied[c]) <= tail
    BY <1>1, <1>2, <1>5 DEF ConsumerInv
  <2> QED
    BY <1>2, <1>3, <1>5, <2>1, <2>2 DEF ConsumerInv
<1>6. ASSUME pc[c] = "copy", from'[c] = head'
      PROVE  HasValues(ver[c], from[c], from[c] + n[c])'
  <2>1. from[c] = head /\ from[c] + n[c] <= tail
    BY <1>1, <1>2, <1>6 DEF ConsumerInv
  <2>2. HasValues(ver[c], from[c], from[c] + n[c])
    BY <1>2, <1>6, <2>1 DEF ConsumerInv
  <2>3. \A t \in from[c] .. from[c] + n[c] - 1 : Value(ver[c], t) = log[t + 1]
    BY <1>1, <2>2 DEF HasValues
  <2>4. \A t \in from[c] .. from[c] + n[c] - 1 : t \in head .. tail - 1 /\ t + 1 \in 1 .. tail
    BY <1>1, <2>1
  <2>5. \A t \in from[c] .. from[c] + n[c] - 1 : Value(ver[c], t)' = log'[t + 1]
    BY <2>3, <2>4
  <2>6. UNCHANGED <<from[c], n[c], ver[c]>>
    OBVIOUS
  <2> QED
    BY <1>1, <2>5, <2>6 DEF HasValues, Value
<1> QED
  BY <1>1, <1>2, <1>4, <1>5, <1>6 DEF ConsumerInv

LEMMA PlacesStay ==
    ASSUME IInv, UNCHANGED lpc, UNCHANGED pc
    PROVE  PlacesInv'
BY Invariants DEF PlacesInv

LEMMA LockStays ==
    ASSUME IInv, UNCHANGED lockVars
    PROVE  LockIInv' /\ LockTypeOK'
<1>1. LockIInv'
  BY Invariants, LockNextInv
<1> QED
  BY <1>1 DEF LockIInv

-----------------------------------------------------------------------------
(* The tickets that are claimed, and those that are delivered *)

Claiming == {"return", "popRead"}

LEMMA ClaimedTickets ==
    ASSUME NEW label, NEW h, NEW k
    PROVE  /\ label \notin Claiming => ClaimedAt(label, h, k) = {}
           /\ label \in Claiming => ClaimedAt(label, h, k) = h .. h + k - 1
BY DEF ClaimedAt, Claiming

(* Thread t claims nothing and delivers nothing.                             *)
LEMMA HistoryStays ==
    ASSUME IInv, NEW t \in Threads, OthersStay(t),
           pc'[t] \notin Claiming, head' = head, delivered' = delivered,
           \A i \in 1 .. tail : log'[i] = log[i]
    PROVE  HistoryInv'
<1> HistoryInv
  BY Invariants
<1>1. tail \in Nat /\ head \in Nat /\ head <= tail /\ DOMAIN delivered \subseteq Nat
  BY Counters, Invariants DEF SharedTyped
<1>2. \A s \in Threads : Claims(s)' \subseteq Claims(s)
  <2>1. Claims(t)' = {}
    BY ClaimedTickets DEF Claims
  <2>2. \A s \in Threads : s # t => Claims(s)' = Claims(s)
    BY DEF Claims, OthersStay
  <2> QED
    BY <2>1, <2>2
<1>3. ASSUME NEW k \in DOMAIN delivered PROVE k < head /\ delivered'[k] = log'[k + 1]
  <2>1. k \in Nat /\ k < head /\ delivered[k] = log[k + 1]
    BY <1>1 DEF HistoryInv
  <2>2. k + 1 \in 1 .. tail
    BY <1>1, <2>1
  <2> QED
    BY <2>1, <2>2
<1> QED
  BY <1>2, <1>3 DEF HistoryInv

(* Thread t claims the k oldest values of the ring.                          *)
LEMMA HistoryClaims ==
    ASSUME IInv, NEW t \in Threads, NEW k \in Nat, OthersStay(t),
           head' = head + k, Claims(t)' = head .. head + k - 1,
           UNCHANGED <<log, delivered>>
    PROVE  HistoryInv'
<1> HistoryInv
  BY Invariants
<1>1. head \in Nat
  BY Counters
<1>2. \A s \in Threads : s # t => Claims(s)' = Claims(s)
  BY DEF Claims, OthersStay
<1>3. \A j \in DOMAIN delivered : j < head' /\ delivered'[j] = log'[j + 1]
  <2>1. DOMAIN delivered \subseteq Nat
    BY Invariants DEF SharedTyped
  <2>2. ASSUME NEW j \in DOMAIN delivered PROVE j < head'
    BY <1>1, <2>1 DEF HistoryInv
  <2> QED
    BY <2>2 DEF HistoryInv
<1>4. \A s \in Threads : \A j \in Claims(s) : j \in Int /\ j < head /\ j \notin DOMAIN delivered
  BY DEF HistoryInv, Claims, ClaimedAt
<1>5. \A j \in Claims(t)' : j \in Int /\ j < head' /\ j >= head /\ j \notin DOMAIN delivered
  <2>1. ASSUME NEW j \in DOMAIN delivered, j \in Nat PROVE j < head
    BY DEF HistoryInv
  <2>2. DOMAIN delivered \subseteq Nat
    BY Invariants DEF SharedTyped
  <2> QED
    BY <1>1, <2>1, <2>2
<1>6. \A s \in Threads : \A j \in Claims(s)' : j < head' /\ j \notin DOMAIN delivered'
  <2> SUFFICES ASSUME NEW s \in Threads, NEW j \in Claims(s)'
               PROVE  j < head' /\ j \notin DOMAIN delivered'
    OBVIOUS
  <2>1. CASE s = t
    BY <1>5, <2>1
  <2>2. CASE s # t
    <3>1. j \in Claims(s)
      BY <1>2, <2>2
    <3>2. j \in Int /\ j < head /\ j \notin DOMAIN delivered
      BY <1>4, <3>1
    <3> QED
      BY <1>1, <3>2
  <2> QED
    BY <2>1, <2>2
<1>7. ASSUME NEW s \in Threads, s # t PROVE Claims(s)' \intersect Claims(t)' = {}
  <2> SUFFICES ASSUME NEW j \in Claims(s)', j \in Claims(t)' PROVE FALSE
    OBVIOUS
  <2>1. j \in Claims(s)
    BY <1>2, <1>7
  <2>2. j \in Int /\ j < head /\ j >= head
    BY <1>4, <1>5, <2>1
  <2> QED
    BY <1>1, <2>2
<1>8. \A s, u \in Threads : s # u => Claims(s)' \intersect Claims(u)' = {}
  <2> SUFFICES ASSUME NEW s \in Threads, NEW u \in Threads, s # u
               PROVE  Claims(s)' \intersect Claims(u)' = {}
    OBVIOUS
  <2>1. CASE s = t
    BY <1>7, <2>1
  <2>2. CASE u = t
    BY <1>7, <2>2
  <2>3. CASE s # t /\ u # t
    BY <1>2, <2>3 DEF HistoryInv
  <2> QED
    BY <2>1, <2>2, <2>3
<1> QED
  BY <1>3, <1>6, <1>8 DEF HistoryInv

(* Thread t delivers what it has claimed.                                    *)
LEMMA HistoryDelivers ==
    ASSUME IInv, NEW t \in Threads, OthersStay(t),
           pc'[t] \notin Claiming, UNCHANGED <<head, log>>,
           DOMAIN delivered' = DOMAIN delivered \union Claims(t),
           \A k \in Claims(t) : delivered'[k] = log[k + 1],
           \A k \in DOMAIN delivered : k \notin Claims(t) => delivered'[k] = delivered[k]
    PROVE  HistoryInv'
<1> HistoryInv
  BY Invariants
<1>1. Claims(t)' = {} /\ \A s \in Threads : s # t => Claims(s)' = Claims(s)
  <2>1. Claims(t)' = {}
    BY ClaimedTickets DEF Claims
  <2> QED
    BY <2>1 DEF Claims, OthersStay
<1>2. \A k \in Claims(t) : k < head /\ k \notin DOMAIN delivered
  BY DEF HistoryInv
<1>3. \A k \in DOMAIN delivered : k < head /\ delivered'[k] = log[k + 1]
  BY <1>2 DEF HistoryInv
<1>4. \A k \in DOMAIN delivered' : k < head' /\ delivered'[k] = log'[k + 1]
  BY <1>2, <1>3
<1>5. ASSUME NEW s \in Threads, NEW k \in Claims(s)'
      PROVE  k < head' /\ k \notin DOMAIN delivered'
  <2>1. s # t /\ k \in Claims(s)
    BY <1>1, <1>5
  <2>2. k \notin Claims(t)
    BY <2>1 DEF HistoryInv
  <2> QED
    BY <2>1, <2>2 DEF HistoryInv
<1>6. \A s, u \in Threads : s # u => Claims(s)' \intersect Claims(u)' = {}
  <2>1. \A s \in Threads : Claims(s)' \subseteq Claims(s)
    BY <1>1
  <2> QED
    BY <2>1 DEF HistoryInv
<1> QED
  BY <1>4, <1>5, <1>6 DEF HistoryInv


-----------------------------------------------------------------------------
(* The initial states *)

LEMMA IInvInit == Init => IInv
<1> SUFFICES ASSUME Init PROVE IInv
  OBVIOUS
<1>1. /\ tail = 0 /\ wordId = 0 /\ head = 0 /\ cachedHead = 0 /\ cell = 0
      /\ lpc = [t \in Threads |-> "out"]
      /\ ver = [t \in Threads |-> 0] /\ pc = [t \in Threads |-> "idle"]
      /\ op = [t \in Threads |-> "none"] /\ from = [t \in Threads |-> 0]
      /\ want = [t \in Threads |-> 0] /\ n = [t \in Threads |-> 0]
      /\ loaded = [c \in Consumers |-> NoWord] /\ copied = [c \in Consumers |-> <<>>]
      /\ batch = <<>> /\ base = 0 /\ written = 0 /\ newCap = 0 /\ issued = 0
      /\ log = <<>> /\ delivered = [t \in {} |-> Empty]
  BY DEF Init, LockInit
<1>2. /\ versions = [v \in {0} |-> [cap |-> FirstCapacity, buffer |-> AllocNew(FirstCapacity),
                                    refs |-> 1 + Cardinality(Threads)]]
      /\ LockInit
  BY DEF Init
<1>3. <<>> \in Seq(Nat) /\ <<>> \in Seq(Nat \union {Empty}) /\ <<>> \in Seq(1 .. MaxPushes) /\ Len(<<>>) = 0
  OBVIOUS
<1>4. owner \in Threads /\ FirstCapacity \in Nat \ {0} /\ MaxPushes \in Nat
  BY Members, CapacityAssumption, BoundAssumption
<1>5. /\ DOMAIN versions = {0} /\ Cap(0) = FirstCapacity
      /\ versions[0].refs = 1 + Cardinality(Threads)
      /\ versions[0].buffer = AllocNew(FirstCapacity)
      /\ versions = [v \in DOMAIN versions |-> versions[v]]
  BY <1>2 DEF Cap
<1>6. ~Grew /\ ~Swapped /\ Newest = 0
  BY <1>1, <1>4 DEF Grew, Swapped, Newest
<1>7. Cardinality(Threads) \in Nat
  BY ThreadsFinite, FS_CardinalityType
<1>8. LockIInv /\ LockTypeOK
  BY <1>2, LockInitInv DEF LockIInv
<1>9. SharedTyped /\ PushTyped
  <2>1. SharedTyped
    BY <1>1, <1>3 DEF SharedTyped
  <2>2. PushTyped
    BY <1>1, <1>3 DEF PushTyped
  <2> QED
    BY <2>1, <2>2
<1>10. VersionsTyped /\ ver \in [Threads -> DOMAIN versions]
  <2>1. versions[0] = [cap |-> FirstCapacity, buffer |-> AllocNew(FirstCapacity),
                       refs |-> 1 + Cardinality(Threads)]
    BY <1>2
  <2>2. AllocNew(FirstCapacity) \in [0 .. FirstCapacity - 1 -> Nat \union {Empty}]
    BY DEF AllocNew
  <2>3. versions[0] \in [cap : Nat \ {0}, refs : Nat,
                         buffer : [0 .. Cap(0) - 1 -> Nat \union {Empty}]]
    BY <1>4, <1>5, <1>7, <2>1, <2>2
  <2> QED
    BY <1>1, <1>5, <2>3 DEF VersionsTyped
<1>11. ThreadsTyped
  <2>1. "idle" \in OwnerLabels /\ "idle" \in ConsumerLabels /\ "none" \in Operations
    BY DEF OwnerLabels, ConsumerLabels, Operations
  <2> QED
    BY <1>1, <2>1 DEF ThreadsTyped, Labels
<1>12. ConsumersTyped
  BY <1>1, <1>3 DEF ConsumersTyped, NoWord
<1>13. TypeOK
  BY <1>8, <1>9, <1>10, <1>11, <1>12, TypeParts
<1>14. VersionsAreHeld
  <2>1. Handles(0) = Threads
    BY <1>1 DEF Handles
  <2>2. Holders(0) = Cardinality(Handles(0)) + 1 + 0
    BY <1>1 DEF Holders, Handles
  <2> QED
    BY <1>5, <1>7, <2>1, <2>2 DEF VersionsAreHeld
<1>15. VersionInv /\ PlacesInv
  <2>1. VersionInv
    BY <1>1, <1>4, <1>5, <1>6, Members DEF VersionInv
  <2>2. PlacesInv
    BY <1>1, Members DEF PlacesInv
  <2> QED
    BY <2>1, <2>2
<1>16. RingInv /\ IssuedInv
  BY <1>1, <1>3, <1>4 DEF RingInv, HasValues, IssuedInv
<1>17. OwnerInv
  BY <1>1, <1>3, <1>4, <1>5 DEF OwnerInv
<1>18. \A c \in Consumers : ConsumerInv(c)
  BY <1>1, Members DEF ConsumerInv
<1>19. HistoryInv
  BY <1>1 DEF HistoryInv, Claims, ClaimedAt
<1> QED
  BY <1>8, <1>13, <1>14, <1>15, <1>16, <1>17, <1>18, <1>19 DEF IInv

-----------------------------------------------------------------------------
(* The steps of a consumer *)

(* What a consumer leaves alone, save for its claims and its handle          *)
QueueStays ==
    UNCHANGED <<tail, wordId, versions, cachedHead, ver, batch, base, written, newCap, issued, log>>

(* A consumer that is at this label may be in these places of the lock.      *)
PlaceFits(place, label) ==
    /\ place \in {"out", "readCas", "reading"}
    /\ place = "reading" <=> label \in {"clone", "updated"}
    /\ place = "readCas" => label = "update"

LEMMA ConsumerAlone ==
    ASSUME IInv, NEW c \in Consumers, NEW label \in ConsumerLabels, NEW o \in Operations,
           NEW h \in Nat, NEW w \in Nat, NEW k \in Nat, Goes(c, label, o, h, w, k),
           QueueStays, [LockNext]_lockVars, cell' = cell,
           \A t \in Threads : t # c => lpc'[t] = lpc[t], PlaceFits(lpc'[c], label),
           ConsumersTyped', \A d \in Consumers : d # c => copied'[d] = copied[d],
           head' \in Nat, head <= head', head' <= tail, DOMAIN delivered' \subseteq Nat,
           ConsumerInv(c)', HistoryInv'
    PROVE  IInv'
<1>1. owner \in Threads /\ c \in Threads /\ c # owner
  BY Members
<1>2. ThreadsTyped' /\ OthersStay(c) /\ pc'[c] = label
  <2>1. label \in Labels(c)
    BY <1>1 DEF Labels
  <2> QED
    BY <1>1, <2>1, GoesTo, Invariants
<1>3. /\ pc'[owner] = pc[owner] /\ op'[owner] = op[owner] /\ from'[owner] = from[owner]
      /\ n'[owner] = n[owner] /\ lpc'[owner] = lpc[owner]
  BY <1>1, <1>2 DEF OthersStay
<1>4. /\ UNCHANGED <<tail, wordId, versions, cachedHead, ver, newCap, log>>
      /\ UNCHANGED <<batch, base, written, issued>>
  BY DEF QueueStays
<1>5. VersionsAreHeld' /\ VersionInv' /\ VersionsTyped' /\ ver' \in [Threads -> DOMAIN versions']
  BY <1>3, <1>4, VersionsStay
<1>6. Spared /\ \A v, t : Value(v, t)' = Value(v, t)
  BY <1>4 DEF Spared, Cap, Value
<1>7. RingInv'
  BY <1>4, <1>6, RingStays
<1>8. OwnerInv' /\ IssuedInv'
  BY <1>3, <1>4, <1>6, OwnerStays
<1>9. \A d \in Consumers : ConsumerInv(d)'
  <2> SUFFICES ASSUME NEW d \in Consumers PROVE ConsumerInv(d)'
    OBVIOUS
  <2>1. CASE d = c
    BY <2>1
  <2>2. CASE d # c
    <3>1. pc'[d] = pc[d] /\ from'[d] = from[d] /\ n'[d] = n[d]
      BY <1>2, <2>2, Members DEF OthersStay
    <3>2. tail' \in Nat /\ tail <= tail'
      BY <1>4, Counters
    <3>3. copied'[d] = copied[d] /\ ver'[d] = ver[d]
      BY <1>4, <2>2
    <3>4. \A t \in head .. tail - 1 : Value(ver[d], t)' = Value(ver[d], t)
      BY <1>4, <1>6 DEF Value, Cap
    <3> QED
      BY <1>4, <3>1, <3>2, <3>3, <3>4, ConsumerStays
  <2> QED
    BY <2>1, <2>2
<1>10. LockIInv' /\ LockTypeOK'
  <2>1. LockIInv'
    BY Invariants, LockNextInv
  <2> QED
    BY <2>1 DEF LockIInv
<1>11. PlacesInv'
  <2>1. PlacesInv
    BY Invariants
  <2>2. \A d \in Consumers : d # c => lpc'[d] = lpc[d] /\ pc'[d] = pc[d]
    BY <1>2, Members DEF OthersStay
  <2> QED
    BY <1>2, <1>3, <2>1, <2>2 DEF PlacesInv, PlaceFits
<1>12. SharedTyped' /\ PushTyped'
  <2>1. SharedTyped'
    BY <1>4, Invariants DEF SharedTyped
  <2>2. PushTyped'
    BY <1>4, Invariants DEF PushTyped
  <2> QED
    BY <2>1, <2>2
<1>13. TypeOK'
  BY <1>2, <1>5, <1>10, <1>12, TypePartsNext
<1> QED
  BY <1>5, <1>7, <1>8, <1>9, <1>10, <1>11, <1>13 DEF IInv

(* A consumer that has copied nothing goes on to where it has copied nothing.*)
LEMMA ConsumerQuiet ==
    ASSUME IInv, NEW c \in Consumers, NEW label \in ConsumerLabels, NEW o \in Operations,
           NEW h \in Nat, NEW w \in Nat, NEW k \in Nat, Goes(c, label, o, h, w, k),
           QueueStays, [LockNext]_lockVars, cell' = cell,
           \A t \in Threads : t # c => lpc'[t] = lpc[t], PlaceFits(lpc'[c], label),
           ConsumersTyped', \A d \in Consumers : d # c => copied'[d] = copied[d],
           label \notin {"copy", "cas", "return"}, h <= head, copied'[c] = <<>>,
           UNCHANGED <<head, delivered>>
    PROVE  IInv'
<1>1. c \in Threads /\ c # owner /\ ThreadsTyped
  BY Members, Invariants
<1>2. OthersStay(c) /\ pc'[c] = label /\ from'[c] = h
  <2>1. label \in Labels(c)
    BY <1>1 DEF Labels
  <2> QED
    BY <1>1, <2>1, GoesTo
<1>3. head \in Nat /\ head <= tail /\ DOMAIN delivered \subseteq Nat
  BY Counters, Invariants DEF SharedTyped
<1>4. ConsumerInv(c)'
  BY <1>2 DEF ConsumerInv
<1>5. HistoryInv'
  <2>1. pc'[c] \notin Claiming
    BY <1>2 DEF Claiming, ConsumerLabels
  <2>2. \A i \in 1 .. tail : log'[i] = log[i]
    BY DEF QueueStays
  <2> QED
    BY <1>1, <1>2, <2>1, <2>2, HistoryStays
<1> QED
  BY <1>3, <1>4, <1>5, ConsumerAlone

(* Outside of its update a consumer is outside of the lock.                  *)
LEMMA OutsideTheLock ==
    ASSUME IInv, NEW c \in Consumers, UNCHANGED lockVars,
           pc[c] \notin {"update", "clone", "updated"}, NEW label, label \notin {"clone", "updated"}
    PROVE  /\ cell' = cell /\ \A t \in Threads : lpc'[t] = lpc[t]
           /\ PlaceFits(lpc'[c], label)
<1>1. cell' = cell /\ lpc' = lpc
  BY DEF lockVars
<1>2. lpc[c] = "out"
  BY Invariants DEF PlacesInv
<1> QED
  BY <1>1, <1>2 DEF PlaceFits

LEMMA NothingCopied ==
    ASSUME IInv, NEW c \in Consumers
    PROVE  /\ pc[c] \notin {"copy", "cas", "return"} => copied[c] = <<>>
           /\ from[c] <= head
BY Invariants DEF ConsumerInv

(* A step of a consumer that neither copies nor uses the lock.               *)
LEMMA ConsumerLocal ==
    ASSUME IInv, NEW c \in Consumers, NEW label \in ConsumerLabels, NEW o \in Operations,
           NEW h \in Nat, NEW w \in Nat, NEW k \in Nat, Goes(c, label, o, h, w, k),
           UNCHANGED <<word, head, versions, lockVars, cachedHead, ver, pushing, history>>,
           pc[c] \notin {"copy", "cas", "return", "update", "clone", "updated"},
           label \notin {"copy", "cas", "return", "clone", "updated"}, h <= head,
           copied' = copied, loaded' \in [Consumers -> [id : Nat, tail : Nat]]
    PROVE  IInv'
<1>1. QueueStays /\ UNCHANGED lockVars /\ UNCHANGED <<head, delivered>>
  BY DEF QueueStays, word, pushing, history
<1>2. ConsumersTyped'
  BY Invariants DEF ConsumersTyped
<1>3. copied'[c] = <<>> /\ \A d \in Consumers : d # c => copied'[d] = copied[d]
  BY NothingCopied
<1>4. cell' = cell /\ PlaceFits(lpc'[c], label) /\ \A t \in Threads : lpc'[t] = lpc[t]
  BY <1>1, OutsideTheLock
<1> QED
  BY <1>1, <1>2, <1>3, <1>4, ConsumerQuiet

LEMMA ConsumerUnmoved ==
    ASSUME IInv, NEW c \in Consumers
    PROVE  /\ ThreadsTyped /\ ConsumersTyped /\ c \in Threads /\ c # owner
           /\ from = [from EXCEPT ![c] = from[c]] /\ want = [want EXCEPT ![c] = want[c]]
           /\ n = [n EXCEPT ![c] = n[c]] /\ op = [op EXCEPT ![c] = op[c]]
           /\ pc = [pc EXCEPT ![c] = pc[c]]
           /\ from[c] \in Nat /\ want[c] \in Nat /\ n[c] \in Nat /\ op[c] \in Operations
           /\ pc[c] \in ConsumerLabels
           /\ loaded \in [Consumers -> [id : Nat, tail : Nat]]
<1>1. ThreadsTyped /\ ConsumersTyped /\ c \in Threads /\ c # owner
  BY Members, Invariants
<1>2. pc[c] \in ConsumerLabels
  BY <1>1, Unmoved DEF Labels
<1> QED
  BY <1>1, <1>2, Unmoved DEF ConsumersTyped

LEMMA StartPopManyStep ==
    ASSUME IInv, NEW c \in Consumers, NEW k \in DstLens, StartPopMany(c, k)
    PROVE  IInv'
<1>1. /\ pc[c] = "idle" /\ Goes(c, "loadWord", "popMany", head, k, n[c])
      /\ UNCHANGED <<word, head, versions, lockVars, cachedHead, ver, pushing, history>>
      /\ copied' = copied /\ loaded' = loaded
  BY ConsumerUnmoved DEF StartPopMany, Start, LoadsHead, Goto, Goes
<1>2. "loadWord" \in ConsumerLabels /\ "popMany" \in Operations /\ k \in Nat
  BY LensAssumption DEF ConsumerLabels, Operations
<1>3. head \in Nat /\ head <= head
  BY Counters
<1> QED
  BY <1>1, <1>2, <1>3, ConsumerUnmoved, ConsumerLocal

LEMMA StartStealStep == ASSUME IInv, NEW c \in Consumers, StartSteal(c) PROVE IInv'
<1>1. /\ pc[c] = "idle" /\ Goes(c, "loadWord", "steal", head, want[c], n[c])
      /\ UNCHANGED <<word, head, versions, lockVars, cachedHead, ver, pushing, history>>
      /\ copied' = copied /\ loaded' = loaded
  BY ConsumerUnmoved DEF StartSteal, Start, LoadsHead, Goto, Goes
<1>2. "loadWord" \in ConsumerLabels /\ "steal" \in Operations
  BY DEF ConsumerLabels, Operations
<1>3. head \in Nat /\ head <= head
  BY Counters
<1> QED
  BY <1>1, <1>2, <1>3, ConsumerUnmoved, ConsumerLocal

LEMMA LoadHeadStep == ASSUME IInv, NEW c \in Consumers, LoadHead(c) PROVE IInv'
<1>1. /\ pc[c] = "loadHead" /\ Goes(c, "loadWord", op[c], head, want[c], n[c])
      /\ UNCHANGED <<word, head, versions, lockVars, cachedHead, ver, pushing, history>>
      /\ copied' = copied /\ loaded' = loaded
  BY ConsumerUnmoved DEF LoadHead, LoadsHead, Goto, Goes
<1>2. "loadWord" \in ConsumerLabels
  BY DEF ConsumerLabels
<1>3. head \in Nat /\ head <= head
  BY Counters
<1> QED
  BY <1>1, <1>2, <1>3, ConsumerUnmoved, ConsumerLocal

LEMMA StartCapacityStep == ASSUME IInv, NEW c \in Consumers, StartCapacity(c) PROVE IInv'
<1>1. /\ pc[c] = "idle" /\ Goes(c, "update", "capacity", from[c], want[c], n[c])
      /\ UNCHANGED <<word, head, versions, lockVars, cachedHead, ver, pushing, history>>
      /\ copied' = copied /\ loaded' = loaded
  BY ConsumerUnmoved DEF StartCapacity, Start, Goto, Goes, popping
<1>2. "update" \in ConsumerLabels /\ "capacity" \in Operations
  BY DEF ConsumerLabels, Operations
<1> QED
  BY <1>1, <1>2, NothingCopied, ConsumerUnmoved, ConsumerLocal

(* consumer_len loads the word.                                              *)
LEMMA LoadsWordStep ==
    ASSUME IInv, NEW c \in Consumers, NEW o \in Operations, LoadsWord(c),
           op' = [op EXCEPT ![c] = o], pc[c] \in {"idle", "lenWord"}
    PROVE  IInv'
<1>1. /\ Goes(c, "lenHead", o, from[c], want[c], n[c])
      /\ UNCHANGED <<word, head, versions, lockVars, cachedHead, ver, pushing, history>>
      /\ copied' = copied /\ loaded' = [loaded EXCEPT ![c] = [id |-> wordId, tail |-> tail]]
  BY ConsumerUnmoved DEF LoadsWord, Goto, Goes
<1>2. "lenHead" \in ConsumerLabels
  BY DEF ConsumerLabels
<1>3. wordId \in Nat /\ tail \in Nat
  BY Invariants DEF SharedTyped
<1>4. loaded' \in [Consumers -> [id : Nat, tail : Nat]]
  BY <1>1, <1>3, ConsumerUnmoved
<1> QED
  BY <1>1, <1>2, <1>4, NothingCopied, ConsumerUnmoved, ConsumerLocal

LEMMA StartLenStep == ASSUME IInv, NEW c \in Consumers, StartLen(c) PROVE IInv'
<1>1. "len" \in Operations
  BY DEF Operations
<1> QED
  BY <1>1, LoadsWordStep DEF StartLen, Start

LEMMA LenWordStep == ASSUME IInv, NEW c \in Consumers, LenWord(c) PROVE IInv'
<1>1. op' = [op EXCEPT ![c] = op[c]]
  BY ConsumerUnmoved DEF LenWord
<1> QED
  BY <1>1, ConsumerUnmoved, LoadsWordStep DEF LenWord

LEMMA LenHeadStep == ASSUME IInv, NEW c \in Consumers, LenHead(c) PROVE IInv'
<1>1. /\ pc[c] = "lenHead" /\ copied' = copied
      /\ UNCHANGED <<from, want, n>>
      /\ UNCHANGED <<word, head, versions, lockVars, cachedHead, ver, pushing, history>>
      /\ \/ EndQuery(c)
         \/ /\ Goto(c, IF loaded[c].id = ver[c] THEN "lenWord" ELSE "update")
            /\ UNCHANGED <<op, loaded>>
  BY DEF LenHead
<1>2. CASE EndQuery(c)
  <2>1. Goes(c, "idle", "none", from[c], want[c], n[c])
    BY <1>1, <1>2, ConsumerUnmoved DEF EndQuery, Goto, Goes
  <2>2. "idle" \in ConsumerLabels /\ "none" \in Operations
    BY DEF ConsumerLabels, Operations
  <2>3. loaded' \in [Consumers -> [id : Nat, tail : Nat]]
    BY <1>2, ConsumerUnmoved DEF EndQuery, NoWord
  <2> QED
    BY <1>1, <2>1, <2>2, <2>3, NothingCopied, ConsumerUnmoved, ConsumerLocal
<1>3. CASE /\ Goto(c, IF loaded[c].id = ver[c] THEN "lenWord" ELSE "update")
           /\ UNCHANGED <<op, loaded>>
  <2>1. PICK label \in {"lenWord", "update"} : Goto(c, label)
    BY <1>3
  <2>2. Goes(c, label, op[c], from[c], want[c], n[c])
    BY <1>1, <1>3, <2>1, ConsumerUnmoved DEF Goto, Goes
  <2>3. label \in ConsumerLabels
    BY <2>1 DEF ConsumerLabels
  <2>4. loaded' \in [Consumers -> [id : Nat, tail : Nat]]
    BY <1>3, ConsumerUnmoved
  <2> QED
    BY <1>1, <2>1, <2>2, <2>3, <2>4, NothingCopied, ConsumerUnmoved, ConsumerLocal
<1> QED
  BY <1>1, <1>2, <1>3


(* A step of a consumer outside of the lock, from here on with what it has   *)
(* copied.                                                                   *)
LEMMA ConsumerOutside ==
    ASSUME IInv, NEW c \in Consumers, NEW label \in ConsumerLabels, NEW o \in Operations,
           NEW h \in Nat, NEW w \in Nat, NEW k \in Nat, Goes(c, label, o, h, w, k),
           UNCHANGED <<word, head, versions, lockVars, cachedHead, ver, loaded, pushing, history>>,
           pc[c] \notin {"update", "clone", "updated"},
           label \notin {"return", "clone", "updated"},
           NEW seq \in Seq(Nat \union {Empty}), copied' = [copied EXCEPT ![c] = seq],
           ConsumerInv(c)'
    PROVE  IInv'
<1>1. QueueStays /\ UNCHANGED lockVars /\ UNCHANGED <<head, delivered, log>>
  BY DEF QueueStays, word, pushing, history
<1>2. /\ c \in Threads /\ c # owner /\ ThreadsTyped /\ ConsumersTyped
      /\ head \in Nat /\ head <= tail /\ head <= head /\ DOMAIN delivered \subseteq Nat
  BY Members, Counters, Invariants DEF SharedTyped
<1>3. ConsumersTyped' /\ \A d \in Consumers : d # c => copied'[d] = copied[d]
  BY <1>2 DEF ConsumersTyped
<1>4. cell' = cell /\ PlaceFits(lpc'[c], label) /\ \A t \in Threads : lpc'[t] = lpc[t]
  BY <1>1, OutsideTheLock
<1>5. OthersStay(c) /\ pc'[c] = label
  <2>1. label \in Labels(c)
    BY <1>2 DEF Labels
  <2> QED
    BY <1>2, <2>1, GoesTo
<1>6. HistoryInv'
  <2>1. pc'[c] \notin Claiming
    BY <1>5 DEF Claiming, ConsumerLabels
  <2>2. \A i \in 1 .. tail : log'[i] = log[i]
    BY <1>1
  <2> QED
    BY <1>1, <1>2, <1>5, <2>1, <2>2, HistoryStays
<1> QED
  BY <1>1, <1>2, <1>3, <1>4, <1>6, ConsumerAlone

LEMMA RemainderIsLess ==
    ASSUME NEW a \in Nat, NEW m \in Nat \ {0}
    PROVE  a % m \in Nat /\ a % m <= a
<1>1. a = m * (a \div m) + (a % m) /\ a \div m \in Int /\ a % m \in 0 .. m - 1
  BY DivMod
<1> DEFINE q == a \div m
           r == a % m
<1> HIDE DEF q, r
<1>2. a = m * q + r /\ q \in Int /\ r \in 0 .. m - 1
  BY <1>1 DEF q, r
<1>3. q >= 0
  <2> SUFFICES ASSUME q <= -1 PROVE FALSE
    BY <1>2
  <2>1. m * q <= m * (-1)
    BY <1>2
  <2> QED
    BY <1>2, <2>1
<1>4. m * q >= 0
  BY <1>2, <1>3
<1> QED
  BY <1>2, <1>4 DEF r

(* A half, a request or the capacity of a destination: never more than len.  *)
LEMMA AimIsThere ==
    ASSUME NEW len \in Nat, NEW w \in Nat, NEW stealing \in BOOLEAN,
           NEW aim, aim = IF stealing THEN len \div 2 ELSE Smaller(w, len)
    PROVE  /\ aim \in Nat /\ aim <= len
           /\ aim >= 1 => Smaller(aim, DstCapacity) \in 1 .. aim
<1>1. aim \in Nat /\ aim <= len
  <2>1. len = 2 * (len \div 2) + (len % 2) /\ len \div 2 \in Int /\ len % 2 \in 0 .. 1
    BY DivMod
  <2>2. CASE stealing
    BY <2>1, <2>2
  <2>3. CASE ~stealing
    BY <2>3 DEF Smaller
  <2> QED
    BY <2>2, <2>3
<1> QED
  BY <1>1, LensAssumption DEF Smaller

LEMMA LoadWordStep == ASSUME IInv, NEW c \in Consumers, LoadWord(c) PROVE IInv'
<1> DEFINE stealing == op[c] = "steal"
           len   == Length(from[c], tail)
           aim   == IF stealing THEN len \div 2 ELSE Smaller(want[c], len)
           most  == IF stealing THEN Cap(ver[c]) \div 2 ELSE Cap(ver[c])
           few   == IF stealing THEN MinSteal ELSE 1
           k     == IF stealing THEN Smaller(aim, DstCapacity) ELSE aim
<1>1. /\ pc[c] = "loadWord"
      /\ UNCHANGED <<word, head, versions, lockVars, cachedHead, ver, loaded, copied, pushing, history>>
      /\ \/ Goto(c, "update") /\ UNCHANGED <<op, from, want, n>>
         \/ Goto(c, "loadHead") /\ UNCHANGED <<op, from, want, n>>
         \/ EndPop(c)
         \/ /\ ~IsBehind(c) /\ aim \in few .. most
            /\ n' = [n EXCEPT ![c] = k] /\ Goto(c, "copy") /\ UNCHANGED <<op, from, want>>
  BY DEF LoadWord
<1>2. /\ head \in Nat /\ tail \in Nat /\ head <= tail
      /\ from[c] \in Nat /\ want[c] \in Nat /\ n[c] \in Nat /\ from[c] <= head
      /\ ThreadsTyped /\ ConsumersTyped /\ c \in Threads /\ c # owner
  BY Counters, ConsumerUnmoved, NothingCopied
<1>3. copied[c] = <<>> /\ <<>> \in Seq(Nat \union {Empty})
  BY <1>1, NothingCopied
<1>4. loaded' \in [Consumers -> [id : Nat, tail : Nat]]
  BY <1>1, ConsumerUnmoved
<1>5. {"idle", "update", "loadHead", "copy"} \subseteq ConsumerLabels /\ "none" \in Operations
  BY DEF ConsumerLabels, Operations
<1>6. CASE Goto(c, "update") /\ UNCHANGED <<op, from, want, n>>
  <2>1. Goes(c, "update", op[c], from[c], want[c], n[c])
    BY <1>6, ConsumerUnmoved DEF Goto, Goes
  <2> QED
    BY <1>1, <1>2, <1>4, <1>5, <2>1, ConsumerUnmoved, ConsumerLocal
<1>7. CASE Goto(c, "loadHead") /\ UNCHANGED <<op, from, want, n>>
  <2>1. Goes(c, "loadHead", op[c], from[c], want[c], n[c])
    BY <1>7, ConsumerUnmoved DEF Goto, Goes
  <2> QED
    BY <1>1, <1>2, <1>4, <1>5, <2>1, ConsumerUnmoved, ConsumerLocal
<1>8. CASE EndPop(c)
  <2>1. Goes(c, "idle", "none", 0, 0, 0)
    BY <1>8 DEF EndPop, Goto, Goes
  <2>2. 0 \in Nat /\ 0 <= head
    BY <1>2
  <2> QED
    BY <1>1, <1>2, <1>4, <1>5, <2>1, <2>2, ConsumerLocal
<1>9. CASE /\ ~IsBehind(c) /\ aim \in few .. most
           /\ n' = [n EXCEPT ![c] = k] /\ Goto(c, "copy") /\ UNCHANGED <<op, from, want>>
  <2>1. len \in Nat /\ len <= tail - from[c]
    <3>1. tail - from[c] \in Nat
      BY <1>2
    <3> QED
      BY <3>1, BoundAssumption, RemainderIsLess DEF Length
  <2> HIDE DEF len
  <2>2. stealing \in BOOLEAN
    OBVIOUS
  <2> HIDE DEF stealing
  <2>3. aim \in Nat /\ aim <= len /\ (aim >= 1 => Smaller(aim, DstCapacity) \in 1 .. aim)
    BY <1>2, <2>1, <2>2, AimIsThere
  <2>4. aim >= 1
    <3>1. few \in Nat /\ few >= 1
      BY LensAssumption
    <3> HIDE DEF aim, few, most
    <3> QED
      BY <1>9, <2>3, <3>1
  <2>5. k \in Nat /\ 1 <= k /\ k <= aim
    BY <2>3, <2>4
  <2> HIDE DEF k, aim
  <2>6. from[c] + k <= tail
    BY <1>2, <2>1, <2>3, <2>5
  <2>7. Goes(c, "copy", op[c], from[c], want[c], k)
    BY <1>9, ConsumerUnmoved DEF Goto, Goes
  <2>8. pc'[c] = "copy" /\ from'[c] = from[c] /\ n'[c] = k
    <3>1. "copy" \in Labels(c) /\ op[c] \in Operations
      BY <1>2, <1>5, ConsumerUnmoved DEF Labels
    <3> QED
      BY <1>2, <2>5, <2>7, <3>1, GoesTo
  <2>9. /\ head' = head /\ tail' = tail /\ log' = log /\ copied' = copied
        /\ versions' = versions /\ ver' = ver
    BY <1>1 DEF word, history
  <2>10. from[c] = head => HasValues(ver[c], from[c], from[c] + k)
    <3> SUFFICES ASSUME from[c] = head PROVE HasValues(ver[c], from[c], from[c] + k)
      OBVIOUS
    <3>1. ver[c] \in DOMAIN versions /\ ver[c] >= wordId
      BY <1>2, <1>9, VersionOf, Versions DEF IsBehind
    <3>2. HasValues(ver[c], head, tail)
      BY <3>1, Invariants DEF RingInv
    <3>3. \A t \in from[c] .. from[c] + k - 1 : t \in head .. tail - 1
      BY <1>2, <2>5, <2>6
    <3> QED
      BY <1>2, <2>5, <3>2, <3>3 DEF HasValues
  <2>11. from'[c] = head' => HasValues(ver[c], from[c], from[c] + n[c])'
    <3> SUFFICES ASSUME from'[c] = head' PROVE HasValues(ver[c], from[c], from[c] + n[c])'
      OBVIOUS
    <3>1. HasValues(ver[c], from[c], from[c] + k)
      BY <2>8, <2>9, <2>10
    <3> QED
      BY <1>2, <2>5, <2>8, <2>9, <3>1 DEF HasValues, Value, Cap
  <2>12. CopiedFrom(from[c], copied[c])'
    BY <1>3, <2>9 DEF CopiedFrom
  <2>13. ConsumerInv(c)'
    <3>1. Len(copied'[c]) = 0
      BY <1>3, <2>9
    <3> QED
      BY <1>2, <1>3, <2>5, <2>6, <2>8, <2>9, <2>11, <2>12, <3>1 DEF ConsumerInv
  <2>14. copied' = [copied EXCEPT ![c] = copied[c]]
    BY <1>2, <2>9 DEF ConsumersTyped
  <2> QED
    BY <1>1, <1>2, <1>3, <1>5, <2>5, <2>7, <2>13, <2>14, ConsumerUnmoved, ConsumerOutside
<1> HIDE DEF stealing, len, aim, most, few, k
<1> QED
  BY <1>1, <1>6, <1>7, <1>8, <1>9


LEMMA CopyNextStep == ASSUME IInv, NEW c \in Consumers, CopyNext(c) PROVE IInv'
<1> DEFINE m == Len(copied[c])
           v == Value(ver[c], from[c] + m)
           seq == Append(copied[c], v)
           label == IF m + 1 = n[c] THEN "cas" ELSE "copy"
<1>1. /\ pc[c] = "copy" /\ copied' = [copied EXCEPT ![c] = seq]
      /\ UNCHANGED <<word, head, versions, lockVars, cachedHead, ver, loaded, pushing, history>>
      /\ UNCHANGED <<op, from, want, n>>
      /\ Goto(c, IF Len(copied'[c]) = n[c] THEN "cas" ELSE "copy")
  <2>1. copied[c] = copied[c] /\ ConsumersTyped
    BY Invariants
  <2> QED
    BY <2>1 DEF CopyNext, ConsumersTyped
<1>2. /\ head \in Nat /\ tail \in Nat /\ head <= tail /\ Len(log) = tail
      /\ from[c] \in Nat /\ want[c] \in Nat /\ n[c] \in Nat /\ op[c] \in Operations
      /\ copied[c] \in Seq(Nat \union {Empty}) /\ m \in Nat
      /\ ThreadsTyped /\ ConsumersTyped /\ c \in Threads /\ c # owner
  BY Counters, ConsumerUnmoved, CopyOf
<1>3. v \in Nat \union {Empty}
  <2>1. ver[c] \in DOMAIN versions /\ VersionsTyped
    BY <1>2, VersionOf, Invariants
  <2>2. /\ Cap(ver[c]) \in Nat \ {0}
        /\ versions[ver[c]].buffer \in [0 .. Cap(ver[c]) - 1 -> Nat \union {Empty}]
    BY <2>1, VersionFacts
  <2>3. from[c] + m \in Nat
    BY <1>2
  <2>4. PhysicalIndex(from[c] + m, Cap(ver[c])) \in 0 .. Cap(ver[c]) - 1
    BY <2>2, <2>3, PhysicalIndexInBuffer
  <2> QED
    BY <2>2, <2>4 DEF Value
<1>4. /\ seq \in Seq(Nat \union {Empty}) /\ Len(seq) = m + 1 /\ seq[m + 1] = v
      /\ \A i \in 1 .. m : seq[i] = copied[c][i]
  <2> HIDE DEF v
  <2> QED
    BY <1>2, <1>3
<1>5. copied'[c] = seq
  BY <1>1, <1>2 DEF ConsumersTyped
<1> HIDE DEF seq
<1>6. Goes(c, label, op[c], from[c], want[c], n[c])
  <2>1. Goto(c, label)
    BY <1>1, <1>4, <1>5
  <2> HIDE DEF label
  <2> QED
    BY <1>1, <2>1, ConsumerUnmoved DEF Goes, Goto
<1>7. label \in ConsumerLabels /\ label \notin {"return", "clone", "updated"}
  BY DEF ConsumerLabels
<1>8. ConsumerInv(c)'
  <2>1. pc'[c] = label /\ from'[c] = from[c] /\ n'[c] = n[c]
    <3>1. label \in Labels(c)
      BY <1>2, <1>7 DEF Labels
    <3> HIDE DEF label
    <3> QED
      BY <1>2, <1>6, <3>1, GoesTo
  <2>2. /\ head' = head /\ tail' = tail /\ log' = log /\ versions' = versions /\ ver' = ver
    BY <1>1 DEF word, history
  <2>3. ConsumerInv(c)
    BY Invariants
  <2>4. from[c] <= head /\ n[c] >= 1 /\ from[c] + n[c] <= tail /\ m < n[c]
    BY <1>1, <2>3 DEF ConsumerInv
  <2>5. from[c] = head => HasValues(ver[c], from[c], from[c] + n[c])
    BY <1>1, <2>3 DEF ConsumerInv
  <2>6. ASSUME from[c] = head PROVE CopiedFrom(from[c], seq)
    <3>1. CopiedFrom(from[c], copied[c])
      BY <1>1, <2>3, <2>6 DEF ConsumerInv
    <3>2. v = log[from[c] + (m + 1)]
      <4>1. from[c] + m \in from[c] .. from[c] + n[c] - 1
        BY <1>2, <2>4
      <4>2. v = log[from[c] + m + 1]
        BY <1>2, <2>5, <2>6, <4>1 DEF HasValues
      <4>3. from[c] + m + 1 = from[c] + (m + 1)
        BY <1>2
      <4> QED
        BY <4>2, <4>3
    <3>3. \A i \in 1 .. m : seq[i] = log[from[c] + i]
      BY <1>4, <3>1 DEF CopiedFrom
    <3> HIDE DEF v, m
    <3>4. \A i \in 1 .. m + 1 : seq[i] = log[from[c] + i]
      <4> SUFFICES ASSUME NEW i \in 1 .. m + 1 PROVE seq[i] = log[from[c] + i]
        OBVIOUS
      <4>1. m \in Nat
        BY <1>2
      <4>2. i = m + 1 \/ i \in 1 .. m
        BY <4>1
      <4>3. seq[m + 1] = v
        BY <1>4
      <4> QED
        BY <3>2, <3>3, <4>2, <4>3
    <3> QED
      BY <1>4, <3>4 DEF CopiedFrom
  <2>7. from'[c] = head' => CopiedFrom(from[c], copied[c])'
    BY <1>5, <2>1, <2>2, <2>6 DEF CopiedFrom
  <2>8. from'[c] = head' => HasValues(ver[c], from[c], from[c] + n[c])'
    BY <2>1, <2>2, <2>5 DEF HasValues, Value, Cap
  <2> HIDE DEF m
  <2>9. label \in {"cas", "copy"} /\ (label = "cas" <=> m + 1 = n[c])
    OBVIOUS
  <2>10. label = "copy" => m + 1 < n[c]
    BY <1>2, <2>4, <2>9
  <2> HIDE DEF label
  <2>11. Len(copied'[c]) = m + 1
    BY <1>4, <1>5
  <2> QED
    BY <2>1, <2>2, <2>4, <2>7, <2>8, <2>9, <2>10, <2>11 DEF ConsumerInv
<1> HIDE DEF label
<1> QED
  BY <1>1, <1>2, <1>4, <1>6, <1>7, <1>8, ConsumerOutside

LEMMA ForgetCopiedStep == ASSUME IInv, NEW c \in Consumers, ForgetCopied(c) PROVE IInv'
<1>1. /\ UNCHANGED <<word, head, versions, lockVars, cachedHead, ver, loaded, pushing, history>>
      /\ UNCHANGED <<op, want, n>> /\ pc[c] = "cas"
      /\ from' = [from EXCEPT ![c] = head] /\ copied' = [copied EXCEPT ![c] = <<>>]
      /\ Goto(c, "loadWord")
  BY DEF ForgetCopied
<1>2. Goes(c, "loadWord", op[c], head, want[c], n[c])
  BY <1>1, ConsumerUnmoved DEF Goes, Goto
<1>3. /\ ThreadsTyped /\ ConsumersTyped /\ c \in Threads /\ c # owner /\ head \in Nat /\ head <= head
      /\ want[c] \in Nat /\ n[c] \in Nat /\ op[c] \in Operations
  BY ConsumerUnmoved, Counters
<1>4. copied'[c] = <<>> /\ <<>> \in Seq(Nat \union {Empty})
  BY <1>1, <1>3 DEF ConsumersTyped
<1>5. "loadWord" \in ConsumerLabels /\ "loadWord" \in Labels(c)
  BY <1>3 DEF ConsumerLabels, Labels
<1>6. pc'[c] = "loadWord" /\ from'[c] = head
  BY <1>2, <1>3, <1>5, GoesTo
<1>7. ConsumerInv(c)'
  BY <1>1, <1>3, <1>4, <1>6 DEF ConsumerInv
<1> QED
  BY <1>1, <1>2, <1>3, <1>4, <1>5, <1>7, ConsumerOutside

LEMMA ClaimCopiedStep == ASSUME IInv, NEW c \in Consumers, ClaimCopied(c) PROVE IInv'
<1>1. /\ UNCHANGED <<word, versions, lockVars, cachedHead, ver, loaded, pushing, history>>
      /\ UNCHANGED <<op, from, want, n, copied>>
      /\ pc[c] = "cas" /\ head = from[c] /\ head' = head + n[c] /\ Goto(c, "return")
  BY DEF ClaimCopied, popping
<1>2. /\ ThreadsTyped /\ ConsumersTyped /\ c \in Threads /\ c # owner /\ op[c] \in Operations
      /\ head \in Nat /\ tail \in Nat /\ from[c] \in Nat /\ want[c] \in Nat /\ n[c] \in Nat
  BY ConsumerUnmoved, Counters
<1>3. /\ n[c] >= 1 /\ from[c] + n[c] <= tail /\ Len(copied[c]) = n[c]
      /\ CopiedFrom(from[c], copied[c])
  <2>1. ConsumerInv(c)
    BY Invariants
  <2> QED
    BY <1>1, <2>1 DEF ConsumerInv
<1>4. Goes(c, "return", op[c], from[c], want[c], n[c])
  BY <1>1, ConsumerUnmoved DEF Goes, Goto
<1>5. "return" \in ConsumerLabels /\ "return" \in Labels(c)
  BY <1>2 DEF ConsumerLabels, Labels
<1>6. OthersStay(c) /\ pc'[c] = "return" /\ from'[c] = from[c] /\ n'[c] = n[c]
  BY <1>2, <1>4, <1>5, GoesTo
<1>7. head' \in Nat /\ head <= head' /\ head' <= tail
  BY <1>1, <1>2, <1>3
<1>8. QueueStays /\ UNCHANGED lockVars /\ UNCHANGED <<delivered, log>>
  BY <1>1 DEF QueueStays, word, pushing, history
<1>9. ConsumerInv(c)'
  <2>1. CopiedFrom(from[c], copied[c])'
    BY <1>1, <1>3, <1>6, <1>8 DEF CopiedFrom
  <2>2. from[c] + n[c] <= head'
    BY <1>1, <1>2
  <2> QED
    BY <1>1, <1>3, <1>6, <1>7, <2>1, <2>2 DEF ConsumerInv
<1>10. HistoryInv'
  <2>1. Claims(c)' = head .. head + n[c] - 1
    BY <1>1, <1>6, ClaimedTickets DEF Claims, Claiming
  <2> QED
    BY <1>1, <1>2, <1>6, <1>8, <2>1, HistoryClaims
<1>11. ConsumersTyped' /\ \A d \in Consumers : d # c => copied'[d] = copied[d]
  BY <1>1, <1>2 DEF ConsumersTyped
<1>12. cell' = cell /\ PlaceFits(lpc'[c], "return") /\ \A t \in Threads : lpc'[t] = lpc[t]
  BY <1>1, <1>8, OutsideTheLock
<1>13. DOMAIN delivered' \subseteq Nat
  BY <1>8, Invariants DEF SharedTyped
<1> QED
  BY <1>2, <1>4, <1>5, <1>7, <1>8, <1>9, <1>10, <1>11, <1>12, <1>13, ConsumerAlone

(* What a consumer delivers: the values pushed with the tickets it claimed.  *)
LEMMA ReturnDelivers ==
    ASSUME IInv, NEW c \in Consumers, Return(c)
    PROVE  /\ Claims(c) = from[c] .. from[c] + n[c] - 1 /\ Claims(c) \subseteq Nat
           /\ delivered' = [t \in DOMAIN delivered \union Claims(c) |->
                              IF t \in Claims(c) THEN log[t + 1] ELSE delivered[t]]
<1> DEFINE f == [t \in from[c] .. from[c] + n[c] - 1 |-> copied[c][t - from[c] + 1]]
<1>1. pc[c] = "return" /\ Delivers(f)
  BY DEF Return
<1>2. /\ c \in Threads /\ from[c] \in Nat /\ n[c] \in Nat
      /\ Len(copied[c]) = n[c] /\ CopiedFrom(from[c], copied[c])
  <2>1. ConsumerInv(c)
    BY Invariants
  <2> QED
    BY <1>1, <2>1, ConsumerUnmoved DEF ConsumerInv
<1>3. Claims(c) = from[c] .. from[c] + n[c] - 1
  BY <1>1, ClaimedTickets DEF Claims, Claiming
<1>4. Claims(c) \subseteq Nat
  BY <1>2, <1>3
<1>5. ASSUME NEW t \in Claims(c) PROVE f[t] = log[t + 1]
  <2> DEFINE i == t - from[c] + 1
  <2>1. i \in 1 .. n[c] /\ from[c] + i = t + 1
    BY <1>2, <1>3
  <2>2. f[t] = copied[c][i]
    BY <1>3
  <2> HIDE DEF i, f
  <2>3. copied[c][i] = log[from[c] + i]
    BY <1>2, <2>1 DEF CopiedFrom
  <2> QED
    BY <2>1, <2>2, <2>3
<1>6. DOMAIN f = Claims(c)
  BY <1>3
<1> HIDE DEF f
<1>7. delivered' = [t \in DOMAIN delivered \union Claims(c) |->
                      IF t \in Claims(c) THEN f[t] ELSE delivered[t]]
  BY <1>1, <1>6 DEF Delivers
<1> QED
  BY <1>3, <1>4, <1>5, <1>7

LEMMA ReturnStep == ASSUME IInv, NEW c \in Consumers, Return(c) PROVE IInv'
<1>1. /\ UNCHANGED <<word, head, versions, lockVars, cachedHead, ver, loaded, pushing, log>>
      /\ pc[c] = "return" /\ copied' = [copied EXCEPT ![c] = <<>>] /\ EndPop(c)
  BY DEF Return
<1>2. /\ ThreadsTyped /\ ConsumersTyped /\ c \in Threads /\ c # owner
      /\ head \in Nat /\ tail \in Nat /\ head <= tail
  BY ConsumerUnmoved, Counters
<1>3. Goes(c, "idle", "none", 0, 0, 0)
  BY <1>1 DEF Goes, EndPop, Goto
<1>4. "idle" \in ConsumerLabels /\ "idle" \in Labels(c) /\ "none" \in Operations /\ 0 \in Nat
  BY <1>2 DEF ConsumerLabels, Labels, Operations
<1>5. OthersStay(c) /\ pc'[c] = "idle" /\ from'[c] = 0
  BY <1>2, <1>3, <1>4, GoesTo
<1>6. copied'[c] = <<>> /\ <<>> \in Seq(Nat \union {Empty})
  BY <1>1, <1>2 DEF ConsumersTyped
<1>7. QueueStays /\ UNCHANGED lockVars /\ UNCHANGED <<head, log>>
  BY <1>1 DEF QueueStays, word, pushing
<1>8. ConsumerInv(c)'
  BY <1>2, <1>5, <1>6, <1>7 DEF ConsumerInv
<1>9. /\ Claims(c) \subseteq Nat /\ DOMAIN delivered' = DOMAIN delivered \union Claims(c)
      /\ \A k \in Claims(c) : delivered'[k] = log[k + 1]
      /\ \A k \in DOMAIN delivered : k \notin Claims(c) => delivered'[k] = delivered[k]
  BY ReturnDelivers
<1>10. HistoryInv'
  <2>1. pc'[c] \notin Claiming
    BY <1>5 DEF Claiming
  <2> QED
    BY <1>2, <1>5, <1>7, <1>9, <2>1, HistoryDelivers
<1>11. head' \in Nat /\ head <= head' /\ head' <= tail /\ DOMAIN delivered' \subseteq Nat
  BY <1>2, <1>7, <1>9, Invariants DEF SharedTyped
<1>12. ConsumersTyped' /\ \A d \in Consumers : d # c => copied'[d] = copied[d]
  BY <1>1, <1>2, <1>6 DEF ConsumersTyped
<1>13. cell' = cell /\ PlaceFits(lpc'[c], "idle") /\ \A t \in Threads : lpc'[t] = lpc[t]
  BY <1>1, <1>7, OutsideTheLock
<1> QED
  BY <1>3, <1>4, <1>7, <1>8, <1>10, <1>11, <1>12, <1>13, ConsumerAlone


-----------------------------------------------------------------------------
(* A consumer fetches the version of the cell, or of another handle *)

(* A step of update_version that leaves the handle alone.                    *)
LEMMA UpdateQuiet ==
    ASSUME IInv, NEW c \in Consumers, NEW label \in ConsumerLabels, NEW o \in Operations,
           NEW h \in Nat, NEW w \in Nat, NEW k \in Nat, Goes(c, label, o, h, w, k),
           UNCHANGED <<word, head, versions, cachedHead, ver, pushing, history>>,
           copied' = copied, loaded' \in [Consumers -> [id : Nat, tail : Nat]],
           pc[c] \in {"update", "clone", "updated"}, label \notin {"copy", "cas", "return"},
           h <= head, [LockNext]_lockVars, cell' = cell,
           NEW place, lpc' = [lpc EXCEPT ![c] = place], PlaceFits(place, label)
    PROVE  IInv'
<1>1. QueueStays /\ UNCHANGED <<head, delivered>>
  BY DEF QueueStays, word, pushing, history
<1>2. ConsumersTyped'
  BY Invariants DEF ConsumersTyped
<1>3. copied'[c] = <<>> /\ \A d \in Consumers : d # c => copied'[d] = copied[d]
  BY NothingCopied
<1>4. PlaceFits(lpc'[c], label) /\ \A t \in Threads : t # c => lpc'[t] = lpc[t]
  BY Members, Invariants DEF LockTypeOK
<1> QED
  BY <1>1, <1>2, <1>3, <1>4, ConsumerQuiet

LEMMA PlaceOf ==
    ASSUME IInv, NEW c \in Consumers
    PROVE  /\ lpc[c] \in {"out", "readCas", "reading"}
           /\ lpc[c] = "reading" <=> pc[c] \in {"clone", "updated"}
           /\ lpc[c] = "readCas" => pc[c] = "update"
           /\ lpc = [lpc EXCEPT ![c] = lpc[c]]
BY Members, Invariants DEF PlacesInv, LockTypeOK

LEMMA UpdateTryReadStep == ASSUME IInv, NEW c \in Consumers, UpdateTryRead(c) PROVE IInv'
<1>1. /\ pc[c] = "update" /\ (TryRead(c) \/ ReadMiss(c))
      /\ UNCHANGED <<word, head, versions, cachedHead, ver, pushing, history>>
      /\ UNCHANGED <<pc, op, popping>>
  BY DEF UpdateTryRead, Update
<1>2. Goes(c, "update", op[c], from[c], want[c], n[c])
  BY <1>1, ConsumerUnmoved DEF Goes, popping
<1>3. copied' = copied /\ loaded' \in [Consumers -> [id : Nat, tail : Nat]]
  BY <1>1, ConsumerUnmoved DEF popping
<1>4. LockNext /\ cell' = cell
  BY <1>1, Members DEF LockNext, TryRead, ReadMiss
<1>5. lpc' = [lpc EXCEPT ![c] = "readCas"]
  BY <1>1, PlaceOf DEF TryRead, ReadMiss, LockGoto
<1>6. PlaceFits("readCas", "update") /\ "update" \in ConsumerLabels
  BY DEF PlaceFits, ConsumerLabels
<1> QED
  BY <1>1, <1>2, <1>3, <1>4, <1>5, <1>6, ConsumerUnmoved, NothingCopied, UpdateQuiet

LEMMA UpdateCasStep == ASSUME IInv, NEW c \in Consumers, UpdateCas(c) PROVE IInv'
<1>1. /\ pc[c] = "update" /\ ReadCas(c) /\ Goto(c, "clone")
      /\ UNCHANGED <<word, head, versions, cachedHead, ver, pushing, history>>
      /\ UNCHANGED <<op, popping>>
  BY DEF UpdateCas, Update
<1>2. Goes(c, "clone", op[c], from[c], want[c], n[c])
  BY <1>1, ConsumerUnmoved DEF Goes, Goto, popping
<1>3. copied' = copied /\ loaded' \in [Consumers -> [id : Nat, tail : Nat]]
  BY <1>1, ConsumerUnmoved DEF popping
<1>4. LockNext /\ cell' = cell /\ lpc' = [lpc EXCEPT ![c] = "reading"]
  BY <1>1, Members DEF LockNext, ReadCas, LockGoto
<1>5. PlaceFits("reading", "clone") /\ "clone" \in ConsumerLabels
  BY DEF PlaceFits, ConsumerLabels
<1> QED
  BY <1>1, <1>2, <1>3, <1>4, <1>5, ConsumerUnmoved, NothingCopied, UpdateQuiet

LEMMA UpdateFailsStep == ASSUME IInv, NEW c \in Consumers, UpdateFails(c) PROVE IInv'
<1>1. /\ pc[c] = "update" /\ (ReadIsLocked(c) \/ ReadMissLocked(c)) /\ EndPop(c)
      /\ UNCHANGED <<word, head, versions, cachedHead, ver, pushing, history>>
      /\ loaded' = [loaded EXCEPT ![c] = NoWord] /\ copied' = copied
  BY DEF UpdateFails, Update
<1>2. Goes(c, "idle", "none", 0, 0, 0)
  BY <1>1 DEF EndPop, Goes, Goto
<1>3. loaded' \in [Consumers -> [id : Nat, tail : Nat]]
  BY <1>1, ConsumerUnmoved DEF NoWord
<1>4. LockNext /\ cell' = cell
  BY <1>1, Members DEF LockNext, ReadIsLocked, ReadMissLocked, lockVars
<1>5. lpc' = [lpc EXCEPT ![c] = "out"]
  BY <1>1, PlaceOf DEF ReadIsLocked, ReadMissLocked, LockGoto, lockVars
<1>6. /\ PlaceFits("out", "idle") /\ "idle" \in ConsumerLabels /\ "none" \in Operations
      /\ 0 \in Nat /\ 0 <= head
  BY Counters DEF PlaceFits, ConsumerLabels, Operations
<1> QED
  BY <1>1, <1>2, <1>3, <1>4, <1>5, <1>6, UpdateQuiet

LEMMA UpdateDoneStep == ASSUME IInv, NEW c \in Consumers, UpdateDone(c) PROVE IInv'
<1>1. /\ pc[c] = "updated" /\ ReadUnlock(c)
      /\ \/ Goto(c, "loadWord") /\ UNCHANGED <<op, loaded>>
         \/ EndQuery(c)
      /\ UNCHANGED <<word, head, versions, cachedHead, ver, from, want, n, copied, pushing, history>>
  BY DEF UpdateDone
<1>2. LockNext /\ cell' = cell /\ lpc' = [lpc EXCEPT ![c] = "out"]
  BY <1>1, Members DEF LockNext, ReadUnlock, LockGoto
<1>3. /\ PlaceFits("out", "idle") /\ PlaceFits("out", "loadWord") /\ "none" \in Operations
      /\ "idle" \in ConsumerLabels /\ "loadWord" \in ConsumerLabels
  BY DEF PlaceFits, ConsumerLabels, Operations
<1>4. CASE Goto(c, "loadWord") /\ UNCHANGED <<op, loaded>>
  <2>1. Goes(c, "loadWord", op[c], from[c], want[c], n[c])
    BY <1>1, <1>4, ConsumerUnmoved DEF Goes, Goto
  <2>2. loaded' \in [Consumers -> [id : Nat, tail : Nat]]
    BY <1>4, ConsumerUnmoved
  <2> QED
    BY <1>1, <1>2, <1>3, <2>1, <2>2, ConsumerUnmoved, NothingCopied, UpdateQuiet
<1>5. CASE EndQuery(c)
  <2>1. Goes(c, "idle", "none", from[c], want[c], n[c])
    BY <1>1, <1>5, ConsumerUnmoved DEF EndQuery, Goes, Goto
  <2>2. loaded' \in [Consumers -> [id : Nat, tail : Nat]]
    BY <1>5, ConsumerUnmoved DEF EndQuery, NoWord
  <2> QED
    BY <1>1, <1>2, <1>3, <2>1, <2>2, ConsumerUnmoved, NothingCopied, UpdateQuiet
<1> QED
  BY <1>1, <1>4, <1>5


(* A version that a step leaves held is still as it was.                     *)
HeldAreSpared == \A v \in DOMAIN versions : Holders(v)' > 0 =>
                     Cap(v)' = Cap(v) /\ versions'[v].buffer = versions[v].buffer

(* The handle of c goes over to another version, which it counts; the old    *)
(* one is freed if that was its last.                                        *)
LEMMA HandleChanges ==
    ASSUME IInv, NEW c \in Consumers, NEW new \in DOMAIN versions,
           ver' = [ver EXCEPT ![c] = new], versions' = Exchange(ver[c], new),
           UNCHANGED <<cell, newCap>>
    PROVE  /\ VersionsAreHeld' /\ VersionsTyped' /\ ver' \in [Threads -> DOMAIN versions']
           /\ DOMAIN versions' = DOMAIN versions /\ HeldAreSpared
<1>1. VersionsTyped /\ VersionsAreHeld /\ ver \in [Threads -> DOMAIN versions]
  BY Invariants
<1>2. owner \in Threads /\ c \in Threads /\ c # owner
  BY Members
<1>3. ver'[owner] = ver[owner]
  BY <1>1, <1>2
<1>4. /\ DOMAIN versions' = DOMAIN versions
      /\ versions' = [v \in DOMAIN versions' |-> versions'[v]]
      /\ \A v \in DOMAIN versions :
           /\ Cap(v)' = Cap(v)
           /\ versions'[v].refs = versions[v].refs + (IF v = new THEN 1 ELSE 0)
                                                   - (IF v = ver[c] THEN 1 ELSE 0)
           /\ versions'[v].refs # 0 => versions'[v].buffer = versions[v].buffer
           /\ versions'[v].refs \in Nat =>
                versions'[v] \in [cap : Nat \ {0}, refs : Nat,
                                  buffer : [0 .. Cap(v) - 1 -> Nat \union {Empty}]]
  BY <1>1, Exchanged
<1>5. ASSUME NEW v \in DOMAIN versions
      PROVE  versions'[v].refs = Holders(v)' /\ Holders(v)' \in Nat
  <2> DEFINE moved == (IF v = new THEN 1 ELSE 0) - (IF v = ver[c] THEN 1 ELSE 0)
             more  == (IF cell = v \/ (cell = Moved /\ v = ver[owner]) THEN 1 ELSE 0)
                        + (IF newCap # 0 /\ v = ver[owner] + 1
                             THEN (IF cell = v THEN 1 ELSE 2) ELSE 0)
  <2>1. versions[v].refs = Holders(v) /\ Cardinality(Handles(v)) \in Nat
    BY <1>1, HandlesCount DEF VersionsAreHeld
  <2>2. Cardinality(Handles(v)') = Cardinality(Handles(v)) + moved
    <3>1. CASE new = ver[c]
      <4>1. Handles(v)' = Handles(v)
        BY <1>1, <1>2, <3>1 DEF Handles
      <4> QED
        BY <2>1, <3>1, <4>1
    <3>2. CASE new # ver[c]
      <4>1. Cardinality(Handles(v)') =
             Cardinality(Handles(v)) + (IF v = new THEN 1 ELSE 0) - (IF v = ver[c] THEN 1 ELSE 0)
        BY <1>1, <1>2, <3>2, HandleMoves
      <4> QED
        BY <2>1, <4>1
    <3> QED
      BY <3>1, <3>2
  <2>3. more \in Nat /\ Holders(v) = Cardinality(Handles(v)) + more
    BY <2>1 DEF Holders, Handles
  <2>4. Holders(v)' = Cardinality(Handles(v)') + more
    <3>1. more' = more
      BY <1>3
    <3>2. Cardinality(Handles(v)') \in Nat
      <4>1. Handles(v)' \subseteq Threads
        BY DEF Handles
      <4> QED
        BY <4>1, ThreadsFinite, FS_Subset, FS_CardinalityType
    <3> QED
      BY <1>3, <3>1, <3>2 DEF Holders, Handles
  <2>5. versions'[v].refs = versions[v].refs + moved
    BY <1>4, VersionFacts, <1>1
  <2>6. moved \in Int
    OBVIOUS
  <2>7. Holders(v)' \in Nat
    BY HandlesCountNext
  <2> HIDE DEF moved, more
  <2> QED
    BY <2>1, <2>2, <2>3, <2>4, <2>5, <2>6, <2>7
<1>6. VersionsAreHeld'
  BY <1>4, <1>5 DEF VersionsAreHeld
<1>7. VersionsTyped'
  BY <1>4, <1>5 DEF VersionsTyped, Cap
<1>8. ver' \in [Threads -> DOMAIN versions']
  BY <1>1, <1>2, <1>4
<1>9. HeldAreSpared
  BY <1>4, <1>5 DEF HeldAreSpared
<1> QED
  BY <1>4, <1>6, <1>7, <1>8, <1>9

(* The versions from that of the word on are held all the time.              *)
LEMMA NewerAreHeld ==
    ASSUME IInv, ver'[owner] = ver[owner], UNCHANGED <<newCap, cell, pc[owner], lpc[owner]>>,
           DOMAIN versions' = DOMAIN versions, HeldAreSpared
    PROVE  Spared
<1>1. owner \in Threads /\ ver[owner] \in Nat
  BY Members, Versions
<1>2. ASSUME NEW v \in DOMAIN versions, v >= ver[owner] PROVE Holders(v)' > 0
  <2>1. CASE v = ver[owner]
    BY <1>1, <2>1, HandlesCountNext
  <2>2. CASE v # ver[owner]
    <3>1. v = ver[owner] + 1 /\ Grew
      BY <1>1, <1>2, <2>2, Versions
    <3>2. newCap' # 0 /\ v = ver'[owner] + 1
      BY <3>1 DEF Grew
    <3>3. Cardinality({t \in Threads : ver'[t] = v}) \in Nat
      <4>1. {t \in Threads : ver'[t] = v} \subseteq Threads
        OBVIOUS
      <4> QED
        BY <4>1, ThreadsFinite, FS_Subset, FS_CardinalityType
    <3> QED
      BY <3>2, <3>3 DEF Holders
  <2> QED
    BY <2>1, <2>2
<1> QED
  BY <1>2 DEF Spared, HeldAreSpared

(* What a consumer does with its handle alone.                               *)
LEMMA ConsumerReplaces ==
    ASSUME IInv, NEW c \in Consumers, NEW label \in ConsumerLabels, NEW new \in DOMAIN versions,
           new <= Newest, label \notin {"copy", "cas", "return"},
           pc[c] \notin {"copy", "cas", "return"}, PlaceFits(lpc[c], label),
           pc' = [pc EXCEPT ![c] = label],
           ver' = [ver EXCEPT ![c] = new], versions' = Exchange(ver[c], new),
           UNCHANGED <<word, head, lockVars, cachedHead, op, popping, pushing, history>>
    PROVE  IInv'
<1>1. /\ owner \in Threads /\ c \in Threads /\ c # owner /\ ThreadsTyped /\ ConsumersTyped
      /\ ver \in [Threads -> DOMAIN versions]
  BY Members, Invariants
<1>2. ThreadsTyped' /\ OthersStay(c) /\ pc'[c] = label /\ from'[c] = from[c]
  <2>1. Goes(c, label, op[c], from[c], want[c], n[c])
    BY ConsumerUnmoved DEF Goes, popping
  <2>2. label \in Labels(c)
    BY <1>1 DEF Labels
  <2> QED
    BY <1>1, <2>1, <2>2, ConsumerUnmoved, GoesTo
<1>3. /\ UNCHANGED <<tail, wordId, head, cachedHead, log, delivered, newCap, batch, base>>
      /\ UNCHANGED <<written, issued, copied, loaded, cell, lpc>>
  BY DEF word, lockVars, popping, pushing, history
<1>4. /\ pc'[owner] = pc[owner] /\ op'[owner] = op[owner] /\ from'[owner] = from[owner]
      /\ n'[owner] = n[owner] /\ lpc'[owner] = lpc[owner] /\ ver'[owner] = ver[owner]
  BY <1>1, <1>2, <1>3 DEF OthersStay
<1>5. /\ VersionsAreHeld' /\ VersionsTyped' /\ ver' \in [Threads -> DOMAIN versions']
      /\ DOMAIN versions' = DOMAIN versions /\ HeldAreSpared
  BY <1>3, HandleChanges
<1>6. Spared
  BY <1>3, <1>4, <1>5, NewerAreHeld
<1>7. VersionInv'
  <2>1. (Grew <=> Grew') /\ (Swapped <=> Swapped') /\ Newest' = Newest
    BY <1>3, <1>4 DEF Grew, Swapped, Newest
  <2>2. \A d \in Consumers : ver'[d] <= Newest
    <3>1. VersionInv
      BY Invariants
    <3> QED
      BY <1>1, <3>1, Members DEF VersionInv
  <2> QED
    BY <1>3, <1>4, <1>5, <2>1, <2>2, Invariants DEF VersionInv
<1>8. head \in Nat /\ head <= head /\ head <= tail /\ tail \in Nat /\ tail <= tail
  BY Counters
<1>9. RingInv'
  BY <1>3, <1>5, <1>6, <1>8, RingStays
<1>10. OwnerInv' /\ IssuedInv'
  BY <1>3, <1>4, <1>6, <1>8, OwnerStays
<1>11. \A d \in Consumers : ConsumerInv(d)'
  <2> SUFFICES ASSUME NEW d \in Consumers PROVE ConsumerInv(d)'
    OBVIOUS
  <2>1. CASE d = c
    <3>1. from[c] <= head /\ copied[c] = <<>>
      BY NothingCopied
    <3> QED
      BY <1>2, <1>3, <2>1, <3>1 DEF ConsumerInv
  <2>2. CASE d # c
    <3>1. pc'[d] = pc[d] /\ from'[d] = from[d] /\ n'[d] = n[d] /\ ver'[d] = ver[d]
      BY <1>1, <1>2, <2>2, Members DEF OthersStay
    <3>2. copied'[d] = copied[d] /\ \A i \in 1 .. tail : log'[i] = log[i]
      BY <1>3
    <3>3. Holders(ver[d])' > 0 /\ ver[d] \in DOMAIN versions
      BY <3>1, Members, HandlesCountNext, VersionOf
    <3>4. \A t \in head .. tail - 1 : Value(ver[d], t)' = Value(ver[d], t)
      <4>1. Cap(ver[d])' = Cap(ver[d]) /\ versions'[ver[d]].buffer = versions[ver[d]].buffer
        <5>1. Cap(ver[d])' = versions'[ver[d]].cap
          BY <3>1 DEF Cap
        <5> QED
          BY <1>5, <3>1, <3>3, <5>1 DEF HeldAreSpared, Cap, Holders
      <4> QED
        BY <3>1, <4>1 DEF Value
    <3> QED
      BY <1>3, <1>8, <3>1, <3>2, <3>4, ConsumerStays
  <2> QED
    BY <2>1, <2>2
<1>12. HistoryInv'
  <2>1. pc'[c] \notin Claiming
    BY <1>2 DEF Claiming, ConsumerLabels
  <2>2. \A i \in 1 .. tail : log'[i] = log[i]
    BY <1>3
  <2> QED
    BY <1>1, <1>2, <1>3, <2>1, <2>2, HistoryStays
<1>13. LockIInv' /\ LockTypeOK'
  BY LockStays
<1>14. PlacesInv'
  <2>1. \A d \in Consumers : d # c => pc'[d] = pc[d]
    BY <1>2, Members DEF OthersStay
  <2> QED
    BY <1>2, <1>3, <1>4, <2>1, Invariants DEF PlacesInv, PlaceFits
<1>15. SharedTyped' /\ PushTyped' /\ ConsumersTyped'
  <2>1. SharedTyped'
    BY <1>3, Invariants DEF SharedTyped
  <2>2. PushTyped'
    BY <1>3, Invariants DEF PushTyped
  <2>3. ConsumersTyped'
    BY <1>1, <1>3 DEF ConsumersTyped
  <2> QED
    BY <2>1, <2>2, <2>3
<1>16. TypeOK'
  BY <1>2, <1>5, <1>13, <1>15, TypePartsNext
<1> QED
  BY <1>5, <1>7, <1>9, <1>10, <1>11, <1>12, <1>13, <1>14, <1>16 DEF IInv

(* Under a reader's lock the cell holds a version.                           *)
LEMMA CloneCellStep == ASSUME IInv, NEW c \in Consumers, CloneCell(c) PROVE IInv'
<1>1. /\ pc[c] = "clone" /\ pc' = [pc EXCEPT ![c] = "updated"]
      /\ ver' = [ver EXCEPT ![c] = cell] /\ versions' = Exchange(ver[c], cell)
      /\ UNCHANGED <<word, head, lockVars, cachedHead, op, popping, pushing, history>>
  BY DEF CloneCell, Goto
<1>2. lpc[c] = "reading" /\ LockIInv /\ VersionInv
  BY <1>1, PlaceOf, Invariants
<1>3. lpc[owner] # "replacing"
  <2>1. c \in Readers /\ c \in Threads
    BY <1>2, Members DEF Readers
  <2>2. Writers = {}
    BY <1>2, <2>1, CounterByRole
  <2> QED
    BY <2>2, Members DEF Writers
<1>4. cell = Newest
  BY <1>2, <1>3 DEF VersionInv
<1>5. Newest \in DOMAIN versions /\ Newest <= Newest
  BY Versions
<1>6. "updated" \in ConsumerLabels /\ PlaceFits(lpc[c], "updated")
  BY <1>2 DEF ConsumerLabels, PlaceFits
<1> QED
  BY <1>1, <1>4, <1>5, <1>6, ConsumerReplaces

LEMMA CloneHandleStep ==
    ASSUME IInv, NEW c \in Consumers, NEW t \in Threads \ {c}, CloneHandle(c, t)
    PROVE  IInv'
<1>1. /\ pc[c] = "idle" /\ ver' = [ver EXCEPT ![c] = ver[t]] /\ pc' = pc
      /\ versions' = Exchange(ver[c], ver[t])
      /\ UNCHANGED <<word, head, lockVars, cachedHead, op, popping, pushing, history>>
  BY DEF CloneHandle
<1>2. pc' = [pc EXCEPT ![c] = "idle"]
  BY <1>1, ConsumerUnmoved
<1>3. ver[t] \in DOMAIN versions /\ ver[t] <= Newest
  <2>1. CASE t = owner
    BY <2>1, Versions
  <2>2. CASE t # owner
    <3>1. t \in Consumers
      BY <2>2, ThreadsAssumption
    <3> QED
      BY <3>1, VersionOf, Invariants DEF VersionInv
  <2> QED
    BY <2>1, <2>2
<1>4. "idle" \in ConsumerLabels /\ PlaceFits(lpc[c], "idle")
  BY <1>1, PlaceOf DEF ConsumerLabels, PlaceFits
<1> QED
  BY <1>1, <1>2, <1>3, <1>4, ConsumerReplaces


-----------------------------------------------------------------------------
(* The steps of the owner *)

(* What a step of the owner leaves to be shown.                              *)
LEMMA OwnerMoves ==
    ASSUME IInv, NEW label \in OwnerLabels, NEW o \in Operations,
           NEW h \in Nat, NEW w \in Nat, NEW k \in Nat, Goes(owner, label, o, h, w, k),
           UNCHANGED <<loaded, copied>>,
           [LockNext]_lockVars, \A c \in Consumers : lpc'[c] = lpc[c],
           lpc'[owner] \in {"out", "writing", "replacing", "replaced"},
           label # "swap" => lpc'[owner] = "out",
           ver' \in [Threads -> DOMAIN versions'], \A c \in Consumers : ver'[c] = ver[c],
           SharedTyped', VersionsTyped', PushTyped',
           VersionsAreHeld', VersionInv', RingInv', OwnerInv', IssuedInv', HistoryInv',
           head <= head', tail <= tail', \A i \in 1 .. tail : log'[i] = log[i],
           \A c \in Consumers : \A t \in head .. tail - 1 : Value(ver[c], t)' = Value(ver[c], t)
    PROVE  IInv'
<1>1. owner \in Threads /\ ThreadsTyped' /\ OthersStay(owner) /\ pc'[owner] = label
  <2>1. owner \in Threads /\ label \in Labels(owner)
    BY Members DEF Labels
  <2> QED
    BY <2>1, GoesTo, Invariants
<1>2. \A c \in Consumers : pc'[c] = pc[c] /\ from'[c] = from[c] /\ n'[c] = n[c]
  BY <1>1, Members DEF OthersStay
<1>3. \A c \in Consumers : ConsumerInv(c)'
  <2>1. head' \in Nat /\ tail' \in Nat
    BY DEF SharedTyped
  <2> QED
    BY <1>2, <2>1, ConsumerStays
<1>4. LockIInv' /\ LockTypeOK'
  <2>1. LockIInv'
    BY Invariants, LockNextInv
  <2> QED
    BY <2>1 DEF LockIInv
<1>5. PlacesInv'
  BY <1>1, <1>2, Invariants DEF PlacesInv
<1>6. ConsumersTyped'
  BY Invariants DEF ConsumersTyped
<1>7. TypeOK'
  BY <1>1, <1>4, <1>6, TypePartsNext
<1> QED
  BY <1>3, <1>4, <1>5, <1>7 DEF IInv

LEMMA OwnerFacts ==
    IInv => /\ ThreadsTyped /\ owner \in Threads /\ OwnerInv /\ IssuedInv /\ PushTyped
            /\ tail \in Nat /\ head \in Nat /\ cachedHead \in Nat
            /\ cachedHead <= head /\ head <= tail /\ head <= head
            /\ from[owner] \in Nat /\ want[owner] \in Nat /\ n[owner] \in Nat
            /\ op[owner] \in Operations /\ pc[owner] \in OwnerLabels
            /\ Cap(ver[owner]) \in Nat \ {0}
            /\ tail <= cachedHead + Cap(ver[owner])
            /\ batch \in Seq(Nat) /\ Len(batch) \in Nat /\ newCap \in Nat /\ written \in Nat
            /\ base \in Nat /\ issued \in Nat
<1> SUFFICES ASSUME IInv
             PROVE  /\ ThreadsTyped /\ owner \in Threads /\ OwnerInv /\ IssuedInv /\ PushTyped
                    /\ tail \in Nat /\ head \in Nat /\ cachedHead \in Nat
                    /\ cachedHead <= head /\ head <= tail /\ head <= head
                    /\ from[owner] \in Nat /\ want[owner] \in Nat /\ n[owner] \in Nat
                    /\ op[owner] \in Operations /\ pc[owner] \in OwnerLabels
                    /\ Cap(ver[owner]) \in Nat \ {0}
                    /\ tail <= cachedHead + Cap(ver[owner])
                    /\ batch \in Seq(Nat) /\ Len(batch) \in Nat /\ newCap \in Nat /\ written \in Nat
                    /\ base \in Nat /\ issued \in Nat
  OBVIOUS
<1>1. ThreadsTyped /\ owner \in Threads /\ OwnerInv /\ IssuedInv /\ PushTyped
  BY Members, Invariants
<1>2. /\ tail \in Nat /\ head \in Nat /\ cachedHead \in Nat
      /\ cachedHead <= head /\ head <= tail /\ head <= head
  BY Counters
<1>3. /\ from[owner] \in Nat /\ want[owner] \in Nat /\ n[owner] \in Nat
      /\ op[owner] \in Operations /\ pc[owner] \in OwnerLabels
  BY <1>1, Unmoved DEF Labels
<1>4. Cap(ver[owner]) \in Nat \ {0}
  BY Versions, VersionFacts, Invariants
<1>5. tail <= cachedHead + Cap(ver[owner])
  BY <1>1 DEF OwnerInv
<1>6. batch \in Seq(Nat) /\ newCap \in Nat /\ base \in Nat /\ issued \in Nat
  BY <1>1 DEF PushTyped
<1>7. Len(batch) \in Nat /\ written \in Nat
  BY <1>1, <1>6 DEF PushTyped
<1> QED
  BY <1>1, <1>2, <1>3, <1>4, <1>5, <1>6, <1>7

(* A step of the owner that touches neither the versions nor the lock, while *)
(* there is no version that the word does not name.                          *)
LEMMA OwnerAlone ==
    ASSUME IInv, NEW label \in OwnerLabels, NEW o \in Operations,
           NEW h \in Nat, NEW w \in Nat, NEW k \in Nat, Goes(owner, label, o, h, w, k),
           UNCHANGED <<tail, wordId, versions, lockVars, ver, loaded, copied, log>>,
           ~Grew, newCap' = 0 \/ label \notin {"swap", "write", "publish"},
           pc[owner] # "swap", label # "swap",
           cachedHead' \in Nat, head' \in Nat, head <= head', head' <= tail,
           DOMAIN delivered' \subseteq Nat,
           PushTyped', OwnerInv', IssuedInv', HistoryInv'
    PROVE  IInv'
<1>1. cell' = cell /\ lpc' = lpc
  BY DEF lockVars
<1>2. pc'[owner] = label
  BY OwnerFacts DEF Goes, ThreadsTyped
<1>3. ~Grew' /\ ~Swapped /\ ~Swapped' /\ Newest = ver[owner] /\ Newest' = ver[owner]
  BY <1>2 DEF Grew, Swapped, Newest
<1>4. VersionInv /\ VersionsAreHeld /\ VersionsTyped /\ ver \in [Threads -> DOMAIN versions]
      /\ SharedTyped /\ PlacesInv
  BY Invariants
<1>5. VersionInv'
  BY <1>1, <1>3, <1>4 DEF VersionInv
<1>6. VersionsAreHeld'
  <2> SUFFICES ASSUME NEW v \in DOMAIN versions PROVE versions[v].refs = Holders(v)'
    BY DEF VersionsAreHeld
  <2>1. versions[v].refs = Holders(v)
    BY <1>4 DEF VersionsAreHeld
  <2>2. v # ver[owner] + 1
    BY <1>3, Versions
  <2>3. Holders(v)' = Holders(v)
    BY <1>1, <2>2 DEF Holders
  <2> QED
    BY <2>1, <2>3
<1>7. Spared /\ \A v, t : Value(v, t)' = Value(v, t)
  BY DEF Spared, Cap, Value
<1>8. RingInv'
  BY <1>7, RingStays
<1>9. SharedTyped' /\ VersionsTyped'
  <2>1. SharedTyped'
    BY <1>4 DEF SharedTyped
  <2>2. VersionsTyped'
    BY <1>4 DEF VersionsTyped, Cap
  <2> QED
    BY <2>1, <2>2
<1>10. lpc'[owner] = "out" /\ tail <= tail' /\ [LockNext]_lockVars
  BY <1>1, <1>4, OwnerFacts DEF PlacesInv
<1>11. \A i \in 1 .. tail : log'[i] = log[i]
  OBVIOUS
<1>12. \A c \in Consumers : \A t \in head .. tail - 1 : Value(ver[c], t)' = Value(ver[c], t)
  BY <1>7 DEF Value, Cap
<1>13. (\A c \in Consumers : lpc'[c] = lpc[c] /\ ver'[c] = ver[c]) /\ ver' \in [Threads -> DOMAIN versions']
  BY <1>1, <1>4
<1> QED
  BY <1>5, <1>6, <1>8, <1>9, <1>10, <1>11, <1>12, <1>13, OwnerMoves


-----------------------------------------------------------------------------
(* A push begins *)

LEMMA BoundedIsNat == ASSUME NEW values \in Seq(1 .. MaxPushes) PROVE values \in Seq(Nat)
<1>1. ASSUME NEW S, NEW v \in Seq(S), S \subseteq Nat
      PROVE  v \in Seq(Nat)
  <2>1. Len(v) \in Nat /\ v = [i \in 1 .. Len(v) |-> v[i]] /\ \A i \in 1 .. Len(v) : v[i] \in S
    OBVIOUS
  <2>2. \A i \in 1 .. Len(v) : v[i] \in Nat
    BY <1>1, <2>1
  <2> QED
    BY <2>1, <2>2
<1>2. 1 .. MaxPushes \subseteq Nat
  BY BoundAssumption
<1> QED
  BY <1>1, <1>2

LEMMA BeginStep ==
    ASSUME IInv, NEW o \in Operations, NEW values \in Seq(1 .. MaxPushes), NEW place,
           Begin(o, values, place),
           values # <<>> => Len(values) \in SliceLens \union {1},
           newCap' \in Nat,
           \/ place = "grow" /\ newCap' > 0 /\ o = "reserve"
           \/ place = "refresh" /\ newCap' = 0 /\ o \in {"push", "pushMany"}
           \/ place = "write" /\ newCap' = 0 /\ o # "reserve"
                /\ tail + Len(values) <= cachedHead + Cap(ver[owner]),
           place # "grow" => Len(values) > 0,
           o = "push" => Len(values) = 1
    PROVE  IInv'
<1>1. /\ UNCHANGED <<tail, wordId, versions, lockVars, ver, loaded, copied, log>>
      /\ UNCHANGED <<head, cachedHead, delivered, from, want, n>>
      /\ pc[owner] = "idle" /\ Goto(owner, place) /\ op' = [op EXCEPT ![owner] = o]
      /\ batch' = values /\ base' = tail /\ written' = 0
      /\ issued' = issued + Len(values) /\ issued + Len(values) <= MaxPushes
  BY DEF Begin, Start, word, popping, history
<1>2. /\ ThreadsTyped /\ owner \in Threads /\ OwnerInv /\ IssuedInv
      /\ tail \in Nat /\ head \in Nat /\ cachedHead \in Nat /\ cachedHead <= head /\ head <= tail
      /\ from[owner] \in Nat /\ want[owner] \in Nat /\ n[owner] \in Nat
      /\ Cap(ver[owner]) \in Nat \ {0} /\ tail <= cachedHead + Cap(ver[owner])
      /\ issued \in Nat /\ head <= head
  BY OwnerFacts
<1>3. values \in Seq(Nat) /\ Len(values) \in Nat
  BY BoundedIsNat
<1>4. newCap = 0 /\ batch = <<>>
  BY <1>1, <1>2 DEF OwnerInv
<1>5. place \in {"grow", "refresh", "write"} /\ place \in OwnerLabels
  BY DEF OwnerLabels
<1>6. Goes(owner, place, o, from[owner], want[owner], n[owner])
  BY <1>1, <1>2, Unmoved DEF Goes, Goto
<1>7. pc'[owner] = place /\ op'[owner] = o
  BY <1>1, <1>2 DEF Goto, ThreadsTyped
<1>8. ~Grew /\ (newCap' = 0 \/ place \notin {"swap", "write", "publish"})
  BY <1>4 DEF Grew
<1>9. PushTyped'
  <2>1. issued' \in Nat /\ written' \in 0 .. Len(batch')
    BY <1>1, <1>2, <1>3
  <2> QED
    BY <1>1, <1>2, <1>3, <2>1 DEF PushTyped
<1>10. OwnerInv'
  <2>1. place = "write" => At' = ver[owner]
    BY <1>1 DEF At
  <2>2. \A i \in 1 .. written' : Value(At, tail + i - 1)' = batch'[i]
    BY <1>1
  <2>3. \A v : Cap(v)' = Cap(v)
    BY <1>1 DEF Cap
  <2>4. Cap(ver[owner])' = Cap(ver[owner]) /\ (place = "write" => Cap(At)' = Cap(ver[owner]))
    BY <1>1, <2>1 DEF Cap
  <2> QED
    BY <1>1, <1>2, <1>3, <1>5, <1>7, <2>2, <2>4 DEF OwnerInv
<1>11. IssuedInv'
  <2>1. tail + Len(batch) <= issued /\ Len(batch) = 0
    BY <1>2, <1>4 DEF IssuedInv
  <2>2. tail + Len(values) <= issued + Len(values)
    BY <1>2, <1>3, <2>1
  <2> QED
    BY <1>1, <2>2 DEF IssuedInv
<1>12. HistoryInv'
  <2>1. OthersStay(owner)
    BY <1>1, <1>2 DEF OthersStay, Goto, ThreadsTyped
  <2>2. pc'[owner] \notin Claiming
    BY <1>5, <1>7 DEF Claiming
  <2>3. \A i \in 1 .. tail : log'[i] = log[i]
    BY <1>1
  <2> QED
    BY <1>1, <1>2, <2>1, <2>2, <2>3, HistoryStays
<1>13. DOMAIN delivered' \subseteq Nat /\ pc[owner] # "swap" /\ place # "swap"
  BY <1>1, <1>5, Invariants DEF SharedTyped
<1>14. cachedHead' \in Nat /\ head' \in Nat /\ head <= head' /\ head' <= tail
  BY <1>1, <1>2
<1> QED
  BY <1>1, <1>2, <1>5, <1>6, <1>8, <1>9, <1>10, <1>11, <1>12, <1>13, <1>14, OwnerAlone

(* What the owner is handed counts up, within the bound.                     *)
LEMMA FreshValues ==
    ASSUME IInv, NEW k \in Nat \ {0}, issued + k <= MaxPushes
    PROVE  Fresh(k) \in Seq(1 .. MaxPushes) /\ Len(Fresh(k)) = k
<1>1. issued \in Nat /\ MaxPushes \in Nat
  BY BoundAssumption, OwnerFacts
<1>2. \A i \in 1 .. k : issued + i \in 1 .. MaxPushes
  BY <1>1
<1> QED
  BY <1>2 DEF Fresh

LEMMA PushOperations ==
    {"push", "pushMany", "pushManyUnchecked", "copyAndCommitIf", "reserve"} \subseteq Operations
BY DEF Operations

LEMMA StartPushStep == ASSUME IInv, StartPush PROVE IInv'
<1> DEFINE place == IF tail - cachedHead >= Cap(ver[owner]) THEN "refresh" ELSE "write"
<1>1. /\ Begin("push", Fresh(1), place) /\ newCap' = newCap /\ pc[owner] = "idle"
      /\ issued + Len(Fresh(1)) <= MaxPushes
  BY DEF StartPush, Begin, Start
<1>2. Len(Fresh(1)) = 1
  BY DEF Fresh
<1>3. Fresh(1) \in Seq(1 .. MaxPushes)
  <2>1. issued + 1 <= MaxPushes
    BY <1>1, <1>2, Zenon
  <2>2. 1 \in Nat \ {0}
    OBVIOUS
  <2> QED
    BY <2>1, <2>2, FreshValues
<1>4. /\ Cap(ver[owner]) \in Nat /\ tail \in Nat /\ cachedHead \in Nat /\ OwnerInv
      /\ tail <= cachedHead + Cap(ver[owner])
  BY OwnerFacts
<1>5. newCap = 0
  BY <1>1, <1>4 DEF OwnerInv
<1>6. \/ place = "refresh"
      \/ place = "write" /\ tail + Len(Fresh(1)) <= cachedHead + Cap(ver[owner])
  <2>1. CASE tail - cachedHead >= Cap(ver[owner])
    BY <2>1
  <2>2. CASE ~(tail - cachedHead >= Cap(ver[owner]))
    <3>1. tail + 1 <= cachedHead + Cap(ver[owner])
      BY <1>4, <2>2
    <3> QED
      BY <1>2, <2>2, <3>1
  <2> QED
    BY <2>1, <2>2
<1> HIDE DEF place
<1>7. Len(Fresh(1)) \in SliceLens \union {1} /\ Len(Fresh(1)) > 0 /\ newCap' = 0 /\ newCap' \in Nat
  BY <1>1, <1>2, <1>5
<1> QED
  BY <1>1, <1>2, <1>3, <1>6, <1>7, PushOperations, BeginStep

LEMMA StartPushManyStep ==
    ASSUME IInv, NEW k \in SliceLens, StartPushMany(k) \/ StartPushManyUnchecked(k)
    PROVE  IInv'
<1> DEFINE place == IF tail - cachedHead + k > Cap(ver[owner]) THEN "refresh" ELSE "write"
<1>1. k \in Nat \ {0}
  BY LensAssumption
<1>2. /\ newCap' = newCap /\ pc[owner] = "idle" /\ issued + Len(Fresh(k)) <= MaxPushes
      /\ \/ Begin("pushMany", Fresh(k), place)
         \/ /\ tail + k <= cachedHead + Cap(ver[owner])
            /\ Begin("pushManyUnchecked", Fresh(k), "write")
  BY DEF StartPushMany, StartPushManyUnchecked, Begin, Start
<1>3. Len(Fresh(k)) = k
  BY <1>1 DEF Fresh
<1>4. Fresh(k) \in Seq(1 .. MaxPushes)
  <2>1. issued + k <= MaxPushes
    BY <1>2, <1>3, Zenon
  <2> QED
    BY <1>1, <2>1, FreshValues
<1>5. /\ Cap(ver[owner]) \in Nat /\ tail \in Nat /\ cachedHead \in Nat /\ OwnerInv
      /\ tail <= cachedHead + Cap(ver[owner])
  BY OwnerFacts
<1>6. newCap = 0
  BY <1>2, <1>5 DEF OwnerInv
<1>7. \/ place = "refresh"
      \/ place = "write" /\ tail + k <= cachedHead + Cap(ver[owner])
  <2>1. CASE tail - cachedHead + k > Cap(ver[owner])
    BY <2>1
  <2>2. CASE ~(tail - cachedHead + k > Cap(ver[owner]))
    <3>1. tail + k <= cachedHead + Cap(ver[owner])
      BY <1>1, <1>5, <2>2
    <3> QED
      BY <2>2, <3>1
  <2> QED
    BY <2>1, <2>2
<1> HIDE DEF place
<1>8. Len(Fresh(k)) \in SliceLens \union {1} /\ Len(Fresh(k)) > 0 /\ newCap' = 0 /\ newCap' \in Nat
  BY <1>1, <1>2, <1>3, <1>6
<1>9. CASE Begin("pushMany", Fresh(k), place)
  BY <1>3, <1>4, <1>7, <1>8, <1>9, PushOperations, BeginStep
<1>10. CASE Begin("pushManyUnchecked", Fresh(k), "write") /\ tail + k <= cachedHead + Cap(ver[owner])
  BY <1>3, <1>4, <1>8, <1>10, PushOperations, BeginStep
<1> QED
  BY <1>2, <1>9, <1>10

(* The values of the two slices, the left ones first.                        *)
LEMMA SwappedSlices ==
    ASSUME IInv, NEW k \in Nat \ {0}, NEW r \in 1 .. k, issued + k <= MaxPushes
    PROVE  /\ SubSeq(Fresh(k), r + 1, k) \o Fresh(r) \in Seq(1 .. MaxPushes)
           /\ Len(SubSeq(Fresh(k), r + 1, k) \o Fresh(r)) = k
<1>1. issued \in Nat /\ MaxPushes \in Nat
  BY BoundAssumption, OwnerFacts
<1>2. Fresh(k) \in Seq(1 .. MaxPushes) /\ Len(Fresh(k)) = k
  BY FreshValues
<1>3. Fresh(r) \in Seq(1 .. MaxPushes) /\ Len(Fresh(r)) = r
  <2>1. r \in Nat \ {0} /\ issued + r <= MaxPushes
    BY <1>1
  <2> QED
    BY <2>1, FreshValues
<1> DEFINE f == Fresh(k)
           g == Fresh(r)
           s == SubSeq(f, r + 1, k)
<1>4. \A i \in r + 1 .. k : i \in 1 .. k
  OBVIOUS
<1>5. ASSUME NEW S, NEW a \in Seq(S), Len(a) = k
      PROVE  SubSeq(a, r + 1, k) \in Seq(S) /\ Len(SubSeq(a, r + 1, k)) = k - r
  BY <1>4, <1>5
<1>6. s \in Seq(1 .. MaxPushes) /\ Len(s) = k - r
  BY <1>2, <1>5
<1> HIDE DEF s, g
<1>7. ASSUME NEW S, NEW a \in Seq(S), NEW b \in Seq(S)
      PROVE  a \o b \in Seq(S) /\ Len(a \o b) = Len(a) + Len(b)
  OBVIOUS
<1>8. g \in Seq(1 .. MaxPushes) /\ Len(g) = r
  BY <1>3 DEF g
<1>9. s \o g \in Seq(1 .. MaxPushes) /\ Len(s \o g) = (k - r) + r
  BY <1>6, <1>7, <1>8
<1>10. (k - r) + r = k
  OBVIOUS
<1> QED
  BY <1>9, <1>10 DEF s, g

LEMMA StartCopyAndCommitIfStep ==
    ASSUME IInv, NEW k \in SliceLens, NEW l \in 0 .. k - 1, StartCopyAndCommitIf(k - l, l)
    PROVE  IInv'
<1> DEFINE r == k - l
           values == SubSeq(Fresh(k), r + 1, k) \o Fresh(r)
<1>1. k \in Nat \ {0} /\ r + l = k /\ r \in 1 .. k
  BY LensAssumption
<1>2. /\ newCap' = newCap /\ pc[owner] = "idle" /\ issued + Len(values) <= MaxPushes
      /\ Begin("copyAndCommitIf", values, "write")
      /\ cachedHead = tail /\ k <= Cap(ver[owner])
  BY <1>1 DEF StartCopyAndCommitIf, Begin, Start
<1>3. /\ Cap(ver[owner]) \in Nat /\ tail \in Nat /\ cachedHead \in Nat /\ OwnerInv
      /\ issued \in Nat /\ MaxPushes \in Nat
  BY OwnerFacts, BoundAssumption
<1>4. newCap = 0
  BY <1>2, <1>3 DEF OwnerInv
<1>5. values \in Seq(1 .. MaxPushes) /\ Len(values) = k
  <2>1. Len(values) = k
    <3>1. Len(Fresh(k)) = k /\ Len(Fresh(r)) = r /\ Fresh(k) \in Seq(Int) /\ Fresh(r) \in Seq(Int)
      BY <1>1, <1>3 DEF Fresh
    <3> HIDE DEF r
    <3>2. Len(SubSeq(Fresh(k), r + 1, k)) = k - r /\ SubSeq(Fresh(k), r + 1, k) \in Seq(Int)
      BY <1>1, <3>1
    <3>3. Len(values) = (k - r) + r
      BY <3>1, <3>2
    <3> QED
      BY <1>1, <3>3
  <2>2. issued + k <= MaxPushes
    BY <1>2, <2>1, Zenon
  <2> QED
    BY <1>1, <2>1, <2>2, SwappedSlices
<1> HIDE DEF values
<1>6. tail + Len(values) <= cachedHead + Cap(ver[owner])
  BY <1>1, <1>2, <1>3, <1>5
<1>7. Len(values) \in SliceLens \union {1} /\ Len(values) > 0 /\ newCap' = 0 /\ newCap' \in Nat
  BY <1>1, <1>2, <1>4, <1>5
<1> QED
  BY <1>2, <1>5, <1>6, <1>7, PushOperations, BeginStep

LEMMA StartReserveStep == ASSUME IInv, NEW c \in Capacities, StartReserve(c) PROVE IInv'
<1>1. c > Cap(ver[owner]) /\ newCap' = c /\ Begin("reserve", <<>>, "grow")
  BY DEF StartReserve
<1>2. Cap(ver[owner]) \in Nat \ {0} /\ c \in Nat
  BY OwnerFacts, CapacityAssumption
<1>3. <<>> \in Seq(1 .. MaxPushes) /\ newCap' > 0 /\ newCap' \in Nat
  BY <1>1, <1>2
<1> QED
  BY <1>1, <1>3, PushOperations, BeginStep


LEMMA OwnerHistory ==
    ASSUME IInv, NEW label \in OwnerLabels, label # "popRead", NEW o \in Operations,
           NEW h \in Nat, NEW w \in Nat, NEW k \in Nat, Goes(owner, label, o, h, w, k),
           UNCHANGED <<head, delivered, log>>
    PROVE  HistoryInv'
<1>1. owner \in Threads /\ label \in Labels(owner) /\ ThreadsTyped
  BY OwnerFacts DEF Labels
<1>2. OthersStay(owner) /\ pc'[owner] = label
  BY <1>1, GoesTo
<1>3. pc'[owner] \notin Claiming /\ \A i \in 1 .. tail : log'[i] = log[i]
  BY <1>2 DEF Claiming, OwnerLabels
<1> QED
  BY <1>1, <1>2, <1>3, HistoryStays

LEMMA RefreshHeadStep == ASSUME IInv, RefreshHead PROVE IInv'
<1> DEFINE cap   == Cap(ver[owner])
           full  == IF op[owner] = "push" THEN head = cachedHead
                                          ELSE tail - head + Len(batch) > cap
           label == IF full THEN "grow" ELSE "write"
<1>1. /\ pc[owner] = "refresh" /\ cachedHead' = head
      /\ newCap' = (IF full THEN GreaterCapacity(cap) ELSE 0) /\ Goto(owner, label)
      /\ UNCHANGED <<tail, wordId, versions, lockVars, ver, loaded, copied, log>>
      /\ UNCHANGED <<head, delivered, op, from, want, n, batch, base, written, issued>>
  BY DEF RefreshHead, word, popping, history
<1>2. /\ ThreadsTyped /\ owner \in Threads /\ OwnerInv /\ IssuedInv /\ PushTyped
      /\ tail \in Nat /\ head \in Nat /\ cachedHead \in Nat /\ cachedHead <= head /\ head <= tail
      /\ from[owner] \in Nat /\ want[owner] \in Nat /\ n[owner] \in Nat /\ op[owner] \in Operations
      /\ cap \in Nat \ {0} /\ tail <= cachedHead + cap /\ Len(batch) \in Nat /\ head <= head
  BY OwnerFacts
<1>3. /\ newCap = 0 /\ written = 0 /\ base = tail /\ Len(batch) > 0
      /\ op[owner] = "push" => Len(batch) = 1
      /\ op[owner] # "copyAndCommitIf"
  BY <1>1, <1>2 DEF OwnerInv
<1>4. full => newCap' \in Nat /\ newCap' > 0
  <2>1. GreaterCapacity(cap) \in Nat /\ GreaterCapacity(cap) > cap
    BY <1>2, GreaterCapacityIsGreater
  <2> QED
    BY <1>1, <1>2, <2>1
<1>5. ~full => newCap' = 0 /\ tail + Len(batch) <= head + cap
  <2> SUFFICES ASSUME ~full PROVE newCap' = 0 /\ tail + Len(batch) <= head + cap
    OBVIOUS
  <2>1. CASE op[owner] = "push"
    <3>1. Len(batch) = 1 /\ head # cachedHead
      BY <1>3, <2>1
    <3>2. tail + 1 <= head + cap
      BY <1>2, <3>1
    <3> QED
      BY <1>1, <3>1, <3>2
  <2>2. CASE op[owner] # "push"
    BY <1>1, <1>2, <2>2
  <2> QED
    BY <2>1, <2>2
<1> HIDE DEF full
<1>6. /\ label \in {"grow", "write"} /\ label \in OwnerLabels
      /\ (label = "grow" => full) /\ (label = "write" => ~full)
  BY DEF OwnerLabels
<1> HIDE DEF label
<1>7. Goes(owner, label, op[owner], from[owner], want[owner], n[owner])
  BY <1>1, <1>2, Unmoved DEF Goes, Goto
<1>8. pc'[owner] = label
  BY <1>1, <1>2 DEF Goto, ThreadsTyped
<1>9. PushTyped'
  BY <1>1, <1>2, <1>4, <1>5 DEF PushTyped
<1>10. OwnerInv'
  <2>1. label = "write" => At' = ver[owner]
    BY <1>1, <1>5, <1>6 DEF At
  <2>2. tail <= head + cap
    BY <1>2
  <2>3. \A i \in 1 .. written' : Value(At, tail + i - 1)' = batch'[i]
    BY <1>1, <1>3
  <2>4. Cap(ver[owner])' = cap /\ (label = "write" => Cap(At)' = cap)
    BY <1>1, <2>1 DEF Cap
  <2> HIDE DEF cap
  <2> QED
    BY <1>1, <1>2, <1>3, <1>4, <1>5, <1>6, <1>8, <2>2, <2>3, <2>4 DEF OwnerInv
<1>11. IssuedInv'
  BY <1>1, <1>2 DEF IssuedInv
<1>12. HistoryInv'
  BY <1>1, <1>2, <1>6, <1>7, OwnerHistory
<1>13. DOMAIN delivered' \subseteq Nat /\ cachedHead' \in Nat /\ head' \in Nat /\ head <= head' /\ head' <= tail
  BY <1>1, <1>2, Invariants DEF SharedTyped
<1>14. ~Grew /\ (newCap' = 0 \/ label \notin {"swap", "write", "publish"})
       /\ pc[owner] # "swap" /\ label # "swap"
  BY <1>1, <1>3, <1>5, <1>6 DEF Grew
<1> QED
  BY <1>1, <1>2, <1>6, <1>7, <1>9, <1>10, <1>11, <1>12, <1>13, <1>14, OwnerAlone

LEMMA EnlargeStep == ASSUME IInv, Enlarge PROVE IInv'
<1>1. /\ pc[owner] = "grow" /\ newCap' = GreaterCapacity(newCap)
      /\ UNCHANGED <<tail, wordId, versions, lockVars, ver, loaded, copied, log>>
      /\ UNCHANGED <<head, cachedHead, delivered, pc, op, from, want, n>>
      /\ UNCHANGED <<batch, base, written, issued>>
  BY DEF Enlarge, word, popping, history
<1>2. /\ ThreadsTyped /\ owner \in Threads /\ OwnerInv /\ IssuedInv /\ PushTyped
      /\ tail \in Nat /\ head \in Nat /\ cachedHead \in Nat /\ head <= tail /\ head <= head
      /\ from[owner] \in Nat /\ want[owner] \in Nat /\ n[owner] \in Nat /\ op[owner] \in Operations
      /\ newCap \in Nat
  BY OwnerFacts
<1>3. newCap' \in Nat /\ newCap' > 0
  <2>1. GreaterCapacity(newCap) \in Nat /\ GreaterCapacity(newCap) > newCap
    BY <1>2, GreaterCapacityIsGreater
  <2> QED
    BY <1>1, <1>2, <2>1
<1>4. Goes(owner, "grow", op[owner], from[owner], want[owner], n[owner]) /\ "grow" \in OwnerLabels
  BY <1>1, <1>2, Unmoved DEF Goes, OwnerLabels
<1>5. PushTyped'
  BY <1>1, <1>2, <1>3 DEF PushTyped
<1>6. OwnerInv'
  <2>1. written = 0 /\ pc'[owner] = "grow" /\ ver'[owner] = ver[owner]
    BY <1>1, <1>2 DEF OwnerInv
  <2>2. \A i \in 1 .. written' : Value(At, tail + i - 1)' = batch'[i]
    BY <1>1, <2>1
  <2>3. Cap(ver[owner])' = Cap(ver[owner])
    BY <1>1 DEF Cap
  <2> QED
    BY <1>1, <1>2, <1>3, <2>1, <2>2, <2>3 DEF OwnerInv
<1>7. IssuedInv'
  BY <1>1, <1>2 DEF IssuedInv
<1>8. HistoryInv'
  BY <1>1, <1>2, <1>4, OwnerHistory
<1>9. DOMAIN delivered' \subseteq Nat /\ cachedHead' \in Nat /\ head' \in Nat /\ head <= head' /\ head' <= tail
  BY <1>1, <1>2, Invariants DEF SharedTyped
<1>10. ~Grew /\ pc[owner] # "swap"
  BY <1>1 DEF Grew
<1> QED
  BY <1>1, <1>2, <1>4, <1>5, <1>6, <1>7, <1>8, <1>9, <1>10, OwnerAlone

LEMMA ProducerLenStep == ASSUME IInv, ProducerLen PROVE IInv'
<1>1. /\ pc[owner] = "idle" /\ cachedHead' = head
      /\ UNCHANGED <<tail, wordId, versions, lockVars, ver, loaded, copied, log>>
      /\ UNCHANGED <<head, delivered, pc, op, from, want, n>>
      /\ UNCHANGED <<batch, base, written, newCap, issued>>
  BY DEF ProducerLen, word, popping, pushing, history
<1>2. /\ ThreadsTyped /\ owner \in Threads /\ OwnerInv /\ IssuedInv /\ PushTyped
      /\ tail \in Nat /\ head \in Nat /\ cachedHead \in Nat /\ cachedHead <= head
      /\ head <= tail /\ head <= head
      /\ from[owner] \in Nat /\ want[owner] \in Nat /\ n[owner] \in Nat /\ op[owner] \in Operations
      /\ Cap(ver[owner]) \in Nat \ {0} /\ tail <= cachedHead + Cap(ver[owner])
  BY OwnerFacts
<1>3. newCap = 0 /\ written = 0
  BY <1>1, <1>2 DEF OwnerInv
<1>4. Goes(owner, "idle", op[owner], from[owner], want[owner], n[owner]) /\ "idle" \in OwnerLabels
  BY <1>1, <1>2, Unmoved DEF Goes, OwnerLabels
<1>5. PushTyped'
  BY <1>1, <1>2 DEF PushTyped
<1>6. OwnerInv'
  <2>1. tail <= head + Cap(ver[owner])
    BY <1>2
  <2>2. \A i \in 1 .. written' : Value(At, tail + i - 1)' = batch'[i]
    BY <1>1, <1>3
  <2>3. Cap(ver[owner])' = Cap(ver[owner])
    BY <1>1 DEF Cap
  <2> QED
    BY <1>1, <1>2, <2>1, <2>2, <2>3 DEF OwnerInv
<1>7. IssuedInv'
  BY <1>1, <1>2 DEF IssuedInv
<1>8. HistoryInv'
  BY <1>1, <1>2, <1>4, OwnerHistory
<1>9. DOMAIN delivered' \subseteq Nat /\ cachedHead' \in Nat /\ head' \in Nat /\ head <= head' /\ head' <= tail
  BY <1>1, <1>2, Invariants DEF SharedTyped
<1>10. ~Grew /\ pc[owner] # "swap" /\ newCap' = 0
  BY <1>1, <1>3 DEF Grew
<1> QED
  BY <1>1, <1>2, <1>4, <1>5, <1>6, <1>7, <1>8, <1>9, <1>10, OwnerAlone

(* What a push leaves behind.                                                *)
LEMMA PushEnds ==
    ASSUME IInv, EndPush, issued' = issued
    PROVE  /\ Goes(owner, "idle", "none", from[owner], want[owner], n[owner])
           /\ pc'[owner] = "idle" /\ op'[owner] = "none" /\ from' = from /\ want' = want /\ n' = n
           /\ batch' = <<>> /\ base' = 0 /\ written' = 0 /\ newCap' = 0
           /\ UNCHANGED <<head, lockVars, cachedHead, loaded, copied, delivered>>
           /\ PushTyped' /\ Len(batch') = 0 /\ batch' \in Seq(1 .. MaxPushes)
           /\ "idle" \in OwnerLabels /\ "none" \in Operations
<1>1. ThreadsTyped /\ owner \in Threads /\ issued \in Nat
  BY OwnerFacts
<1>2. Goes(owner, "idle", "none", from[owner], want[owner], n[owner])
  BY <1>1, Unmoved DEF EndPush, Goes, Goto, popping
<1>3. pc'[owner] = "idle" /\ op'[owner] = "none"
  BY <1>1 DEF EndPush, Goto, ThreadsTyped
<1>4. /\ batch' = <<>> /\ base' = 0 /\ written' = 0 /\ newCap' = 0
      /\ UNCHANGED <<head, lockVars, cachedHead, loaded, copied, delivered, from, want, n>>
  BY DEF EndPush, popping
<1>5. <<>> \in Seq(Nat) /\ <<>> \in Seq(1 .. MaxPushes) /\ Len(<<>>) = 0
  OBVIOUS
<1>6. PushTyped'
  BY <1>1, <1>4, <1>5 DEF PushTyped
<1> QED
  BY <1>2, <1>3, <1>4, <1>5, <1>6 DEF OwnerLabels, Operations

LEMMA DoNotCommitStep == ASSUME IInv, DoNotCommit PROVE IInv'
<1>1. /\ pc[owner] = "publish" /\ op[owner] = "copyAndCommitIf"
      /\ UNCHANGED <<tail, wordId, ver, versions, log, issued>> /\ EndPush
  BY DEF DoNotCommit, EndPush, word
<1>2. /\ Goes(owner, "idle", "none", from[owner], want[owner], n[owner])
      /\ pc'[owner] = "idle" /\ op'[owner] = "none" /\ from' = from /\ n' = n
      /\ batch' = <<>> /\ base' = 0 /\ written' = 0 /\ newCap' = 0
      /\ UNCHANGED <<head, lockVars, cachedHead, loaded, copied, delivered>>
      /\ PushTyped' /\ Len(batch') = 0 /\ batch' \in Seq(1 .. MaxPushes)
      /\ "idle" \in OwnerLabels /\ "none" \in Operations
  BY <1>1, PushEnds
<1>3. /\ OwnerInv /\ IssuedInv
      /\ tail \in Nat /\ head \in Nat /\ cachedHead \in Nat /\ cachedHead <= head
      /\ head <= tail /\ head <= head /\ Len(batch) \in Nat /\ issued \in Nat
      /\ from[owner] \in Nat /\ want[owner] \in Nat /\ n[owner] \in Nat
      /\ tail <= cachedHead + Cap(ver[owner])
  BY OwnerFacts
<1>4. newCap = 0
  BY <1>1, <1>3 DEF OwnerInv
<1>5. OwnerInv'
  <2>1. Cap(ver[owner])' = Cap(ver[owner])
    BY <1>1 DEF Cap
  <2>2. \A i \in 1 .. written' : Value(At, tail + i - 1)' = batch'[i]
    BY <1>2
  <2> QED
    BY <1>1, <1>2, <1>3, <2>1, <2>2 DEF OwnerInv
<1>6. IssuedInv'
  <2>1. tail + Len(batch) <= issued /\ issued <= MaxPushes
    BY <1>3 DEF IssuedInv
  <2>2. tail + Len(batch') <= issued
    BY <1>2, <1>3, <2>1
  <2> QED
    BY <1>1, <1>2, <2>1, <2>2 DEF IssuedInv
<1>7. HistoryInv'
  BY <1>1, <1>2, <1>3, OwnerHistory
<1>8. DOMAIN delivered' \subseteq Nat /\ cachedHead' \in Nat /\ head' \in Nat /\ head <= head' /\ head' <= tail
  BY <1>2, <1>3, Invariants DEF SharedTyped
<1>9. ~Grew /\ pc[owner] # "swap"
  BY <1>1, <1>4 DEF Grew
<1> QED
  BY <1>1, <1>2, <1>3, <1>5, <1>6, <1>7, <1>8, <1>9, OwnerAlone


-----------------------------------------------------------------------------
(* The owner's pops *)

(* Before a claim, a pop of the owner leaves everything but its own locals   *)
(* and its copy of head alone.                                               *)
LEMMA OwnerAims ==
    ASSUME IInv, pc[owner] \in {"idle", "popRefresh", "popCas"},
           NEW label \in {"idle", "popRefresh", "popCas"}, NEW o \in Operations,
           o \notin {"push", "copyAndCommitIf"},
           NEW h \in Nat, NEW w \in Nat, NEW k \in Nat, Goes(owner, label, o, h, w, k),
           label \in {"popRefresh", "popCas"} => h <= head /\ h + k <= tail,
           UNCHANGED <<word, head, versions, lockVars, ver, loaded, copied, pushing, history>>,
           cachedHead' \in Nat, cachedHead <= cachedHead', cachedHead' <= head
    PROVE  IInv'
<1>1. /\ UNCHANGED <<tail, wordId, versions, lockVars, ver, loaded, copied, log>>
      /\ UNCHANGED <<head, delivered, batch, base, written, newCap, issued>>
  BY DEF word, pushing, history
<1>2. /\ ThreadsTyped /\ owner \in Threads /\ OwnerInv /\ IssuedInv /\ PushTyped
      /\ tail \in Nat /\ head \in Nat /\ cachedHead \in Nat /\ cachedHead <= head
      /\ head <= tail /\ head <= head /\ Cap(ver[owner]) \in Nat \ {0}
      /\ tail <= cachedHead + Cap(ver[owner])
  BY OwnerFacts
<1>3. newCap = 0 /\ written = 0 /\ batch = <<>>
  BY <1>2 DEF OwnerInv
<1>4. label \in OwnerLabels /\ label \in Labels(owner) /\ label # "popRead"
  BY DEF OwnerLabels, Labels
<1>5. pc'[owner] = label /\ op'[owner] = o /\ from'[owner] = h /\ n'[owner] = k
  BY <1>2, <1>4, GoesTo
<1>6. OwnerInv'
  <2>1. tail <= cachedHead' + Cap(ver[owner]) /\ Cap(ver[owner])' = Cap(ver[owner])
    BY <1>1, <1>2 DEF Cap
  <2>2. \A i \in 1 .. written' : Value(At, tail + i - 1)' = batch'[i]
    BY <1>1, <1>3
  <2> QED
    BY <1>1, <1>3, <1>5, <2>1, <2>2 DEF OwnerInv
<1>7. PushTyped' /\ IssuedInv'
  BY <1>1, <1>2 DEF PushTyped, IssuedInv
<1>8. HistoryInv'
  BY <1>1, <1>4, OwnerHistory
<1>9. DOMAIN delivered' \subseteq Nat /\ head' \in Nat /\ head <= head' /\ head' <= tail
  BY <1>1, <1>2, Invariants DEF SharedTyped
<1>10. ~Grew /\ pc[owner] # "swap" /\ label # "swap" /\ newCap' = 0
  BY <1>1, <1>3 DEF Grew
<1> QED
  BY <1>1, <1>4, <1>6, <1>7, <1>8, <1>9, <1>10, OwnerAlone

LEMMA SmallerIsBoth ==
    \A i, j \in Nat : Smaller(i, j) \in Nat /\ Smaller(i, j) <= i /\ Smaller(i, j) <= j
BY DEF Smaller

LEMMA AimStep ==
    ASSUME IInv, pc[owner] \in {"idle", "popRefresh", "popCas"},
           NEW o \in Operations, o \notin {"push", "copyAndCommitIf"}, op' = [op EXCEPT ![owner] = o],
           NEW h \in Nat, h <= head, NEW w \in Nat, want' = [want EXCEPT ![owner] = w], Aim(h, w),
           UNCHANGED <<word, head, versions, lockVars, cachedHead, ver, loaded, copied, pushing,
                       history>>
    PROVE  IInv'
<1> DEFINE k == Smaller(w, tail - h)
           label == IF k = 0 THEN "popRefresh" ELSE "popCas"
<1>1. /\ ThreadsTyped /\ owner \in Threads /\ tail \in Nat /\ head \in Nat /\ cachedHead \in Nat
      /\ cachedHead <= head /\ head <= tail
  BY OwnerFacts
<1>2. tail - h \in Nat
  BY <1>1
<1>3. k \in Nat /\ k <= tail - h
  BY <1>2, SmallerIsBoth
<1>4. h + k <= tail
  BY <1>1, <1>3
<1>5. n' = [n EXCEPT ![owner] = k] /\ n'[owner] = k
  BY <1>1 DEF Aim, ThreadsTyped
<1>6. Goes(owner, label, o, h, w, k)
  BY <1>5 DEF Goes, Aim, Goto
<1>7. label \in {"idle", "popRefresh", "popCas"} /\ cachedHead' \in Nat /\ cachedHead' <= head
      /\ cachedHead <= cachedHead'
  BY <1>1
<1>8. UNCHANGED <<word, head, versions, lockVars, ver, loaded, copied, pushing, history>>
  OBVIOUS
<1> HIDE DEF k, label
<1> QED
  BY <1>3, <1>4, <1>6, <1>7, <1>8, OwnerAims

(* The operation of a pop is none of the pushes'.                            *)
LEMMA PopsDoNotPush ==
    ASSUME IInv, pc[owner] \in {"popRefresh", "popCas", "popRead"}
    PROVE  op[owner] \in Operations /\ op[owner] \notin {"push", "copyAndCommitIf"}
<1>1. OwnerInv /\ op[owner] \in Operations /\ batch \in Seq(Nat)
  BY OwnerFacts
<1>2. batch = <<>> /\ Len(<<>>) = 0
  BY <1>1 DEF OwnerInv
<1> QED
  BY <1>1, <1>2 DEF OwnerInv

LEMMA StartProducerPopStep ==
    ASSUME IInv, NEW k \in Nat, NEW o \in {"pop", "popMany"}, StartProducerPop(o, k) PROVE IInv'
<1>1. /\ UNCHANGED <<word, head, versions, lockVars, cachedHead, ver, loaded, copied, pushing,
                     history>>
      /\ pc[owner] = "idle" /\ op' = [op EXCEPT ![owner] = o]
      /\ want' = [want EXCEPT ![owner] = k] /\ Aim(cachedHead, k)
  BY DEF StartProducerPop, Start
<1>2. cachedHead \in Nat /\ cachedHead <= head /\ o \in Operations /\ o \notin {"push", "copyAndCommitIf"}
  BY OwnerFacts DEF Operations
<1> QED
  BY <1>1, <1>2, AimStep

LEMMA PopMissStep == ASSUME IInv, PopMiss PROVE IInv'
<1>1. /\ UNCHANGED <<word, head, versions, lockVars, cachedHead, ver, loaded, copied, pushing,
                     history>>
      /\ UNCHANGED <<op, want>>
      /\ pc[owner] = "popCas" /\ Aim(head, want[owner])
  BY DEF PopMiss
<1>2. /\ want[owner] \in Nat /\ head \in Nat /\ head <= head
      /\ want' = [want EXCEPT ![owner] = want[owner]] /\ op' = [op EXCEPT ![owner] = op[owner]]
  BY <1>1, OwnerFacts, Unmoved
<1> QED
  BY <1>1, <1>2, PopsDoNotPush, AimStep

LEMMA PopRefreshStep == ASSUME IInv, PopRefresh PROVE IInv'
<1>1. /\ UNCHANGED <<word, head, versions, lockVars, ver, loaded, copied, pushing, history>>
      /\ pc[owner] = "popRefresh" /\ cachedHead' = head
  BY DEF PopRefresh
<1>2. /\ ThreadsTyped /\ owner \in Threads /\ tail \in Nat /\ head \in Nat /\ head <= tail
      /\ want[owner] \in Nat /\ cachedHead <= head /\ head <= head
  BY OwnerFacts
<1>3. cachedHead' \in Nat /\ cachedHead <= cachedHead' /\ cachedHead' <= head
  BY <1>1, <1>2
<1>4. CASE head = from[owner]
  <2>1. Goes(owner, "idle", "none", 0, 0, 0)
    BY <1>4 DEF PopRefresh, EndPop, Goes, Goto
  <2>2. "none" \in Operations /\ "none" \notin {"push", "copyAndCommitIf"} /\ 0 \in Nat
    BY DEF Operations
  <2> QED
    BY <1>1, <1>3, <2>1, <2>2, OwnerAims
<1>5. CASE head # from[owner]
  <2> DEFINE k == Smaller(want[owner], tail - head)
  <2>1. tail - head \in Nat
    BY <1>2
  <2>2. k \in Nat /\ k <= tail - head
    BY <1>2, <2>1, SmallerIsBoth
  <2>3. head + k <= tail
    BY <1>2, <2>2
  <2>4. Goes(owner, "popCas", op[owner], head, want[owner], k)
    BY <1>2, <1>5, Unmoved DEF PopRefresh, Goes, Goto
  <2> HIDE DEF k
  <2> QED
    BY <1>1, <1>2, <1>3, <2>2, <2>3, <2>4, PopsDoNotPush, OwnerAims
<1> QED
  BY <1>4, <1>5

LEMMA PopCasStep == ASSUME IInv, PopCas PROVE IInv'
<1> DEFINE k == n[owner]
<1>1. /\ UNCHANGED <<tail, wordId, versions, lockVars, ver, loaded, copied, log>>
      /\ UNCHANGED <<delivered, op, from, want, n, batch, base, written, newCap, issued>>
      /\ pc[owner] = "popCas" /\ head = from[owner] /\ head' = head + k
      /\ cachedHead' = (IF op[owner] = "pop" THEN head' ELSE cachedHead)
      /\ Goto(owner, "popRead")
  BY DEF PopCas, word, popping, pushing, history
<1>2. /\ ThreadsTyped /\ owner \in Threads /\ OwnerInv /\ IssuedInv /\ PushTyped
      /\ tail \in Nat /\ head \in Nat /\ cachedHead \in Nat /\ cachedHead <= head /\ head <= tail
      /\ from[owner] \in Nat /\ want[owner] \in Nat /\ k \in Nat /\ op[owner] \in Operations
      /\ Cap(ver[owner]) \in Nat \ {0} /\ tail <= cachedHead + Cap(ver[owner])
  BY OwnerFacts
<1>3. op[owner] \notin {"push", "copyAndCommitIf"}
  BY <1>1, PopsDoNotPush
<1>4. head + k <= tail /\ newCap = 0 /\ written = 0 /\ batch = <<>>
  BY <1>1, <1>2 DEF OwnerInv
<1>5. Goes(owner, "popRead", op[owner], from[owner], want[owner], k)
  BY <1>1, <1>2, Unmoved DEF Goes, Goto
<1>6. "popRead" \in OwnerLabels /\ "popRead" \in Labels(owner)
  BY DEF OwnerLabels, Labels
<1>7. OthersStay(owner) /\ pc'[owner] = "popRead" /\ from'[owner] = head /\ n'[owner] = k
      /\ op'[owner] = op[owner]
  BY <1>1, <1>2, <1>5, <1>6, GoesTo
<1>8. HasValues(ver[owner], head, tail)
  BY Versions, Invariants DEF RingInv
<1> HIDE DEF k
<1>9. /\ head' \in Nat /\ head <= head' /\ head' <= tail /\ cachedHead' \in Nat
      /\ cachedHead <= cachedHead' /\ cachedHead' <= head'
  BY <1>1, <1>2, <1>4
<1>10. OwnerInv'
  <2>1. \A t \in head .. head + k - 1 : t \in head .. tail - 1
    BY <1>2, <1>4
  <2>2. \A t \in head .. head + k - 1 : Value(ver[owner], t) = log[t + 1]
    BY <1>8, <2>1 DEF HasValues
  <2>3. HasValues(ver[owner], from[owner], from[owner] + n[owner])'
    <3>1. (head + k) - 1 = head + k - 1
      BY <1>2
    <3> QED
      BY <1>1, <1>7, <2>2, <3>1 DEF HasValues, Value, Cap
  <2>4. from'[owner] + n'[owner] <= head'
    BY <1>1, <1>2, <1>7, <1>9
  <2>5. tail <= cachedHead' + Cap(ver[owner]) /\ Cap(ver[owner])' = Cap(ver[owner])
    BY <1>1, <1>2, <1>9 DEF Cap
  <2>6. \A i \in 1 .. written' : Value(At, tail + i - 1)' = batch'[i]
    BY <1>1, <1>4
  <2> QED
    BY <1>1, <1>3, <1>4, <1>7, <1>9, <2>3, <2>4, <2>5, <2>6 DEF OwnerInv
<1>11. PushTyped' /\ IssuedInv'
  BY <1>1, <1>2 DEF PushTyped, IssuedInv
<1>12. HistoryInv'
  <2>1. Claims(owner)' = head .. head + k - 1
    BY <1>7, ClaimedTickets DEF Claims, Claiming
  <2> QED
    BY <1>1, <1>2, <1>7, <2>1, HistoryClaims
<1>13. DOMAIN delivered' \subseteq Nat
  BY <1>1, Invariants DEF SharedTyped
<1>14. ~Grew /\ newCap' = 0 /\ pc[owner] # "swap"
  BY <1>1, <1>4 DEF Grew
<1> QED
  BY <1>1, <1>2, <1>5, <1>6, <1>9, <1>10, <1>11, <1>12, <1>13, <1>14, OwnerAlone

(* What the owner delivers: the values pushed with the tickets it claimed.   *)
LEMMA PopReadDelivers ==
    ASSUME IInv, PopRead
    PROVE  /\ Claims(owner) = from[owner] .. from[owner] + n[owner] - 1 /\ Claims(owner) \subseteq Nat
           /\ delivered' = [t \in DOMAIN delivered \union Claims(owner) |->
                              IF t \in Claims(owner) THEN log[t + 1] ELSE delivered[t]]
<1> DEFINE h == from[owner]
           k == n[owner]
           f == [t \in h .. h + k - 1 |-> Value(ver[owner], t)]
<1>1. pc[owner] = "popRead" /\ Delivers(f)
  BY DEF PopRead
<1>2. h \in Nat /\ k \in Nat /\ OwnerInv
  BY OwnerFacts
<1>3. HasValues(ver[owner], h, h + k)
  BY <1>1, <1>2 DEF OwnerInv
<1>4. Claims(owner) = h .. h + k - 1
  BY <1>1, ClaimedTickets DEF Claims, Claiming
<1>5. DOMAIN f = Claims(owner) /\ Claims(owner) \subseteq Nat
  BY <1>2, <1>4
<1>6. \A t \in Claims(owner) : f[t] = log[t + 1]
  BY <1>2, <1>3, <1>4 DEF HasValues
<1> HIDE DEF f
<1>7. delivered' = [t \in DOMAIN delivered \union Claims(owner) |->
                      IF t \in Claims(owner) THEN f[t] ELSE delivered[t]]
  BY <1>1, <1>5 DEF Delivers
<1> QED
  BY <1>4, <1>5, <1>6, <1>7

LEMMA PopReadStep == ASSUME IInv, PopRead PROVE IInv'
<1>1. /\ UNCHANGED <<tail, wordId, versions, lockVars, ver, loaded, copied, log>>
      /\ UNCHANGED <<head, cachedHead, batch, base, written, newCap, issued>>
      /\ pc[owner] = "popRead" /\ EndPop(owner)
  BY DEF PopRead, word, pushing
<1>2. /\ ThreadsTyped /\ owner \in Threads /\ OwnerInv /\ IssuedInv /\ PushTyped
      /\ tail \in Nat /\ head \in Nat /\ cachedHead \in Nat /\ cachedHead <= head /\ head <= tail
      /\ head <= head /\ Cap(ver[owner]) \in Nat \ {0} /\ tail <= cachedHead + Cap(ver[owner])
  BY OwnerFacts
<1>3. newCap = 0 /\ written = 0 /\ batch = <<>>
  BY <1>1, <1>2 DEF OwnerInv
<1>4. /\ Claims(owner) \subseteq Nat /\ DOMAIN delivered' = DOMAIN delivered \union Claims(owner)
      /\ \A t \in Claims(owner) : delivered'[t] = log[t + 1]
      /\ \A t \in DOMAIN delivered : t \notin Claims(owner) => delivered'[t] = delivered[t]
  BY PopReadDelivers
<1>5. Goes(owner, "idle", "none", 0, 0, 0)
  BY <1>1 DEF EndPop, Goes, Goto
<1>6. "idle" \in OwnerLabels /\ "idle" \in Labels(owner) /\ "none" \in Operations /\ 0 \in Nat
  BY DEF OwnerLabels, Labels, Operations
<1>7. OthersStay(owner) /\ pc'[owner] = "idle" /\ op'[owner] = "none"
  BY <1>2, <1>5, <1>6, GoesTo
<1>8. OwnerInv'
  <2>1. Cap(ver[owner])' = Cap(ver[owner])
    BY <1>1 DEF Cap
  <2>2. \A i \in 1 .. written' : Value(At, tail + i - 1)' = batch'[i]
    BY <1>1, <1>3
  <2> QED
    BY <1>1, <1>2, <1>3, <1>7, <2>1, <2>2 DEF OwnerInv
<1>9. PushTyped' /\ IssuedInv'
  BY <1>1, <1>2 DEF PushTyped, IssuedInv
<1>10. HistoryInv'
  <2>1. pc'[owner] \notin Claiming
    BY <1>7 DEF Claiming
  <2> QED
    BY <1>1, <1>2, <1>4, <1>7, <2>1, HistoryDelivers
<1>11. DOMAIN delivered' \subseteq Nat /\ cachedHead' \in Nat /\ head' \in Nat /\ head <= head' /\ head' <= tail
  BY <1>1, <1>2, <1>4, Invariants DEF SharedTyped
<1>12. ~Grew /\ newCap' = 0 /\ pc[owner] # "swap"
  BY <1>1, <1>3 DEF Grew
<1> QED
  BY <1>1, <1>5, <1>6, <1>8, <1>9, <1>10, <1>11, <1>12, OwnerAlone

-----------------------------------------------------------------------------
(* The growth: a larger version that nobody but the owner knows              *)

LEMMA GrowStep == ASSUME IInv, Grow PROVE IInv'
<1> DEFINE last  == ver[owner]
           new   == last + 1
           cap   == Cap(last)
           grown == Grown(versions[last].buffer, cap, cachedHead, tail, newCap)
<1>1. /\ pc[owner] = "grow" /\ newCap > cap + Len(batch) /\ Goto(owner, "swap")
      /\ versions' = [v \in DOMAIN versions \union {new} |->
                        IF v \in DOMAIN versions THEN versions[v]
                        ELSE [cap |-> newCap, buffer |-> grown, refs |-> 2]]
      /\ base' = GrownTail(cap, cachedHead, tail)
      /\ UNCHANGED <<tail, wordId, lockVars, ver, loaded, copied, log>>
      /\ UNCHANGED <<head, cachedHead, delivered, op, from, want, n>>
      /\ UNCHANGED <<batch, written, newCap, issued>>
  BY DEF Grow, word, popping, history, Cap
<1>2. /\ ThreadsTyped /\ owner \in Threads /\ OwnerInv /\ IssuedInv /\ PushTyped
      /\ tail \in Nat /\ head \in Nat /\ cachedHead \in Nat /\ cachedHead <= head
      /\ head <= tail /\ head <= head
      /\ from[owner] \in Nat /\ want[owner] \in Nat /\ n[owner] \in Nat /\ op[owner] \in Operations
      /\ cap \in Nat \ {0} /\ tail <= cachedHead + cap /\ Len(batch) \in Nat /\ newCap \in Nat
  BY OwnerFacts
<1>3. /\ newCap > 0 /\ written = 0 /\ base = tail
      /\ op[owner] = "push" => Len(batch) = 1
      /\ op[owner] # "copyAndCommitIf"
  BY <1>1, <1>2 DEF OwnerInv
<1>4. /\ cachedHead <= tail /\ newCap \in Nat \ {0} /\ cap <= newCap
      /\ tail + Len(batch) <= cachedHead + newCap
  BY <1>1, <1>2, <1>3
<1>5. Goes(owner, "swap", op[owner], from[owner], want[owner], n[owner])
      /\ "swap" \in OwnerLabels /\ pc'[owner] = "swap"
  BY <1>1, <1>2, Unmoved DEF Goes, Goto, OwnerLabels, ThreadsTyped
<1>6. cell' = cell /\ lpc' = lpc /\ lpc[owner] = "out"
  BY <1>1, Invariants DEF lockVars, PlacesInv
<1>7. /\ last \in Nat /\ wordId = last /\ DOMAIN versions = 0 .. last /\ Newest = last
      /\ \A c \in Consumers : ver[c] <= last
      /\ cell = last /\ Grew' /\ Newest' = last
  <2>1. ~Grew /\ ~Swapped /\ Grew' /\ ~Swapped'
    BY <1>1, <1>3, <1>5, <1>6 DEF Grew, Swapped
  <2>2. Newest = last /\ Newest' = last
    BY <1>1, <2>1 DEF Newest
  <2>3. VersionInv
    BY Invariants
  <2> QED
    BY <1>6, <2>1, <2>2, <2>3, Versions DEF VersionInv
<1>8. \A v \in 0 .. last : v # new
  BY <1>7
<1>9. /\ DOMAIN versions' = 0 .. new /\ new \in 0 .. new
      /\ \A v \in 0 .. last : versions'[v] = versions[v] /\ Cap(v)' = Cap(v)
      /\ versions'[new] = [cap |-> newCap, buffer |-> grown, refs |-> 2]
      /\ versions' = [v \in DOMAIN versions' |-> versions'[v]]
  <2>1. 0 .. last \union {new} = 0 .. new /\ new \in 0 .. new
    BY <1>7
  <2> HIDE DEF new, grown
  <2>2. /\ DOMAIN versions' = 0 .. new
        /\ versions' = [v \in DOMAIN versions' |-> versions'[v]]
        /\ \A v \in 0 .. last : versions'[v] = versions[v]
        /\ versions'[new] = [cap |-> newCap, buffer |-> grown, refs |-> 2]
    BY <1>1, <1>7, <1>8, <2>1
  <2> QED
    BY <2>1, <2>2 DEF Cap
<1>10. \A v \in 0 .. new : v = new \/ v \in 0 .. last
  BY <1>7
<1>11. base' = tail
  BY <1>1, <1>2, <1>3, <1>4, GrowthKeepsTail
<1>12. versions[last].buffer \in [0 .. cap - 1 -> Nat \union {Empty}]
  BY Invariants, Versions, VersionFacts
<1>13. grown \in [0 .. newCap - 1 -> Nat \union {Empty}]
  BY <1>2, <1>4, <1>12, GrownType
<1>14. \A t \in cachedHead .. tail - 1 :
         grown[PhysicalIndex(t, newCap)] = versions[last].buffer[PhysicalIndex(t, cap)]
  BY <1>2, <1>4, GrowthKeepsValues
<1>15. Cap(new)' = newCap /\ \A t : Value(new, t)' = grown[PhysicalIndex(t, newCap)]
  <2>1. new' = new
    BY <1>1
  <2> HIDE DEF new, grown
  <2> QED
    BY <1>9, <2>1 DEF Cap, Value
<1>16. \A v \in 0 .. last : \A t : Value(v, t)' = Value(v, t)
  BY <1>9 DEF Value
<1>17. Cap(last)' = cap /\ new' = new /\ last' = last
  BY <1>1, <1>7, <1>9 DEF Cap
<1> HIDE DEF new, grown, cap
<1>18. VersionsTyped'
  <2>1. ASSUME NEW v \in 0 .. new
        PROVE  versions'[v] \in [cap : Nat \ {0}, refs : Nat,
                                 buffer : [0 .. Cap(v)' - 1 -> Nat \union {Empty}]]
    <3>1. CASE v = new
      <4>1. versions'[v] = [cap |-> newCap, buffer |-> grown, refs |-> 2] /\ Cap(v)' = newCap
        BY <1>9, <3>1 DEF Cap
      <4> QED
        BY <1>4, <1>13, <4>1
    <3>2. CASE v \in 0 .. last
      BY <1>7, <1>9, <3>2, Invariants DEF VersionsTyped
    <3> QED
      BY <1>10, <2>1, <3>1, <3>2
  <2> QED
    BY <1>9, <2>1 DEF VersionsTyped
<1>19. VersionInv'
  BY <1>1, <1>5, <1>6, <1>7, <1>9 DEF VersionInv, new
<1>20. VersionsAreHeld'
  <2>1. \A t \in Threads : ver[t] <= last /\ ver[t] \in Nat
    BY <1>7, VersionOf, ThreadsAssumption
  <2>2. ASSUME NEW v \in 0 .. new PROVE versions'[v].refs = Holders(v)'
    <3>1. Holders(v)' = Cardinality(Handles(v))
                          + (IF cell = v \/ (cell = Moved /\ v = last) THEN 1 ELSE 0)
                          + (IF newCap # 0 /\ v = new THEN (IF cell = v THEN 1 ELSE 2) ELSE 0)
      BY <1>1, <1>6 DEF Holders, Handles, new
    <3>2. CASE v = new
      <4>1. Handles(v) = {} /\ cell # v /\ v # last
        BY <1>7, <2>1, <3>2 DEF Handles, new
      <4>2. Cardinality(Handles(v)) = 0
        BY <4>1, FS_EmptySet
      <4>3. Holders(v)' = 2
        BY <1>3, <3>1, <3>2, <4>1, <4>2
      <4> QED
        BY <1>9, <3>2, <4>3
    <3>3. CASE v \in 0 .. last
      <4>1. v # new
        BY <1>8, <3>3
      <4>2. Holders(v)' = Holders(v)
        BY <3>1, <4>1 DEF Holders, Handles, new
      <4>3. versions[v].refs = Holders(v)
        BY <1>7, <3>3, Invariants DEF VersionsAreHeld
      <4> QED
        BY <1>9, <3>3, <4>2, <4>3
    <3> QED
      BY <1>10, <2>2, <3>2, <3>3
  <2> QED
    BY <1>9, <2>2 DEF VersionsAreHeld
<1>21. RingInv'
  <2>1. HasValues(last, head, tail)
    BY <1>7, Versions, Invariants DEF RingInv
  <2>2. ASSUME NEW v \in 0 .. new, v >= last PROVE HasValues(v, head, tail)'
    <3>1. CASE v = new
      <4>1. ASSUME NEW t \in head .. tail - 1 PROVE Value(v, t)' = log[t + 1]
        <5>1. t \in cachedHead .. tail - 1
          BY <1>2
        <5>2. Value(new, t)' = Value(last, t)
          BY <1>14, <1>15, <5>1 DEF Value, cap
        <5>3. Value(v, t)' = Value(new, t)'
          BY <1>17, <3>1 DEF Value, Cap
        <5> QED
          BY <2>1, <5>2, <5>3 DEF HasValues
      <4> QED
        BY <1>1, <4>1 DEF HasValues, Value
    <3>2. CASE v \in 0 .. last
      <4>1. v = last
        BY <1>7, <2>2, <3>2
      <4>2. \A t : Value(v, t)' = Value(v, t)
        BY <1>16, <3>2
      <4> QED
        BY <1>1, <2>1, <4>1, <4>2 DEF HasValues, Value
    <3> QED
      BY <1>10, <2>2, <3>1, <3>2
  <2>3. Len(log') = tail' /\ head' <= tail'
    BY <1>1, <1>2, Counters
  <2> QED
    BY <1>1, <1>7, <1>9, <2>2, <2>3 DEF RingInv
<1>22. OwnerInv'
  <2>1. At' = new
    BY <1>1, <1>3, <1>17 DEF At, new
  <2>2. Cap(At)' = newCap
    <3>1. Cap(At)' = Cap(new)'
      BY <1>17, <2>1 DEF Cap
    <3> QED
      BY <1>15, <3>1
  <2>3. Cap(ver[owner])' = cap
    BY <1>17
  <2>4. \A i \in 1 .. written' : Value(At, tail + i - 1)' = batch'[i]
    BY <1>1, <1>3
  <2> QED
    BY <1>1, <1>2, <1>3, <1>4, <1>5, <1>11, <2>2, <2>3, <2>4 DEF OwnerInv
<1>23. IssuedInv' /\ PushTyped' /\ SharedTyped' /\ HistoryInv'
  <2>1. IssuedInv'
    BY <1>1, <1>2 DEF IssuedInv
  <2>2. PushTyped'
    BY <1>1, <1>2, <1>11 DEF PushTyped
  <2>3. SharedTyped'
    BY <1>1, Invariants DEF SharedTyped
  <2>4. HistoryInv'
    BY <1>1, <1>2, <1>5, OwnerHistory
  <2> QED
    BY <2>1, <2>2, <2>3, <2>4
<1>24. ver' \in [Threads -> DOMAIN versions']
  <2>1. DOMAIN versions \subseteq DOMAIN versions'
    BY <1>7, <1>9, <1>10, <1>1
  <2>2. ver \in [Threads -> DOMAIN versions]
    BY Invariants
  <2> QED
    BY <1>1, <2>1, <2>2
<1>25. \A c \in Consumers : \A t \in head .. tail - 1 : Value(ver[c], t)' = Value(ver[c], t)
  <2> SUFFICES ASSUME NEW c \in Consumers, NEW t \in head .. tail - 1
               PROVE  Value(ver[c], t)' = Value(ver[c], t)
    OBVIOUS
  <2>1. ver[c] \in 0 .. last /\ ver'[c] = ver[c]
    BY <1>1, <1>7, Members, VersionOf
  <2>2. versions'[ver[c]] = versions[ver[c]]
    BY <1>9, <2>1
  <2> QED
    BY <2>1, <2>2 DEF Value, Cap
<1>26. /\ \A c \in Consumers : lpc'[c] = lpc[c] /\ ver'[c] = ver[c]
       /\ lpc'[owner] \in {"out", "writing", "replacing", "replaced"}
       /\ head <= head' /\ tail <= tail' /\ [LockNext]_lockVars
       /\ \A i \in 1 .. tail : log'[i] = log[i]
  BY <1>1, <1>2, <1>6
<1> QED
  BY <1>1, <1>2, <1>5, <1>18, <1>19, <1>20, <1>21, <1>22, <1>23, <1>24, <1>25, <1>26, OwnerMoves

-----------------------------------------------------------------------------
(* last_version.swap *)

LEMMA SwapFacts ==
    ASSUME IInv, pc[owner] = "swap"
    PROVE  /\ newCap > 0 /\ newCap \in Nat /\ written = 0 /\ base = tail /\ Grew
           /\ op[owner] # "copyAndCommitIf" /\ At = ver[owner] + 1 /\ At \in DOMAIN versions
           /\ ver[owner] \in Nat /\ cell = (IF lpc[owner] = "replacing" THEN Moved ELSE Newest)
           /\ Swapped <=> lpc[owner] = "replaced"
<1>1. newCap > 0 /\ newCap \in Nat /\ written = 0 /\ base = tail /\ op[owner] # "copyAndCommitIf"
  BY OwnerFacts DEF OwnerInv
<1>2. Grew /\ At = ver[owner] + 1 /\ At \in DOMAIN versions
  BY <1>1, PushVersion DEF Grew
<1>3. ver[owner] \in Nat /\ cell = (IF lpc[owner] = "replacing" THEN Moved ELSE Newest)
  BY Versions, Invariants DEF VersionInv
<1> QED
  BY <1>1, <1>2, <1>3 DEF Swapped

(* What every step of the swap has in common.                                *)
LEMMA SwapMoves ==
    ASSUME IInv, NEW ACTION lockStep, SwapStep(lockStep), LockNext,
           NEW label \in {"swap", "write", "publish"}, Goto(owner, label),
           NEW place \in {"out", "writing", "replacing", "replaced"},
           label # "swap" => place = "out", lpc' = [lpc EXCEPT ![owner] = place],
           label = "write" => Len(batch) > 0, label = "publish" => Len(batch) = 0,
           VersionsTyped', VersionsAreHeld', VersionInv', DOMAIN versions' = DOMAIN versions,
           Spared,
           \A c \in Consumers : Cap(ver[c])' = Cap(ver[c])
                                /\ versions'[ver[c]].buffer = versions[ver[c]].buffer
    PROVE  IInv'
<1>1. /\ pc[owner] = "swap"
      /\ UNCHANGED <<tail, wordId, head, cachedHead, ver, op, from, want, n, loaded, copied>>
      /\ UNCHANGED <<batch, base, written, newCap, issued, log, delivered>>
  BY DEF SwapStep, word, popping, pushing, history
<1>2. /\ ThreadsTyped /\ owner \in Threads /\ OwnerInv /\ IssuedInv /\ PushTyped
      /\ tail \in Nat /\ head \in Nat /\ cachedHead \in Nat /\ cachedHead <= head
      /\ head <= tail /\ head <= head
      /\ from[owner] \in Nat /\ want[owner] \in Nat /\ n[owner] \in Nat /\ op[owner] \in Operations
      /\ Cap(ver[owner]) \in Nat \ {0} /\ tail <= cachedHead + Cap(ver[owner])
  BY OwnerFacts
<1>3. /\ newCap > 0 /\ written = 0 /\ base = tail /\ op[owner] # "copyAndCommitIf"
      /\ At \in DOMAIN versions /\ At = ver[owner] + 1 /\ ver[owner] \in Nat
  BY <1>1, SwapFacts
<1>4. Goes(owner, label, op[owner], from[owner], want[owner], n[owner])
      /\ label \in OwnerLabels /\ pc'[owner] = label
  BY <1>1, <1>2, Unmoved DEF Goes, Goto, OwnerLabels, ThreadsTyped
<1>5. lpc'[owner] = place /\ \A c \in Consumers : lpc'[c] = lpc[c]
  BY <1>2, Members, Invariants DEF LockTypeOK
<1>6. RingInv'
  <2>1. head' \in Nat /\ head <= head' /\ head' <= tail
    BY <1>1, <1>2
  <2> QED
    BY <1>1, <2>1, RingStays
<1>7. OwnerInv'
  <2>1. At' = At
    BY <1>1 DEF At
  <2>2. Cap(ver[owner])' = Cap(ver[owner]) /\ Cap(At)' = Cap(At)
    <3>1. /\ versions'[ver[owner]].cap = versions[ver[owner]].cap
          /\ versions'[At].cap = versions[At].cap
      BY <1>3, Versions DEF Spared, Cap
    <3> QED
      BY <1>1, <2>1, <3>1 DEF Cap
  <2>3. \A i \in 1 .. written' : Value(At, tail + i - 1)' = batch'[i]
    BY <1>1, <1>3
  <2> QED
    BY <1>1, <1>2, <1>3, <1>4, <2>2, <2>3 DEF OwnerInv
<1>8. IssuedInv' /\ PushTyped' /\ SharedTyped' /\ HistoryInv'
  <2>1. IssuedInv'
    BY <1>1, <1>2 DEF IssuedInv
  <2>2. PushTyped'
    BY <1>1, <1>2 DEF PushTyped
  <2>3. SharedTyped'
    BY <1>1, Invariants DEF SharedTyped
  <2>4. HistoryInv'
    BY <1>1, <1>2, <1>4, OwnerHistory
  <2> QED
    BY <2>1, <2>2, <2>3, <2>4
<1>9. ver' \in [Threads -> DOMAIN versions']
  BY <1>1, Invariants
<1>10. \A c \in Consumers : \A t \in head .. tail - 1 : Value(ver[c], t)' = Value(ver[c], t)
  BY <1>1 DEF Value
<1>11. /\ \A c \in Consumers : ver'[c] = ver[c]
       /\ head <= head' /\ tail <= tail' /\ [LockNext]_lockVars
       /\ \A i \in 1 .. tail : log'[i] = log[i]
  BY <1>1, <1>2
<1> QED
  BY <1>1, <1>2, <1>4, <1>5, <1>6, <1>7, <1>8, <1>9, <1>10, <1>11, OwnerMoves

(* ... and those that do not drop the old version.                           *)
LEMMA SwapKeeps ==
    ASSUME IInv, NEW ACTION lockStep, SwapStep(lockStep), LockNext,
           NEW label \in {"swap", "write", "publish"}, Goto(owner, label),
           NEW place \in {"out", "writing", "replacing"}, lpc' = [lpc EXCEPT ![owner] = place],
           label # "swap" <=> place = "out", Swapped => place = "out", place = "out" => Swapped,
           label = "write" => Len(batch) > 0, label = "publish" => Len(batch) = 0,
           lpc[owner] # "replacing", cell' = IF place = "replacing" THEN Moved ELSE cell,
           UNCHANGED versions
    PROVE  IInv'
<1>1. /\ pc[owner] = "swap"
      /\ UNCHANGED <<tail, wordId, head, cachedHead, ver, op, from, want, n, loaded, copied>>
      /\ UNCHANGED <<batch, base, written, newCap, issued, log, delivered>>
  BY DEF SwapStep, word, popping, pushing, history
<1>2. /\ newCap > 0 /\ Grew /\ ver[owner] \in Nat
      /\ cell = (IF lpc[owner] = "replacing" THEN Moved ELSE Newest)
  BY <1>1, SwapFacts
<1>3. pc'[owner] = label /\ lpc'[owner] = place
  BY OwnerFacts, Invariants DEF Goto, ThreadsTyped, LockTypeOK
<1>4. Grew' /\ (Swapped' <=> Swapped)
  BY <1>1, <1>2, <1>3 DEF Grew, Swapped
<1>5. Newest' = Newest
  BY <1>1, <1>4 DEF Newest
<1>6. VersionInv'
  BY <1>1, <1>2, <1>3, <1>4, <1>5, Invariants DEF VersionInv
<1>7. VersionsAreHeld'
  <2> SUFFICES ASSUME NEW v \in DOMAIN versions PROVE versions[v].refs = Holders(v)'
    BY DEF VersionsAreHeld
  <2>1. versions[v].refs = Holders(v)
    BY Invariants DEF VersionsAreHeld
  <2>2. v \in Nat /\ v # Moved /\ cell # Moved
    BY <1>2, Versions
  <2>3. CASE place # "replacing"
    BY <1>1, <2>1, <2>3 DEF Holders
  <2>4. CASE place = "replacing"
    <3>1. cell = ver[owner] /\ cell' = Moved
      BY <1>2, <2>4 DEF Newest
    <3>2. v # cell' /\ (v = ver[owner] + 1 => v # cell)
      BY <1>2, <2>2, <3>1
    <3> QED
      BY <1>1, <2>1, <2>2, <3>1, <3>2 DEF Holders
  <2> QED
    BY <2>3, <2>4
<1>8. VersionsTyped'
  BY Invariants DEF VersionsTyped, Cap
<1>9. Spared /\ \A c \in Consumers : Cap(ver[c])' = Cap(ver[c])
                   /\ versions'[ver[c]].buffer = versions[ver[c]].buffer
  BY <1>1 DEF Spared, Cap
<1> QED
  BY <1>6, <1>7, <1>8, <1>9, SwapMoves

LEMMA SwapTryWriteStep == ASSUME IInv, SwapTryWrite PROVE IInv'
<1>1. SwapStep(TryWrite(owner)) /\ UNCHANGED versions /\ UNCHANGED pc /\ pc[owner] = "swap"
  BY DEF SwapTryWrite, SwapStep
<1>2. lpc[owner] = "out" /\ lpc' = [lpc EXCEPT ![owner] = "writing"] /\ cell' = cell
  BY <1>1 DEF SwapStep, TryWrite, LockGoto
<1>3. LockNext
  BY <1>1, Members DEF LockNext, SwapStep
<1>4. Goto(owner, "swap") /\ ~Swapped
  BY <1>1, <1>2, OwnerFacts, Unmoved, SwapFacts DEF Goto
<1> QED
  BY <1>1, <1>2, <1>3, <1>4, SwapKeeps

LEMMA SwapTakeOutStep == ASSUME IInv, SwapTakeOut PROVE IInv'
<1>1. SwapStep(TakeOut(owner)) /\ UNCHANGED versions /\ UNCHANGED pc /\ pc[owner] = "swap"
  BY DEF SwapTakeOut, SwapStep
<1>2. lpc[owner] = "writing" /\ lpc' = [lpc EXCEPT ![owner] = "replacing"] /\ cell' = Moved
  BY <1>1 DEF SwapStep, TakeOut, LockGoto
<1>3. LockNext
  BY <1>1, Members DEF LockNext, SwapStep
<1>4. Goto(owner, "swap") /\ ~Swapped
  BY <1>1, <1>2, OwnerFacts, Unmoved, SwapFacts DEF Goto
<1> QED
  BY <1>1, <1>2, <1>3, <1>4, SwapKeeps

LEMMA SwapUnlockStep == ASSUME IInv, SwapUnlock PROVE IInv'
<1> DEFINE label == IF batch = <<>> THEN "publish" ELSE "write"
<1>1. SwapStep(WriteUnlock(owner)) /\ UNCHANGED versions /\ Goto(owner, label) /\ pc[owner] = "swap"
  BY DEF SwapUnlock, SwapStep
<1>2. lpc[owner] = "replaced" /\ lpc' = [lpc EXCEPT ![owner] = "out"] /\ cell' = cell
  BY <1>1 DEF SwapStep, WriteUnlock, LockGoto
<1>3. LockNext
  BY <1>1, Members DEF LockNext, SwapStep
<1>4. Swapped
  BY <1>1, <1>2, SwapFacts
<1>5. batch \in Seq(Nat)
  BY OwnerFacts
<1>6. (label = "write" => Len(batch) > 0) /\ (label = "publish" => Len(batch) = 0)
      /\ label \in {"swap", "write", "publish"} /\ label # "swap"
  BY <1>5
<1> HIDE DEF label
<1> QED
  BY <1>1, <1>2, <1>3, <1>4, <1>6, SwapKeeps

(* The version of the word is dropped by the cell, but the owner holds it.   *)
LEMMA SwapPutInStep == ASSUME IInv, SwapPutIn PROVE IInv'
<1> DEFINE last == ver[owner]
<1>1. /\ SwapStep(PutIn(owner, At)) /\ versions' = Exchange(last, Moved) /\ UNCHANGED pc
      /\ pc[owner] = "swap"
      /\ UNCHANGED <<tail, wordId, ver, newCap>>
  BY DEF SwapPutIn, SwapStep, Drop, word, pushing
<1>2. /\ newCap > 0 /\ Grew /\ last \in Nat /\ At = last + 1 /\ At \in Nat
      /\ cell = (IF lpc[owner] = "replacing" THEN Moved ELSE Newest)
  BY <1>1, SwapFacts
<1>3. lpc[owner] = "replacing" /\ lpc' = [lpc EXCEPT ![owner] = "replaced"] /\ cell' = last + 1
  BY <1>1, <1>2 DEF SwapStep, PutIn, LockGoto
<1>4. LockNext
  BY <1>1, <1>2, Members, CellsAssumption DEF LockNext, SwapStep
<1>5. Goto(owner, "swap") /\ pc'[owner] = "swap" /\ lpc'[owner] = "replaced"
  BY <1>1, <1>3, OwnerFacts, Unmoved, Invariants DEF Goto, ThreadsTyped, LockTypeOK
<1>6. cell = Moved /\ Grew' /\ Swapped' /\ ~Swapped /\ Newest = last /\ Newest' = last + 1
  BY <1>1, <1>2, <1>3, <1>5 DEF Grew, Swapped, Newest
<1>7. /\ DOMAIN versions' = DOMAIN versions
      /\ versions' = [v \in DOMAIN versions' |-> versions'[v]]
      /\ \A v \in DOMAIN versions :
           /\ Cap(v)' = Cap(v)
           /\ versions'[v].refs = versions[v].refs + (IF v = Moved THEN 1 ELSE 0)
                                                   - (IF v = last THEN 1 ELSE 0)
           /\ versions'[v].refs # 0 => versions'[v].buffer = versions[v].buffer
           /\ versions'[v].refs \in Nat =>
                versions'[v] \in [cap : Nat \ {0}, refs : Nat,
                                  buffer : [0 .. Cap(v) - 1 -> Nat \union {Empty}]]
  BY <1>1, Exchanged, Invariants
<1> HIDE DEF last
<1>8. ASSUME NEW v \in DOMAIN versions
      PROVE  versions'[v].refs = Holders(v)' /\ Holders(v)' \in Nat
  <2>1. versions[v].refs = Holders(v) /\ Cardinality(Handles(v)) \in Nat /\ v \in Nat /\ v # Moved
    BY HandlesCount, Versions, Invariants DEF VersionsAreHeld
  <2>2. Holders(v) = Cardinality(Handles(v)) + (IF v = last THEN 1 ELSE 0)
                                             + (IF v = last + 1 THEN 2 ELSE 0)
    BY <1>2, <1>6, <2>1 DEF Holders, Handles, last
  <2>3. Holders(v)' = Cardinality(Handles(v)) + (IF v = last + 1 THEN 1 ELSE 0)
                                              + (IF v = last + 1 THEN 1 ELSE 0)
    <3>1. cell' # Moved
      BY <1>2, <1>3, MovedAssumption, CellsAssumption
    <3> QED
      BY <1>1, <1>2, <1>3, <2>1, <3>1 DEF Holders, Handles, last
  <2>4. versions'[v].refs = versions[v].refs - (IF v = last THEN 1 ELSE 0)
    BY <1>2, <1>7, <2>1, VersionFacts, Invariants
  <2> QED
    BY <1>2, <2>1, <2>2, <2>3, <2>4
<1>9. VersionsAreHeld' /\ VersionsTyped' /\ HeldAreSpared
  <2>1. VersionsAreHeld'
    BY <1>7, <1>8 DEF VersionsAreHeld
  <2>2. VersionsTyped'
    BY <1>7, <1>8 DEF VersionsTyped, Cap
  <2>3. HeldAreSpared
    BY <1>7, <1>8 DEF HeldAreSpared
  <2> QED
    BY <2>1, <2>2, <2>3
<1>10. VersionInv'
  <2>1. VersionInv /\ \A c \in Consumers : ver[c] \in Nat
    BY Members, VersionOf, Invariants
  <2>2. \A c \in Consumers : ver[c] <= last + 1
    BY <1>2, <1>6, <2>1 DEF VersionInv
  <2> QED
    BY <1>1, <1>2, <1>3, <1>5, <1>6, <1>7, <2>1, <2>2 DEF VersionInv, last
<1>11. Spared
  <2> SUFFICES ASSUME NEW v \in DOMAIN versions, v >= ver[owner]
               PROVE  Cap(v)' = Cap(v) /\ versions'[v].buffer = versions[v].buffer
    BY <1>7 DEF Spared
  <2>1. Cardinality(Handles(v)) \in Nat /\ Handles(v)' = Handles(v)
    BY <1>1, HandlesCount DEF Handles
  <2>2. Holders(v)' > 0
    <3>1. CASE v = last
      BY <1>1, <3>1, Members, HandlesCountNext DEF last
    <3>2. CASE v # last
      <4>1. v = last + 1
        BY <1>2, <3>2, Versions DEF last
      <4>2. Holders(v)' = Cardinality(Handles(v)) + 1 + 1
        BY <1>1, <1>2, <1>3, <2>1, <4>1 DEF Holders, Handles, last
      <4> QED
        BY <2>1, <4>2
    <3> QED
      BY <3>1, <3>2
  <2> QED
    BY <1>9, <2>2 DEF HeldAreSpared
<1>12. \A c \in Consumers : Cap(ver[c])' = Cap(ver[c])
                            /\ versions'[ver[c]].buffer = versions[ver[c]].buffer
  <2> SUFFICES ASSUME NEW c \in Consumers
               PROVE  Cap(ver[c])' = Cap(ver[c])
                      /\ versions'[ver[c]].buffer = versions[ver[c]].buffer
    OBVIOUS
  <2>1. Holders(ver[c])' > 0 /\ ver[c] \in DOMAIN versions /\ ver'[c] = ver[c]
    BY <1>1, Members, HandlesCountNext, VersionOf
  <2>2. Cap(ver[c])' = versions'[ver[c]].cap
    BY <2>1 DEF Cap
  <2> QED
    BY <1>9, <2>1, <2>2 DEF HeldAreSpared, Cap, Holders
<1> QED
  BY <1>1, <1>3, <1>4, <1>5, <1>7, <1>9, <1>10, <1>11, <1>12, SwapMoves

-----------------------------------------------------------------------------
(* The writes *)

LEMMA WriteFacts ==
    ASSUME IInv, WriteNext
    PROVE  /\ base = tail /\ written < Len(batch) /\ tail + Len(batch) <= cachedHead + Cap(At)
           /\ written \in Nat /\ Len(batch) \in Nat
           /\ tail \in Nat /\ head \in Nat /\ cachedHead \in Nat /\ cachedHead <= head /\ head <= tail
           /\ At \in DOMAIN versions /\ At \in Nat /\ ver[owner] <= At /\ Cap(At) \in Nat \ {0}
           /\ batch[written + 1] \in Nat
           /\ versions' = [versions EXCEPT ![At].buffer[PhysicalIndex(tail + written, Cap(At))] =
                                               batch[written + 1]]
<1>1. /\ pc[owner] = "write"
      /\ versions' = [versions EXCEPT ![At].buffer[PhysicalIndex(base + written, Cap(At))] =
                                          batch[written + 1]]
  BY DEF WriteNext
<1>2. /\ OwnerInv /\ tail \in Nat /\ head \in Nat /\ cachedHead \in Nat /\ cachedHead <= head
      /\ head <= tail /\ batch \in Seq(Nat) /\ Len(batch) \in Nat /\ written \in Nat
  BY OwnerFacts
<1>3. base = tail /\ written < Len(batch) /\ tail + Len(batch) <= cachedHead + Cap(At)
  BY <1>1, <1>2 DEF OwnerInv
<1>4. At \in DOMAIN versions /\ At \in Nat /\ ver[owner] <= At
  BY <1>1, PushVersion
<1>5. Cap(At) \in Nat \ {0}
  BY <1>4, VersionFacts, Invariants
<1>6. batch[written + 1] \in Nat
  <2>1. written + 1 \in 1 .. Len(batch)
    BY <1>2, <1>3
  <2> QED
    BY <1>2, <2>1
<1> QED
  BY <1>1, <1>2, <1>3, <1>4, <1>5, <1>6

(* A write hits no ticket from head to where it writes, in any version.      *)
LEMMA WriteSpares ==
    ASSUME IInv, WriteNext
    PROVE  /\ DOMAIN versions' = DOMAIN versions
           /\ versions' = [v \in DOMAIN versions' |-> versions'[v]]
           /\ \A v \in DOMAIN versions :
                /\ Cap(v)' = Cap(v) /\ versions'[v].refs = versions[v].refs
                /\ versions'[v] \in [cap : Nat \ {0}, refs : Nat,
                                     buffer : [0 .. Cap(v) - 1 -> Nat \union {Empty}]]
                /\ \A t \in head .. tail + written - 1 : Value(v, t)' = Value(v, t)
           /\ versions'[At].buffer[PhysicalIndex(tail + written, Cap(At))] = batch[written + 1]
<1> DEFINE to  == tail + written
           at  == At
           cap == Cap(At)
           i   == PhysicalIndex(to, cap)
           x   == batch[written + 1]
<1>1. /\ written < Len(batch) /\ tail + Len(batch) <= cachedHead + cap
      /\ written \in Nat /\ Len(batch) \in Nat
      /\ tail \in Nat /\ head \in Nat /\ cachedHead \in Nat /\ cachedHead <= head /\ head <= tail
      /\ at \in DOMAIN versions /\ cap \in Nat \ {0} /\ x \in Nat
      /\ versions' = [versions EXCEPT ![at].buffer[i] = x]
  BY WriteFacts
<1>2. to \in Nat /\ \A t \in head .. to - 1 : t \in Nat /\ t < to /\ to < t + cap
  BY <1>1
<1>3. i \in 0 .. cap - 1
  BY <1>1, <1>2, PhysicalIndexInBuffer
<1>4. \A t \in head .. to - 1 : PhysicalIndex(t, cap) # i
  <2> HIDE DEF to, cap
  <2> QED
    BY <1>1, <1>2, IndicesDiffer
<1>5. \A v \in DOMAIN versions :
        versions[v] \in [cap : Nat \ {0}, refs : Nat,
                         buffer : [0 .. Cap(v) - 1 -> Nat \union {Empty}]]
  BY Invariants DEF VersionsTyped
<1>6. versions = [v \in DOMAIN versions |-> versions[v]] /\ cap = Cap(at)
  BY Invariants DEF VersionsTyped
<1> HIDE DEF i, x, at, cap
<1>7. DOMAIN versions' = DOMAIN versions /\ versions' = [v \in DOMAIN versions' |-> versions'[v]]
  BY <1>1, <1>6
<1>8. ASSUME NEW v \in DOMAIN versions
      PROVE  /\ Cap(v)' = Cap(v) /\ versions'[v].refs = versions[v].refs
             /\ versions'[v] \in [cap : Nat \ {0}, refs : Nat,
                                  buffer : [0 .. Cap(v) - 1 -> Nat \union {Empty}]]
             /\ \A t \in head .. to - 1 : Value(v, t)' = Value(v, t)
  <2>1. CASE v # at
    <3>1. versions'[v] = versions[v]
      BY <1>1, <2>1
    <3> QED
      BY <1>5, <3>1 DEF Cap, Value
  <2>2. CASE v = at
    <3> DEFINE b == [versions[at].buffer EXCEPT ![i] = x]
    <3>1. versions'[v] = [versions[v] EXCEPT !.buffer = b]
      BY <1>1, <2>2
    <3>2. versions[at].buffer \in [0 .. cap - 1 -> Nat \union {Empty}]
      BY <1>1, <1>5, <1>6
    <3>3. b \in [0 .. cap - 1 -> Nat \union {Empty}]
      BY <1>1, <1>3, <3>2
    <3>4. \A t \in head .. to - 1 : b[PhysicalIndex(t, cap)] = versions[at].buffer[PhysicalIndex(t, cap)]
      BY <1>4, <3>2
    <3> HIDE DEF b
    <3>5. /\ versions'[v].cap = versions[v].cap /\ versions'[v].refs = versions[v].refs
          /\ versions'[v].buffer = b
      BY <1>5, <3>1
    <3>6. Cap(v)' = Cap(v)
      BY <3>5 DEF Cap
    <3>7. versions'[v] \in [cap : Nat \ {0}, refs : Nat,
                            buffer : [0 .. Cap(v) - 1 -> Nat \union {Empty}]]
      BY <1>5, <1>6, <2>2, <3>1, <3>3
    <3>8. \A t \in head .. to - 1 : Value(v, t)' = Value(v, t)
      BY <1>6, <2>2, <3>4, <3>5, <3>6 DEF Value
    <3> QED
      BY <3>5, <3>6, <3>7, <3>8
  <2> QED
    BY <2>1, <2>2
<1>9. versions'[at].buffer[i] = x
  <2>1. versions[at].buffer \in [0 .. cap - 1 -> Nat \union {Empty}]
    BY <1>1, <1>5, <1>6
  <2>2. versions'[at] = [versions[at] EXCEPT !.buffer = [versions[at].buffer EXCEPT ![i] = x]]
    BY <1>1
  <2>3. versions'[at].buffer = [versions[at].buffer EXCEPT ![i] = x]
    BY <1>1, <1>5, <2>2
  <2> QED
    BY <1>3, <2>1, <2>3
<1>10. versions'[At].buffer[PhysicalIndex(tail + written, Cap(At))] = batch[written + 1]
  BY <1>9 DEF at, cap, i, x
<1>11. \A v \in DOMAIN versions : \A t \in head .. tail + written - 1 : Value(v, t)' = Value(v, t)
  <2>1. \A t \in head .. tail + written - 1 : t \in head .. to - 1
    BY <1>1
  <2> QED
    BY <1>8, <2>1
<1> QED
  BY <1>7, <1>8, <1>10, <1>11, Zenon

LEMMA WriteNextStep == ASSUME IInv, WriteNext PROVE IInv'
<1> DEFINE label == IF written + 1 = Len(batch) THEN "publish" ELSE "write"
<1>1. /\ pc[owner] = "write" /\ written' = written + 1 /\ Goto(owner, label)
      /\ UNCHANGED <<tail, wordId, lockVars, ver, loaded, copied, log>>
      /\ UNCHANGED <<head, cachedHead, delivered, op, from, want, n>>
      /\ UNCHANGED <<batch, base, newCap, issued>>
  BY DEF WriteNext, word, popping, history
<1>2. /\ ThreadsTyped /\ owner \in Threads /\ OwnerInv /\ IssuedInv /\ PushTyped
      /\ from[owner] \in Nat /\ want[owner] \in Nat /\ n[owner] \in Nat /\ op[owner] \in Operations
      /\ tail <= cachedHead + Cap(ver[owner])
  BY OwnerFacts
<1>3. /\ base = tail /\ written < Len(batch) /\ tail + Len(batch) <= cachedHead + Cap(At)
      /\ written \in Nat /\ Len(batch) \in Nat
      /\ tail \in Nat /\ head \in Nat /\ cachedHead \in Nat /\ cachedHead <= head /\ head <= tail
      /\ At \in DOMAIN versions /\ At \in Nat /\ ver[owner] <= At
  BY WriteFacts
<1>4. /\ DOMAIN versions' = DOMAIN versions
      /\ versions' = [v \in DOMAIN versions' |-> versions'[v]]
      /\ \A v \in DOMAIN versions :
           /\ Cap(v)' = Cap(v) /\ versions'[v].refs = versions[v].refs
           /\ versions'[v] \in [cap : Nat \ {0}, refs : Nat,
                                buffer : [0 .. Cap(v) - 1 -> Nat \union {Empty}]]
           /\ \A t \in head .. tail + written - 1 : Value(v, t)' = Value(v, t)
      /\ versions'[At].buffer[PhysicalIndex(tail + written, Cap(At))] = batch[written + 1]
  BY WriteSpares
<1>5. Goes(owner, label, op[owner], from[owner], want[owner], n[owner])
      /\ label \in {"write", "publish"} /\ label \in OwnerLabels /\ pc'[owner] = label
  BY <1>1, <1>2, Unmoved DEF Goes, Goto, OwnerLabels, ThreadsTyped
<1>6. (label = "write" => written + 1 < Len(batch)) /\ (label = "publish" => written + 1 = Len(batch))
  BY <1>3
<1> HIDE DEF label
<1>7. /\ cell' = cell /\ lpc' = lpc /\ lpc[owner] = "out" /\ At' = At
      /\ (Grew <=> Grew') /\ (Swapped <=> Swapped') /\ Newest' = Newest
  <2>1. cell' = cell /\ lpc' = lpc /\ lpc[owner] = "out" /\ At' = At
    BY <1>1, Invariants DEF lockVars, PlacesInv, At
  <2>2. (Grew <=> Grew') /\ (Swapped <=> Swapped')
    BY <1>1, <1>5, <2>1 DEF Grew, Swapped
  <2> QED
    BY <1>1, <2>1, <2>2 DEF Newest
<1>8. Cap(At)' = Cap(At) /\ Cap(ver[owner])' = Cap(ver[owner])
  <2>1. ver[owner] \in DOMAIN versions
    BY Versions
  <2> QED
    BY <1>1, <1>3, <1>4, <1>7, <2>1 DEF Cap
<1>9. VersionsTyped'
  BY <1>4 DEF VersionsTyped, Cap
<1>10. VersionsAreHeld' /\ VersionInv'
  <2>1. VersionsAreHeld'
    <3> SUFFICES ASSUME NEW v \in DOMAIN versions PROVE versions'[v].refs = Holders(v)'
      BY <1>4 DEF VersionsAreHeld
    <3>1. Holders(v)' = Holders(v)
      BY <1>1, <1>7 DEF Holders
    <3> QED
      BY <1>4, <3>1, Invariants DEF VersionsAreHeld
  <2>2. VersionInv'
    BY <1>1, <1>4, <1>7, Invariants DEF VersionInv
  <2> QED
    BY <2>1, <2>2
<1>11. \A v \in DOMAIN versions : \A t \in head .. tail - 1 : Value(v, t)' = Value(v, t)
  <2>1. \A t \in head .. tail - 1 : t \in head .. tail + written - 1
    BY <1>3
  <2> QED
    BY <1>4, <2>1
<1>12. RingInv'
  <2>1. RingInv
    BY Invariants
  <2>2. ASSUME NEW v \in DOMAIN versions, v >= wordId PROVE HasValues(v, head, tail)'
    BY <1>1, <1>11, <2>1, <2>2 DEF RingInv, HasValues
  <2> QED
    BY <1>1, <1>4, <2>1, <2>2 DEF RingInv
<1>13. OwnerInv'
  <2>1. ASSUME NEW i \in 1 .. written + 1 PROVE Value(At, tail + i - 1)' = batch[i]
    <3>1. CASE i = written + 1
      <4>1. tail + i - 1 = tail + written
        BY <1>3, <3>1
      <4>2. versions'[At].buffer[PhysicalIndex(tail + i - 1, Cap(At)')] = batch[i]
        BY <1>4, <1>8, <3>1, <4>1
      <4> QED
        BY <1>1, <1>7, <4>2 DEF Value
    <3>2. CASE i # written + 1
      <4>1. i \in 1 .. written
        BY <1>3, <3>2
      <4>2. Value(At, tail + i - 1) = batch[i]
        BY <1>2, <4>1 DEF OwnerInv
      <4>3. PICK t \in head .. tail + written - 1 : t = tail + i - 1
        BY <1>3, <4>1
      <4>4. versions'[At].buffer[PhysicalIndex(t, Cap(At)')] = Value(At, t)
        <5>1. \A v \in DOMAIN versions : Value(v, t)' = Value(v, t)
          BY <1>4
        <5>2. \A v \in DOMAIN versions : versions'[v].buffer[PhysicalIndex(t, Cap(v)')] = Value(v, t)
          BY <5>1 DEF Value
        <5> QED
          BY <1>3, <1>4, <1>8, <5>2
      <4> QED
        BY <1>1, <1>7, <4>2, <4>3, <4>4 DEF Value
    <3> QED
      BY <3>1, <3>2
  <2>2. \A i \in 1 .. written' : Value(At, tail + i - 1)' = batch'[i]
    BY <1>1, <2>1
  <2>3. (op[owner] = "push" => Len(batch) = 1) /\ (op[owner] = "copyAndCommitIf" => newCap = 0)
    BY <1>2 DEF OwnerInv
  <2> QED
    BY <1>1, <1>2, <1>3, <1>5, <1>6, <1>8, <2>2, <2>3 DEF OwnerInv
<1>14. IssuedInv' /\ PushTyped' /\ SharedTyped' /\ HistoryInv'
  <2>1. IssuedInv'
    BY <1>1, <1>2 DEF IssuedInv
  <2>2. PushTyped'
    BY <1>1, <1>2, <1>3 DEF PushTyped
  <2>3. SharedTyped'
    BY <1>1, Invariants DEF SharedTyped
  <2>4. HistoryInv'
    BY <1>1, <1>2, <1>5, OwnerHistory
  <2> QED
    BY <2>1, <2>2, <2>3, <2>4
<1>15. ver' \in [Threads -> DOMAIN versions']
  BY <1>1, <1>4, Invariants
<1>16. \A c \in Consumers : \A t \in head .. tail - 1 : Value(ver[c], t)' = Value(ver[c], t)
  <2> SUFFICES ASSUME NEW c \in Consumers, NEW t \in head .. tail - 1
               PROVE  Value(ver[c], t)' = Value(ver[c], t)
    OBVIOUS
  <2>1. ver[c] \in DOMAIN versions
    BY Members, VersionOf
  <2>2. \A v \in DOMAIN versions :
          versions'[v].buffer[PhysicalIndex(t, versions'[v].cap)] = Value(v, t)
    BY <1>11 DEF Value, Cap
  <2> QED
    BY <1>1, <2>1, <2>2 DEF Value, Cap
<1>17. /\ \A c \in Consumers : lpc'[c] = lpc[c] /\ ver'[c] = ver[c]
       /\ lpc'[owner] = "out"
       /\ head <= head' /\ tail <= tail' /\ [LockNext]_lockVars
       /\ \A i \in 1 .. tail : log'[i] = log[i]
  BY <1>1, <1>3, <1>7
<1> QED
  BY <1>1, <1>2, <1>5, <1>9, <1>10, <1>12, <1>13, <1>14, <1>15, <1>16, <1>17, OwnerMoves

-----------------------------------------------------------------------------
(* The store of the word *)

LEMMA Concatenated ==
    ASSUME NEW S, NEW a \in Seq(S), NEW b \in Seq(S)
    PROVE  /\ Len(a \o b) = Len(a) + Len(b)
           /\ \A i \in 1 .. Len(a) : (a \o b)[i] = a[i]
           /\ \A i \in 1 .. Len(b) : (a \o b)[Len(a) + i] = b[i]
OBVIOUS

(* The owner's handle goes over to the new version, if there is one.         *)
LEMMA StoreWordVersions ==
    ASSUME IInv, StoreWord
    PROVE  /\ VersionsAreHeld' /\ VersionsTyped' /\ VersionInv' /\ HeldAreSpared
           /\ ver' \in [Threads -> DOMAIN versions'] /\ DOMAIN versions' = DOMAIN versions
           /\ DOMAIN versions = 0 .. At /\ At \in Nat /\ ver[owner] <= At
           /\ ver'[owner] = At /\ \A c \in Consumers : ver'[c] = ver[c]
<1> DEFINE last == ver[owner]
<1>1. /\ pc[owner] = "publish" /\ wordId' = At /\ ver' = [ver EXCEPT ![owner] = At]
      /\ versions' = (IF newCap = 0 THEN versions ELSE Drop(last))
      /\ newCap' = 0 /\ cell' = cell /\ lpc' = lpc
  BY DEF StoreWord, EndPush, lockVars
<1>2. /\ At \in DOMAIN versions /\ At \in Nat /\ last <= At
      /\ newCap = 0 => At = last
      /\ newCap # 0 => At = last + 1
  BY <1>1, PushVersion
<1>3. /\ last \in Nat /\ owner \in Threads /\ ver \in [Threads -> DOMAIN versions]
      /\ VersionsTyped /\ VersionsAreHeld /\ newCap \in Nat
  BY Versions, Members, Invariants, OwnerFacts
<1>4. (Grew <=> newCap # 0) /\ (Swapped <=> newCap # 0) /\ ~Grew' /\ ~Swapped'
  BY <1>1 DEF Grew, Swapped
<1>5. Newest = At /\ cell = At /\ DOMAIN versions = 0 .. At /\ \A c \in Consumers : ver[c] <= At
  <2>1. Newest = At
    BY <1>2, <1>4 DEF Newest
  <2>2. lpc[owner] = "out"
    BY <1>1, Invariants DEF PlacesInv
  <2>3. DOMAIN versions = 0 .. (IF Grew THEN last + 1 ELSE last)
    BY Versions
  <2>4. DOMAIN versions = 0 .. At
    BY <1>2, <1>4, <2>3
  <2> QED
    BY <2>1, <2>2, <2>4, Invariants DEF VersionInv
<1>6. ver'[owner] = At /\ \A c \in Consumers : ver'[c] = ver[c]
  BY <1>1, <1>3, Members
<1>7. CASE newCap = 0
  <2>1. versions' = versions /\ ver' = ver
    BY <1>1, <1>2, <1>3, <1>7
  <2>2. VersionsAreHeld'
    BY <1>1, <1>3, <1>7, <2>1 DEF VersionsAreHeld, Holders
  <2>3. VersionsTyped' /\ HeldAreSpared
    BY <1>3, <2>1 DEF VersionsTyped, HeldAreSpared, Cap
  <2>4. Newest' = At
    BY <1>4, <1>6 DEF Newest
  <2>5. VersionInv'
    <3>1. lpc'[owner] # "replacing"
      BY <1>1, Invariants DEF PlacesInv
    <3> QED
      BY <1>1, <1>4, <1>5, <1>6, <2>1, <2>4, <3>1 DEF VersionInv
  <2> QED
    BY <1>2, <1>3, <1>5, <1>6, <2>1, <2>2, <2>3, <2>5
<1>8. CASE newCap # 0
  <2>1. versions' = Exchange(last, Moved) /\ At = last + 1
    BY <1>1, <1>2, <1>8 DEF Drop
  <2>2. /\ DOMAIN versions' = DOMAIN versions
        /\ versions' = [v \in DOMAIN versions' |-> versions'[v]]
        /\ \A v \in DOMAIN versions :
             /\ Cap(v)' = Cap(v)
             /\ versions'[v].refs = versions[v].refs + (IF v = Moved THEN 1 ELSE 0)
                                                     - (IF v = last THEN 1 ELSE 0)
             /\ versions'[v].refs # 0 => versions'[v].buffer = versions[v].buffer
             /\ versions'[v].refs \in Nat =>
                  versions'[v] \in [cap : Nat \ {0}, refs : Nat,
                                    buffer : [0 .. Cap(v) - 1 -> Nat \union {Empty}]]
    BY <1>3, <2>1, Exchanged
  <2>3. ASSUME NEW v \in DOMAIN versions
        PROVE  versions'[v].refs = Holders(v)' /\ Holders(v)' \in Nat
    <3>1. versions[v].refs = Holders(v) /\ Cardinality(Handles(v)) \in Nat /\ v \in Nat /\ v # Moved
      BY <1>3, HandlesCount, Versions DEF VersionsAreHeld
    <3>2. cell # Moved
      BY <1>2, <1>5, MovedAssumption, CellsAssumption
    <3>3. Holders(v) = Cardinality(Handles(v)) + (IF v = last + 1 THEN 1 ELSE 0)
                                               + (IF v = last + 1 THEN 1 ELSE 0)
      BY <1>5, <1>8, <2>1, <3>1, <3>2 DEF Holders, Handles
    <3>4. Cardinality(Handles(v)') =
            Cardinality(Handles(v)) + (IF v = last + 1 THEN 1 ELSE 0) - (IF v = last THEN 1 ELSE 0)
      <4>1. At # last
        BY <1>3, <2>1
      <4>2. Cardinality(Handles(v)') =
              Cardinality(Handles(v)) + (IF v = At THEN 1 ELSE 0) - (IF v = ver[owner] THEN 1 ELSE 0)
        BY <1>1, <1>3, <4>1, HandleMoves
      <4> QED
        BY <2>1, <4>2
    <3>5. Holders(v)' = Cardinality(Handles(v)') + (IF v = last + 1 THEN 1 ELSE 0)
      <4>1. Cardinality(Handles(v)') \in Nat
        <5>1. Handles(v)' \subseteq Threads
          BY DEF Handles
        <5> QED
          BY <5>1, ThreadsFinite, FS_Subset, FS_CardinalityType
      <4> QED
        BY <1>1, <1>5, <2>1, <3>2, <4>1 DEF Holders, Handles
    <3>6. versions'[v].refs = versions[v].refs - (IF v = last THEN 1 ELSE 0)
      BY <1>3, <2>2, <3>1, VersionFacts
    <3>7. Holders(v)' \in Nat
      BY HandlesCountNext
    <3> HIDE DEF last
    <3> QED
      BY <1>3, <3>1, <3>3, <3>4, <3>5, <3>6, <3>7
  <2>4. VersionsAreHeld' /\ VersionsTyped' /\ HeldAreSpared
    <3>1. VersionsAreHeld'
      BY <2>2, <2>3 DEF VersionsAreHeld
    <3>2. VersionsTyped'
      BY <2>2, <2>3 DEF VersionsTyped, Cap
    <3>3. HeldAreSpared
      BY <2>2, <2>3 DEF HeldAreSpared
    <3> QED
      BY <3>1, <3>2, <3>3
  <2>5. VersionInv'
    <3>1. lpc'[owner] # "replacing"
      BY <1>1, Invariants DEF PlacesInv
    <3>2. Newest' = At
      BY <1>4, <1>6 DEF Newest
    <3> QED
      BY <1>1, <1>4, <1>5, <1>6, <2>2, <3>1, <3>2 DEF VersionInv
  <2>6. ver' \in [Threads -> DOMAIN versions']
    BY <1>1, <1>2, <1>3, <2>2
  <2> QED
    BY <1>2, <1>5, <1>6, <2>2, <2>4, <2>5, <2>6
<1> QED
  BY <1>7, <1>8

LEMMA StoreWordStep == ASSUME IInv, StoreWord PROVE IInv'
<1>1. /\ pc[owner] = "publish" /\ tail' = base + Len(batch) /\ wordId' = At
      /\ log' = log \o batch /\ EndPush /\ issued' = issued
  BY DEF StoreWord, EndPush
<1>2. /\ Goes(owner, "idle", "none", from[owner], want[owner], n[owner])
      /\ pc'[owner] = "idle" /\ op'[owner] = "none" /\ from' = from /\ n' = n
      /\ batch' = <<>> /\ base' = 0 /\ written' = 0 /\ newCap' = 0
      /\ UNCHANGED <<head, lockVars, cachedHead, loaded, copied, delivered>>
      /\ PushTyped' /\ Len(batch') = 0 /\ batch' \in Seq(1 .. MaxPushes)
      /\ "idle" \in OwnerLabels /\ "none" \in Operations
  BY <1>1, PushEnds
<1>3. /\ OwnerInv /\ IssuedInv /\ owner \in Threads
      /\ tail \in Nat /\ head \in Nat /\ cachedHead \in Nat /\ cachedHead <= head
      /\ head <= tail /\ head <= head /\ batch \in Seq(Nat) /\ Len(batch) \in Nat /\ issued \in Nat
      /\ from[owner] \in Nat /\ want[owner] \in Nat /\ n[owner] \in Nat
  BY OwnerFacts
<1>4. /\ base = tail /\ written = Len(batch) /\ tail + Len(batch) <= cachedHead + Cap(At)
      /\ \A i \in 1 .. Len(batch) : Value(At, tail + i - 1) = batch[i]
  BY <1>1, <1>3 DEF OwnerInv
<1>5. tail' = tail + Len(batch) /\ tail' \in Nat /\ tail <= tail'
  BY <1>1, <1>3, <1>4
<1>6. /\ VersionsAreHeld' /\ VersionsTyped' /\ VersionInv' /\ HeldAreSpared
      /\ ver' \in [Threads -> DOMAIN versions'] /\ DOMAIN versions' = DOMAIN versions
      /\ DOMAIN versions = 0 .. At /\ At \in Nat /\ ver[owner] <= At
      /\ ver'[owner] = At /\ \A c \in Consumers : ver'[c] = ver[c]
  BY StoreWordVersions
<1>7. \A t \in Threads : /\ versions'[ver'[t]].cap = versions[ver'[t]].cap
                         /\ versions'[ver'[t]].buffer = versions[ver'[t]].buffer
  <2> SUFFICES ASSUME NEW t \in Threads
               PROVE  /\ versions'[ver'[t]].cap = versions[ver'[t]].cap
                      /\ versions'[ver'[t]].buffer = versions[ver'[t]].buffer
    OBVIOUS
  <2>1. PICK v \in DOMAIN versions : v = ver'[t]
    BY <1>6
  <2>2. Holders(v)' > 0
    BY <2>1, HandlesCountNext
  <2>3. versions'[v].cap = versions[v].cap /\ versions'[v].buffer = versions[v].buffer
    BY <1>6, <2>2 DEF HeldAreSpared, Cap
  <2> QED
    BY <2>1, <2>3
<1>8. versions'[At].cap = versions[At].cap /\ versions'[At].buffer = versions[At].buffer
  BY <1>3, <1>6, <1>7
<1>9. /\ log' \in Seq(Nat) /\ Len(log') = tail'
      /\ \A i \in 1 .. tail : log'[i] = log[i]
      /\ \A i \in 1 .. Len(batch) : log'[tail + i] = batch[i]
  <2>1. log \in Seq(Nat) /\ Len(log) = tail
    BY Invariants, Counters DEF SharedTyped
  <2>2. log \o batch \in Seq(Nat)
    BY <1>3, <2>1
  <2>3. /\ Len(log \o batch) = Len(log) + Len(batch)
        /\ \A i \in 1 .. Len(log) : (log \o batch)[i] = log[i]
        /\ \A i \in 1 .. Len(batch) : (log \o batch)[Len(log) + i] = batch[i]
    <3>1. ASSUME NEW i \in 1 .. Len(batch) PROVE (log \o batch)[Len(log) + i] = batch[i]
      BY <1>3, <2>1, Concatenated
    <3>2. ASSUME NEW i \in 1 .. Len(log) PROVE (log \o batch)[i] = log[i]
      BY <1>3, <2>1, Concatenated
    <3>3. Len(log \o batch) = Len(log) + Len(batch)
      BY <1>3, <2>1, Concatenated
    <3> QED
      BY <3>1, <3>2, <3>3, Zenon
  <2> QED
    BY <1>1, <1>5, <2>1, <2>2, <2>3, Zenon
<1>10. RingInv'
  <2>1. HasValues(At, head, tail)
    <3>1. wordId = ver[owner] /\ At \in DOMAIN versions /\ ver[owner] \in Nat
      BY <1>6, Versions
    <3> QED
      BY <1>6, <3>1, Invariants DEF RingInv
  <2>2. ASSUME NEW t \in head .. tail' - 1
        PROVE  versions[At].buffer[PhysicalIndex(t, versions[At].cap)] = log'[t + 1]
    <3>1. CASE t < tail
      <4>1. t \in head .. tail - 1 /\ t + 1 \in 1 .. tail
        BY <1>3, <3>1
      <4> QED
        BY <1>9, <2>1, <4>1 DEF HasValues, Value, Cap
    <3>2. CASE t >= tail
      <4> DEFINE i == t - tail + 1
      <4>1. i \in 1 .. Len(batch) /\ tail + i - 1 = t /\ tail + i = t + 1
        BY <1>3, <1>5, <3>2
      <4> HIDE DEF i
      <4>2. Value(At, tail + i - 1) = batch[i]
        BY <1>4, <4>1
      <4>3. log'[tail + i] = batch[i]
        BY <1>9, <4>1
      <4> QED
        BY <4>1, <4>2, <4>3 DEF Value, Cap
    <3> QED
      BY <1>3, <1>5, <3>1, <3>2
  <2>3. ASSUME NEW v \in DOMAIN versions', v >= At PROVE HasValues(v, head, tail)'
    <3>1. v = At
      BY <1>6, <2>3
    <3>2. \A t \in head .. tail' - 1 :
            versions'[v].buffer[PhysicalIndex(t, versions'[v].cap)] = log'[t + 1]
      BY <1>8, <2>2, <3>1
    <3> QED
      BY <1>2, <3>2 DEF HasValues, Value, Cap
  <2>4. head' <= tail'
    BY <1>2, <1>3, <1>5
  <2> QED
    BY <1>1, <1>9, <2>3, <2>4 DEF RingInv
<1>11. OwnerInv'
  <2>1. Cap(ver[owner])' = Cap(At)
    BY <1>6, <1>8 DEF Cap
  <2>2. \A i \in 1 .. written' : Value(At, tail + i - 1)' = batch'[i]
    BY <1>2
  <2>3. tail' <= cachedHead' + Cap(At)
    BY <1>2, <1>4, <1>5
  <2> QED
    BY <1>2, <1>3, <2>1, <2>2, <2>3 DEF OwnerInv
<1>12. IssuedInv'
  <2>1. tail + Len(batch) <= issued /\ issued <= MaxPushes
    BY <1>3 DEF IssuedInv
  <2>2. tail' + Len(batch') <= issued
    BY <1>2, <1>5, <2>1
  <2> QED
    BY <1>1, <1>2, <2>1, <2>2 DEF IssuedInv
<1>13. HistoryInv'
  <2>1. OthersStay(owner)
    BY <1>2, OwnerFacts DEF OthersStay, Goes, ThreadsTyped
  <2>2. pc'[owner] \notin Claiming
    BY <1>2 DEF Claiming
  <2> QED
    BY <1>2, <1>3, <1>9, <2>1, <2>2, HistoryStays
<1>14. SharedTyped'
  <2>1. wordId' \in Nat /\ DOMAIN delivered' \subseteq Nat
    BY <1>1, <1>2, <1>6, Invariants DEF SharedTyped
  <2> QED
    BY <1>2, <1>3, <1>5, <1>9, <2>1 DEF SharedTyped
<1>15. lpc'[owner] = "out" /\ \A c \in Consumers : lpc'[c] = lpc[c]
  BY <1>1, <1>2, Invariants DEF lockVars, PlacesInv
<1>16. \A c \in Consumers : \A t \in head .. tail - 1 : Value(ver[c], t)' = Value(ver[c], t)
  <2> SUFFICES ASSUME NEW c \in Consumers, NEW t \in head .. tail - 1
               PROVE  Value(ver[c], t)' = Value(ver[c], t)
    OBVIOUS
  <2>1. ver'[c] = ver[c] /\ c \in Threads
    BY <1>6, Members
  <2>2. versions'[ver[c]].cap = versions[ver[c]].cap /\ versions'[ver[c]].buffer = versions[ver[c]].buffer
    BY <1>7, <2>1
  <2> QED
    BY <2>1, <2>2 DEF Value, Cap
<1>17. head <= head' /\ [LockNext]_lockVars
  BY <1>2, <1>3
<1> QED
  BY <1>2, <1>3, <1>5, <1>6, <1>9, <1>10, <1>11, <1>12, <1>13, <1>14, <1>15, <1>16, <1>17, OwnerMoves

-----------------------------------------------------------------------------
(* Every step *)

LEMMA ConsumerNext ==
    ASSUME IInv, NEW c \in Consumers, ConsumerStart(c) \/ ConsumerStep(c)
    PROVE  IInv'
<1>1. CASE ConsumerStart(c)
  <2>1. ASSUME NEW k \in DstLens, StartPopMany(c, k) PROVE IInv'
    BY <2>1, StartPopManyStep
  <2>2. ASSUME NEW t \in Threads \ {c}, CloneHandle(c, t) PROVE IInv'
    BY <2>2, CloneHandleStep
  <2> QED
    BY <1>1, <2>1, <2>2, StartStealStep, StartCapacityStep, StartLenStep DEF ConsumerStart
<1>2. CASE ConsumerStep(c)
  BY <1>2, LoadHeadStep, LoadWordStep, CopyNextStep, ClaimCopiedStep, ForgetCopiedStep, ReturnStep,
     LenWordStep, LenHeadStep, UpdateTryReadStep, UpdateCasStep, UpdateFailsStep, CloneCellStep,
     UpdateDoneStep DEF ConsumerStep
<1> QED
  BY <1>1, <1>2

LEMMA OwnerStepStep == ASSUME IInv, OwnerStep PROVE IInv'
BY RefreshHeadStep, EnlargeStep, GrowStep, SwapTryWriteStep, SwapTakeOutStep, SwapPutInStep,
   SwapUnlockStep, WriteNextStep, StoreWordStep, DoNotCommitStep, PopRefreshStep, PopCasStep,
   PopMissStep, PopReadStep DEF OwnerStep

LEMMA OwnerStartStep == ASSUME IInv, OwnerStart PROVE IInv'
<1>1. ASSUME NEW k \in SliceLens, StartPushMany(k) \/ StartPushManyUnchecked(k) PROVE IInv'
  BY <1>1, StartPushManyStep
<1>2. ASSUME NEW k \in SliceLens, NEW l \in 0 .. k - 1, StartCopyAndCommitIf(k - l, l) PROVE IInv'
  BY <1>2, StartCopyAndCommitIfStep
<1>3. ASSUME NEW c \in Capacities, StartReserve(c) PROVE IInv'
  BY <1>3, StartReserveStep
<1>4. ASSUME NEW k \in DstLens, StartProducerPop("popMany", k) PROVE IInv'
  BY <1>4, StartProducerPopStep, LensAssumption
<1>5. ASSUME StartProducerPop("pop", 1) PROVE IInv'
  BY <1>5, StartProducerPopStep
<1> QED
  BY <1>1, <1>2, <1>3, <1>4, <1>5, StartPushStep, ProducerLenStep DEF OwnerStart

LEMMA IInvStutters == ASSUME IInv, UNCHANGED vars PROVE IInv'
<1>1. /\ UNCHANGED <<tail, wordId, head, versions, lockVars, cachedHead, ver, pc, op, from, want, n>>
      /\ UNCHANGED <<loaded, copied, batch, base, written, newCap, issued, log, delivered>>
      /\ UNCHANGED <<cell, lpc>>
  BY DEF vars, lockVars
<1>2. /\ tail \in Nat /\ head \in Nat /\ head <= head /\ head <= tail /\ tail <= tail
      /\ \A i \in 1 .. tail : log'[i] = log[i]
  BY <1>1, Counters
<1>3. VersionsAreHeld' /\ VersionInv' /\ VersionsTyped' /\ ver' \in [Threads -> DOMAIN versions']
  BY <1>1, VersionsStay
<1>4. LockIInv' /\ LockTypeOK' /\ PlacesInv'
  BY <1>1, LockStays, PlacesStay
<1>5. SharedTyped' /\ PushTyped' /\ ThreadsTyped' /\ ConsumersTyped'
  BY <1>1, Invariants DEF SharedTyped, PushTyped, ThreadsTyped, ConsumersTyped, Labels
<1>6. Spared /\ DOMAIN versions' = DOMAIN versions
  BY <1>1 DEF Spared, Cap
<1>7. RingInv'
  BY <1>1, <1>2, <1>6, RingStays
<1>8. OwnerInv' /\ IssuedInv'
  BY <1>1, <1>2, <1>6, OwnerStays
<1>9. ASSUME NEW c \in Consumers PROVE ConsumerInv(c)'
  <2>1. \A t \in head .. tail - 1 : Value(ver[c], t)' = Value(ver[c], t)
    BY <1>1 DEF Value, Cap
  <2> QED
    BY <1>1, <1>2, <2>1, ConsumerStays
<1>10. HistoryInv'
  BY <1>1, Invariants DEF HistoryInv, Claims
<1>11. TypeOK'
  BY <1>3, <1>4, <1>5, TypePartsNext
<1> QED
  BY <1>3, <1>4, <1>7, <1>8, <1>9, <1>10, <1>11 DEF IInv

LEMMA IInvStep == IInv /\ [Next]_vars => IInv'
<1> SUFFICES ASSUME IInv, [Next]_vars PROVE IInv'
  OBVIOUS
<1>1. ASSUME NEW c \in Consumers, ConsumerStart(c) \/ ConsumerStep(c) PROVE IInv'
  BY <1>1, ConsumerNext
<1> QED
  BY <1>1, OwnerStartStep, OwnerStepStep, IInvStutters DEF Next

-----------------------------------------------------------------------------
(* The theorems *)

(* Whatever the owner and any number of consumers do in whatever order,      *)
(* while the queue grows as often as it likes, the invariant above holds.    *)
THEOREM Invariance == Spec => []IInv
BY IInvInit, IInvStep, PTL DEF Spec

(* The types of the variables are kept.                                      *)
THEOREM TypeCorrect == Spec => []TypeOK
<1>1. IInv => TypeOK
  BY DEF IInv
<1> QED
  BY <1>1, Invariance, PTL

(* No version is freed while a handle or the cell refers to it, and every    *)
(* one is freed when none does.                                              *)
THEOREM VersionsAreHeldHolds == Spec => []VersionsAreHeld
<1>1. IInv => VersionsAreHeld
  BY DEF IInv
<1> QED
  BY <1>1, Invariance, PTL

(* The cell of the queue is locked as the lock promises, and a consumer that *)
(* clones its value finds one.                                               *)
THEOREM CellIsLocked == Spec => [](CounterIsTrue /\ ReaderSeesAValue)
<1>1. IInv => CounterIsTrue /\ ReaderSeesAValue
  <2> SUFFICES ASSUME IInv PROVE CounterIsTrue /\ ReaderSeesAValue
    OBVIOUS
  <2>1. LockIInv /\ CounterIsTrue
    BY DEF IInv, LockIInv
  <2>2. ASSUME Readers # {} PROVE cell \in Cells
    <3>1. PICK t \in Threads : t \in Readers
      BY <2>2 DEF Readers
    <3>2. Writers = {}
      BY <2>1, <3>1, CounterByRole
    <3>3. cell # Moved
      BY <2>1, <3>2 DEF LockIInv, Writers
    <3> QED
      BY <2>1, <3>3 DEF LockIInv, LockTypeOK
  <2> QED
    BY <2>1, <2>2 DEF ReaderSeesAValue
<1> QED
  BY <1>1, Invariance, PTL

(* Every value in the queue is in its slot in the version of the word and in *)
(* the newer one, also while the owner is growing the queue.                 *)
THEOREM ValuesInPlaceHolds == Spec => []ValuesInPlace
<1>1. IInv => ValuesInPlace
  <2> SUFFICES ASSUME IInv PROVE ValuesInPlace
    OBVIOUS
  <2>1. /\ OwnerInv /\ tail = Len(log) /\ from[owner] \in Nat /\ n[owner] \in Nat
        /\ \A v \in DOMAIN versions : v >= wordId => HasValues(v, head, tail)
    BY OwnerFacts, Counters, Invariants DEF RingInv
  <2>2. ASSUME NEW v \in DOMAIN versions, v >= wordId, NEW t \in head .. tail - 1
        PROVE  Value(v, t) = log[t + 1]
    BY <2>1, <2>2 DEF HasValues
  <2>3. ASSUME pc[owner] = "popRead", NEW t \in from[owner] .. from[owner] + n[owner] - 1
        PROVE  Value(ver[owner], t) = log[t + 1]
    <3>1. HasValues(ver[owner], from[owner], from[owner] + n[owner])
      BY <2>1, <2>3 DEF OwnerInv
    <3> QED
      BY <2>1, <2>3, <3>1 DEF HasValues
  <2> QED
    BY <2>1, <2>2, <2>3 DEF ValuesInPlace
<1> QED
  BY <1>1, Invariance, PTL

(* When a consumer's CAS is going to succeed, or has succeeded, what it has  *)
(* copied without any lock is what was pushed, from whichever version.       *)
THEOREM CopyIsValidHolds == Spec => []CopyIsValid
<1>1. IInv => CopyIsValid
  <2> SUFFICES ASSUME IInv, NEW c \in Consumers,
                      pc[c] = "return" \/ (pc[c] = "cas" /\ from[c] = head)
               PROVE  /\ from[c] + n[c] <= tail
                      /\ copied[c] = SubSeq(log, from[c] + 1, from[c] + n[c])
    BY DEF CopyIsValid
  <2> DEFINE h == from[c]
             k == n[c]
             seq == copied[c]
  <2>1. /\ h \in Nat /\ k \in Nat /\ tail \in Nat /\ head \in Nat /\ head <= tail
        /\ log \in Seq(Nat) /\ Len(log) = tail
    BY Counters, Invariants, Members, Unmoved DEF SharedTyped
  <2>2. seq \in Seq(Nat \union {Empty})
    BY Invariants, CopyOf
  <2>3. Len(seq) = k /\ h + k <= tail /\ CopiedFrom(h, seq)
    <3>1. ConsumerInv(c)
      BY Invariants
    <3> QED
      BY <2>1, <3>1 DEF ConsumerInv
  <2>4. \A i \in 1 .. k : seq[i] = log[h + i]
    BY <2>3 DEF CopiedFrom
  <2> HIDE DEF h, k, seq
  <2>5. SubSeq(log, h + 1, h + k) = [i \in 1 .. k |-> log[h + i]]
    <3>1. h + k - (h + 1) + 1 = k /\ \A i \in 1 .. k : (h + 1) + i - 1 = h + i
      BY <2>1
    <3>2. SubSeq(log, h + 1, h + k)
            = [i \in 1 .. (h + k - (h + 1) + 1) |-> log[(h + 1) + i - 1]]
      BY <2>1
    <3> QED
      BY <3>1, <3>2
  <2>6. seq = [i \in 1 .. k |-> seq[i]]
    BY <2>2, <2>3
  <2>7. seq = SubSeq(log, h + 1, h + k)
    BY <2>4, <2>5, <2>6
  <2> QED
    BY <2>3, <2>7 DEF h, k, seq
<1> QED
  BY <1>1, Invariance, PTL

-----------------------------------------------------------------------------
(* The queue implements the log *)

(* The tickets never outnumber the values that the owner was handed.         *)
LEMMA FewTickets ==
    IInv => tail <= MaxPushes /\ MaxPushes \in Nat /\ tail + Len(batch) <= MaxPushes
<1> SUFFICES ASSUME IInv PROVE tail <= MaxPushes /\ MaxPushes \in Nat /\ tail + Len(batch) <= MaxPushes
  OBVIOUS
<1>1. /\ tail \in Nat /\ Len(batch) \in Nat /\ issued \in Nat /\ MaxPushes \in Nat
      /\ tail + Len(batch) <= issued /\ issued <= MaxPushes
  BY OwnerFacts, BoundAssumption DEF IssuedInv
<1> QED
  BY <1>1

LEMMA ClaimsForLog ==
    ASSUME IInv, NEW k \in Nat, head + k <= tail, head' = head + k, UNCHANGED <<log, delivered>>
    PROVE  Log!Next \/ UNCHANGED Log!absVars
<1>1. head \in Nat /\ tail \in Nat /\ Len(log) = tail
  BY Counters
<1>2. CASE k = 0
  BY <1>1, <1>2 DEF Log!absVars
<1>3. CASE k # 0
  <2>1. k \in 1 .. MaxPushes /\ head + k <= Len(log)
    BY <1>1, <1>3, FewTickets
  <2>2. Log!Claim(k)
    BY <2>1 DEF Log!Claim
  <2> QED
    BY <2>1, <2>2 DEF Log!Next
<1> QED
  BY <1>2, <1>3

LEMMA PopCasForLog == ASSUME IInv, PopCas PROVE Log!Next \/ UNCHANGED Log!absVars
<1>1. /\ head' = head + n[owner] /\ UNCHANGED <<log, delivered>>
      /\ pc[owner] = "popCas" /\ head = from[owner]
  BY DEF PopCas, history
<1>2. n[owner] \in Nat /\ head + n[owner] <= tail
  BY <1>1, OwnerFacts DEF OwnerInv
<1> QED
  BY <1>1, <1>2, ClaimsForLog

LEMMA ClaimCopiedForLog ==
    ASSUME IInv, NEW c \in Consumers, ClaimCopied(c) PROVE Log!Next \/ UNCHANGED Log!absVars
<1>1. /\ head' = head + n[c] /\ UNCHANGED <<log, delivered>>
      /\ pc[c] = "cas" /\ head = from[c]
  BY DEF ClaimCopied, history
<1>2. n[c] \in Nat /\ head + n[c] <= tail
  <2>1. ConsumerInv(c) /\ n[c] \in Nat
    BY Members, Unmoved, Invariants
  <2> QED
    BY <1>1, <2>1 DEF ConsumerInv
<1> QED
  BY <1>1, <1>2, ClaimsForLog

(* A thread that delivers what it has claimed delivers it for the log.       *)
LEMMA DeliversForLog ==
    ASSUME IInv, NEW t \in Threads, Claims(t) \subseteq Nat, UNCHANGED <<head, log>>,
           delivered' = [k \in DOMAIN delivered \union Claims(t) |->
                           IF k \in Claims(t) THEN log[k + 1] ELSE delivered[k]]
    PROVE  Log!Next
<1>1. \A k \in Claims(t) : k < head /\ k \notin DOMAIN delivered
  BY Invariants DEF HistoryInv
<1>2. head \in Nat
  BY Counters
<1>3. Log!Deliver(Claims(t))
  BY <1>1 DEF Log!Deliver
<1>4. Claims(t) \in SUBSET (0 .. head - 1)
  BY <1>1, <1>2
<1> QED
  BY <1>3, <1>4 DEF Log!Next

LEMMA StoreWordForLog == ASSUME IInv, StoreWord PROVE Log!Next \/ UNCHANGED Log!absVars
<1>1. log' = log \o batch /\ UNCHANGED <<head, delivered>>
  BY DEF StoreWord, EndPush
<1>2. /\ tail \in Nat /\ head \in Nat /\ Len(log) = tail /\ log \in Seq(Nat)
      /\ batch \in Seq(Nat) /\ Len(batch) \in Nat /\ IssuedInv
  BY Counters, OwnerFacts, Invariants DEF SharedTyped
<1>3. CASE batch = <<>>
  <2>1. log \o <<>> = log
    BY <1>2
  <2> QED
    BY <1>1, <1>3, <2>1 DEF Log!absVars
<1>4. CASE batch # <<>>
  <2>1. Len(log) + Len(batch) - head <= MaxPushes
    BY <1>2, FewTickets
  <2>2. Log!Push(batch)
    BY <1>1, <2>1 DEF Log!Push
  <2>3. batch \in Seq(1 .. MaxPushes) /\ Len(batch) \in SliceLens \union {1}
    BY <1>2, <1>4 DEF IssuedInv
  <2>4. batch \in [1 .. Len(batch) -> 1 .. MaxPushes]
    <3>1. ASSUME NEW S, batch \in Seq(S) PROVE batch \in [1 .. Len(batch) -> S]
      BY <3>1
    <3> QED
      BY <2>3, <3>1
  <2>5. batch \in UNION {[1 .. k -> 1 .. MaxPushes] : k \in SliceLens \union {1}}
    BY <2>3, <2>4
  <2> QED
    BY <2>2, <2>5 DEF Log!Next
<1> QED
  BY <1>3, <1>4

(* The queue implements the log, whoever claims and however often it grows:  *)
(* pushes append, claims take the oldest values, and what a thread has       *)
(* claimed is delivered to it once and as it was pushed.                     *)
THEOREM ImplementsLog == Spec => LogSpec
<1>1. Init => Log!Init
  BY DEF Init, Log!Init
<1>2. IInv /\ [Next]_vars => [Log!Next]_Log!absVars
  <2> SUFFICES ASSUME IInv, [Next]_vars PROVE Log!Next \/ UNCHANGED Log!absVars
    OBVIOUS
  <2>1. StoreWord \/ PopCas => Log!Next \/ UNCHANGED Log!absVars
    BY StoreWordForLog, PopCasForLog
  <2>2. ASSUME PopRead PROVE Log!Next
    <3>1. UNCHANGED <<head, log>> /\ owner \in Threads
      BY <2>2, Members DEF PopRead
    <3> QED
      BY <2>2, <3>1, PopReadDelivers, DeliversForLog
  <2>3. ASSUME NEW c \in Consumers, ClaimCopied(c) PROVE Log!Next \/ UNCHANGED Log!absVars
    BY <2>3, ClaimCopiedForLog
  <2>4. ASSUME NEW c \in Consumers, Return(c) PROVE Log!Next
    <3>1. UNCHANGED <<head, log>> /\ c \in Threads
      BY <2>4, Members DEF Return
    <3> QED
      BY <2>4, <3>1, ReturnDelivers, DeliversForLog
  <2>5. CASE OwnerStart
    BY <2>5 DEF OwnerStart, StartPush, StartPushMany, StartPushManyUnchecked, Begin, StartReserve,
                StartCopyAndCommitIf, ProducerLen, StartProducerPop, history, Log!absVars
  <2>6. CASE RefreshHead \/ Enlarge \/ Grow \/ WriteNext \/ DoNotCommit \/ PopRefresh \/ PopMiss
    BY <2>6 DEF RefreshHead, Enlarge, Grow, WriteNext, DoNotCommit, EndPush, PopRefresh, PopMiss,
                history, Log!absVars
  <2>7. CASE SwapTryWrite \/ SwapTakeOut \/ SwapPutIn \/ SwapUnlock \/ UNCHANGED vars
    BY <2>7 DEF SwapTryWrite, SwapTakeOut, SwapPutIn, SwapUnlock, SwapStep, history, vars,
                Log!absVars
  <2>8. ASSUME NEW c \in Consumers, ConsumerStart(c) PROVE UNCHANGED Log!absVars
    BY <2>8 DEF ConsumerStart, StartSteal, StartPopMany, LoadsHead, StartCapacity, StartLen,
                LoadsWord, CloneHandle, history, Log!absVars
  <2>9. ASSUME NEW c \in Consumers,
               \/ LoadHead(c) \/ LoadWord(c) \/ CopyNext(c) \/ ForgetCopied(c)
               \/ LenWord(c) \/ LenHead(c)
        PROVE  UNCHANGED Log!absVars
    BY <2>9 DEF LoadHead, LoadsHead, LoadWord, CopyNext, ForgetCopied, LenWord, LoadsWord, LenHead,
                history, Log!absVars
  <2>10. ASSUME NEW c \in Consumers,
                UpdateTryRead(c) \/ UpdateCas(c) \/ UpdateFails(c) \/ CloneCell(c) \/ UpdateDone(c)
         PROVE  UNCHANGED Log!absVars
    BY <2>10 DEF UpdateTryRead, UpdateCas, UpdateFails, Update, CloneCell, UpdateDone, history,
                 Log!absVars
  <2> QED
    BY <2>1, <2>2, <2>3, <2>4, <2>5, <2>6, <2>7, <2>8, <2>9, <2>10
       DEF Next, OwnerStep, ConsumerStep
<1> QED
  BY <1>1, <1>2, Invariance, PTL DEF Spec, LogSpec, Log!Spec
-----------------------------------------------------------------------------
(* The lengths *)

(* The word that a consumer's len has loaded never counts too many values.   *)
LoadedInv == \A c \in Consumers : loaded[c].tail <= tail

(* A stale length, computed around the end of the counters, is more than any *)
(* version holds.                                                            *)
LengthsDoNotWrap == \A v \in DOMAIN versions : Cap(v) + MaxPushes < Modulus

LEMMA LoadedTyped ==
    ASSUME IInv, NEW c \in Consumers PROVE loaded[c].tail \in Nat /\ c \in Threads /\ c # owner
BY Invariants, Members DEF ConsumersTyped

LEMMA TailGrows ==
    ASSUME IInv, [Next]_vars PROVE tail' \in Nat /\ tail <= tail'
<1>1. tail \in Nat /\ Len(batch) \in Nat
  BY Counters, OwnerFacts
<1>2. CASE StoreWord
  <2>1. tail' = base + Len(batch) /\ pc[owner] = "publish"
    BY <1>2 DEF StoreWord
  <2>2. base = tail
    BY <2>1, Invariants DEF OwnerInv
  <2> QED
    BY <1>1, <2>1, <2>2
<1>3. CASE OwnerStart
  BY <1>1, <1>3 DEF OwnerStart, StartPush, StartPushMany, StartPushManyUnchecked, Begin,
            StartReserve, StartCopyAndCommitIf, ProducerLen, StartProducerPop, word
<1>4. CASE OwnerStep /\ ~StoreWord
  BY <1>1, <1>4 DEF OwnerStep, RefreshHead, Enlarge, Grow, SwapTryWrite, SwapTakeOut, SwapPutIn,
            SwapUnlock, SwapStep, WriteNext, DoNotCommit, PopRefresh, PopCas, PopMiss, PopRead, word
<1>5. CASE UNCHANGED vars
  BY <1>1, <1>5 DEF vars
<1>6. ASSUME NEW c \in Consumers, ConsumerStart(c) PROVE tail' = tail
  BY <1>6 DEF ConsumerStart, StartSteal, StartPopMany, LoadsHead, StartCapacity, StartLen,
            LoadsWord, CloneHandle, word
<1>7. ASSUME NEW c \in Consumers, ConsumerStep(c) PROVE tail' = tail
  BY <1>7 DEF ConsumerStep, LoadHead, LoadsHead, LoadWord, CopyNext, ClaimCopied, ForgetCopied,
            Return, LenWord, LoadsWord, LenHead, UpdateTryRead, UpdateCas, UpdateFails, Update,
            CloneCell, UpdateDone, word
<1> QED
  BY <1>1, <1>2, <1>3, <1>4, <1>5, <1>6, <1>7 DEF Next

LEMMA LoadedInvStep == IInv /\ LoadedInv /\ [Next]_vars => LoadedInv'
<1> SUFFICES ASSUME IInv, LoadedInv, [Next]_vars, NEW c \in Consumers
             PROVE  loaded'[c].tail <= tail'
  BY DEF LoadedInv
<1>1. /\ loaded[c].tail \in Nat /\ loaded[c].tail <= tail
      /\ tail \in Nat /\ tail' \in Nat /\ tail <= tail'
      /\ DOMAIN loaded = Consumers
  BY LoadedTyped, TailGrows, Counters, Invariants DEF LoadedInv, ConsumersTyped
<1>2. CASE loaded' = loaded
  BY <1>1, <1>2
<1>3. ASSUME NEW d \in Consumers,
             \/ loaded' = [loaded EXCEPT ![d] = NoWord]
             \/ loaded' = [loaded EXCEPT ![d] = [id |-> wordId, tail |-> tail]]
      PROVE  loaded'[c].tail <= tail'
  BY <1>1, <1>3 DEF NoWord
<1>4. OwnerStart => loaded' = loaded
  BY DEF OwnerStart, StartPush, StartPushMany, StartPushManyUnchecked, Begin, StartReserve,
         StartCopyAndCommitIf, ProducerLen, StartProducerPop, popping
<1>5. OwnerStep => loaded' = loaded
  BY DEF OwnerStep, RefreshHead, Enlarge, Grow, SwapTryWrite, SwapTakeOut, SwapPutIn, SwapUnlock,
         SwapStep, WriteNext, StoreWord, DoNotCommit, EndPush, PopRefresh, PopCas, PopMiss, PopRead,
         popping
<1>6. ASSUME NEW d \in Consumers, ConsumerStart(d)
      PROVE  \/ loaded' = loaded
             \/ loaded' = [loaded EXCEPT ![d] = [id |-> wordId, tail |-> tail]]
  BY <1>6 DEF ConsumerStart, StartSteal, StartPopMany, LoadsHead, StartCapacity, StartLen,
              LoadsWord, CloneHandle, popping
<1>7. ASSUME NEW d \in Consumers, ConsumerStep(d)
      PROVE  \/ loaded' = loaded
             \/ loaded' = [loaded EXCEPT ![d] = NoWord]
             \/ loaded' = [loaded EXCEPT ![d] = [id |-> wordId, tail |-> tail]]
  BY <1>7 DEF ConsumerStep, LoadHead, LoadsHead, LoadWord, CopyNext, ClaimCopied, ForgetCopied,
              Return, LenWord, LoadsWord, LenHead, EndQuery, UpdateTryRead, UpdateCas, UpdateFails,
              Update, CloneCell, UpdateDone, popping
<1>8. UNCHANGED vars => loaded' = loaded
  BY DEF vars
<1> QED
  BY <1>2, <1>3, <1>4, <1>5, <1>6, <1>7, <1>8 DEF Next

(* A consumer leaves lenHead by its own step, and answers when the length    *)
(* fits its version.                                                         *)
LEMMA AnswersFit ==
    ASSUME IInv, [Next]_vars, NEW c \in Consumers, pc[c] = "lenHead", pc'[c] = "idle"
    PROVE  LenAnswer(c) <= Cap(ver[c])
<1>1. c \in Threads /\ c # owner /\ owner \in Threads /\ DOMAIN pc = Threads
  BY LoadedTyped, Members, Invariants DEF ThreadsTyped
<1>2. ASSUME NEW t \in Threads, t # c, NEW label, Goto(t, label) PROVE FALSE
  BY <1>1, <1>2 DEF Goto
<1>3. pc' # pc
  OBVIOUS
<1>4. ~OwnerStart
  BY <1>1, <1>2, <1>3 DEF OwnerStart, StartPush, StartPushMany, StartPushManyUnchecked, Begin,
     StartReserve, StartCopyAndCommitIf, ProducerLen, StartProducerPop, Aim
<1>5. ~OwnerStep
  BY <1>1, <1>2, <1>3 DEF OwnerStep, RefreshHead, Enlarge, Grow, SwapTryWrite, SwapTakeOut,
     SwapPutIn, SwapUnlock, SwapStep, WriteNext, StoreWord, DoNotCommit, EndPush, PopRefresh, PopCas,
     PopMiss, PopRead, EndPop, Aim
<1>6. ASSUME NEW d \in Consumers, ConsumerStart(d) PROVE FALSE
  BY <1>1, <1>2, <1>3, <1>6, Members
     DEF ConsumerStart, StartSteal, StartPopMany, LoadsHead, StartCapacity, StartLen, Start,
         LoadsWord, CloneHandle
<1>7. ASSUME NEW d \in Consumers, d # c, ConsumerStep(d) PROVE FALSE
  BY <1>1, <1>2, <1>3, <1>7, Members
     DEF ConsumerStep, LoadHead, LoadsHead, LoadWord, CopyNext, ClaimCopied, ForgetCopied, Return,
         LenWord, LoadsWord, LenHead, EndQuery, UpdateTryRead, UpdateCas, UpdateFails, Update,
         CloneCell, UpdateDone, EndPop
<1>8. ConsumerStep(c) => LenHead(c)
  BY DEF ConsumerStep, LoadHead, LoadWord, CopyNext, ClaimCopied, ForgetCopied, Return,
         LenWord, UpdateTryRead, UpdateCas, UpdateFails, Update, CloneCell, UpdateDone
<1>9. ASSUME LenHead(c) PROVE LenAnswer(c) <= Cap(ver[c])
  <2>1. ASSUME NEW label, label # "idle", Goto(c, label) PROVE FALSE
    BY <1>1, <2>1 DEF Goto
  <2> QED
    BY <1>9, <2>1 DEF LenHead
<1>10. ~UNCHANGED vars
  BY <1>3 DEF vars
<1> QED
  BY <1>4, <1>5, <1>6, <1>7, <1>8, <1>9, <1>10 DEF Next

(* The remainder of a negative difference is at the far end of the counters. *)
LEMMA WrappedLength ==
    ASSUME NEW m \in Nat \ {0}, NEW h \in Nat, NEW t \in Nat
    PROVE  /\ h <= t => (t - h) % m <= t - h
           /\ t < h /\ h - t < m => (t - h) % m = m - (h - t)
<1> DEFINE d == t - h
           q == d \div m
           r == d % m
<1>0. d \in Int
  OBVIOUS
<1>1. q \in Int /\ r \in 0 .. m - 1 /\ d = m * q + r
  BY <1>0, DivMod
<1>2. ASSUME h <= t PROVE r <= d
  <2> HIDE DEF q, r
  <2>1. q < 0 => m * (q + 1) <= 0
    BY <1>1
  <2>2. m * (q + 1) = m * q + m
    BY <1>1
  <2>3. q >= 0
    BY <1>1, <1>2, <2>1, <2>2
  <2>4. m * q >= 0
    BY <1>1, <2>3
  <2> QED
    BY <1>1, <2>4
<1>3. ASSUME t < h, h - t < m PROVE r = m - (h - t)
  <2> HIDE DEF q, r
  <2>1. m - (h - t) \in 0 .. m - 1 /\ m * (-1) + (m - (h - t)) = m * q + r
    BY <1>1, <1>3
  <2>2. -1 \in Int
    OBVIOUS
  <2> QED
    BY <1>1, <2>1, <2>2, RemainderIsUnique
<1> QED
  BY <1>2, <1>3

(* A length that a consumer gets from a word it has loaded, after which      *)
(* others may have moved head past that word's tail, is of values that were  *)
(* in the queue: if the counters are wide enough, a difference that is       *)
(* negative shows itself as one that no version can hold.                    *)
THEOREM LenIsPossibleHolds == Spec /\ []LengthsDoNotWrap => LenIsPossible
<1> DEFINE Possible == \A c \in Consumers :
             pc[c] = "lenHead" /\ pc'[c] = "idle" => LenAnswer(c) <= tail - head
<1>1. Init => LoadedInv
  BY DEF Init, LoadedInv, NoWord
<1>2. IInv /\ LoadedInv /\ LengthsDoNotWrap /\ [Next]_vars => Possible
  <2> SUFFICES ASSUME IInv, LoadedInv, LengthsDoNotWrap, [Next]_vars, NEW c \in Consumers,
                      pc[c] = "lenHead", pc'[c] = "idle"
               PROVE  LenAnswer(c) <= tail - head
    OBVIOUS
  <2> DEFINE t == loaded[c].tail
             cap == Cap(ver[c])
  <2>1. /\ t \in Nat /\ t <= tail /\ head \in Nat /\ tail \in Nat /\ head <= tail
        /\ tail <= MaxPushes /\ MaxPushes \in Nat /\ Modulus \in Nat \ {0}
    BY LoadedTyped, Counters, FewTickets, BoundAssumption DEF LoadedInv
  <2>2. ver[c] \in DOMAIN versions /\ cap \in Nat
    BY LoadedTyped, Invariants, VersionFacts
  <2>3. cap + MaxPushes < Modulus
    BY <2>2 DEF LengthsDoNotWrap
  <2>4. (t - head) % Modulus <= cap
    BY AnswersFit DEF LenAnswer, Length
  <2> HIDE DEF t, cap
  <2>5. CASE head <= t
    <3>1. (t - head) % Modulus <= t - head
      BY <2>1, <2>5, WrappedLength
    <3>2. (t - head) % Modulus \in Int
      BY <2>1, DivMod
    <3>3. (t - head) % Modulus <= tail - head
      BY <2>1, <3>1, <3>2
    <3> QED
      BY <3>3 DEF LenAnswer, Length, t
  <2>6. CASE t < head
    <3>1. head - t < Modulus
      BY <2>1, <2>2, <2>3, <2>6
    <3>2. (t - head) % Modulus = Modulus - (head - t)
      BY <2>1, <2>6, <3>1, WrappedLength
    <3> QED
      BY <2>1, <2>2, <2>3, <2>4, <2>6, <3>2
  <2> QED
    BY <2>1, <2>5, <2>6
<1>3. [](IInv /\ LoadedInv /\ LengthsDoNotWrap) /\ [][Next]_vars => [][Possible]_vars
  BY <1>2, PTL
<1> QED
  BY <1>1, <1>3, LoadedInvStep, Invariance, PTL DEF Spec, LenIsPossible
=============================================================================
