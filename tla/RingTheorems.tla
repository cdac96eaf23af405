---------------------------- MODULE RingTheorems ----------------------------
(* Facts about tickets and the slots they use in a ring of n slots, for the  *)
(* proofs about every ring queue.                                            *)
EXTENDS Integers, TLAPS

(* Division with remainder. *)
LEMMA DivMod ==
    ASSUME NEW t \in Int, NEW n \in Nat \ {0}
    PROVE  /\ t = n * (t \div n) + (t % n)
           /\ t \div n \in Int
           /\ t % n \in 0 .. n - 1
BY SMT

(* Two tickets of one slot are at least a lap apart. *)
LEMMA SlotsRepeatByLaps ==
    ASSUME NEW n \in Nat \ {0}, NEW s \in Int, NEW t \in Int, s % n = t % n, s < t
    PROVE  s + n <= t
<1> DEFINE r == s % n
           i == s \div n
           j == t \div n
<1>1. s = n * i + r /\ i \in Int /\ r \in Int
  BY DivMod
<1>2. t = n * j + r /\ j \in Int
  BY DivMod
<1> HIDE DEF r, i, j
<1>3. i < j
  BY <1>1, <1>2
<1>4. n * (i + 1) <= n * j
  BY <1>1, <1>2, <1>3
<1>5. n * (i + 1) = n * i + n
  BY <1>1
<1> QED
  BY <1>1, <1>2, <1>4, <1>5

(* Division has one remainder. *)
LEMMA RemainderIsUnique ==
    ASSUME NEW n \in Nat \ {0}, NEW i \in Int, NEW j \in Int,
           NEW a \in 0 .. n - 1, NEW b \in 0 .. n - 1, n * i + a = n * j + b
    PROVE  a = b
<1>1. i < j => n * (i + 1) <= n * j
  OBVIOUS
<1>2. j < i => n * (j + 1) <= n * i
  OBVIOUS
<1>3. n * (i + 1) = n * i + n /\ n * (j + 1) = n * j + n
  OBVIOUS
<1> QED
  BY <1>1, <1>2, <1>3

(* Less than a lap further, the remainder goes up or around the end. *)
LEMMA RemainderPlus ==
    ASSUME NEW t \in Nat, NEW n \in Nat \ {0}, NEW k \in 0 .. n
    PROVE  (t + k) % n =
             IF (t % n) + k < n THEN (t % n) + k ELSE (t % n) + k - n
<1> DEFINE i == t \div n
           a == t % n
           j == (t + k) \div n
           b == (t + k) % n
<1>1. t = n * i + a /\ i \in Int /\ a \in 0 .. n - 1
  BY DivMod
<1>0. t + k \in Int
  OBVIOUS
<1>2. t + k = n * j + b /\ j \in Int /\ b \in 0 .. n - 1
  BY <1>0, DivMod
<1> HIDE DEF i, a, j, b
<1>3. CASE a + k < n
  <2>1. a + k \in 0 .. n - 1 /\ n * i + (a + k) = n * j + b
    BY <1>1, <1>2, <1>3
  <2>2. a + k = b
    BY <1>1, <1>2, <2>1, RemainderIsUnique
  <2> QED
    BY <1>3, <2>2 DEF a, b
<1>4. CASE ~(a + k < n)
  <2>1. a + k - n \in 0 .. n - 1
    BY <1>1, <1>4
  <2>2. n * (i + 1) = n * i + n
    BY <1>1
  <2>3. n * (i + 1) + (a + k - n) = n * j + b
    BY <1>1, <1>2, <2>2
  <2>4. i + 1 \in Int
    BY <1>1
  <2>5. a + k - n = b
    BY <1>2, <2>1, <2>3, <2>4, RemainderIsUnique
  <2> QED
    BY <1>4, <2>5 DEF a, b
<1> QED
  BY <1>3, <1>4
=============================================================================
