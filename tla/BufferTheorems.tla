--------------------------- MODULE BufferTheorems ---------------------------
(***************************************************************************)
(* Theorems about BufferVersions, for every capacity: capacities grow, a   *)
(* slice lands in the slots of its tickets, and the larger buffer has the  *)
(* values of the smaller one where their tickets say.                      *)
(***************************************************************************)
EXTENDS BufferVersions, RingTheorems

(* The next capacity is larger, whichever branch of greater_capacity it is:  *)
(* the loop of handle_overflow comes to an end.                              *)
THEOREM GreaterCapacityIsGreater ==
    ASSUME NEW cap \in Nat
    PROVE  GreaterCapacity(cap) \in Nat /\ GreaterCapacity(cap) > cap
<1>1. CASE cap = 0
  BY <1>1 DEF GreaterCapacity
<1>2. CASE cap > 0 /\ AlwaysPow2 = TRUE
  <2>1. GreaterCapacity(cap) = cap * 2
    BY <1>2 DEF GreaterCapacity
  <2> QED
    BY <1>2, <2>1
<1>3. CASE cap > 0 /\ AlwaysPow2 = FALSE
  <2>1. /\ cap \in 512 .. 1023 <=> 512 <= cap /\ cap < 1024
        /\ cap \in 1024 .. 4095 <=> 1024 <= cap /\ cap < 4096
    OBVIOUS
  <2>2. CASE cap < 512
    <3>1. cap # 0 /\ ~(512 <= cap) /\ ~(1024 <= cap) /\ ~(cap >= 4096)
      BY <1>3, <2>2
    <3>2. GreaterCapacity(cap) = cap * 2
      BY <1>3, <2>1, <2>2, <3>1 DEF GreaterCapacity
    <3> QED
      BY <1>3, <3>2
  <2>3. CASE 512 <= cap /\ cap < 1024
    <3>1. cap # 0 /\ ~(cap < 512) /\ ~(1024 <= cap) /\ ~(cap >= 4096)
      BY <2>3
    <3>2. GreaterCapacity(cap) = (cap * 3) \div 2
      BY <1>3, <2>1, <2>3, <3>1 DEF GreaterCapacity
    <3> QED
      BY <2>3, <3>2
  <2>4. CASE 1024 <= cap /\ cap < 4096
    <3>1. cap # 0 /\ ~(cap < 512) /\ ~(cap < 1024) /\ ~(cap >= 4096)
      BY <2>4
    <3>2. GreaterCapacity(cap) = (cap * 4) \div 3
      BY <1>3, <2>1, <2>4, <3>1 DEF GreaterCapacity
    <3> QED
      BY <2>4, <3>2
  <2>5. CASE cap >= 4096
    <3>1. cap # 0 /\ ~(cap < 512) /\ ~(cap < 1024) /\ ~(cap < 4096)
      BY <2>5
    <3>2. GreaterCapacity(cap) = (cap * 5) \div 4
      BY <1>3, <2>1, <2>5, <3>1 DEF GreaterCapacity
    <3> QED
      BY <2>5, <3>2
  <2> QED
    BY <2>2, <2>3, <2>4, <2>5
<1>4. cap = 0 \/ cap > 0
  OBVIOUS
<1> QED
  BY <1>1, <1>2, <1>3, <1>4, Pow2Assumption, Zenon

-----------------------------------------------------------------------------
(* Indices *)

LEMMA PhysicalIndexInBuffer ==
    ASSUME NEW t \in Nat, NEW cap \in Nat \ {0}
    PROVE  PhysicalIndex(t, cap) \in 0 .. cap - 1
BY DivMod DEF PhysicalIndex

(* Less than a lap further, the index goes up or around the end. *)
LEMMA PhysicalIndexPlus ==
    ASSUME NEW t \in Nat, NEW cap \in Nat \ {0}, NEW k \in 0 .. cap
    PROVE  PhysicalIndex(t + k, cap) =
             IF PhysicalIndex(t, cap) + k < cap THEN PhysicalIndex(t, cap) + k
                                                ELSE PhysicalIndex(t, cap) + k - cap
BY RemainderPlus DEF PhysicalIndex

LEMMA IndicesDiffer ==
    ASSUME NEW cap \in Nat \ {0}, NEW s \in Nat, NEW t \in Nat, s < t, t < s + cap
    PROVE  PhysicalIndex(s, cap) # PhysicalIndex(t, cap)
<1>1. s \in Int /\ t \in Int
  OBVIOUS
<1>2. s % cap = t % cap => s + cap <= t
  BY <1>1, SlotsRepeatByLaps, Zenon
<1> QED
  BY <1>2 DEF PhysicalIndex

-----------------------------------------------------------------------------
(* Copying *)

(* copy_slice puts each value of the slice where its ticket says ...         *)
Lands(cap, buffer, start, slice, m) ==
    \A i \in 1 .. m, t \in Nat :
        t = start + i - 1 => CopySlice(buffer, cap, start, slice)[PhysicalIndex(t, cap)] = slice[i]

LEMMA CopySliceWrites ==
    ASSUME NEW cap \in Nat \ {0}, NEW buffer, NEW start \in Nat, NEW slice,
           NEW m \in 0 .. cap, Len(slice) = m
    PROVE  Lands(cap, buffer, start, slice, m)
<1> SUFFICES ASSUME NEW i \in 1 .. m, NEW t \in Nat, t = start + i - 1
             PROVE  CopySlice(buffer, cap, start, slice)[PhysicalIndex(t, cap)] = slice[i]
  BY DEF Lands
<1> DEFINE k  == i - 1
           at == PhysicalIndex(start, cap)
           to == PhysicalIndex(start + k, cap)
<1>0. Len(slice) \in Nat
  OBVIOUS
<1>1. at \in 0 .. cap - 1
  BY PhysicalIndexInBuffer
<1>2. to = IF at + k < cap THEN at + k ELSE at + k - cap
  BY <1>0, PhysicalIndexPlus
<1>3. CopySlice(buffer, cap, start, slice) =
        [j \in 0 .. cap - 1 |->
            CASE j >= at /\ j < at + Len(slice)      -> slice[j - at + 1]
              [] j < at /\ j + cap < at + Len(slice) -> slice[j + cap - at + 1]
              [] OTHER                               -> buffer[j]]
  BY DEF CopySlice
<1> HIDE DEF at, to
<1>4. CASE at + k < cap
  <2>1. to = at + k /\ to \in 0 .. cap - 1 /\ to >= at /\ to < at + Len(slice) /\ to - at + 1 = k + 1
    BY <1>0, <1>1, <1>2, <1>4
  <2>2. to \in 0 .. cap - 1 /\ (to >= at /\ to < at + Len(slice)) /\ ~(to < at /\ to + cap < at + Len(slice))
    BY <1>1, <2>1
  <2>3. CopySlice(buffer, cap, start, slice)[to] = slice[to - at + 1]
    BY <1>3, <2>2
  <2>4. to - at + 1 = k + 1
    BY <2>1
  <2> QED
    BY <2>3, <2>4 DEF to
<1>5. CASE ~(at + k < cap)
  <2>1. to = at + k - cap /\ to \in 0 .. cap - 1 /\ to < at
    BY <1>0, <1>1, <1>2, <1>5
  <2>2. ~(to >= at /\ to < at + Len(slice)) /\ to + cap < at + Len(slice)
    BY <1>0, <1>1, <2>1
  <2>3. to + cap - at + 1 = k + 1
    BY <1>0, <1>1, <2>1
  <2>4. CopySlice(buffer, cap, start, slice)[to] = slice[to + cap - at + 1]
    BY <1>3, <2>1, <2>2
  <2> QED
    BY <2>3, <2>4 DEF to
<1> QED
  BY <1>4, <1>5

(* ... and leaves the other tickets of the lap before its end alone.         *)
LEMMA CopySliceSpares ==
    ASSUME NEW cap \in Nat \ {0}, NEW buffer, NEW start \in Nat, NEW slice, Len(slice) \in Nat,
           NEW t \in Nat, t < start, start + Len(slice) <= t + cap
    PROVE  CopySlice(buffer, cap, start, slice)[PhysicalIndex(t, cap)] =
             buffer[PhysicalIndex(t, cap)]
<1> DEFINE at == PhysicalIndex(start, cap)
           it == PhysicalIndex(t, cap)
           d  == start - t
<1>0. Len(slice) \in Nat
  OBVIOUS
<1>1. at \in 0 .. cap - 1 /\ it \in 0 .. cap - 1
  BY PhysicalIndexInBuffer
<1>2. d \in 1 .. cap /\ t + d = start
  BY <1>0
<1> HIDE DEF d
<1>3. at = IF it + d < cap THEN it + d ELSE it + d - cap
  <2>1. d \in 0 .. cap
    BY <1>2
  <2>2. PhysicalIndex(t + d, cap) = IF it + d < cap THEN it + d ELSE it + d - cap
    BY <2>1, PhysicalIndexPlus
  <2> QED
    BY <1>2, <2>2
<1>4. CopySlice(buffer, cap, start, slice) =
        [i \in 0 .. cap - 1 |->
            CASE i >= at /\ i < at + Len(slice)      -> slice[i - at + 1]
              [] i < at /\ i + cap < at + Len(slice) -> slice[i + cap - at + 1]
              [] OTHER                               -> buffer[i]]
  BY DEF CopySlice
<1>5. Len(slice) <= cap - d
  BY <1>0 DEF d
<1> HIDE DEF at, it
<1>6. ~(it >= at /\ it < at + Len(slice)) /\ ~(it < at /\ it + cap < at + Len(slice))
  BY <1>0, <1>1, <1>2, <1>3, <1>5
<1>7. CopySlice(buffer, cap, start, slice)[it] = buffer[it]
  BY <1>1, <1>4, <1>6
<1> QED
  BY <1>7 DEF it

(* What was in the buffer or the slice is in the buffer, and nothing else.   *)
LEMMA CopySliceType ==
    ASSUME NEW cap \in Nat \ {0}, NEW S, NEW buffer \in [0 .. cap - 1 -> S], NEW start \in Nat,
           NEW slice \in Seq(S)
    PROVE  CopySlice(buffer, cap, start, slice) \in [0 .. cap - 1 -> S]
<1> DEFINE at == PhysicalIndex(start, cap)
<1>0. Len(slice) \in Nat /\ \A i \in 1 .. Len(slice) : slice[i] \in S
  OBVIOUS
<1>1. at \in 0 .. cap - 1
  BY PhysicalIndexInBuffer
<1>2. CopySlice(buffer, cap, start, slice) =
        [i \in 0 .. cap - 1 |->
            CASE i >= at /\ i < at + Len(slice)      -> slice[i - at + 1]
              [] i < at /\ i + cap < at + Len(slice) -> slice[i + cap - at + 1]
              [] OTHER                               -> buffer[i]]
  BY DEF CopySlice
<1> HIDE DEF at
<1>3. ASSUME NEW i \in 0 .. cap - 1
      PROVE  CopySlice(buffer, cap, start, slice)[i] \in S
  <2>1. CASE i >= at /\ i < at + Len(slice)
    <3>1. i - at + 1 \in 1 .. Len(slice)
      BY <1>0, <1>1, <2>1
    <3>2. ~(i < at /\ i + cap < at + Len(slice))
      BY <1>1, <2>1
    <3>3. CopySlice(buffer, cap, start, slice)[i] = slice[i - at + 1]
      BY <1>2, <2>1, <3>2
    <3> QED
      BY <1>0, <3>1, <3>3
  <2>2. CASE ~(i >= at /\ i < at + Len(slice)) /\ i < at /\ i + cap < at + Len(slice)
    <3>1. i + cap - at + 1 \in 1 .. Len(slice)
      BY <1>0, <1>1, <2>2
    <3> QED
      BY <1>0, <1>2, <2>2, <3>1
  <2>3. CASE ~(i >= at /\ i < at + Len(slice)) /\ ~(i < at /\ i + cap < at + Len(slice))
    BY <1>2, <2>3
  <2> QED
    BY <2>1, <2>2, <2>3
<1> QED
  BY <1>2, <1>3

-----------------------------------------------------------------------------
(* Growth *)

(* The two slices of the old buffer together are the tickets head to tail:   *)
(* the ticket head + k lies k behind the beginning of the right one, or      *)
(* k - Len(right) behind that of the left one.                               *)
LEMMA OldSlices ==
    ASSUME NEW cap \in Nat \ {0}, NEW head \in Nat, NEW tail \in Nat,
           head <= tail, tail <= head + cap
    PROVE  /\ RightLen(cap, head, tail) \in Nat
           /\ LeftLen(cap, head, tail) \in Nat
           /\ RightLen(cap, head, tail) + LeftLen(cap, head, tail) = tail - head
           /\ PhysicalIndex(head, cap) + RightLen(cap, head, tail) <= cap
           /\ LeftLen(cap, head, tail) > 0 =>
                PhysicalIndex(head, cap) + RightLen(cap, head, tail) = cap
<1> DEFINE hi == PhysicalIndex(head, cap)
           ti == PhysicalIndex(tail, cap)
           d  == tail - head
<1>1. hi \in 0 .. cap - 1 /\ ti \in 0 .. cap - 1
  BY PhysicalIndexInBuffer
<1>2. d \in 0 .. cap /\ head + d = tail
  OBVIOUS
<1> HIDE DEF d
<1>3. PhysicalIndex(head + d, cap) = IF hi + d < cap THEN hi + d ELSE hi + d - cap
  BY <1>2, PhysicalIndexPlus
<1>4. ti = IF hi + d < cap THEN hi + d ELSE hi + d - cap
  BY <1>2, <1>3
<1>5. head = tail <=> d = 0
  BY <1>2
<1>6. RightLen(cap, head, tail) = IF d = 0 THEN 0 ELSE (IF hi < ti THEN ti ELSE cap) - hi
  BY <1>5 DEF RightLen, InOneSlice
<1>7. LeftLen(cap, head, tail) = IF d = 0 \/ hi < ti THEN 0 ELSE ti
  BY <1>5 DEF LeftLen, InOneSlice
<1>8. tail - head = d
  BY DEF d
<1> HIDE DEF hi, ti
<1>9. /\ RightLen(cap, head, tail) \in Nat
      /\ LeftLen(cap, head, tail) \in Nat
      /\ RightLen(cap, head, tail) + LeftLen(cap, head, tail) = d
      /\ hi + RightLen(cap, head, tail) <= cap
      /\ LeftLen(cap, head, tail) > 0 => hi + RightLen(cap, head, tail) = cap
  BY <1>1, <1>2, <1>4, <1>6, <1>7
<1> QED
  BY <1>8, <1>9 DEF hi

(* The new tail is the old one: create_new_version_and_write_it_but_not_     *)
(* update_tail computes it from the lengths of the slices.                   *)
THEOREM GrowthKeepsTail ==
    ASSUME NEW cap \in Nat \ {0}, NEW head \in Nat, NEW tail \in Nat,
           head <= tail, tail <= head + cap
    PROVE  GrownTail(cap, head, tail) = tail
<1>1. /\ RightLen(cap, head, tail) \in Nat
      /\ LeftLen(cap, head, tail) \in Nat
      /\ RightLen(cap, head, tail) + LeftLen(cap, head, tail) = tail - head
  BY OldSlices
<1> QED
  BY <1>1 DEF GrownTail

LEMMA OldRightHolds ==
    ASSUME NEW cap \in Nat \ {0}, NEW head \in Nat, NEW tail \in Nat,
           head <= tail, tail <= head + cap, NEW S, NEW buffer \in [0 .. cap - 1 -> S]
    PROVE  SrcRight(buffer, cap, head, tail) \in Seq(S)
<1> DEFINE hi == PhysicalIndex(head, cap)
           r  == RightLen(cap, head, tail)
<1>1. r \in Nat /\ hi + r <= cap
  BY OldSlices
<1>2. hi \in 0 .. cap - 1
  BY PhysicalIndexInBuffer
<1>3. SrcRight(buffer, cap, head, tail) = [i \in 1 .. r |-> buffer[hi + i - 1]]
  BY DEF SrcRight
<1> HIDE DEF hi, r
<1>4. \A i \in 1 .. r : buffer[hi + i - 1] \in S
  BY <1>1, <1>2
<1> QED
  BY <1>1, <1>3, <1>4

LEMMA OldLeftHolds ==
    ASSUME NEW cap \in Nat \ {0}, NEW head \in Nat, NEW tail \in Nat,
           head <= tail, tail <= head + cap, NEW S, NEW buffer \in [0 .. cap - 1 -> S]
    PROVE  SrcLeft(buffer, cap, head, tail) \in Seq(S)
<1> DEFINE l == LeftLen(cap, head, tail)
<1>1. l \in Nat /\ l <= cap
  <2>1. /\ RightLen(cap, head, tail) \in Nat /\ l \in Nat
        /\ RightLen(cap, head, tail) + l = tail - head
    BY OldSlices
  <2> QED
    BY <2>1
<1>2. SrcLeft(buffer, cap, head, tail) = [i \in 1 .. l |-> buffer[i - 1]]
  BY DEF SrcLeft
<1> HIDE DEF l
<1>3. \A i \in 1 .. l : buffer[i - 1] \in S
  BY <1>1
<1> QED
  BY <1>1, <1>2, <1>3

LEMMA OldLens ==
    ASSUME NEW cap, NEW head, NEW tail, NEW buffer,
           RightLen(cap, head, tail) \in Nat, LeftLen(cap, head, tail) \in Nat
    PROVE  /\ Len(SrcRight(buffer, cap, head, tail)) = RightLen(cap, head, tail)
           /\ Len(SrcLeft(buffer, cap, head, tail)) = LeftLen(cap, head, tail)
BY DEF SrcRight, SrcLeft

LEMMA GrownType ==
    ASSUME NEW cap \in Nat \ {0}, NEW head \in Nat, NEW tail \in Nat,
           head <= tail, tail <= head + cap, NEW newCap \in Nat \ {0},
           NEW S, Empty \in S, NEW buffer \in [0 .. cap - 1 -> S]
    PROVE  Grown(buffer, cap, head, tail, newCap) \in [0 .. newCap - 1 -> S]
<1> DEFINE first  == CopySlice(AllocNew(newCap), newCap, head, SrcRight(buffer, cap, head, tail))
           middle == head + RightLen(cap, head, tail)
<1>1. AllocNew(newCap) \in [0 .. newCap - 1 -> S]
  BY DEF AllocNew
<1>2. SrcRight(buffer, cap, head, tail) \in Seq(S) /\ SrcLeft(buffer, cap, head, tail) \in Seq(S)
  BY OldRightHolds, OldLeftHolds
<1>3. first \in [0 .. newCap - 1 -> S]
  BY <1>1, <1>2, CopySliceType
<1>4. middle \in Nat
  <2>1. RightLen(cap, head, tail) \in Nat
    BY OldSlices
  <2> QED
    BY <2>1
<1> HIDE DEF first, middle
<1>5. CopySlice(first, newCap, middle, SrcLeft(buffer, cap, head, tail)) \in [0 .. newCap - 1 -> S]
  BY <1>2, <1>3, <1>4, CopySliceType
<1> QED
  BY <1>5 DEF Grown, first, middle

(* Every value between head and tail is in the larger buffer, in the slot of *)
(* its ticket there: create_new_version_and_write_it_but_not_update_tail     *)
(* loses and displaces nothing, wherever the old buffer was wrapped.         *)
THEOREM GrowthKeepsValues ==
    ASSUME NEW cap \in Nat \ {0}, NEW head \in Nat, NEW tail \in Nat,
           head <= tail, tail <= head + cap, NEW newCap \in Nat \ {0}, cap <= newCap,
           NEW old, NEW t \in head .. tail - 1
    PROVE  Grown(old, cap, head, tail, newCap)[PhysicalIndex(t, newCap)] =
             old[PhysicalIndex(t, cap)]
<1> DEFINE hi     == PhysicalIndex(head, cap)
           r      == RightLen(cap, head, tail)
           l      == LeftLen(cap, head, tail)
           right  == SrcRight(old, cap, head, tail)
           left   == SrcLeft(old, cap, head, tail)
           first  == CopySlice(AllocNew(newCap), newCap, head, right)
           middle == head + r
           k      == t - head
<1>1. r \in Nat /\ l \in Nat /\ r + l = tail - head /\ hi + r <= cap /\ (l > 0 => hi + r = cap)
  BY OldSlices
<1>2. hi \in 0 .. cap - 1
  BY PhysicalIndexInBuffer
<1>3. Len(right) = r /\ Len(left) = l
  BY <1>1, OldLens
<1>4. right = [i \in 1 .. r |-> old[hi + i - 1]]
  BY DEF SrcRight
<1>5. left = [i \in 1 .. l |-> old[i - 1]]
  BY DEF SrcLeft
<1>6. Grown(old, cap, head, tail, newCap) = CopySlice(first, newCap, middle, left)
  BY DEF Grown
<1>7. t \in Nat /\ k \in Nat /\ t = head + k /\ k < r + l
  BY <1>1
<1>8. PhysicalIndex(t, cap) = IF hi + k < cap THEN hi + k ELSE hi + k - cap
  <2>1. k \in 0 .. cap
    BY <1>1, <1>7
  <2> HIDE DEF k, hi
  <2>2. PhysicalIndex(head + k, cap) = IF PhysicalIndex(head, cap) + k < cap
                                         THEN PhysicalIndex(head, cap) + k
                                         ELSE PhysicalIndex(head, cap) + k - cap
    BY <2>1, PhysicalIndexPlus
  <2> QED
    BY <1>7, <2>2 DEF hi
<1>9. middle \in Nat
  BY <1>1
<1>10. r <= newCap /\ l <= newCap
  BY <1>1
<1> HIDE DEF hi, r, l, right, left, first, k
<1>11. CASE k < r
  <2>1. PhysicalIndex(t, cap) = hi + k
    BY <1>1, <1>2, <1>7, <1>8, <1>11
  <2>2. right[k + 1] = old[hi + k]
    BY <1>1, <1>2, <1>4, <1>7, <1>11
  <2>3. r \in 0 .. newCap /\ k + 1 \in 1 .. r /\ Len(right) = r /\ t = head + (k + 1) - 1
    BY <1>1, <1>3, <1>7, <1>10, <1>11
  <2>4. first[PhysicalIndex(t, newCap)] = right[k + 1]
    <3> DEFINE fresh == AllocNew(newCap)
    <3> HIDE DEF fresh
    <3> DEFINE i == k + 1
    <3>1. t \in Nat /\ r \in 0 .. newCap /\ Len(right) = r /\ i \in 1 .. r /\ t = head + i - 1
      BY <1>7, <2>3
    <3> HIDE DEF i
    <3>2. Lands(newCap, fresh, head, right, r)
      BY <3>1, CopySliceWrites, Zenon
    <3>3. CopySlice(fresh, newCap, head, right)[PhysicalIndex(t, newCap)] = right[i]
      BY <3>1, <3>2 DEF Lands
    <3> QED
      BY <3>3 DEF first, fresh, i
  <2>5. t < middle /\ middle + Len(left) <= t + newCap /\ Len(left) \in Nat
    BY <1>1, <1>3, <1>7, <1>11
  <2> HIDE DEF middle
  <2>6. CopySlice(first, newCap, middle, left)[PhysicalIndex(t, newCap)] = first[PhysicalIndex(t, newCap)]
    BY <1>7, <1>9, <2>5, CopySliceSpares
  <2> QED
    BY <1>6, <1>7, <2>1, <2>2, <2>4, <2>6
<1>12. CASE ~(k < r)
  <2> DEFINE j == k - r
  <2>1. l \in 0 .. newCap /\ j \in 0 .. l - 1 /\ Len(left) = l
    BY <1>1, <1>3, <1>7, <1>10, <1>12
  <2>2. hi + r = cap
    BY <1>1, <1>7, <1>12
  <2>3. PhysicalIndex(t, cap) = j
    BY <1>1, <1>2, <1>7, <1>8, <1>12, <2>2
  <2>4. left[j + 1] = old[j]
    <3>1. j \in Nat /\ j + 1 \in 1 .. l /\ (j + 1) - 1 = j
      BY <1>1, <1>3, <2>1
    <3>2. left[j + 1] = old[(j + 1) - 1]
      BY <1>5, <3>1
    <3> QED
      BY <3>1, <3>2
  <2>5. middle + j = t
    BY <1>1, <1>7
  <2> HIDE DEF middle, j
  <2>6. CopySlice(first, newCap, middle, left)[PhysicalIndex(t, newCap)] = left[j + 1]
    <3> DEFINE i == j + 1
    <3>1. /\ t \in Nat /\ l \in 0 .. newCap /\ Len(left) = l /\ middle \in Nat
          /\ i \in 1 .. l /\ t = middle + i - 1
      BY <1>7, <1>9, <2>1, <2>5
    <3> HIDE DEF i
    <3>2. Lands(newCap, first, middle, left, l)
      BY <3>1, CopySliceWrites, Zenon
    <3>3. CopySlice(first, newCap, middle, left)[PhysicalIndex(t, newCap)] = left[i]
      BY <3>1, <3>2 DEF Lands
    <3> QED
      BY <3>3 DEF i
  <2> QED
    BY <1>6, <2>3, <2>4, <2>6
<1> QED
  BY <1>11, <1>12
=============================================================================
