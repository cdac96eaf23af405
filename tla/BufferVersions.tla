--------------------------- MODULE BufferVersions ---------------------------
(***************************************************************************)
(* buffer_version.rs, and the copying into a larger buffer that the two    *)
(* unbounded queues share (create_new_version_and_write_it_but_not_update_ *)
(* tail in spmc/unbounded.rs and spsc/unbounded.rs, which are the same).   *)
(*                                                                         *)
(* A buffer is a function on 0 .. cap - 1.  The ticket t of a value is its *)
(* logical index: it lies in slot t % cap of a buffer of cap slots, so     *)
(* growth has to move the values.                                          *)
(***************************************************************************)
EXTENDS Integers, Sequences

CONSTANTS
    Empty,          \* the contents of a slot never written
    AlwaysPow2      \* is the feature unbounded_slices_always_pow2 on?

ASSUME Pow2Assumption == AlwaysPow2 \in BOOLEAN

(* logical_index & (capacity - 1) is the same for a power of two.            *)
PhysicalIndex(t, cap) == t % cap

AllocNew(cap) == [i \in 0 .. cap - 1 |-> Empty]

GreaterCapacity(cap) ==
    CASE cap = 0                          -> 4
      [] cap > 0 /\ (AlwaysPow2 \/ cap < 512) -> cap * 2
      [] ~AlwaysPow2 /\ cap \in 512 .. 1023   -> (cap * 3) \div 2
      [] ~AlwaysPow2 /\ cap \in 1024 .. 4095  -> (cap * 4) \div 3
      [] ~AlwaysPow2 /\ cap >= 4096           -> (cap * 5) \div 4

(* copy_slice: from the slot of ticket start on, and on from slot 0.         *)
CopySlice(buffer, cap, start, slice) ==
    LET at   == PhysicalIndex(start, cap)
        last == at + Len(slice)
    IN  [i \in 0 .. cap - 1 |->
            CASE i >= at /\ i < last       -> slice[i - at + 1]
              [] i < at /\ i + cap < last  -> slice[i + cap - at + 1]
              [] OTHER                     -> buffer[i]]

(* The two slices of the old buffer: head to tail, or head to the end and    *)
(* the beginning to tail.                                                    *)
InOneSlice(cap, head, tail) == PhysicalIndex(head, cap) < PhysicalIndex(tail, cap)

RightLen(cap, head, tail) ==
    IF head = tail THEN 0
    ELSE (IF InOneSlice(cap, head, tail) THEN PhysicalIndex(tail, cap) ELSE cap)
           - PhysicalIndex(head, cap)

LeftLen(cap, head, tail) ==
    IF head = tail \/ InOneSlice(cap, head, tail) THEN 0 ELSE PhysicalIndex(tail, cap)

SrcRight(buffer, cap, head, tail) ==
    [i \in 1 .. RightLen(cap, head, tail) |-> buffer[PhysicalIndex(head, cap) + i - 1]]

SrcLeft(buffer, cap, head, tail) ==
    [i \in 1 .. LeftLen(cap, head, tail) |-> buffer[i - 1]]

(* mutant: the slices keep their old places                                  *)
GrownInPlace(buffer, cap, head, tail, newCap) ==
    [i \in 0 .. newCap - 1 |-> IF i < cap THEN buffer[i] ELSE Empty]

(* The buffer of the new version, and the tail that goes with it             *)
Grown(buffer, cap, head, tail, newCap) ==
    CopySlice(
        CopySlice(AllocNew(newCap), newCap, head, SrcRight(buffer, cap, head, tail)),
        newCap, head + RightLen(cap, head, tail), SrcLeft(buffer, cap, head, tail))

GrownTail(cap, head, tail) ==
    head + RightLen(cap, head, tail) + LeftLen(cap, head, tail)
=============================================================================
