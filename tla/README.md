# parcoll: specifications and proofs

parcoll is a Rust library of concurrent ring queues for schedulers. This directory holds TLA+ models of its
queues, the TLC configurations that check them on small instances, and TLAPS proofs that hold for
every instance. `PROJECT.json` lists the runs, the mutants, the theorems, the hazards of the code and, for each
definition of the models, the lines of source it stands for. All paths below are under `src/src/`.

## The system

| Component | State | Operations | What is hard | What makes it correct |
|---|---|---|---|---|
| `MPMCBoundedQueue` (`mpmc/const_bounded.rs`) | `tail`, `head`; per slot a `state` mark and a value | `maybe_push`, `pop`, `pop_many`, `steal_into`, and `lock_free_` forms | any number of threads; slots reused each lap; Relaxed loads; threads preempted inside a slot | slots are exclusive between claim and mark; each pushed value is popped once, in ticket order; what `Full`, `Empty` and `ShouldWait` mean; who can block whom |
| `SPMCBoundedQueue` (`spmc/const_bounded.rs`) | `tail`, `head`, the buffer, the owner's `cached_head` | the owner pushes (8 methods), pops and takes its length; consumers pop many and steal | consumers copy slots the owner may be overwriting; the owner's view of `head` is old; overflow moves half of the ring elsewhere while consumers steal | no slot overwritten before it is claimed; a copy is good whenever its CAS succeeds; nothing lost or doubled between ring, consumers and receiver; answers are true |
| `BatchReceiver`, `LockFreeBatchReceiver`, `MutexVecQueue` (`batch_receiver.rs`, `mutex_vec_queue.rs`) | a locked vector queue | push two slices and a value or a slice, with or without a commit condition; move a batch to a producer | the lock may be taken; the condition (a CAS on `head`) may fail under the lock | contents change only when the condition holds |
| `SPMCUnboundedQueue` (`spmc/unbounded.rs`) | as above with `tail_and_version`, the current `Version` in a `SyncCell`, cached versions per handle | as above, and `reserve`; a full ring grows | consumers read an old buffer while the owner moves to a new one | what a consumer claims was pushed as it copied it, from whichever version; no value is lost in a move; a version lives exactly as long as it is held |
| `SPSCBoundedQueue` (`spsc/const_bounded.rs`) | `tail`, `head`, `cached_tail`, `cached_head`, buffer | push, pop, steal, lengths | each side trusts an old copy of the other's counter | no overrun, no read of an unwritten slot |
| `SPSCUnboundedQueue` (`spsc/unbounded.rs`) | `tail_and_version`, `head`, `cached_head`, versions | the same, and `reserve` | the word the consumer loads may be older than its version, and its update fails while the cell is locked | no race in a slot, FIFO across growth, counted versions, operations return |
| `Version`, `CachedVersion` (`buffer_version.rs`) | id, capacity, mask, buffer | allocate, physical index, share | index arithmetic for capacities that are no powers of two | one slot per ticket of a lap |
| `SyncCell` (`sync_cell.rs`), `NaiveRWLock` (`naive_rw_lock.rs`) | one value and a lock counter, or a pointer | `try_with`, `try_store`, `swap`; `try_read`, `try_write` | a reader during a swap; a weak CAS; one counter for readers and writer | the counter tells who holds the lock; no reader sees a value being replaced |
| trait defaults and handles (`consumer.rs`, `spmc_producer.rs`, ..., the handle macros) | an `Arc` of the queue | forward, convert answers | - | - |
| `loom_bindings/` | std or loom primitives; `Barrier` is dead code (a private module that nothing re-exports) | - | - | - |

How they meet: threads share a queue through handles and interact only through its atomics and its buffer. The
owner of a local (SPMC) queue overflows into the `BatchReceiver`, which all workers share, by a call with two slices of
its ring; with `lock_free_push` the receiver calls back (the CAS on `head`) under its lock.
`steal_into` runs in the thief: it reads the source ring and hands slices to `copy_and_commit_if` of the *thief's own*
queue, whose commit condition is the CAS on the source's `head`. `move_batch_to_producer` takes from the
`MutexVecQueue` and calls `push_many_unchecked`.

## Modules

`QueueLog` is the abstract promise of a ring queue, without a ring: pushes append batches to a log, a
claim takes the oldest unclaimed entries, a claimed entry is delivered once with the value that was pushed, and
at most `Capacity` entries are pushed and unclaimed.

`MPMCBounded` models `mpmc/const_bounded.rs`. One action per atomic access or access to a slot's value,
so a thread can be preempted between any two. `pc` is the place in the method; `ticket` is the local `tail` or `head`.
`PushState` and `PopState` are the `if`/`else if`/`else` on the slot's mark, with the predicates of `struct State` as
operators of the same names. The weak CAS is a pair: `ClaimTail` when `tail` equals the ticket, `MissTail` always
(a weak CAS may fail for no reason). A pop is a `pop_many` of one value; `waits` tells the blocking form,
which snoozes, from the lock-free one, which answers `ShouldWait`. `steal_into` is `len()` (two loads, repeated if the
result is out of range) and then that many pops; its destination belongs to the caller and is empty, so
`push_many_unchecked` on it is part of the pop. An operation that returns forgets its locals (`EndPush`, `EndPop`). `pushed` and
`delivered` are history variables. `MPMCEmptyAnswer` adds one more, `heldSince`, that tells whether a pushed value has been waiting ever since an operation began.

*Memory.* With `StaleLoads`, a Relaxed or Acquire load returns **any** value its location has held, and no order between
loads of different locations is assumed. That is weaker than the C11 orderings the code uses, so what holds here holds of
the code. Read-modify-writes read the latest value, as C11 says. The value of a slot is plain memory: a
write and a read of it are ordered by the Release store and the Acquire load of the mark that the reader
acted on, and `SlotOwnership` shows that nobody else is in the slot. Answers are about the present, so
the run on answers uses exact loads.

`SPMCBounded` models `spmc/const_bounded.rs`. The owner (one thread) runs all its pushes through the same labels:
a start (`Begin`, the test of the cached head by `MustRefresh`), `refresh`, then `write` slot by slot and `publish` (the store of
`tail`), or `err`, or `overflow`. `overflow` is the loop of the four `handle_*overflow*` functions: `TakeHalf` is the CAS that
succeeds, after which `MoveHalf` hands the slices to the receiver (`push` and `push_many` may wait there for its `Mutex`, see *Fairness*); `MissHalf` is the CAS lost by `push` and
`push_many`; `ReceiverIsLocked` and `MissHalfOnce` are the two ways the lock-free ones fail. The owner's pops are
`StartProducerPop`, `PopRefresh`, `PopCas`/`PopMiss`, `PopRead`. A consumer loads `head`, loads `tail`, copies slot by slot,
and CASes; `ForgetCopied` is a lost CAS. `steal_into` is the same loop with half of the length as its aim. The other side of a steal is
`copyAndCommitIf` of the owner, with success and failure of the foreign CAS both possible. Accesses are sequentially
consistent here. The code copies the whole buffer as `T`s; a torn copy of one slot is never kept, because `CopyIsValid` shows
that a kept copy was of slots nobody wrote meanwhile.

*The discipline `OwnerLooks`.* `cached_head` may fall more than a lap behind: an overflow that loses its CAS, `push_many_unchecked`
and `copy_and_commit_if` insert without refreshing it. The single pushes test `len == CAPACITY` and miss that. With `OwnerLooks`
the owner makes a single push only when its cached head is at most a lap behind (after a `len()`, a `pop` or a refresh), and
vouches for space or emptiness only by what it has seen itself. The passing runs assume it; `spmc_overrun` drops
it and finds the overrun. So: the ring is correct for owners who look, and plain `push` alone is enough to break it.
Two more limits are read in the same way: an even `Capacity`, and slices for the overflowing pushes of at most
`Capacity \div 2 + 1` values (a longer one can overflow a ring with fewer than half its slots occupied, and `head` is then moved past `tail`).
`Disciplined` is `OwnerLooks` with the limit on the slices; it is the hypothesis of the theorems.
Debug builds stop at the assertions in most of these cases; the models are of release builds.

`SPSCBounded` models `spsc/const_bounded.rs`. Each side works through labels of its own: the producer `refresh` (a load of
`head`), `write` slot by slot, `publish` (the store of `tail`, or `DoNotCommit` when the condition of `copy_and_commit_if` fails);
the consumer `refresh` (a load of `tail`), `read` slot by slot, `store`, `return`. `pop_many` and `steal_into` differ in when they refresh
and in their `Aim`. With `StaleLoads` a load returns anything from the side's own copy of the counter up to its
present value, which is what coherence of a location gives (a thread never sees a location go back). Slots need no staleness: `NoRace` and the
Release store / Acquire load of the counters order every write of a slot before its read, and every read before the next write. (That is so with the default `Acquire` of
`SUSPICIOUS_RELAXED_ACQUIRE`, here and in `SPSCUnbounded`. With the feature `untested_memory_ordering` these loads are Relaxed, and nothing is claimed.)
`push_many_unchecked` and `copy_and_commit_if` begin only with the space that `cached_head` shows, since their callers are
required to know of it and `len()`, which refreshes `cached_head`, is how they can. A caller who knows it by other means leaves `cached_head` more
than a lap behind, and `maybe_push` would then take any movement of `head` for space: a hazard on the list. Empty slices, which do
nothing, are left out.

`BufferVersions` holds what the two unbounded queues share of `buffer_version.rs` and of their identical
`create_new_version_and_write_it_but_not_update_tail`: physical indices, `greater_capacity` with its five branches, and `Grown`, the copy of the
values from a cached head to the tail into a larger buffer as two slices each of which may wrap. They are operators; nothing in them is a step.

`NaiveRWLock` models `naive_rw_lock.rs` and the `SyncCell` made of it, access by access: `try_read` is a load (`TryRead`,
`ReadIsLocked`) and a weak CAS (`ReadCas`, `ReadMiss`, `ReadMissLocked`); `try_write` is one CAS from 0; `try_store` under the guard is
`TakeOut` and `PutIn` (`mem::replace` of plain memory), and the drops of the guards are steps. The two unbounded queues EXTEND it and
conjoin its steps with what the queue does in them, so the lock is not abstracted there.

`SPMCUnbounded` models `spmc/unbounded.rs`. Versions are a function from ids to a capacity, a buffer and a count of references; `wordId` and
`tail` are the two halves of `tail_and_version`, which one action stores. A push that does not fit goes `refresh`, `grow` (`Enlarge` is the loop that
looks for a capacity, `Grow` the copy), `swap` (the steps of the cell), `write`, `publish`; `reserve` enters at `grow` with an empty batch and with the cached head as it is.
`At` is the version a push writes to. A consumer loads `head`, loads the word, goes through `update` when its version is older, copies, and CASes; `UpdateFails` is the
cell locked, after which the operation answers nothing (or length 0, or the old capacity). `consumer_len` is `StartLen`, `LenHead`, with
the word loaded again, or the version updated, when the difference exceeds the capacity (lengths are computed modulo `Modulus`, a power of two above every counter difference, as
wrapping subtraction does). `CloneHandle` is a handle dropped and replaced by a clone of another. `Exchange` and `Drop` count references: the buffer of a version whose
count reaches 0 is gone, so a use after free would read `Empty`. `push_many_unchecked` and `copy_and_commit_if` begin with the space that `cached_head`
shows, as in `SPSCBounded`.

`SPSCUnbounded` models `spsc/unbounded.rs` in the same shape. Here the loads of `head` and of the word may be stale: `past` is the set of words
that the consumer may still load (none older than one it has loaded before), and `HeadLoads` goes from the producer's own copy to the present. So
a consumer may have a version newer than the word it works with, and one older than the present word. The consumer writes `head` with a store; no CAS
decides for it, and safety rests on the order of the growth alone.

In all modules `log` (or `pushed`) and `delivered` are history: no guard reads them. `issued` numbers the values handed to the producer, so
each value is different, and bounds them.

`MCMPMCBounded`, `MCSPMCBounded`, `MCSPSCBounded`, `MCSPMCUnbounded`, `MCSPSCUnbounded` give TLC the model values and the symmetry sets. Threads of one role and values are
interchangeable; symmetry is used only in the safety runs. Definitions marked `mutant` are deliberate bugs: `PROJECT.json` names, for every
property of every passing run, the one that makes TLC report that property.

## Runs

| Run | Bounds | What it shows |
|---|---|---|
| `mpmc_safety` | 2 producers, 2 consumers, 2 values, ring of 2, pushes begin while `tail` < 3, so up to 4, a whole second lap; stale loads | types, exclusive slots, the right values, counters in the ring, nothing lost, the inductive invariant, refinement of `QueueLog` |
| `mpmc_answers` | 2 + 2 threads, exact loads, up to 3 pushes, so the second lap waits for readers of the first | `Full`, `Empty` and waiting each have their reason; a lock-free pop returns if its own thread runs, wherever the three others stopped; every operation returns if nobody stops for good |
| `mpmc_empty_answer` (violation) | 2 + 1 threads, exact loads | a pop answers `Empty` though a pushed value has been waiting since before it began |
| `mpmc_halted_push` (violation) | 2 + 1 threads, p1 and c1 may stop | `lock_free_maybe_push` is not lock-free |
| `spmc_safety` | owner, 1 consumer, ring of 4, 7 values, slices of 2, pops of 3, all operations but `lock_free_push_many`, `always_steal` | no overrun, values in place, valid copies, true answers, refinement of `QueueLog` |
| `spmc_progress` | owner, 2 consumers, ring of 2, 3 values | the inductive invariant of `SPMCBoundedProofs`, valid copies with consumers racing each other among it; each operation returns if only its own thread runs, or, of `push` and `push_many`, is left waiting for the receiver's `Mutex` |
| `spmc_overrun` (violation) | ring of 2, `push` only | a push into a full ring |
| `spmc_dropped_slice` (violation) | ring of 4, `lock_free_push_many` | `Ok` for values that are nowhere |
| `spmc_odd_capacity` (violation) | ring of 3, `push` | the receiver gets a value that is still in the ring |
| `spsc_safety` | ring of 3, 2 values, slices and pops of 1 and 2, pushes begin while `tail` < 5, so up to 7, into the third lap; `always_steal`; stale loads | copies of the counters on the safe side, no slot written while it is read, the right values, refinement of `QueueLog` |
| `spmc_unbounded` | owner and 2 consumers, 1 slot at first, `reserve` of 5, slices and pops of 2, 2 values, up to two growths; capacities of any size; `always_steal` | the inductive invariant of `SPMCUnboundedProofs` with the types in it, values in place in every version from the word's on, valid copies, counted versions, the lock's counter true and no reader in an exchange, possible lengths, refinement of `QueueLog` |
| `spsc_unbounded` | 2 slots at first, `reserve` of 3, slices of 2 and 3, pops of 1 and 3, 5 values, capacities of any size, steals into a queue of 1; stale loads | no race, counted versions, the inductive invariant, refinement of `QueueLog`, operations return |

*Why the bounds are enough.* A ring of two has every relation between two slots and two laps; the MPMC theorems
hold for every size anyway. In `spmc_safety` 7 values on a ring of 4 write every slot but one twice, with wrapped slices, and each kind of push
meets each position of the head. Two consumers race only for the CAS on `head`, which `spmc_progress` covers.
The unbounded queues start with the capacities 1 and 2 in place of `with_capacity(4)` of `new()`, so that a few values
make them grow. Both runs have growths of a full and of an empty queue and growths by `reserve` between the steps of a pop; `spsc_unbounded`
also has growths of a wrapped queue, both slices not empty, and `GrowthKeepsValues` covers them all. Two values through three versions give a
consumer every relation of its version, the word and the cell; the theorems about both queues hold for all sizes.
In code without `always_steal` a steal takes at least 4 values and needs a ring of 8; `MinSteal` is only the threshold of an early return.
`MaxPushes` bounds the history; no property depends on it except that it bounds how often another thread can win a
race, so *liveness here means*: the operation returns unless others win infinitely many races.

*Fairness.* A thread that the system schedules takes its next step (`WF` of the thread's steps), and its weak CAS does not
fail spuriously forever (`SF` of the successful CAS). In `spsc_unbounded` the `SF` are of
`TryWrite`, whose retry loop may meet the reader again and again, and of the reader's weak CAS. There the consumer's operations return whatever the producer does, in the middle of a swap too; the
producer's need the consumer to leave the cell, as `swap` spins (`OperationsReturn` states both). No fairness is assumed of starting operations, nor of the threads in `Halted` (`mpmc_halted_push`). In
`mpmc_answers` and `spmc_progress` fairness is the antecedent of each property: of all threads for `OperationsReturn` of MPMC, of the one whose return is
claimed for the two others. The owner of an SPMC queue is never assumed to get the receiver's `Mutex` (`WaitsForReceiver`), which other workers
may hold: `push` and `push_many` "may be non-lock-free" (`spmc_producer.rs`), and the property says that they are left waiting there and nowhere else.

## What is proved

`MPMCBoundedProofs` (TLAPS, for all finite or infinite sets of threads and values, any `Capacity >= 2`, stale loads or not):

* `TypeCorrect`: `Spec => []TypeOK`;
* `Invariance`: `Spec => []IInv`;
* `SlotOwnershipHolds`, `ReadsPushedValueHolds`, `CountersInRingHolds`, `NothingLostHolds`;
* `ImplementsLog`: `Spec => LogSpec`, the queue implements `QueueLog` with `pushed` as the log and `head` as the number claimed;
* for exact loads, `FullIsJustifiedHolds`, `EmptyIsJustifiedHolds`, `WaitIsForAReaderHolds`: what the answers mean. An old mark or ticket makes an answer
  one about the past, so `StaleLoads` is excluded here, as in the run.

Assumptions: the named `ASSUME`s of the modules (MPMC: roles disjoint, `Uninit` not a value, `Capacity >= 2`, ...). `Capacity = 1` is excluded
because there the mark "occupied in this lap" equals "free in the next": the code's `is_queue_full` and `is_slot_free` then overlap.

*The argument for MPMC.* Nothing in the code compares `head` and `tail`; the marks stand in for the comparison, and the invariant says why
they can. `SlotInv`: the mark of slot `i` is either a ticket `t` of slot `i` with `t < head + Capacity` and `tail <= t + Capacity` (free), and if
`t` has been claimed by a push its writer still holds it; or `t + 1` with `t` of slot `i`, `t < tail < t + 1 + Capacity` (occupied), and if `t`
has been claimed by a pop its reader still holds it. `WriterInv` and `ReaderInv`: the holder's mark is unchanged and the
holder is unique. `ClaimInv`: a thread about to CAS knows that the mark fits its ticket *if the counter still equals it*, because a mark
can change only through the holder of a claimed ticket; so stale loads are harmless. From this, a successful push CAS finds the slot's
mark equal to `tail`, which gives `tail < head + Capacity`, the half of `CountersInRing` that is not obvious. `HistoryInv` ties the values to the history for
the refinement. `SlotOwnership` is not inductive by itself: two holders of one slot would be tickets a multiple of
`Capacity` apart, both equal to its one mark. The lemmas on `Slot` (tickets of one slot less than a lap apart are equal) carry the arithmetic of `%`.
For the answers, `FullLook`, `EmptyLook` and `WaitLook` take the three branches of the code apart: `SlotInv` leaves one lap that the mark can be of, and its holder is the thread that the answer speaks of.

`SPSCBoundedProofs` (for any `Capacity >= 1`, any values, slices of any length, stale loads or not):

* `TypeCorrect`, `Invariance` (`Spec => []IInv`), `CountersInOrderHolds`, `NoRaceHolds`, `ReadsPushedValuesHolds`;
* `ImplementsLog`: the queue implements `QueueLog` with `head` as the number claimed.

*The argument for SPSC.* `CountersInOrder` (`cached_head <= head <= cached_tail <= tail <= cached_head + Capacity`) is not inductive by itself:
a push is several steps, and so is a pop. `ProducerInv` says that the whole batch of a push under way fits by `cached_head`, which only
the producer changes; `ConsumerInv` that the whole aim of a pop under way is below `cached_tail`, which only the consumer changes. So neither
side's step can disturb the other's clause (`ConsumerStays`, `ProducerStays`), and the tickets being written and those being read are
less than a lap apart, so in different slots: `NoRace`. `RingInv` says what every occupied slot holds, `HistoryInv` what has been delivered, for the refinement.
That `maybe_push` may take any change of `head` for space is where `tail <= cached_head + Capacity` is used: a full ring by the
old copy has space for one by any newer one.

`SPMCBoundedProofs` (any `Capacity >= 1`, any set of consumers, slices and pops of any length, all subject to `Disciplined`):

* `TypeCorrect`, `Invariance` (`Spec => []IInv`), `RingNotOverrunHolds`, `ValuesInPlaceHolds`, `CopyIsValidHolds`;
* `AnswerIsTrueHolds`, for every owner that does not use `lock_free_push_many`;
* `ImplementsLog`, for an even capacity: the queue implements `QueueLog` with `head` as the number claimed;
* `SinglePushHasSpaceHolds` and, for an even capacity, `OverflowTakesHalfHolds`: two of the sentences that runs refute are true under these hypotheses.

Each hypothesis is needed, and a run or a hazard shows for what: `OwnerLooks` (`spmc_overrun`), the even capacity (`spmc_odd_capacity`), no `lock_free_push_many`
(`spmc_dropped_slice`), the length of the slices (the hazard of `handle_overflow_many`). Types, values in place and valid copies do not need the even capacity: an odd one hands a value over
twice, but overwrites nothing.

*The argument for SPMC.* `head` only grows, and whoever moves it compares it first with the value from which he started. So what a thread knows about `head` when it has
loaded it is stated in one of two forms, which other threads' steps cannot break (`ConsumerStays`, `OwnerStays`). The owner's is monotone: a push in `write` has
`tail + k <= head + Capacity`, a pop before its CAS has `from <= head`, so more room or a lost CAS is all that can happen. The consumer's is conditional
(`ConsumerInv`): *if `from` still equals `head`*, its copy is what was pushed. As long as the condition holds the ring has not given those slots up, so `WriteNext` writes elsewhere
(`WriteElsewhere`: tickets less than a lap apart); once it fails it never holds again, and the CAS fails too. After a claim the clause is unconditional, since the log
is only appended to. `CopyIsValid` is the clause at the CAS. The owner in `move` or `popRead` relies on slots that it alone could overwrite.
`HistoryInv` says that the tickets claimed by different threads are disjoint and not yet delivered (`HistoryClaims`, `HistoryDelivers`), which with `ReturnDelivers`, `MovedValues` gives the
refinement: the CASes are the claims of the log, `StoreTail` its push, the return of a consumer, `PopRead` and `MoveHalf` its deliveries. `AnswerInv` keeps the values of the push under way newer than all of the log and of the
receiver, so that an answer can be judged by where they end up. It is separate from the rest, as an owner with `lock_free_push_many` breaks only it.

`RingTheorems` holds the arithmetic of `%` that the proofs about the SPSC and SPMC rings and `BufferTheorems` use.

`NaiveRWLockProofs` (any finite set of threads and any values): `LockInvariance`, `LockTypeCorrect`, `CounterIsTrueHolds`, `ReaderSeesAValueHolds`,
all of `LockSpec`, which lets every thread take every step of the lock at any time; what the queues do with it is a part of that. The
invariant adds that a reader's CAS never compares with -1, so it cannot turn a writer's counter into 0 readers. The counting of readers uses the cardinality of the set of
threads between CAS and drop, hence the finite set.

`BufferTheorems` (any capacities, any head and tail): `GreaterCapacityIsGreater`, `GrowthKeepsTail`, `GrowthKeepsValues`: the two slices that the growth
copies, each perhaps around the end of the new buffer, put every value from `head` to `tail` where its ticket belongs. The case split is on whether the old
buffer was wrapped, and `CopySliceWrites` says what one slice does.

`SPSCUnboundedProofs` (any first capacity, slices, requests to `reserve`, number of growths; stale loads or not; both settings of `AlwaysPow2`):

* `TypeCorrect`, `Invariance`, `NoRaceHolds`, `VersionsAreHeldHolds`;
* `ImplementsLog`: the queue implements `QueueLog` with `head` as the number claimed; the store of a word after `reserve` is a stutter.

*The argument for growth.* The key is `RingInv`: for every word `s` that the consumer may still load, *every* version that is held and is no older than `s`
has the values from `head` to the tail of `s`. The order of the growth makes it inductive: the values are copied first (`GrowthKeepsValues`), then the cell is
exchanged, then new values are written beyond the tail, and only then does a word name the new version. So when the consumer updates because of a word,
the cell gives it a version at least as new (`VersionInv`), and that version has what the word counts. A pop keeps that as `HasValues(cver, ..)` for its own slice
while the producer goes on. The producer writes within `tail .. cached_head + capacity` of the version `At` (`ProducerInv`), so in the consumer's version only
slots that hold nothing unclaimed: `NoRace` again. `VersionsAreHeld` is inductive with `LockInv` and `VersionInv`, which say where
the producer is in the exchange of the cell: the reference that is `Moved` is the old version's until `PutIn`. It is needed in the main argument, since a version
with count 0 has lost its buffer. Each action has its lemma; frames shared by many actions are `ProducerAlone`, `ConsumerAlone` and `ConsumerOutside`.
The assumption `Moved \notin Nat` keeps the placeholder of `mem::replace` apart from version ids.

`SPMCUnboundedProofs` (any finite set of consumers, any first capacity, slices, requests to `reserve`, number of growths; both settings of `AlwaysPow2`):

* `TypeCorrect`, `Invariance` (`Spec => []IInv`), `VersionsAreHeldHolds`, `ValuesInPlaceHolds`, `CopyIsValidHolds`;
* `CellIsLocked`: `CounterIsTrue` and `ReaderSeesAValue` of the lock, with what the queue does inside it;
* `ImplementsLog`: the queue implements `QueueLog` with `head` as the number claimed, without a bound on the size;
* `LenIsPossibleHolds`, if `LengthsDoNotWrap`: every capacity and `MaxPushes` together stay below `Modulus`. That says that the counters are wider than any
  length, without which a wrapped length could not be told from a true one; in the run no version has more than 8 slots and `Modulus` is 1024.

No discipline is assumed of the owner beyond the one in the guards of `push_many_unchecked` and `copy_and_commit_if`: a queue that grows has no overflow to lose, so the hypotheses of
`SPMCBoundedProofs` have no counterpart.

*The argument for growth under racing consumers* joins the two above. `RingInv` is the one of growth: every version from the word's on has all values, because the values are
copied, then the cell is exchanged, then the new values are written, and only then does the word name the version. `ConsumerInv` is the conditional one of
`SPMCBoundedProofs`, for the consumer's *own* version: if `from` is still `head`, its copy is what was pushed. A version that the word names no longer is not written to, and one that it
names has room (`OwnerInv`), so no step of the owner breaks the clause. It is needed in that form since a consumer that is behind may
pop from a version that was replaced after it had loaded the word. `VersionInv` and `PlacesInv` say where the owner is in the exchange and that
consumers hold versions up to `Newest`; `VersionsAreHeld` is part of the invariant, because `Drop` clears a buffer whose count
reaches 0: that the version of a consumer, and every one from the word's on (`NewerAreHeld`), keeps its values follows from its being counted. `HistoryInv` keeps the claims of different threads disjoint, for the refinement. `CellsAssumption` says what the cell of the lock
holds here: ids of versions, which are natural numbers. `BufferTheorems` and `NaiveRWLockProofs` are used as they are.

Only model-checked: the properties `OperationsReturn` and `LockFreePopsReturn`, as liveness under fairness is out of the prover's reach. Every other property of a passing run
is also a theorem, under the hypotheses named above. For `SPMCUnbounded` liveness is not checked: with two consumers the state space needs the symmetry, which liveness does not allow; the update of a version, which is
where it could fail, is the one of `SPSCUnbounded`, and the retries of its pops are those of `SPMCBounded`.

## What the code does not keep

Five runs end in a violation, each against a sentence of the code; `PROJECT.json` `findings` quotes them. In short:
`lock_free_maybe_push` can spin behind a stopped thread; an MPMC pop can answer `Empty` ("The queue was empty." in `lock_free_errors.rs:3`) while the
values of completed pushes wait behind a slot that a slower producer has claimed and not yet written; `push` after a lost overflow CAS can overwrite an unpopped value; `lock_free_push_many` can
drop its slice and say `Ok`; an odd capacity makes the overflow
hand over one value twice. Beside these, the `debug_assert!` of `handle_overflow_many` demands a full ring, which `push_many` does not guarantee (a hazard on the list), and
`consumer_len` of the unbounded SPMC queue may return a wrapped difference after a successful update of its version (a hazard on the list; no run covers it). Two orders are not those a reader expects, and are modelled as they are: `copy_and_commit_if` of the handles swaps
`right` and `left` (the comment in `single_producer.rs:32` says right first), and the overflow passes `(left, right)` to a
receiver that stores its first argument first, so across the end of the buffer newer values precede older ones.

## What is not modelled

`Drop` of the queues (runs alone; the MPMC one drops `MaybeUninit` slots, which does not drop the values), ownership of values in the
sense of Rust (double drops of a borrowed slice), the wrap of the counters at the width of `LongNumber` (with a capacity that does not divide
`2^w`, neighbouring tickets around the wrap do not have neighbouring slots), `consumer_len` of the bounded SPMC queue and `is_empty` (they change nothing), the
conversion of answers in the traits' default methods, cache padding, the loom and std wrappers (their `Barrier` is never used), tests and benchmarks.

The overflow of `spmc/const_bounded.rs` meets the receiver alone: the other workers who push to it and take batches from it (`mutex_vec_queue.rs:82,86`) are
not modelled, and the wait for its `Mutex` is a place where an owner may be left, not a lock of the model.

Of `sync_cell.rs` only the cell over `NaiveRWLock` is modelled. The cells over `std`'s `RwLock` and `Mutex` try in `try_with` and wait in the kernel in
`swap`; the one over `LightQSBR` never fails. Their queues behave as those of the models with some of the steps left out.

Loads are exact in `SPMCBounded`, `SPMCUnbounded` and `NaiveRWLock`. The `Release` ordering of `try_write`'s CAS, and the `Relaxed` reload of `tail` after a lost CAS, are
therefore outside these models; both are on the list of hazards. The SPSC consumer's handle is `Clone` through its queue's `Arc`, but two clones that pop at once
are outside the contract of a single consumer, and of the model.

`push_many_unchecked` and `copy_and_commit_if` are modelled with a caller who knows of the space by `len()`. A caller who knows it by other means leaves
`cached_head` more than a lap behind, and then growth would move only a part of the values, as the hazards say.

## Plan

In this order:

1. `SPMCBounded` and `SPMCUnbounded` with stale loads for the consumers (`tail` reloaded after a CAS that failed with Relaxed).
2. Two queues composed by a steal, with the real capacity of the destination.
3. Counters modulo `2^w`, for capacities that divide it and for others.
