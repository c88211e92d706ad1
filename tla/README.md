# A TLA+ model of flashmap

flashmap is a concurrent hash map with one writer and any number of readers. It
keeps two copies of the map. Readers read one copy, the writer changes the
other; publishing swaps them, and the writer replays its log of operations on
the old copy when the last reader has left it. Taking a read guard is one atomic
increment. The price is a protocol of packed counters, a sign bit, park tokens
and aliased objects, which this project models, checks and proves. Paths below
are relative to the root of the repository.

## The system

| Component | State | Operations | Interacts through |
|---|---|---|---|
| `RefCount` (`src/core/refcount.rs`) | one `usize` per read handle: map flag (top bit), overflow bit, count of guards | `increment`, `decrement`, `swap_maps` | shared by the guards of a handle and by `publish` |
| `Core` (`src/core/mod.rs`) | `residual`, the slab of refcounts under a mutex, `writer_thread`, `writer_map`, the two maps | `build_map`, `new_reader`, `release_refcount`, `release_residual`, `synchronize`, `publish`, drop | atomics, the mutex, `thread::park`/`unpark` |
| `MapIndex`, map storage (`src/core/store.rs`) | the two boxed maps | `other`, `get`, `share` | pointer shared with every read handle |
| `ReadHandle`, `ReadGuard` (`src/read.rs`) | refcount and its slab key; the index of the map a guard reads | `guard`, clone, drop; reads, drop | `RefCount`, `Core` |
| `WriteHandle`, `WriteGuard` (`src/write.rs`) | the operation log, a uid | `synchronize`, `guard`, `reclaimer`, `reclaim_one`, drop; `insert`, `replace`, `remove`, `drop_lazily`, `publish` | `Core`, the writer's copy |
| Operation log (`src/write.rs`) | `Vec<Operation>`, each with a `leaky` mark | push, `make_leaky`, `flush_operations` | both copies of the map |
| `Evicted`, `Leaked` (`src/write.rs`) | an alias, the index of an operation, a uid | `leak`, reclaim, lazy drop | the log |
| `Alias` (`src/util/aliasing.rs`) | bitwise copies of a key or a value without a destructor | `new`, `copy`, `drop`, `into_owned` | both copies, the log, `Leaked` |
| `WriterUid` (`src/write.rs`) | a global counter | `next`, comparison in reclaim and `drop_lazily` | all maps of the process |
| `View` (`src/view.rs`) | a guard | forwards every read and write | the guards |
| `Builder`, constructors (`src/lib.rs`) | capacity, hashers | `build` | `Core::build_map` |
| `TrustedHashEq`, `CachePadded`, the loom shim (`src/util/`) | none | none | |

What is hard about it:

- readers never lock: a guard's creation and drop interleave with the turns of
  `publish`'s loop, and only the flag each atomic operation returns says on which
  side of a swap it fell;
- `residual` is written by the writer and by every residual reader, may be
  negative before `publish` has added its sum, and carries the "writer waits" bit;
- parking: tokens arrive early, late or never, `park` may return spuriously, and
  the write handle may move to another thread between two waits;
- words overflow: the count must never reach the map flag;
- the same object is in two copies of the map, in the log, in an `Evicted` or a
  `Leaked`, and must be dropped once, after the last reader, by the right owner;
- the replay is unchecked (`insert_unique_unchecked`, `unwrap_unchecked`);
- `mem::forget` and unwinding skip or cut short the code the protocol relies on.

The hazards are listed with their lines in `PROJECT.json`.

## Modules

| Module | Content |
|---|---|
| `Store` | `MapIndex` and `other` |
| `RefCount` | the words: packing, masks, wrapping addition, the overflow test; the width is the constant `COUNT_OVERFLOW_BIT` = 2^(w-2) |
| `Core` | the protocol between the writer and the readers |
| `SnapshotMap` | the abstract map: numbered versions, what each handle shows and each guard holds |
| `OpLog` | the operation log and the ownership of aliased objects |
| `FlashMap` | `Core` and `OpLog` run together: real guards on real entries |
| `Ordering` | the memory orderings of the atomics, as a happens-before relation over the steps of `Core` |
| `Uid` | the global counter of `WriterUid`, several maps, leaked values offered to any of them |
| `MCCore`, `MCOpLog`, `MCFlashMap`, `MCOrdering` | symmetry sets for TLC |
| `CoreProofs`, `CoreWakeupProofs`, `CoreSnapshotProofs` | theorems about `Core` |
| `OpLogProofs`, `OpLogOwnershipProofs` | theorems about `OpLog`: what the log replays to, and who owns each object |
| `FlashMapProofs` | theorems about the composed map |
| `OrderingProofs` | theorems about `Ordering` |
| `UidProofs` | the theorem about `Uid` |

`FlashMap` and `Ordering` extend `Core` and conjoin to its actions; `FlashMap`
also instantiates `OpLog`.

### Core

Every atomic read-modify-write, load or store is an action of its own.

| Action | Code |
|---|---|
| `Synchronize`, `SetWriterThread`, `SetWaitFlag`, `ResetResidual`, `Park`, `Recheck` | the steps of `Core::synchronize`; `call` remembers whether `WriteHandle::synchronize`/`reclaimer`, `guard` or drop called it |
| `ParkSpuriously` | `thread::park` returning without a token, when `SpuriousWakeups` |
| `FlushOperations` | `flush_operations`, at the end of `guard` or of the write handle's drop |
| `WriteOp` | one operation of the write guard |
| `Publish`, `SwapMaps(h)`, `AbortPublish`, `Unlock`, `AddResidual` | `Core::publish`: lock and toggle `writer_map`; one turn of the loop; the abort after a turn whose sum overflowed; unlock; `fetch_add` |
| `NewReader`, `DropHandle` | `Core::new_reader`, `Core::release_refcount`, while `publish` does not hold the mutex |
| `Guard`, `Abort` | `ReadHandle::guard`: the increment; the abort of a thread that found the overflow bit |
| `DropGuard`, `ReleaseResidual`, `StoreZero`, `Unpark` | the guard's drop: the decrement; the three steps of `release_residual` |
| `ForgetGuard` | `mem::forget` on a read guard, when `ForgetGuards` |
| `MoveWriter` | the write handle moves to another thread |

A map is the number of write operations it reflects: the writer's operations are
totally ordered, so a copy that reflects n of them reflects the first n. The
borrow checker's rules are guards of actions: a handle is dropped only when no
guard borrows it (a forgotten guard borrows nothing), and there is one writer.
Forgotten guards that `publish` has counted keep owing after their handle is
gone (`stuck`).

### OpLog

A copy maps each key to an entry of two heap objects, a key and a value. Each
object is gone, aliased (the map's side owns it), leaked (a `Leaked` owns it) or
corrupt (dropped by someone who does not own it). `Evicted` values live until
the next use of the write handle, which is as far as the borrow checker lets
them. The auxiliary variable `history` holds the writer's copy before each logged
operation; no action reads it. Core enters through one Boolean: `synced` is set
by `synchronize` and cleared by `publish`. That readers are off the writer's copy
while it is set is a property of the composition (`SyncedIsQuiet`), checked and
proved there from `WriterExclusive` of `Core`. Replaying an unchecked operation
where it is not defined leads to the phase `undefined`, in which the model stops.

### FlashMap

Each step of the write handle or guard is a step of `Core` and of `OpLog` at once:
the return of `synchronize` is `Log!Synchronize`, `Log!Reclaim` or
`Log!BeginFlush`, according to who called it; the flush replays one operation at
a time while `Core` stays at `flush`; `WriteOp` is `insert`, `replace`, `remove`
or `drop_lazily` of the guard's `View`; `Publish` is both. `contains_key`, `get`,
`iter`, `keys`, `values`, `len` and `is_empty` are what the `View` answers from the
copy `with_map` passes to it, and the properties about readers are stated with
them. Readers, `SwapMaps` and the other steps of `Core` leave the log alone;
`Drop for Core` waits for the last handle. `synced`
is a variable that only `OpLog`'s actions set, so `SyncedIsQuiet` is a claim about
the protocol and not an assumption: `OpLog` is sound about readers because of it.
In the other direction `VersionsNameContents` says that the numbers which stand
for the copies in `Core` name their contents.

### Ordering

`knows` gives every agent (the writer, each guard, the holders of each handle) and
every place it can leave a view in (each `RefCount`, `residual`, the mutex, the
park tokens) the set of accesses to plain memory that happen before. An access is
known to its agent only. A release passes the agent's view to the place, an
acquire takes the place's view; a read-modify-write continues the release
sequence, a store starts a new one; relaxed accesses of the writer pass what its
last release fence saw and keep what they read for its next acquire fence. The
accesses are the newest write of each copy (`flush_operations` and `WriteGuard`
take the copy by `&mut`, so each flush counts), the reads of each guard, and the
write and read of `writer_thread`.

Three facts are taken from outside the atomics: moving a handle or a guard to
another thread orders the two threads; a handle is dropped after its guards, by
the borrow; `park` acquires what the `unpark` it consumes released. Values are
those of an interleaving. That loses nothing here: all accesses that decide
something are read-modify-writes, which read the newest value, or the writer's
loads of `residual`, and an older value read by such a load is that of an earlier
load (coherence excludes values older than the writer's own `fetch_add`).

Views are cut to what a place has to carry (`Carries`), and a read is forgotten by
the others once the writer knows of it: less to carry makes the properties harder
to satisfy, never easier. The name of a guard is used again only when the writer
knows of its last reads. Forgotten guards and aborts (of an increment or of
a publish) are left out: after the first the writer never gets that copy back, and
after the second nothing runs.

### Uid

Each map is built at most once, so that a map keeps its identity when its uid is
reused. `Build` is `WriteHandle::new` with `WriterUid::next`; `Take` is the
function `reclaimer` returns, and `drop_lazily`, which make the same comparison.

## Runs

| Run | Bounds | Properties |
|---|---|---|
| `protocol` | 2 handles, 4 guards, 2 threads, no operations, 3-bit words, spurious wakeups, forgotten guards | `TypeOK`, `WriterExclusive`, `ResidualAccounting`, `Bookkeeping`, `NoLostWakeup`, `CodeAssertions` |
| `snapshots` | 2 handles, 3 guards, 2 threads, 3 operations, 4-bit words | `LogConsistent`, `SnapshotStable`, `MonotonicReads`, `ImplementsSnapshotMap`, `WriterThreadRaceFree`, `WaitsForReaders`, no deadlock |
| `liveness` | 2 handles, 3 guards, fair | `SynchronizeReturns` |
| `replay` | 2 keys, 4 key objects, 4 value objects, log of 4 | the eight invariants of `OpLog` |
| `faults` | 2 keys, 2 + 2 objects, log of 3, forgotten write guards and panicking destructors | `ReadersUndisturbed` |
| `ordering` | 2 handles, 2 guards, 2 threads, spurious wakeups | `ReadsAfterWrites`, `WritesAfterReads`, `CellOrdered` |
| `composition` | 2 handles, 2 guards, 1 key, 2 + 3 objects, 3 operations, spurious wakeups, forgotten read guards | `GuardsReadValidObjects`, `GuardsReadSnapshots`, `SyncedIsQuiet`, `VersionsNameContents` |
| `spurious_wakeup` | 2 handles, 3 guards, 1 thread, spurious wakeups | violates `WriterThreadRaceFree` |
| `forgotten_read_guard` | forgotten read guards | violates `WaitsForReaders` |
| `forgotten_write_guard` | forgotten write guards | violates `ReadersSafe` |
| `panicking_drop` | panicking destructors | violates `GuardStartsLevel`, the part of `CopiesAgree` about a fresh write guard |
| `uid_wrap` | 4 maps, 1 value, a counter of 2 bits | violates `OwnValuesOnly` |

Why the bounds are enough: two handles give every order of a publish loop in
which one handle is swapped and the other is not; with three guards one can be
residual, one on its way through `release_residual` and one on the new copy; the
number of publishes is not bounded, only the number of operations is. In
4-bit words `publish` never overflows with three guards; the 3-bit words of
`protocol` make the second guard of a handle set the overflow bit, the third
abort, and a publish that counts four guards abort too. No step of the protocol
looks at the contents of the copies, so `protocol` leaves the operations to
`snapshots`. In `ordering` two guards suffice for one to leave before its handle's
swap and the other after it, or for both to be residual, so that the last one has
to pass on the reads of the first. In `composition` three operations are enough to
insert, remove and leak, and reclaim or drop lazily, while guards linger on either
copy. Two keys and four objects of a
kind allow an entry to be inserted, replaced, removed, inserted again, leaked and
lazily dropped within one log. Symmetry is over handles, guards, threads, keys
and objects, of which the specifications name none; it is not used for liveness.

The model assumes of the overflow window what the code does: fewer than
`COUNT_OVERFLOW_BIT` threads (2^62 on a 64-bit machine) are between their
increment and their abort at once. There is a second window, in `publish`: between
a sum that overflows and its abort, the guards it has counted run on. The model
assumes that they do not take `residual` down to `isize::MIN` in that time, which
would look like a waiting writer: more than `isize::MAX` guards would have to be
live, dropped and not forgotten, and they do not fit in memory. Both assumptions
are conjuncts of the actions concerned (`Guard`, `ReleaseResidual`).

Fairness. `FairSpec` asks weak fairness of the writer inside a call, and of each
guard's drop and the steps that follow it: threads are scheduled, and users drop
their guards (the writer waits for them by design). Nothing is asked of new
guards, clones or writes, and nothing of `park` beyond its token. Forgotten
guards are excluded there: with them `synchronize` may never return.

Deadlock is checked in every run; the only states without a real step are
termination (everything dropped, or the process aborted) and `undefined`. The
`protocol` run allows spurious wakeups, which hide a parked writer that nobody
wakes, so `NoLostWakeup` states it as an invariant and `snapshots` excludes them.
It also allows forgotten guards, which never release: once a residual guard is
forgotten nobody may be left to wake the writer (finding 2), so `NoLostWakeup`
promises a waker only as long as there is none (`Abandoned`).

## What the runs found

1. **A data race on `writer_thread`** (`spurious_wakeup`,
   `src/core/mod.rs:111`). The last reader stores 0 and then reads the cell; a
   writer whose `park` returns spuriously in between sees 0 and goes on, and its
   next `synchronize` assigns the cell while it is being read. Without spurious
   wakeups the `unpark` orders the two, which is proved of the interleavings
   (`WriterThreadNotRaced`) and in happens-before (`CellAccessesOrdered`).
2. **A writer that waits for nobody** (`forgotten_read_guard`,
   `src/read.rs:113`). A forgotten residual guard survives its handle in
   `residual`; `synchronize` then blocks for good with no reader left, where its
   documentation promises a no-op. Without forgotten guards it does not
   (`OnlyReadersBlock`).
3. **Reclaiming what readers still see** (`forgotten_write_guard`,
   `src/write.rs:216`). `mem::forget` on a write guard skips the publish; a value
   leaked from it is reclaimed after a `synchronize` that waits for nothing. For
   the same reason the next write guard replays the log on the copy that already
   has it, and `UncheckedOpsSound` fails too.
4. **A log lost to a panic** (`panicking_drop`, `src/write.rs:228`). A
   destructor that panics during the replay leaves its operation half done and
   makes `Drain` discard the rest. In the run's trace a value is inserted, replaced
   and published; the next `guard()` replays the insertion, and the destructor of
   the replaced value panics before the slot is assigned. The handle stays usable
   and its log is empty: the `guard()` after that writes on a copy with the dropped
   value in it, while readers see the new one.
5. **Uids are reused after the wrap** (`uid_wrap`, `src/write.rs:31`). The
   construction that reads zero panics, the one after it starts again at 1, and its
   handle accepts values of the first map. This takes 2^32 constructions on a
   32-bit target. Before the panic the check is sound, which is proved.

In the first four the readers' copy stays untouched: `WriterExclusive` holds with
both faults of the read side enabled (`protocol`, theorem `MutualExclusion`), and
`ReadersUndisturbed` with both of the write side (`faults`, theorem
`ReadersNeverDisturbed`).

`ordering` also says which orderings the code needs. Relaxing any one of them in
the instance above (with one thread), in turn, breaks a property, with one
exception. Three of the rows (`decrement`, `fetch_add` to `Acquire`, and
`fence(Release)`) are mutants kept in `PROJECT.json`; the others are experiments
made with the same run, by changing the definition of the one ordering.

| Access | Weakened to | Broken |
|---|---|---|
| `increment` | `Relaxed` | `ReadsAfterWrites` |
| `decrement` | `Relaxed` | `WritesAfterReads` |
| `release_residual`, `fetch_sub` | `Release` | `CellOrdered` |
| | `Acquire` | `WritesAfterReads` |
| `release_residual`, `store(0)` | `Relaxed` | `WritesAfterReads` (only if a park returned spuriously) |
| `synchronize`, first load | `Relaxed` | `WritesAfterReads` |
| `synchronize`, `fetch_add` | `Release` | `WritesAfterReads` |
| | `Acquire` | `CellOrdered` |
| `synchronize`, load after `park` | `Relaxed` | `WritesAfterReads` (only if a park returned spuriously) |
| `publish`, `fence(Release)` | dropped | `ReadsAfterWrites` |
| `publish`, `fence(Acquire)` | dropped | `WritesAfterReads` |
| `synchronize`, `store(0)` | `Relaxed` | none: nobody acquires anything from it that the writer has to pass on |

## Proofs

The theorems hold for all finite sets of handles and guards, all threads, keys
and objects, every width of the words and any bound on operations and on the log.
Their only assumptions are those the modules name: `OverflowBitAssumption` (the
words have an overflow bit), `CoreAssumption`, `OpLogAssumption` and
`MapAssumption` (the sets are finite where they are counted, and model values are
told apart). Unless a row says otherwise, spurious wakeups, forgotten read guards,
forgotten write guards and panicking destructors are allowed wherever the module
has them.

### Core

`CoreProofs` finds the inductive invariant `IInv`: types, `Bookkeeping` and
`ResidualAccounting`. Mutual exclusion alone is far from inductive. It holds
because `residual = 0` means that no guard is left on the old copy; that needs
the exact value of `residual` at each point of the writer's program, with its
offsets inside `publish` and while the writer waits (`ResidualAccounting`); and
that needs each guard to be counted once: the count bits of a refcount are the
number of its guards and never carry into the flag, and the flag is the readers'
copy except on the handles the loop has yet to reach, whose guards are all on the
old copy (`Bookkeeping`). The proof has one lemma per action or group of actions
and rests on lemmas about the words (`WordParts`, `Incremented`, `MapsSwapped`,
`IsizeAdd`).

| Theorem | Says |
|---|---|
| `TypeCorrect` | `Spec => []TypeOK` |
| `MutualExclusion` | `Spec => []WriterExclusive` |
| `ResidualExact` | `Spec => []ResidualAccounting` |
| `RefCountsExact` | `Spec => []Bookkeeping` |
| `WakeupNeverLost` | `Spec => []NoLostWakeup`; the strengthening `Wakeup` follows the last reader from its `fetch_sub` to its `unpark` |
| `AssertionsHold` | `Spec => []CodeAssertions` |
| `WriterThreadNotRaced` | `[]WriterThreadRaceFree` if `park` returns by its token only; the strengthening `Handover` says that one thing at a time is on its way to the writer, the last reader or its token |
| `OnlyReadersBlock` | `[]WaitsForReaders` if no read guard is forgotten; the strengthening `Borrowed` says that every guard's handle exists until its drop is over |
| `LogAccounts` | `Spec => []LogConsistent` |
| `Implements` | `Spec => ImplementsSnapshotMap`: a step lemma per action, with `shown_version` and `held_version` as the refinement mapping |
| `SnapshotsStable`, `ReadsMonotonic` | the two action properties, read off the abstract step |

The overflow windows are inside these theorems: `Bookkeeping` bounds a count by the
threads that have yet to abort, and `ResidualAccounting` is exact in the time
between a sum that overflowed and its abort, when `residual` may be far below zero
but is not yet `isize::MIN`. `NoLostWakeup` names a waker only while no residual
guard is forgotten.

`WriterExclusive` covers three windows: the flush, the write guard, and the time
after `synchronize` has returned to `reclaimer` (`idle` with `residual = 0`). The
two hypotheses cannot be dropped: `spurious_wakeup` and `forgotten_read_guard` are
the counterexamples.

### OpLog

| Theorem | Says |
|---|---|
| `LogTypeCorrect` | `Spec => []TypeOK`, with the index of an `Evicted` within the log as long as it lives |
| `ReadersNeverDisturbed` | `Spec => ReadersUndisturbed` |
| `LogIsReplayable` | `NoFaults => (Spec => []LogReplays)` |
| `ReplayNeverUndefined`, `FlushCatchesUp` | the same for `UncheckedOpsSound` and `CopiesAgree`, which follow from it |
| `NeverDroppedTwice`, `NothingLeaks`, `EvictedStaysValid`, `ReadersReachValidObjects` | the same for `NoDoubleDrop`, `NoLeak`, `EvictedValid` and `ReadersSafe` |

`NoFaults` excludes forgotten write guards and panicking destructors. It cannot
be dropped: `forgotten_write_guard` and `panicking_drop` refute `ReadersSafe` and
`GuardStartsLevel`, hence `CopiesAgree`, and with either fault alone TLC refutes each of the other invariants
that carry the hypothesis too (in the instance of `faults`). What survives both is
the types and `ReadersUndisturbed`.

`LogReplays` is inductive with the types: the log is a path of operations, each of
which is defined where it is replayed, from the copy that is behind to the one
that is ahead. `history` names the maps along that path, so that no step of the
proof is an induction over the log. Ownership is not inductive on its own: that a
replay drops an object once needs every object the map's side owns to have
exactly one owner, either the copy that is ahead or one logged operation.
`Owned` says so: the entries of the copy ahead are owned and no object occurs
twice in it (`MapOwns`, `Injective`), what an operation will drop is owned and no
longer in that copy (`LogOwns`), no two operations drop the same object
(`DroppedOnce`), everything owned has one of these owners (`NothingLost`), and
what is still on the copy behind is valid as long as readers may be on it
(`BehindValid`). That is where `leaky` marks matter: a leak moves an object from
the operation that would drop it to the user.

### FlashMap

| Theorem | Says |
|---|---|
| `MapRunsCore`, `MapRunsLog` | every behaviour of the composition is one of `Core` and one of `OpLog`, so that their theorems hold of the whole map |
| `SynchronizeQuietens` | `MapSpec => []SyncedIsQuiet` |
| `GuardsAreSafe` | `MapSpec => []GuardsReadValidObjects` |
| `GuardsAreSnapshots` | `MapSpec => GuardsReadSnapshots` |
| `NumbersNameContents` | `MapSpec => []VersionsNameContents` |

The coupling invariant `Coupled` relates the two views of the writer: where it is
(`PhaseMatches`), that the log counts as synced only where `residual` is zero
(`SyncedMatches`), that the copies are freed only when the handles are gone
(`FreedMatches`), and that `Core` counts the log's operations (`LengthMatches`).
`SyncedIsQuiet`, the one thing `OpLog` takes from the protocol, follows from it
and from `MutualExclusion`; with it a live guard is always on a copy that `OpLog`
counts as readable, and `GuardsAreSafe` and `GuardsAreSnapshots` follow from
`OpLog`'s theorems. Here the read side may be faulty, the write side not.

### Ordering

| Theorem | Says |
|---|---|
| `GuardsSeeWrites` | `OrderedSpec => []ReadsAfterWrites` |
| `WriterSeesReads` | `OrderedSpec => []WritesAfterReads` |
| `CellAccessesOrdered` | `OrderedSpec => []CellOrdered` |

`OrderedSpec` runs `Core`, so `IInv` and `Wakeup` hold in it. One lemma per action
(`...View`) says which accesses each place knows of after the step; the rest of
the proof is about three chains of places.

- A write reaches the readers (`WriteViews`): the newest write of the copy a handle
  hands out is known to the handle's holder or waits in its `RefCount`; that of the
  copy published last is known to whoever clones a handle or waits in the mutex;
  and while `publish` swaps the refcounts, its first fence has it.
- A read reaches the writer (`ReadViews`). A read of the readers' copy is with its
  guard, in its handle's `RefCount`, or on its way through the mutex (its handle
  was dropped). After the publish the same read, now of the writer's copy, is with
  a guard that has yet to release it, in a `RefCount` that `publish` has yet to
  swap, waiting for the second fence of `publish`, or in `residual`, where the last
  reader or the writer's own acquire finds all of them together. The step from
  "in one of these places" to "known to the writer" is where `residual = 0` and
  `IInv` enter.
- The cell `writer_thread` (`CellViews`): its assignment reaches the reader that
  reads it through `residual`, and that reading reaches the writer through the
  park token. It needs `Handover` up to the first spurious wakeup (`TokenOnly`).

### Uid

`UidsTellMapsApart` states `Spec => []OwnValuesUntilPanic` for all sets of maps and
values and every width of the counter. Inductive: all uids handed out are below
the counter or the counter is zero, and no two maps share one.

### Checked by TLC only

`SynchronizeReturns`: liveness under fairness is out of the prover's reach. Its
safety part, that a parked writer has somebody to wake it (no guard being
forgotten), is `WakeupNeverLost`.
That each ordering is needed (the table above) and the five violations are TLC's
counterexamples. Every other property of the passing runs is a theorem.

## Not modelled

- What unsafe code of the user does with the alias `Leaked::into_inner` returns.
- The counts of `Arc` and the memory of a `RefCount`: `Drop for Core` runs when
  both kinds of handle are gone, which is `Arc`'s contract.
- `TrustedHashEq`, `CachePadded`, the loom shim, `Builder`'s capacity and hashers:
  no state of their own that the protocol reads.
- The difference between debug and release builds: the assertions of the debug
  build are properties here (`CodeAssertions`), and sums wrap as in release.
- A panic of the closure given to `replace`: it is called before any change.
- Poisoning of the mutex: nothing panics while it is held, except the debug build's
  check of the sum in `publish`, where the release build aborts.

## Plan

Done: every module above, their runs, and a theorem for every property of the
passing runs but the liveness one. Left:

1. The composition with a faulty write side, which `FlashMap` excludes: the guards'
   copies stay untouched there too (`ReadersUndisturbed`), their objects do not stay
   valid (`forgotten_write_guard`).
2. The writer that waits for a guard of its own thread (`src/write.rs:128`): it
   needs the thread of each guard, which `Core` does not have.
