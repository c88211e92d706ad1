-------------------------------- MODULE Core --------------------------------
(***************************************************************************)
(* The synchronisation protocol of flashmap: one writer, any number of     *)
(* read handles and read guards, two copies of the map.                    *)
(*                                                                         *)
(* Sources: src/core/mod.rs (Core), src/core/refcount.rs, src/read.rs      *)
(* (ReadHandle, ReadGuard) and the parts of src/write.rs that drive Core   *)
(* (WriteHandle::guard, synchronize, drop; WriteGuard's drop).             *)
(*                                                                         *)
(* Every atomic read-modify-write, load or store on shared state is one    *)
(* action, so each interleaving of the threads is a behaviour.  Sections   *)
(* under the refcounts mutex that touch nothing else (new_reader,          *)
(* release_refcount) are one action, enabled when the mutex is free.       *)
(*                                                                         *)
(* A map is abstracted to the number of write operations it reflects: the  *)
(* operations of the single writer are totally ordered, and a copy that    *)
(* reflects n of them reflects the first n.                                *)
(***************************************************************************)
EXTENDS RefCount, FiniteSets

CONSTANTS
  Handles,          \* keys of the refcount slab: read handles that may exist
  Guards,           \* read guards that may exist at the same time
  Threads,          \* threads the write handle may be moved between
  None,             \* Option::None
  MaxOps,           \* bound on the number of write operations
  SpuriousWakeups,  \* may thread::park return without an unpark?
  ForgetGuards      \* may a read guard be passed to mem::forget?

ASSUME CoreAssumption ==
  /\ IsFiniteSet(Handles) /\ Handles # {}
  /\ IsFiniteSet(Guards)
  /\ Threads # {}
  /\ None \notin Threads /\ None \notin Handles /\ None \notin Nat
  /\ MaxOps \in Nat
  /\ SpuriousWakeups \in BOOLEAN /\ ForgetGuards \in BOOLEAN

VARIABLES
  residual,         \* Core::residual: AtomicIsize
  handles,          \* the occupied keys of Core::refcounts
  refcounts,        \* the RefCount of each occupied key (0 at a vacant one)
  writer_thread,    \* Core::writer_thread
  writer_map,       \* Core::writer_map
  maps,             \* operations each copy of the map reflects
  operations,       \* operations in the log, WriteHandle::operations
  wpc,              \* where the writer is
  call,             \* the WriteHandle method that called synchronize
  current,          \* the thread that owns the write handle
  todo,             \* publish: refcounts its loop has still to swap
  initial_residual, \* publish: the sum of the counts it swapped
  token,            \* park tokens of the threads
  gpc,              \* where each read guard is
  ghandle,          \* the handle a guard borrows
  gmap,             \* ReadGuard::map_index
  aborted           \* std::process::abort was called

core   == <<residual, handles, refcounts, writer_thread, writer_map>>
data   == <<maps, operations>>
writer == <<wpc, call, current, todo, initial_residual>>
guards == <<gpc, ghandle, gmap>>
vars   == <<core, data, writer, token, guards, aborted>>

WriterPC == {"idle", "set_thread", "set_flag", "reset", "park", "recheck",
             "flush", "writing", "swap", "add", "dropped"}
Calls    == {"synchronize", "guard", "drop"}

(* A guard is live from the end of ReadHandle::guard to the start of its   *)
(* drop; release, last and unpark are the steps of release_residual;       *)
(* overflowed is the window between increment's fetch_add and its abort;   *)
(* a forgotten guard becomes stuck when its handle goes and the writer     *)
(* still waits for it.                                                     *)
GuardPC  == {"free", "live", "release", "last", "unpark", "overflowed",
             "forgotten", "stuck"}

(* The single reader of the refcounts mutex that holds it over more than   *)
(* one step is publish's loop.                                             *)
mutex_free == wpc # "swap"

-----------------------------------------------------------------------------
(* Core::build_map: one write handle, one read handle, the writer on the   *)
(* second copy and readers on the first.                                   *)
Init ==
  /\ residual = 0
  /\ \E h \in Handles : handles = {h}
  /\ refcounts = [h \in Handles |-> RefCount_new(other(Second))]
  /\ writer_thread = None
  /\ writer_map = Second
  /\ maps = [i \in MapIndex |-> 0]
  /\ operations = 0
  /\ wpc = "idle"
  /\ call = "synchronize"
  /\ current \in Threads
  /\ todo = {}
  /\ initial_residual = 0
  /\ token = [t \in Threads |-> FALSE]
  /\ gpc = [g \in Guards |-> "free"]
  /\ ghandle = [g \in Guards |-> None]
  /\ gmap = [g \in Guards |-> First]
  /\ aborted = FALSE

-----------------------------------------------------------------------------
(* Core::synchronize, called by WriteHandle::synchronize, reclaimer and    *)
(* reclaim_one ("synchronize"), by WriteHandle::guard and by its drop.     *)

(* Where the writer goes on when synchronize returns.                      *)
Return(c) == wpc' = IF c = "synchronize" THEN "idle" ELSE "flush"

(* Mutant: no wait at all.                                                 *)
Synchronize_without_wait(c) ==
  /\ wpc = "idle"
  /\ call' = c
  /\ Return(c)
  /\ UNCHANGED <<core, data, current, todo, initial_residual, token, guards,
                 aborted>>

(* The first load of residual.                                             *)
Synchronize(c) ==
  /\ wpc = "idle"
  /\ call' = c
  /\ IF residual = 0 THEN Return(c) ELSE wpc' = "set_thread"
  /\ UNCHANGED <<core, data, current, todo, initial_residual, token, guards,
                 aborted>>

SetWriterThread ==
  /\ wpc = "set_thread"
  /\ writer_thread' = current
  /\ wpc' = "set_flag"
  /\ UNCHANGED <<residual, handles, refcounts, writer_map, data, call, current,
                 todo, initial_residual, token, guards, aborted>>

(* Mutant: park whatever fetch_add returned.                               *)
SetWaitFlag_then_park ==
  /\ wpc = "set_flag"
  /\ residual' = isize_add(residual, isize_MIN)
  /\ wpc' = "park"
  /\ UNCHANGED <<handles, refcounts, writer_thread, writer_map, data, call,
                 current, todo, initial_residual, token, guards, aborted>>

(* residual.fetch_add(isize::MIN).                                         *)
SetWaitFlag ==
  /\ wpc = "set_flag"
  /\ residual' = isize_add(residual, isize_MIN)
  /\ wpc' = IF residual # 0 THEN "park" ELSE "reset"
  /\ UNCHANGED <<handles, refcounts, writer_thread, writer_map, data, call,
                 current, todo, initial_residual, token, guards, aborted>>

(* Mutant: the waiting bit stays set.                                      *)
ResetResidual_without_store ==
  /\ wpc = "reset"
  /\ Return(call)
  /\ UNCHANGED <<core, data, call, current, todo, initial_residual, token,
                 guards, aborted>>

(* The last residual reader left between the load and the fetch_add.       *)
ResetResidual ==
  /\ wpc = "reset"
  /\ residual' = 0
  /\ Return(call)
  /\ UNCHANGED <<handles, refcounts, writer_thread, writer_map, data, call,
                 current, todo, initial_residual, token, guards, aborted>>

(* thread::park returns: by a token, which it consumes, or spuriously.     *)
Park ==
  /\ wpc = "park"
  /\ token[current]
  /\ token' = [token EXCEPT ![current] = FALSE]
  /\ wpc' = "recheck"
  /\ UNCHANGED <<core, data, call, current, todo, initial_residual, guards,
                 aborted>>

ParkSpuriously ==
  /\ SpuriousWakeups
  /\ wpc = "park"
  /\ wpc' = "recheck"
  /\ UNCHANGED <<core, data, call, current, todo, initial_residual, token,
                 guards, aborted>>

(* Mutant: trust that park returned because of the unpark.                 *)
Recheck_without_load ==
  /\ wpc = "recheck"
  /\ Return(call)
  /\ UNCHANGED <<core, data, call, current, todo, initial_residual, token,
                 guards, aborted>>

(* The load of residual after park.                                        *)
Recheck ==
  /\ wpc = "recheck"
  /\ IF residual = 0 THEN Return(call) ELSE wpc' = "park"
  /\ UNCHANGED <<core, data, call, current, todo, initial_residual, token,
                 guards, aborted>>

-----------------------------------------------------------------------------
(* The write handle and the write guard.                                   *)

(* WriteHandle is Send: between two calls it may move to another thread.   *)
MoveWriter(t) ==
  /\ wpc = "idle"
  /\ current' = t
  /\ UNCHANGED <<core, data, wpc, call, todo, initial_residual, token, guards,
                 aborted>>

(* Mutant: the log is replayed but not drained.                            *)
FlushOperations_without_drain ==
  /\ wpc = "flush"
  /\ maps' = [maps EXCEPT ![writer_map] = @ + operations]
  /\ wpc' = IF call = "guard" THEN "writing" ELSE "dropped"
  /\ UNCHANGED <<core, operations, call, current, todo, initial_residual, token,
                 guards, aborted>>

(* flush_operations replays and drains the log on the writer's copy, as    *)
(* the end of WriteHandle::guard or of the write handle's drop.            *)
FlushOperations ==
  /\ wpc = "flush"
  /\ maps' = [maps EXCEPT ![writer_map] = @ + operations]
  /\ operations' = 0
  /\ wpc' = IF call = "guard" THEN "writing" ELSE "dropped"
  /\ UNCHANGED <<core, call, current, todo, initial_residual, token, guards,
                 aborted>>

(* insert, replace, remove or drop_lazily on the write guard: applied to   *)
(* the writer's copy and pushed to the log.                                *)
WriteOp ==
  /\ wpc = "writing"
  /\ maps[writer_map] < MaxOps
  /\ maps' = [maps EXCEPT ![writer_map] = @ + 1]
  /\ operations' = operations + 1
  /\ UNCHANGED <<core, writer, token, guards, aborted>>

-----------------------------------------------------------------------------
(* Core::publish, called by the write guard's drop.                        *)

(* Lock the refcounts, toggle writer_map.                                  *)
Publish ==
  /\ wpc = "writing"
  /\ writer_map' = other(writer_map)
  /\ todo' = handles
  /\ initial_residual' = 0
  /\ wpc' = "swap"
  /\ UNCHANGED <<residual, handles, refcounts, writer_thread, data, call,
                 current, token, guards, aborted>>

(* One turn of the loop: swap_maps and accumulate.                         *)
SwapMaps(h) ==
  /\ wpc = "swap"
  /\ initial_residual >= 0
  /\ h \in todo
  /\ refcounts' = [refcounts EXCEPT ![h] = maps_swapped(@)]
  /\ todo' = todo \ {h}
  /\ initial_residual' = isize_add(initial_residual, to_count(refcounts[h]))
  /\ UNCHANGED <<residual, handles, writer_thread, writer_map, data, wpc, call,
                 current, token, guards, aborted>>

(* Its test: a sum that overflowed ends the process, and readers run on    *)
(* until it does.                                                          *)
SumOverflowed == wpc = "swap" /\ initial_residual < 0

AbortPublish ==
  /\ SumOverflowed
  /\ aborted' = TRUE
  /\ UNCHANGED <<core, data, writer, token, guards>>

(* Mutant: the lock is released before the loop is done.                   *)
Unlock_early ==
  /\ wpc = "swap"
  /\ initial_residual >= 0
  /\ wpc' = "add"
  /\ UNCHANGED <<core, data, call, current, todo, initial_residual, token,
                 guards, aborted>>

(* The end of the loop: the lock is released.                              *)
Unlock ==
  /\ wpc = "swap"
  /\ initial_residual >= 0
  /\ todo = {}
  /\ wpc' = "add"
  /\ UNCHANGED <<core, data, call, current, todo, initial_residual, token,
                 guards, aborted>>

(* Mutant: a store in place of the fetch_add.                              *)
AddResidual_by_store ==
  /\ wpc = "add"
  /\ residual' = initial_residual
  /\ initial_residual' = 0
  /\ wpc' = "idle"
  /\ UNCHANGED <<handles, refcounts, writer_thread, writer_map, data, call,
                 current, todo, token, guards, aborted>>

(* residual.fetch_add(initial_residual).                                   *)
AddResidual ==
  /\ wpc = "add"
  /\ residual' = isize_add(residual, initial_residual)
  /\ initial_residual' = 0
  /\ wpc' = "idle"
  /\ UNCHANGED <<handles, refcounts, writer_thread, writer_map, data, call,
                 current, todo, token, guards, aborted>>

-----------------------------------------------------------------------------
(* Read handles.                                                           *)

(* Mutant: a clone always starts on the first copy.                        *)
NewReader_on_first(src, h) ==
  /\ mutex_free
  /\ src \in handles
  /\ h \in Handles \ handles
  /\ handles' = handles \cup {h}
  /\ refcounts' = [refcounts EXCEPT ![h] = RefCount_new(First)]
  /\ UNCHANGED <<residual, writer_thread, writer_map, data, writer, token,
                 guards, aborted>>

(* Core::new_reader, by cloning the read handle src.                       *)
NewReader(src, h) ==
  /\ mutex_free
  /\ src \in handles
  /\ h \in Handles \ handles
  /\ handles' = handles \cup {h}
  /\ refcounts' = [refcounts EXCEPT ![h] = RefCount_new(other(writer_map))]
  /\ UNCHANGED <<residual, writer_thread, writer_map, data, writer, token,
                 guards, aborted>>

(* The guards whose borrow of the read handle has not ended.               *)
Borrowers(h) ==
  {g \in Guards : /\ ghandle[g] = h
                  /\ gpc[g] \in {"live", "release", "last", "unpark", "overflowed"}}

(* Mutant: the lock is not taken.                                          *)
DropHandle_without_lock(h) ==
  LET gone == {g \in Guards : gpc[g] = "forgotten" /\ ghandle[g] = h}
      owed == {g \in gone : gmap[g] # to_map_index(refcounts[h])}
  IN
  /\ h \in handles
  /\ Borrowers(h) = {}
  /\ handles' = handles \ {h}
  /\ refcounts' = [refcounts EXCEPT ![h] = 0]
  /\ gpc' = [g \in Guards |-> IF g \in owed THEN "stuck"
                              ELSE IF g \in gone THEN "free" ELSE gpc[g]]
  /\ ghandle' = [g \in Guards |-> IF g \in gone THEN None ELSE ghandle[g]]
  /\ gmap' = [g \in Guards |-> IF g \in gone THEN First ELSE gmap[g]]
  /\ UNCHANGED <<residual, writer_thread, writer_map, data, writer, token,
                 aborted>>

(* ReadHandle's drop, Core::release_refcount.  Forgotten guards do not     *)
(* keep the handle; those publish counted are never released.              *)
DropHandle(h) ==
  LET gone == {g \in Guards : gpc[g] = "forgotten" /\ ghandle[g] = h}
      owed == {g \in gone : gmap[g] # to_map_index(refcounts[h])}
  IN
  /\ mutex_free
  /\ h \in handles
  /\ Borrowers(h) = {}
  /\ handles' = handles \ {h}
  /\ refcounts' = [refcounts EXCEPT ![h] = 0]
  /\ gpc' = [g \in Guards |-> IF g \in owed THEN "stuck"
                              ELSE IF g \in gone THEN "free" ELSE gpc[g]]
  /\ ghandle' = [g \in Guards |-> IF g \in gone THEN None ELSE ghandle[g]]
  /\ gmap' = [g \in Guards |-> IF g \in gone THEN First ELSE gmap[g]]
  /\ UNCHANGED <<residual, writer_thread, writer_map, data, writer, token,
                 aborted>>

-----------------------------------------------------------------------------
(* Read guards.                                                            *)

Overflowing == {g \in Guards : gpc[g] = "overflowed"}

(* Mutant: the overflow bit is not tested.                                 *)
Guard_without_overflow_check(g, h) ==
  /\ gpc[g] = "free"
  /\ h \in handles
  /\ refcounts' = [refcounts EXCEPT ![h] = incremented(@)]
  /\ gpc' = [gpc EXCEPT ![g] = "live"]
  /\ ghandle' = [ghandle EXCEPT ![g] = h]
  /\ gmap' = [gmap EXCEPT ![g] = to_map_index(refcounts[h])]
  /\ UNCHANGED <<residual, handles, writer_thread, writer_map, data, writer,
                 token, aborted>>

(* ReadHandle::guard: RefCount::increment.  A thread that finds the        *)
(* overflow bit set has already incremented and goes on to abort; fewer    *)
(* than COUNT_OVERFLOW_BIT threads (2^62 on a 64-bit machine) are in that  *)
(* window at once.                                                         *)
Guard(g, h) ==
  /\ gpc[g] = "free"
  /\ h \in handles
  /\ overflowed(refcounts[h]) => Cardinality(Overflowing) < COUNT_OVERFLOW_BIT - 1
  /\ refcounts' = [refcounts EXCEPT ![h] = incremented(@)]
  /\ gpc' = [gpc EXCEPT ![g] = IF overflowed(refcounts[h]) THEN "overflowed"
                               ELSE "live"]
  /\ ghandle' = [ghandle EXCEPT ![g] = h]
  /\ gmap' = [gmap EXCEPT ![g] = to_map_index(refcounts[h])]
  /\ UNCHANGED <<residual, handles, writer_thread, writer_map, data, writer,
                 token, aborted>>

Abort(g) ==
  /\ gpc[g] = "overflowed"
  /\ aborted' = TRUE
  /\ UNCHANGED <<core, data, writer, token, guards>>

(* The guard g ends: its slot is free again.                               *)
Leave(g) ==
  /\ gpc' = [gpc EXCEPT ![g] = "free"]
  /\ ghandle' = [ghandle EXCEPT ![g] = None]
  /\ gmap' = [gmap EXCEPT ![g] = First]

(* ReadGuard's drop: RefCount::decrement, and release_residual when the    *)
(* maps were swapped during the guard's life.                              *)
DropGuard(g) ==
  LET h == ghandle[g] IN
  /\ gpc[g] = "live"
  /\ refcounts' = [refcounts EXCEPT ![h] = decremented(@)]
  /\ IF to_map_index(refcounts[h]) # gmap[g]
     THEN /\ gpc' = [gpc EXCEPT ![g] = "release"]
          /\ UNCHANGED <<ghandle, gmap>>
     ELSE Leave(g)
  /\ UNCHANGED <<residual, handles, writer_thread, writer_map, data, writer,
                 token, aborted>>

(* Mutants: whoever brings the count to zero unparks, waited for or not;   *)
(* and nobody does.                                                        *)
ReleaseResidual_always_unparks(g) ==
  /\ gpc[g] = "release"
  /\ SumOverflowed => residual > isize_MIN + 1
  /\ residual' = isize_add(residual, -1)
  /\ IF residual \notin {isize_MIN + 1, 1}
     THEN Leave(g)
     ELSE /\ gpc' = [gpc EXCEPT ![g] = "last"]
          /\ UNCHANGED <<ghandle, gmap>>
  /\ UNCHANGED <<handles, refcounts, writer_thread, writer_map, data, writer,
                 token, aborted>>

ReleaseResidual_never_unparks(g) ==
  /\ gpc[g] = "release"
  /\ SumOverflowed => residual > isize_MIN + 1
  /\ residual' = isize_add(residual, -1)
  /\ Leave(g)
  /\ UNCHANGED <<handles, refcounts, writer_thread, writer_map, data, writer,
                 token, aborted>>

(* release_residual: residual.fetch_sub(1).  Up to the abort a publish     *)
(* whose sum overflowed leads to, no more than isize::MAX guards are       *)
(* released: more guards that were not forgotten do not fit in memory.     *)
ReleaseResidual(g) ==
  /\ gpc[g] = "release"
  /\ SumOverflowed => residual > isize_MIN + 1
  /\ residual' = isize_add(residual, -1)
  /\ IF residual # isize_MIN + 1
     THEN Leave(g)
     ELSE /\ gpc' = [gpc EXCEPT ![g] = "last"]
          /\ UNCHANGED <<ghandle, gmap>>
  /\ UNCHANGED <<handles, refcounts, writer_thread, writer_map, data, writer,
                 token, aborted>>

(* release_residual: residual.store(0).                                    *)
StoreZero(g) ==
  /\ gpc[g] = "last"
  /\ residual' = 0
  /\ gpc' = [gpc EXCEPT ![g] = "unpark"]
  /\ UNCHANGED <<handles, refcounts, writer_thread, writer_map, data, writer,
                 token, ghandle, gmap, aborted>>

(* release_residual: read writer_thread and unpark it.                     *)
Unpark(g) ==
  /\ gpc[g] = "unpark"
  /\ token' = [t \in Threads |-> token[t] \/ t = writer_thread]
  /\ Leave(g)
  /\ UNCHANGED <<core, data, writer, aborted>>

(* mem::forget on a read guard: its drop never runs.                       *)
ForgetGuard(g) ==
  /\ ForgetGuards
  /\ gpc[g] = "live"
  /\ gpc' = [gpc EXCEPT ![g] = "forgotten"]
  /\ UNCHANGED <<core, data, writer, token, ghandle, gmap, aborted>>

-----------------------------------------------------------------------------
(* Nothing is left to do: the process aborted, or every handle is gone.    *)
Terminated ==
  /\ aborted \/ (wpc = "dropped" /\ handles = {})
  /\ UNCHANGED vars

WriterStep ==
  \/ SetWriterThread
  \/ SetWaitFlag
  \/ ResetResidual
  \/ Park
  \/ Recheck
  \/ FlushOperations
  \/ \E h \in Handles : SwapMaps(h)
  \/ AbortPublish
  \/ Unlock
  \/ AddResidual

ReleaseStep(g) ==
  \/ Abort(g)
  \/ ReleaseResidual(g)
  \/ StoreZero(g)
  \/ Unpark(g)

Next ==
  \/ /\ ~aborted
     /\ \/ \E c \in Calls : Synchronize(c)
        \/ \E t \in Threads : MoveWriter(t)
        \/ WriteOp
        \/ Publish
        \/ WriterStep
        \/ ParkSpuriously
        \/ \E src, h \in Handles : NewReader(src, h)
        \/ \E h \in Handles : DropHandle(h)
        \/ \E g \in Guards, h \in Handles : Guard(g, h)
        \/ \E g \in Guards : DropGuard(g) \/ ForgetGuard(g) \/ ReleaseStep(g)
  \/ Terminated

Spec == Init /\ [][Next]_vars

-----------------------------------------------------------------------------
TypeOK ==
  /\ residual \in isize
  /\ handles \subseteq Handles
  /\ refcounts \in [Handles -> usize]
  /\ writer_thread \in Threads \cup {None}
  /\ writer_map \in MapIndex
  /\ maps \in [MapIndex -> Nat]
  /\ operations \in Nat
  /\ wpc \in WriterPC
  /\ call \in Calls
  /\ current \in Threads
  /\ todo \subseteq handles
  /\ initial_residual \in isize
  /\ token \in [Threads -> BOOLEAN]
  /\ gpc \in [Guards -> GuardPC]
  /\ ghandle \in [Guards -> Handles \cup {None}]
  /\ gmap \in [Guards -> MapIndex]
  /\ aborted \in BOOLEAN

-----------------------------------------------------------------------------
(* What a guard made from h now would read, and what the guard g reads.    *)
View(h)     == maps[to_map_index(refcounts[h])]
Snapshot(g) == maps[gmap[g]]
latest      == maps[other(writer_map)]

(* The guards a refcount counts, and the residual guards: those publish    *)
(* counted on the old map and that have not passed their fetch_sub in      *)
(* release_residual.                                                       *)
Counted    == {"live", "overflowed", "forgotten"}
Holders(h) == {g \in Guards : ghandle[g] = h /\ gpc[g] \in Counted}
Owes(g) ==
  \/ gpc[g] \in {"release", "stuck"}
  \/ gpc[g] \in Counted /\ gmap[g] # to_map_index(refcounts[ghandle[g]])
Residuals == {g \in Guards : Owes(g)}
Owed      == Cardinality(Residuals)

(* The writer's copy is the writer's alone: while flush_operations and the *)
(* write guard change it, and after synchronize has returned to reclaimer, *)
(* whose caller takes values out of readers' reach.                        *)
WriterOwns == wpc \in {"flush", "writing"} \/ (wpc = "idle" /\ residual = 0)

(* While the writer owns its copy, no live guard reads that copy and no    *)
(* read handle would hand it out, however guards, clones, drops and the    *)
(* turns of the last publish interleaved.                                  *)
WriterExclusive ==
  WriterOwns =>
    /\ \A g \in Guards : gpc[g] = "live" => gmap[g] # writer_map
    /\ \A h \in handles : to_map_index(refcounts[h]) # writer_map

(* The guards publish has counted so far, its sum before it wrapped.       *)
Sum == IF initial_residual < 0 THEN initial_residual + WORD
       ELSE initial_residual

(* The value of Core::residual at each point of the writer's protocol,     *)
(* against the guards that really are left on the old map: exact when the  *)
(* writer is not in publish, short by the sum of publish inside it (early  *)
(* releases drive it below zero), also when that sum has wrapped and the   *)
(* abort is still to come; offset by isize::MIN while the writer waits,    *)
(* and zero only when nobody is left or when nobody was.                   *)
ResidualAccounting ==
  /\ wpc \in {"idle", "set_thread", "set_flag"} => residual = Owed
  /\ wpc \in {"flush", "writing", "dropped"} => residual = 0 /\ Owed = 0
  /\ wpc = "swap" => Sum + residual = Owed /\ residual <= 0
  /\ wpc = "add" => initial_residual + residual = Owed /\ residual <= 0
  /\ wpc = "reset" => residual = isize_MIN /\ Owed = 0
  /\ wpc \in {"park", "recheck"} =>
       \/ residual = isize_MIN + Owed /\ residual < 0
       \/ residual = 0 /\ Owed = 0
  /\ \A g \in Guards : gpc[g] = "last" =>
       /\ wpc \in {"park", "recheck"}
       /\ residual = isize_MIN
       /\ \A k \in Guards : gpc[k] = "last" => k = g

(* What makes the accounting work, at every step of every thread.  A guard *)
(* that counts has its handle in the slab.  The count bits of a RefCount   *)
(* are the number of its guards, overflowing ones included, and stay clear *)
(* of the flag.  The flag is the reader's map, except on the handles the   *)
(* publish loop has yet to reach, whose guards are all on the old map: no  *)
(* guard is counted as residual twice or not at all.                       *)
Placed == \A g \in Guards : gpc[g] \in Counted => ghandle[g] \in handles

CountsExact ==
  /\ \A h \in handles :
       /\ to_count(refcounts[h]) = Cardinality(Holders(h))
       /\ Cardinality(Holders(h)) <= COUNT_OVERFLOW_BIT + Cardinality(Overflowing)
  /\ Cardinality(Overflowing) <= COUNT_OVERFLOW_BIT - 1

FlagsDelivered ==
  /\ wpc # "swap" => todo = {}
  /\ \A h \in handles :
       to_map_index(refcounts[h]) = IF h \in todo THEN writer_map
                                    ELSE other(writer_map)
  /\ \A g \in Guards :
       gpc[g] \in Counted /\ ghandle[g] \in todo => gmap[g] = writer_map

Bookkeeping == Placed /\ CountsExact /\ FlagsDelivered

(* The residual guards whose drop never runs.                              *)
Abandoned == {g \in Residuals : gpc[g] \in {"forgotten", "stuck"}}

(* A writer blocked in thread::park without a token has registered the     *)
(* very thread that is parked, wherever the write handle has been moved    *)
(* before, and unless a residual guard was forgotten somebody is left to   *)
(* wake it: a residual guard whose drop is still to run, or the last one   *)
(* between its fetch_sub and its unpark.                                   *)
NoLostWakeup ==
  wpc = "park" /\ ~token[current] =>
    /\ writer_thread = current
    /\ Abandoned = {} =>
         \E g \in Guards : g \in Residuals \/ gpc[g] \in {"last", "unpark"}

(* The three assertions of src/core/mod.rs: publish finds residual = 0     *)
(* (line 165, the "important invariant" of algorithm.md); a writer whose   *)
(* park returned early finds it negative (line 149); and the reader that   *)
(* unparks finds a writer_thread (line 119).                               *)
CodeAssertions ==
  /\ wpc = "writing" => residual = 0
  /\ wpc = "recheck" => residual <= 0
  /\ \A g \in Guards : gpc[g] = "unpark" => writer_thread # None

(* The two copies differ by exactly the operations in the log: the reader  *)
(* copy is ahead between two writes, the writer copy during one.  Outside  *)
(* of publish's loop every read handle hands out the latest copy.          *)
LogConsistent ==
  /\ wpc = "writing" => maps[writer_map] = latest + operations
  /\ wpc # "writing" => latest = maps[writer_map] + operations
  /\ wpc # "swap" => \A h \in handles : View(h) = latest

(* A writer that is blocked for good is blocked by a reader: when every    *)
(* read handle is gone, synchronize does not wait (write.rs: "if there are *)
(* no active readers ... this function is a no-op").                       *)
WaitsForReaders == wpc = "park" /\ ~token[current] => handles # {}

(* Core::writer_thread is a plain cell: the writer's assignment in         *)
(* synchronize and the read in release_residual never meet.                *)
WriterThreadRaceFree ==
  ~(wpc = "set_thread" /\ \E g \in Guards : gpc[g] = "unpark")

(* A read guard is a snapshot (read.rs: "a snapshot view of the map at a   *)
(* particular point in time"): what it reads never changes under it.       *)
SnapshotStable ==
  [][\A g \in Guards :
       gpc[g] = "live" /\ gpc'[g] = "live" => Snapshot(g)' = Snapshot(g)]_vars

(* Reads never go back: later guards of a handle see at least what earlier *)
(* ones saw, and a clone sees at least what every existing handle would    *)
(* show, even if it is made while publish is about to run or has just run. *)
MonotonicReads ==
  [][\A h \in handles' :
       IF h \in handles THEN View(h)' >= View(h)
       ELSE \A k \in handles : View(h)' >= View(k)]_vars

(* The protocol implements the abstract map: a publish takes effect when   *)
(* writer_map is toggled, each turn of its loop delivers the new version   *)
(* to one handle, and everything else a user sees is one abstract step.    *)
shown_version == [h \in Handles |-> IF h \in handles THEN View(h) ELSE None]
held_version  == [g \in Guards |-> IF gpc[g] = "live" THEN Snapshot(g) ELSE None]

Promise == INSTANCE SnapshotMap WITH
  version <- latest, shown <- shown_version, held <- held_version

ImplementsSnapshotMap == Promise!Spec

(* Scheduling is fair to a writer that is inside a call and to a reader    *)
(* that is inside a guard's drop, and users drop their guards.  Nothing is *)
(* assumed of thread::park beyond its token.                               *)
Fairness ==
  /\ WF_vars(~aborted /\ WriterStep)
  /\ \A g \in Guards : WF_vars(~aborted /\ (DropGuard(g) \/ ReleaseStep(g)))

FairSpec == Spec /\ Fairness

(* Core::synchronize returns, however many guards keep being created on    *)
(* the current map: only the residual ones are waited for.                 *)
InSynchronize == wpc \in {"set_thread", "set_flag", "reset", "park", "recheck"}

SynchronizeReturns == InSynchronize ~> (~InSynchronize \/ aborted)
=============================================================================
