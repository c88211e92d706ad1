------------------------------- MODULE OpLog -------------------------------
(***************************************************************************)
(* The write side of flashmap: the operation log, and who owns the keys    *)
(* and values that both copies of the map alias.                           *)
(*                                                                         *)
(* Sources: src/write.rs (WriteHandle, WriteGuard, Operation, Evicted,     *)
(* Leaked), src/util/aliasing.rs (Alias) and Drop for Core in              *)
(* src/core/mod.rs.                                                        *)
(*                                                                         *)
(* An Alias is a bitwise copy without a destructor: each key and value     *)
(* object is in up to two copies of the map and in the log at once, and    *)
(* must be dropped exactly once, after the last reader is gone.  What Core *)
(* contributes is one fact: after synchronize and until the next publish   *)
(* no reader is on the writer's copy (SyncedIsQuiet in FlashMap, where the *)
(* two run together).                                                      *)
(***************************************************************************)
EXTENDS Integers, Sequences, Store

CONSTANTS
  Keys,              \* keys, by their equality
  KeyObjects,        \* key objects on the heap
  ValueObjects,      \* value objects on the heap
  None,              \* Option::None
  MaxLog,            \* bound on the length of the log
  ForgetWriteGuards, \* may a write guard be passed to mem::forget?
  DropPanics         \* may the destructor of a key or a value panic?

ASSUME OpLogAssumption ==
  /\ KeyObjects \cap ValueObjects = {}
  /\ None \notin KeyObjects \cup ValueObjects
  /\ None \notin [key : KeyObjects, value : ValueObjects]
  /\ MaxLog \in Nat
  /\ ForgetWriteGuards \in BOOLEAN /\ DropPanics \in BOOLEAN

VARIABLES
  maps,        \* the two copies: the entry of each key
  writer_map,  \* Core::writer_map
  operations,  \* WriteHandle::operations
  history,     \* auxiliary: the writer's copy before each logged operation
  object,      \* the state of each heap object
  evicted,     \* the Evicted values that are alive
  phase,       \* where the writer is
  closing,     \* is the flush the one of the write handle's drop?
  synced       \* has no reader been left on the writer's copy?

log  == <<operations, history>>
vars == <<maps, writer_map, log, object, evicted, phase, closing, synced>>

Objects == KeyObjects \cup ValueObjects
Entries == [key : KeyObjects, value : ValueObjects]
Map     == [Keys -> Entries \cup {None}]
Phases  == {"idle", "flush", "writing", "closed", "freed", "undefined"}

(* An object is gone before it is created and after it is dropped or given *)
(* back to the user as a plain value; aliased while the map's side owns    *)
(* it; leaked while the user owns it through a Leaked; corrupt once it is  *)
(* dropped by someone who does not own it.                                 *)
ObjectStates == {"gone", "aliased", "leaked", "corrupt"}

(* Operation { raw: RawOperation, leaky }; the fields a variant does not   *)
(* have are None.                                                          *)
Kinds      == {"InsertUnique", "Replace", "Remove", "Drop"}
Operations == [raw : Kinds, of : Keys \cup {None}, key : KeyObjects \cup {None},
               value : ValueObjects \cup {None}, leaky : BOOLEAN]

Operation(raw, k, key, value) ==
  [raw |-> raw, of |-> k, key |-> key, value |-> value, leaky |-> FALSE]

Here == maps[writer_map]

-----------------------------------------------------------------------------
Init ==
  /\ maps = [i \in MapIndex |-> [k \in Keys |-> None]]
  /\ writer_map = Second
  /\ operations = <<>>
  /\ history = <<>>
  /\ object = [o \in Objects |-> "gone"]
  /\ evicted = {}
  /\ phase = "idle"
  /\ closing = FALSE
  /\ synced = TRUE

(* The objects an entry of a copy, the log or an Evicted refers to: a new  *)
(* object is never one of these, and neither leaked.                       *)
InMap(m)  == {m[k].key : k \in {j \in Keys : m[j] # None}}
               \cup {m[k].value : k \in {j \in Keys : m[j] # None}}
InLog     == {operations[i].key : i \in DOMAIN operations}
               \cup {operations[i].value : i \in DOMAIN operations}
Fresh(S) ==
  {o \in S : /\ object[o] = "gone"
             /\ o \notin InMap(maps[First]) \cup InMap(maps[Second]) \cup InLog}

(* Alias::drop on each of S.                                               *)
Dropped(S) ==
  [o \in Objects |-> IF o \notin S THEN object[o]
                     ELSE IF object[o] = "aliased" THEN "gone" ELSE "corrupt"]

-----------------------------------------------------------------------------
(* Operations on the write guard.  Each changes the writer's copy and      *)
(* pushes one operation.                                                   *)
Push(op) ==
  /\ operations' = Append(operations, op)
  /\ history' = Append(history, Here)

SetEntry(k, e) == maps' = [maps EXCEPT ![writer_map][k] = e]

(* Mutants: the position is taken before the push, or not turned into an   *)
(* index.                                                                  *)
Evict_before_push(v) ==
  evicted' = evicted \cup
    {[value |-> v, operation |-> IF operations = <<>> THEN 1 ELSE Len(operations)]}

Evict_past_end(v) ==
  evicted' = evicted \cup {[value |-> v, operation |-> Len(operations) + 2]}

(* Evicted::new: the value and the position of the operation just pushed.  *)
Evict(v) ==
  evicted' = evicted \cup {[value |-> v, operation |-> Len(operations) + 1]}

Writing ==
  /\ phase = "writing"
  /\ Len(operations) < MaxLog

InsertVacant(k, ko, v) ==
  /\ Writing
  /\ Here[k] = None
  /\ ko \in Fresh(KeyObjects) /\ v \in Fresh(ValueObjects)
  /\ object' = [object EXCEPT ![ko] = "aliased", ![v] = "aliased"]
  /\ SetEntry(k, [key |-> ko, value |-> v])
  /\ Push(Operation("InsertUnique", k, ko, v))
  /\ UNCHANGED <<writer_map, evicted, phase, closing, synced>>

(* insert on an occupied entry, and replace: the entry keeps its key.      *)
InsertOccupied(k, v) ==
  /\ Writing
  /\ Here[k] # None
  /\ v \in Fresh(ValueObjects)
  /\ object' = [object EXCEPT ![v] = "aliased"]
  /\ SetEntry(k, [Here[k] EXCEPT !.value = v])
  /\ Push(Operation("Replace", k, None, v))
  /\ Evict(Here[k].value)
  /\ UNCHANGED <<writer_map, phase, closing, synced>>

(* Mutant: the operation is pushed even if nothing was removed.            *)
Remove_unconditionally(k) ==
  /\ Writing
  /\ SetEntry(k, None)
  /\ Push(Operation("Remove", k, None, None))
  /\ IF Here[k] # None THEN Evict(Here[k].value) ELSE UNCHANGED evicted
  /\ UNCHANGED <<writer_map, object, phase, closing, synced>>

(* remove: nothing happens when the key is absent.                         *)
Remove(k) ==
  /\ Writing
  /\ Here[k] # None
  /\ SetEntry(k, None)
  /\ Push(Operation("Remove", k, None, None))
  /\ Evict(Here[k].value)
  /\ UNCHANGED <<writer_map, object, phase, closing, synced>>

(* drop_lazily: the value goes back to the map's side.                     *)
DropLazily(v) ==
  /\ Writing
  /\ v \in ValueObjects /\ object[v] = "leaked"
  /\ object' = [object EXCEPT ![v] = "aliased"]
  /\ Push(Operation("Drop", None, None, v))
  /\ UNCHANGED <<maps, writer_map, evicted, phase, closing, synced>>

(* Mutant: the operation is not marked.                                    *)
Leak_without_mark(e) ==
  /\ e \in evicted
  /\ object' = [object EXCEPT ![e.value] = "leaked"]
  /\ evicted' = evicted \ {e}
  /\ UNCHANGED <<maps, writer_map, log, phase, closing, synced>>

(* Evicted::leak marks the operation by its position.  The borrow checker  *)
(* keeps an Evicted alive beyond its guard, up to the next use of the      *)
(* write handle.                                                           *)
Leak(e) ==
  /\ e \in evicted
  /\ operations' = [operations EXCEPT ![e.operation].leaky = TRUE]
  /\ object' = [object EXCEPT ![e.value] = "leaked"]
  /\ evicted' = evicted \ {e}
  /\ UNCHANGED <<maps, writer_map, history, phase, closing, synced>>

(* The write guard's drop: Core::publish.  Readers may linger on the copy  *)
(* that becomes the writer's.                                              *)
Publish ==
  /\ phase = "writing"
  /\ writer_map' = other(writer_map)
  /\ synced' = FALSE
  /\ phase' = "idle"
  /\ UNCHANGED <<maps, log, object, evicted, closing>>

(* mem::forget on a write guard: nothing is published.                     *)
ForgetWriteGuard ==
  /\ ForgetWriteGuards
  /\ phase = "writing"
  /\ phase' = "idle"
  /\ UNCHANGED <<maps, writer_map, log, object, evicted, closing, synced>>

-----------------------------------------------------------------------------
(* Operations on the write handle.  Each starts with Core::synchronize,    *)
(* and no Evicted outlives its start.                                      *)
UseHandle_without_synchronize ==      \* Mutant: readers are not waited for.
  /\ phase = "idle"
  /\ evicted' = {}
  /\ UNCHANGED synced

UseHandle ==
  /\ phase = "idle"
  /\ synced' = TRUE
  /\ evicted' = {}

Synchronize ==
  /\ UseHandle
  /\ UNCHANGED <<maps, writer_map, log, object, phase, closing>>

(* reclaimer and reclaim_one: the value is the user's again.               *)
Reclaim(v) ==
  /\ UseHandle
  /\ v \in ValueObjects /\ object[v] = "leaked"
  /\ object' = [object EXCEPT ![v] = "gone"]
  /\ UNCHANGED <<maps, writer_map, log, phase, closing>>

(* WriteHandle::guard, and the write handle's drop, up to the flush.       *)
BeginFlush(close) ==
  /\ UseHandle
  /\ phase' = "flush"
  /\ closing' = close
  /\ UNCHANGED <<maps, writer_map, log, object>>

(* Mutant: a leaky Replace leaves the slot alone.                          *)
Apply_unless_leaky(op, m) ==
  IF op.raw = "Drop" \/ (op.raw = "Replace" /\ op.leaky) THEN m
  ELSE [m EXCEPT ![op.of] =
          CASE op.raw = "InsertUnique" -> [key |-> op.key, value |-> op.value]
            [] op.raw = "Replace"      -> [@ EXCEPT !.value = op.value]
            [] op.raw = "Remove"       -> None]

(* What an operation does to a copy, and the objects its replay drops:     *)
(* those it displaces from the copy m, unless leaky.                       *)
Apply(op, m) ==
  IF op.raw = "Drop" THEN m
  ELSE [m EXCEPT ![op.of] =
          CASE op.raw = "InsertUnique" -> [key |-> op.key, value |-> op.value]
            [] op.raw = "Replace"      -> [@ EXCEPT !.value = op.value]
            [] op.raw = "Remove"       -> None]

Unless(leaky, o) == IF leaky THEN {} ELSE {o}

(* Mutant: the key of a removed entry is not dropped.                      *)
Drops_but_keys(op, m) ==
  CASE op.raw = "InsertUnique" -> {}
    [] op.raw = "Replace"      -> Unless(op.leaky, m[op.of].value)
    [] op.raw = "Remove"       -> Unless(op.leaky, m[op.of].value)
    [] op.raw = "Drop"         -> {op.value}

Drops(op, m) ==
  CASE op.raw = "InsertUnique" -> {}
    [] op.raw = "Replace"      -> Unless(op.leaky, m[op.of].value)
    [] op.raw = "Remove"       -> {m[op.of].key} \cup Unless(op.leaky, m[op.of].value)
    [] op.raw = "Drop"         -> {op.value}

(* The unchecked operations of the replay (insert_unique_unchecked,        *)
(* unwrap_unchecked) are defined only on such copies.                      *)
Replayable(op, m) ==
  /\ op.raw = "InsertUnique" => m[op.of] = None
  /\ op.raw \in {"Replace", "Remove"} => m[op.of] # None

(* Mutant: the newest operation first (Vec::pop for Vec::drain).           *)
FlushOperation_backwards ==
  LET n  == Len(operations)
      op == operations[n] IN
  /\ phase = "flush"
  /\ operations # <<>> /\ Replayable(op, Here)
  /\ maps' = [maps EXCEPT ![writer_map] = Apply(op, @)]
  /\ object' = Dropped(Drops(op, Here))
  /\ operations' = SubSeq(operations, 1, n - 1)
  /\ history' = SubSeq(history, 1, n - 1)
  /\ UNCHANGED <<writer_map, evicted, phase, closing, synced>>

(* flush_operations, one turn of its loop.                                 *)
FlushOperation ==
  LET op == Head(operations) IN
  /\ phase = "flush"
  /\ operations # <<>> /\ Replayable(op, Here)
  /\ maps' = [maps EXCEPT ![writer_map] = Apply(op, @)]
  /\ object' = Dropped(Drops(op, Here))
  /\ operations' = Tail(operations)
  /\ history' = Tail(history)
  /\ UNCHANGED <<writer_map, evicted, phase, closing, synced>>

Flushed ==
  /\ phase = "flush"
  /\ operations = <<>>
  /\ phase' = IF closing THEN "closed" ELSE "writing"
  /\ UNCHANGED <<maps, writer_map, log, object, evicted, closing, synced>>

(* An unchecked operation where it is not defined: the model stops, since  *)
(* nothing can be said of the program after it.                            *)
FlushUndefined ==
  /\ phase = "flush"
  /\ operations # <<>> /\ ~Replayable(Head(operations), Here)
  /\ phase' = "undefined"
  /\ UNCHANGED <<maps, writer_map, log, object, evicted, closing, synced>>

(* A destructor run by the loop panics: the object counts as dropped, the  *)
(* rest of the turn does not happen (a replaced slot keeps the dropped     *)
(* value; a removed entry is already out of the map, and its value stays   *)
(* if the key panicked), and drain's own drop discards the operations that *)
(* are left.  The key an operation owns is dropped last, after its turn.   *)
FlushPanics ==
  LET op == Head(operations) IN
  /\ DropPanics
  /\ phase = "flush"
  /\ operations # <<>> /\ Replayable(op, Here)
  /\ \/ /\ op.raw \in {"Replace", "Drop"} /\ Drops(op, Here) # {}
        /\ object' = Dropped(Drops(op, Here))
        /\ UNCHANGED maps
     \/ /\ op.raw = "Remove"
        /\ object' = Dropped({Here[op.of].key})
        /\ maps' = [maps EXCEPT ![writer_map] = Apply(op, @)]
     \/ /\ op.raw \in {"Replace", "Remove"}
        /\ object' = Dropped(Drops(op, Here))
        /\ maps' = [maps EXCEPT ![writer_map] = Apply(op, @)]
  /\ operations' = <<>>
  /\ history' = <<>>
  /\ phase' = IF closing THEN "closed" ELSE "idle"
  /\ UNCHANGED <<writer_map, evicted, closing, synced>>

(* Drop for Core, once the write handle and every read handle are gone:    *)
(* the reader copy is drained and its entries are dropped.                 *)
FreeCore ==
  /\ phase = "closed"
  /\ object' = Dropped(InMap(maps[other(writer_map)]))
  /\ maps' = [maps EXCEPT ![other(writer_map)] = [k \in Keys |-> None]]
  /\ phase' = "freed"
  /\ UNCHANGED <<writer_map, log, evicted, closing, synced>>

Terminated ==
  /\ phase \in {"freed", "undefined"}
  /\ UNCHANGED vars

Next ==
  \/ \E k \in Keys, ko \in KeyObjects, v \in ValueObjects : InsertVacant(k, ko, v)
  \/ \E k \in Keys, v \in ValueObjects : InsertOccupied(k, v)
  \/ \E k \in Keys : Remove(k)
  \/ \E v \in ValueObjects : DropLazily(v) \/ Reclaim(v)
  \/ \E e \in evicted : Leak(e)
  \/ Publish
  \/ ForgetWriteGuard
  \/ Synchronize
  \/ \E close \in BOOLEAN : BeginFlush(close)
  \/ FlushOperation
  \/ Flushed
  \/ FlushUndefined
  \/ FlushPanics
  \/ FreeCore
  \/ Terminated

Spec == Init /\ [][Next]_vars
-----------------------------------------------------------------------------
TypeOK ==
  /\ maps \in [MapIndex -> Map]
  /\ writer_map \in MapIndex
  /\ operations \in Seq(Operations)
  /\ history \in Seq(Map)
  /\ Len(history) = Len(operations) /\ Len(operations) <= MaxLog
  /\ object \in [Objects -> ObjectStates]
  /\ evicted \subseteq [value : ValueObjects, operation : 1 .. Len(operations)]
  /\ phase \in Phases
  /\ closing \in BOOLEAN
  /\ synced \in BOOLEAN

(* The copies a reader may be reading.                                     *)
Readable ==
  IF phase = "freed" THEN {}
  ELSE {other(writer_map)} \cup (IF synced THEN {} ELSE {writer_map})

(* No reader ever reaches an object that was dropped, or that reclaimer    *)
(* gave back to the user, whatever was evicted, leaked, reclaimed or       *)
(* dropped lazily in the meantime.                                         *)
ReadersSafe ==
  \A i \in Readable : \A o \in InMap(maps[i]) : object[o] \in {"aliased", "leaked"}

(* Nobody changes a copy of the map that a reader may be reading, even     *)
(* when write guards are forgotten and the flush is cut short by a panic.  *)
ReadersUndisturbed ==
  [][\A i \in Readable : phase' # "freed" => maps'[i] = maps[i]]_vars

(* Every object is dropped at most once and never while a Leaked owns it,  *)
(* though two copies of the map and the log alias it.                      *)
NoDoubleDrop == \A o \in Objects : object[o] # "corrupt"

(* Once both handles are gone nothing the map owned is left: what is not   *)
(* dropped is in a Leaked the user kept.                                   *)
NoLeak == phase = "freed" => \A o \in Objects : object[o] # "aliased"

(* flush_operations replays without checks: InsertUnique finds its key     *)
(* absent, Replace and Remove find theirs present.                         *)
UncheckedOpsSound ==
  phase = "flush" /\ operations # <<>> => Replayable(Head(operations), Here)

(* A write guard starts from what readers see (algorithm.md: "We then      *)
(* re-apply those changes to the old map when it is safe to do so"): the   *)
(* flushes before it, cut short or not, have replayed everything published.*)
GuardStartsLevel ==
  phase = "writing" /\ operations = <<>> => maps[First] = maps[Second]

(* The flush brings the writer's copy to the published one: a write guard  *)
(* starts from what readers see, and Drop for Core may drop one copy only. *)
CopiesAgree ==
  /\ GuardStartsLevel
  /\ phase = "closed" => maps[First] = maps[Second]

(* The log is a path from the copy that is behind to the copy that is      *)
(* ahead, replayable at every step: the induction behind CopiesAgree and   *)
(* UncheckedOpsSound.                                                      *)
Ahead  == IF phase = "writing" THEN Here ELSE maps[other(writer_map)]
Behind == IF phase = "writing" THEN maps[other(writer_map)] ELSE Here

Reached(i) == IF i <= Len(history) THEN history[i] ELSE Ahead

LogReplays ==
  phase # "freed" =>
    /\ Reached(1) = Behind
    /\ \A i \in 1 .. Len(operations) :
         /\ Replayable(operations[i], history[i])
         /\ Reached(i + 1) = Apply(operations[i], history[i])

(* Evicted::leak marks an operation by its index in the log, possibly      *)
(* after more operations and after the publish: it is the operation whose  *)
(* replay would drop the leaked value, and until then the value is valid.  *)
EvictedValid ==
  \A e \in evicted :
    /\ object[e.value] = "aliased"
    /\ operations[e.operation].raw \in {"Replace", "Remove"}
    /\ ~operations[e.operation].leaky
    /\ history[e.operation][operations[e.operation].of].value = e.value
=============================================================================
