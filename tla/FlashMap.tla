------------------------------ MODULE FlashMap ------------------------------
(***************************************************************************)
(* The whole map: the protocol of Core and the log of OpLog, run together. *)
(*                                                                         *)
(* Core counts operations, and OpLog is told by one Boolean whether        *)
(* readers may be on the writer's copy.  Here the copies have entries, the *)
(* guards that read them are those of Core, and every step of a write      *)
(* handle or write guard is a step of both.                                *)
(***************************************************************************)
EXTENDS Core, Sequences

CONSTANTS
  Keys,           \* keys, by their equality
  KeyObjects,     \* key objects on the heap
  ValueObjects,   \* value objects on the heap
  MaxLog          \* bound on the length of the log

ASSUME MapAssumption ==
  /\ KeyObjects \cap ValueObjects = {}
  /\ None \notin KeyObjects \cup ValueObjects
  /\ None \notin [key : KeyObjects, value : ValueObjects]
  /\ MaxLog \in Nat

VARIABLES
  entries,   \* the two copies
  oplog,     \* WriteHandle::operations
  history,   \* auxiliary: the writer's copy before each logged operation
  object,    \* the state of each heap object
  evicted,   \* the Evicted values that are alive
  phase,     \* where OpLog sees the writer
  closing,   \* is the flush the one of the write handle's drop?
  synced     \* has synchronize returned since the last publish?

log_vars == <<entries, oplog, history, object, evicted, phase, closing, synced>>
all_vars == <<vars, log_vars>>

Log == INSTANCE OpLog WITH
  maps <- entries, operations <- oplog,
  ForgetWriteGuards <- FALSE, DropPanics <- FALSE

MapInit == Init /\ Log!Init

-----------------------------------------------------------------------------
(* What the write handle does when synchronize has returned.               *)
Synchronized(c) ==
  IF c = "synchronize"
  THEN Log!Synchronize \/ \E v \in ValueObjects : Log!Reclaim(v)
  ELSE Log!BeginFlush(c = "drop")

(* The steps of synchronize; some of them return.                          *)
Synchronizing ==
  /\ \/ \E c \in Calls : Synchronize(c)
     \/ SetWriterThread
     \/ SetWaitFlag
     \/ ResetResidual
     \/ Park
     \/ ParkSpuriously
     \/ Recheck
  /\ IF wpc' \in {"idle", "flush"} THEN Synchronized(call') ELSE UNCHANGED log_vars

(* flush_operations, one operation at a time.                              *)
Flushing == wpc = "flush" /\ Log!FlushOperation /\ UNCHANGED vars

FlushEnds == FlushOperations /\ Log!Flushed

(* The writing methods of View; replace and remove do nothing when the     *)
(* key is absent.                                                          *)
insert ==
  \/ \E k \in Keys, ko \in KeyObjects, v \in ValueObjects : Log!InsertVacant(k, ko, v)
  \/ \E k \in Keys, v \in ValueObjects : Log!InsertOccupied(k, v)

replace     == \E k \in Keys, v \in ValueObjects : Log!InsertOccupied(k, v)
remove      == \E k \in Keys : Log!Remove(k)
drop_lazily == \E v \in ValueObjects : Log!DropLazily(v)

Writing == WriteOp /\ (insert \/ replace \/ remove \/ drop_lazily)

(* Evicted borrows the write handle: it is not leaked inside another call. *)
Leaking ==
  /\ wpc \in {"idle", "writing"}
  /\ \E e \in evicted : Log!Leak(e)
  /\ UNCHANGED vars

Publishing == Publish /\ Log!Publish

(* The rest of publish, the readers, and moves of the write handle.        *)
Elsewhere ==
  /\ \/ \E h \in Handles : SwapMaps(h)
     \/ AbortPublish
     \/ Unlock
     \/ AddResidual
     \/ \E t \in Threads : MoveWriter(t)
     \/ \E src, h \in Handles : NewReader(src, h)
     \/ \E h \in Handles : DropHandle(h)
     \/ \E g \in Guards, h \in Handles : Guard(g, h)
     \/ \E g \in Guards : DropGuard(g) \/ ForgetGuard(g) \/ ReleaseStep(g)
  /\ UNCHANGED log_vars

(* Mutant: the write handle's drop frees the maps.                         *)
Freeing_with_writer ==
  /\ wpc = "dropped"
  /\ Log!FreeCore
  /\ UNCHANGED vars

(* The last Arc of Core goes with the last handle.                         *)
Freeing ==
  /\ wpc = "dropped" /\ handles = {}
  /\ Log!FreeCore
  /\ UNCHANGED vars

MapNext ==
  \/ /\ ~aborted
     /\ \/ Synchronizing
        \/ Flushing
        \/ FlushEnds
        \/ Writing
        \/ Leaking
        \/ Publishing
        \/ Elsewhere
        \/ Freeing
  \/ phase = "freed" /\ UNCHANGED all_vars

MapSpec == MapInit /\ [][MapNext]_all_vars

-----------------------------------------------------------------------------
(* The copy a guard's with_map passes on, and what the reading methods of  *)
(* View answer from it; iterators come in an arbitrary order.              *)
Read(g) == entries[gmap[g]]

contains_key(m, k) == m[k] # None
get(m, k)          == IF contains_key(m, k) THEN m[k].value ELSE None
iter(m)            == {m[k] : k \in {j \in Keys : contains_key(m, j)}}
keys(m)            == {e.key : e \in iter(m)}
values(m)          == {e.value : e \in iter(m)}
len(m)             == Cardinality({k \in Keys : contains_key(m, k)})
is_empty(m)        == len(m) = 0

(* A live guard never hands out an object that was dropped or given back   *)
(* to the user: reclaimer, drop_lazily, the flush and Drop for Core wait   *)
(* for the readers that the counters of Core really have.                  *)
GuardsReadValidObjects ==
  \A g \in Guards : gpc[g] = "live" =>
    \A o \in keys(Read(g)) \cup values(Read(g)) : object[o] \in {"aliased", "leaked"}

Answers(m) ==
  [is_empty |-> is_empty(m), len |-> len(m),
   contains_key |-> [k \in Keys |-> contains_key(m, k)],
   get |-> [k \in Keys |-> get(m, k)],
   iter |-> iter(m), keys |-> keys(m), values |-> values(m)]

(* A live guard reads a snapshot: asked again, every method of its View    *)
(* answers what it did, entry by entry, and no flush, write or shutdown    *)
(* changes that during the guard's life.                                   *)
GuardsReadSnapshots ==
  [][\A g \in Guards :
       gpc[g] = "live" /\ gpc'[g] = "live"
         => Answers(Read(g))' = Answers(Read(g))]_all_vars

(* The fact OpLog takes from Core: from the return of synchronize to the   *)
(* next publish no guard reads the writer's copy and no handle hands it    *)
(* out.                                                                    *)
SyncedIsQuiet ==
  synced =>
    /\ \A g \in Guards : gpc[g] = "live" => gmap[g] # writer_map
    /\ \A h \in handles : to_map_index(refcounts[h]) # writer_map

(* The number Core keeps for a copy stands for its contents, and its       *)
(* number of operations for the log: copies with the same number hold the  *)
(* same entries, and a lagging copy lags by the logged operations.         *)
VersionsNameContents ==
  wpc \notin {"flush", "dropped"} =>
    /\ operations = Len(oplog)
    /\ maps[First] = maps[Second] => entries[First] = entries[Second]
=============================================================================
