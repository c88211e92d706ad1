------------------------- MODULE CoreSnapshotProofs -------------------------
(***************************************************************************)
(* What readers see: the log accounts for the difference of the copies,    *)
(* snapshots are stable, reads are monotonic, and Core implements          *)
(* SnapshotMap.                                                            *)
(***************************************************************************)
EXTENDS CoreProofs

(* The two copies differ by the operations in the log.                     *)
LogBalanced ==
  /\ wpc = "writing" => maps[writer_map] = latest + operations
  /\ wpc # "writing" => latest = maps[writer_map] + operations

LEMMA LogInit == Init => LogBalanced
<1> SUFFICES ASSUME Init PROVE LogBalanced
  OBVIOUS
<1>1. writer_map \in MapIndex /\ other(writer_map) \in MapIndex
  BY Other DEF Init, MapIndex
<1> QED
  BY <1>1 DEF Init, LogBalanced, latest

LEMMA LogStep == TypeOK /\ LogBalanced /\ [Next]_vars => LogBalanced'
<1> SUFFICES ASSUME TypeOK, LogBalanced, [Next]_vars PROVE LogBalanced'
  OBVIOUS
<1> USE DEF core, data, writer, guards, vars
<1>1. /\ writer_map \in MapIndex /\ other(writer_map) \in MapIndex
      /\ writer_map # other(writer_map) /\ other(other(writer_map)) = writer_map
      /\ maps \in [MapIndex -> Nat] /\ operations \in Nat
  BY Other DEF TypeOK
<1>2. CASE FlushOperations
  BY <1>1, <1>2 DEF FlushOperations, LogBalanced, latest
<1>3. CASE WriteOp
  BY <1>1, <1>3 DEF WriteOp, LogBalanced, latest
<1>4. CASE Publish
  BY <1>1, <1>4 DEF Publish, LogBalanced, latest
<1>5. CASE /\ UNCHANGED <<maps, operations, writer_map>>
           /\ wpc' = "writing" <=> wpc = "writing"
  BY <1>5 DEF LogBalanced, latest
<1>6. \/ FlushOperations \/ WriteOp \/ Publish
      \/ /\ UNCHANGED <<maps, operations, writer_map>>
         /\ wpc' = "writing" <=> wpc = "writing"
  BY DEF Next, WriterStep, ReleaseStep, Terminated, Synchronize, SetWriterThread, SetWaitFlag,
         ResetResidual, Park, ParkSpuriously, Recheck, Return, MoveWriter, SwapMaps,
         AbortPublish, Unlock, AddResidual, NewReader, DropHandle, Guard, DropGuard,
         ForgetGuard, Abort, ReleaseResidual, StoreZero, Unpark
<1> QED
  BY <1>2, <1>3, <1>4, <1>5, <1>6

LEMMA LogInvariance == Spec => [](IInv /\ LogBalanced)
<1>1. Init => IInv /\ LogBalanced
  BY InvInit, LogInit
<1>2. (IInv /\ LogBalanced) /\ [Next]_vars => (IInv /\ LogBalanced)'
  BY InvStep, LogStep DEF IInv, TypeInv
<1> QED
  BY <1>1, <1>2, PTL DEF Spec

(* Outside the loop of publish every handle shows the latest copy; inside  *)
(* it the handles that wait for their turn show the one before.            *)
LEMMA Views ==
  ASSUME IInv, NEW h \in handles
  PROVE  View(h) = IF h \in todo THEN maps[writer_map] ELSE latest
BY DEF IInv, Bookkeeping, FlagsDelivered, View, latest

(* The log accounts for the whole difference of the copies, and no handle  *)
(* is left behind by a publish.                                            *)
THEOREM LogAccounts == Spec => []LogConsistent
<1>1. IInv /\ LogBalanced => LogConsistent
  <2> SUFFICES ASSUME IInv, LogBalanced PROVE LogConsistent
    OBVIOUS
  <2>1. wpc # "swap" => \A h \in handles : View(h) = latest
    BY Views DEF IInv, TypeInv, TodoInLoop
  <2> QED
    BY <2>1 DEF LogConsistent, LogBalanced
<1> QED
  BY <1>1, LogInvariance, PTL

-----------------------------------------------------------------------------
(* The refinement.                                                         *)
LEMMA RefineInit == Init => Promise!Init
<1> SUFFICES ASSUME Init PROVE Promise!Init
  OBVIOUS
<1>1. PICK h \in Handles : handles = {h}
  BY DEF Init
<1>2. writer_map \in MapIndex /\ other(writer_map) \in MapIndex
  BY Other DEF Init, MapIndex
<1>3. latest = 0
  BY <1>2 DEF Init, latest
<1>4. View(h) = 0
  BY WordParts, NewRefCount, Other DEF Init, View, MapIndex
<1>5. shown_version = [k \in Handles |-> IF k = h THEN 0 ELSE None]
  BY <1>1, <1>4 DEF shown_version
<1>6. held_version = [g \in Guards |-> None]
  BY DEF Init, held_version
<1> QED
  BY <1>3, <1>5, <1>6 DEF Promise!Init

(* A step that changes nothing a reader sees.                              *)
LEMMA Stutter ==
  ASSUME latest' = latest, handles' = handles,
         \A h \in handles : View(h)' = View(h),
         \A g \in Guards : /\ gpc'[g] = "live" <=> gpc[g] = "live"
                           /\ gpc[g] = "live" => Snapshot(g)' = Snapshot(g)
  PROVE  UNCHANGED Promise!vars
<1>1. shown_version' = shown_version
  BY DEF shown_version
<1>2. held_version' = held_version
  BY DEF held_version
<1> QED
  BY <1>1, <1>2 DEF Promise!vars

(* The abstract steps act on the handles and guards that exist.            *)
LEMMA AbstractState ==
  ASSUME IInv
  PROVE  /\ latest \in Nat /\ maps[writer_map] \in Nat
         /\ \A h \in handles : View(h) \in Nat /\ shown_version[h] = View(h)
         /\ \A h \in Handles \ handles : shown_version[h] = None
         /\ Promise!Alive = handles
         /\ \A g \in Guards : /\ gpc[g] = "live" => /\ Snapshot(g) \in Nat
                                                    /\ held_version[g] = Snapshot(g)
                              /\ gpc[g] # "live" => held_version[g] = None
         /\ None \notin Nat
<1>0. TypeOK /\ handles \subseteq Handles /\ None \notin Nat
  BY CoreAssumption DEF IInv, TypeInv, TypeOK
<1>1. latest \in Nat /\ maps[writer_map] \in Nat
  BY <1>0, Other DEF latest, TypeOK
<1>2. \A h \in handles : View(h) \in Nat
  BY <1>0, WordParts DEF View, TypeOK
<1>3. \A g \in Guards : Snapshot(g) \in Nat
  BY <1>0 DEF Snapshot, TypeOK
<1>4. \A h \in Handles : shown_version[h] = IF h \in handles THEN View(h) ELSE None
  BY DEF shown_version
<1>5. \A g \in Guards : held_version[g] = IF gpc[g] = "live" THEN Snapshot(g) ELSE None
  BY DEF held_version
<1>6. Promise!Alive = handles
  BY <1>0, <1>2, <1>4 DEF Promise!Alive
<1> QED
  BY <1>0, <1>1, <1>2, <1>3, <1>4, <1>5, <1>6

(* The steps of the writer that stutter: those of synchronize, and writes  *)
(* to the copy nobody reads.                                               *)
LEMMA RefineWrite ==
  ASSUME IInv, FlushOperations \/ WriteOp
  PROVE  UNCHANGED Promise!vars
<1> USE DEF core, writer, guards
<1>0. TypeOK
  BY DEF IInv, TypeInv
<1>1. /\ wpc \in {"flush", "writing"}
      /\ UNCHANGED <<handles, refcounts, writer_map, gpc, gmap>>
      /\ \A i \in MapIndex : i # writer_map => maps'[i] = maps[i]
  BY <1>0 DEF FlushOperations, WriteOp, TypeOK
<1>2. WriterExclusive
  BY Exclusive
<1>3. latest' = latest
  BY <1>0, <1>1, Other DEF latest, TypeOK
<1>4. \A h \in handles : View(h)' = View(h)
  BY <1>0, <1>1, <1>2, WordParts DEF View, WriterExclusive, WriterOwns, TypeOK
<1>5. \A g \in Guards : gpc[g] = "live" => Snapshot(g)' = Snapshot(g)
  BY <1>0, <1>1, <1>2 DEF Snapshot, WriterExclusive, WriterOwns, TypeOK
<1> QED
  BY <1>1, <1>3, <1>4, <1>5, Stutter

(* Toggling writer_map publishes: by then every handle shows, and every    *)
(* guard holds, the version published last.                                *)
LEMMA RefinePublish ==
  ASSUME IInv, IInv', LogBalanced, Publish
  PROVE  Promise!Publish
<1> USE DEF data, guards
<1>0. TypeOK /\ wpc = "writing" /\ todo = {}
  BY DEF IInv, TypeInv, TodoInLoop, Publish
<1>1. latest' \in Nat /\ latest' = maps[writer_map]
  BY <1>0, Other DEF Publish, latest, TypeOK
<1>2. latest' >= latest
  BY <1>0, <1>1, AbstractState DEF LogBalanced, TypeOK
<1>3. \A h \in Promise!Alive : shown_version[h] = latest
  BY <1>0, AbstractState, Views
<1>4. Promise!Held \subseteq {latest}
  <2>1. ASSUME NEW g \in Guards, gpc[g] = "live" PROVE Snapshot(g) = latest
    <3>1. gmap[g] # writer_map
      BY <1>0, <2>1, Exclusive DEF WriterExclusive, WriterOwns
    <3>2. gmap[g] = other(writer_map)
      BY <1>0, <3>1 DEF TypeOK, MapIndex, other
    <3> QED
      BY <3>2 DEF Snapshot, latest
  <2> QED
    BY <2>1, AbstractState DEF Promise!Held
<1>5. UNCHANGED <<shown_version, held_version>>
  BY DEF Publish, shown_version, held_version, View, Snapshot
<1> QED
  BY <1>1, <1>2, <1>3, <1>4, <1>5 DEF Promise!Publish

(* A turn of the loop delivers the version to one handle.                  *)
LEMMA RefineSwapMaps ==
  ASSUME IInv, IInv', NEW h \in Handles, SwapMaps(h)
  PROVE  Promise!Deliver(h)
<1> USE DEF data, guards
<1>0. TypeOK /\ h \in handles /\ h \in todo
  BY DEF IInv, TypeInv, TypeOK, SwapMaps
<1>1. /\ \A k \in Handles \ {h} : refcounts'[k] = refcounts[k]
      /\ UNCHANGED <<handles, maps, writer_map, gpc, gmap>>
      /\ h \notin todo'
  BY <1>0 DEF SwapMaps, TypeOK
<1>2. UNCHANGED <<latest, held_version>>
  BY <1>1 DEF latest, held_version, Snapshot
<1>3. View(h)' = latest
  BY <1>0, <1>1, <1>2 DEF IInv, Bookkeeping, FlagsDelivered, View, latest
<1>4. shown_version' = [shown_version EXCEPT ![h] = latest]
  BY <1>0, <1>1, <1>3 DEF shown_version, View
<1> QED
  BY <1>0, <1>2, <1>4, AbstractState DEF Promise!Deliver

(* Clones and drops of handles.                                            *)
LEMMA RefineNewReader ==
  ASSUME IInv, IInv', NEW src \in Handles, NEW h \in Handles, NewReader(src, h)
  PROVE  Promise!Clone(h)
<1> USE DEF data, writer, guards
<1>0. TypeOK /\ todo = {} /\ todo' = {} /\ src \in handles /\ h \notin handles
  BY DEF IInv, TypeInv, TodoInLoop, NewReader, mutex_free
<1>1. /\ \A k \in Handles \ {h} : refcounts'[k] = refcounts[k]
      /\ handles' = handles \cup {h}
      /\ UNCHANGED <<maps, writer_map, gpc, gmap>>
  BY <1>0 DEF NewReader, TypeOK
<1>2. UNCHANGED <<latest, held_version>>
  BY <1>1 DEF latest, held_version, Snapshot
<1>3. View(h)' = latest
  BY <1>0, <1>1, <1>2 DEF IInv, Bookkeeping, FlagsDelivered, View, latest
<1>4. shown_version' = [shown_version EXCEPT ![h] = latest]
  BY <1>0, <1>1, <1>3 DEF shown_version, View
<1>5. \A k \in handles : shown_version[k] = latest
  BY <1>0, AbstractState, Views
<1> QED
  BY <1>0, <1>2, <1>4, <1>5, AbstractState DEF Promise!Clone

LEMMA RefineDropHandle ==
  ASSUME IInv, NEW h \in Handles, DropHandle(h)
  PROVE  Promise!Drop(h)
<1> USE DEF data, writer
<1>0. TypeOK /\ h \in handles
  BY DEF IInv, TypeInv, DropHandle
<1>1. /\ \A k \in Handles \ {h} : refcounts'[k] = refcounts[k]
      /\ handles' = handles \ {h}
      /\ UNCHANGED <<maps, writer_map>>
  BY <1>0 DEF DropHandle, TypeOK
<1>2. \A g \in Guards : held_version'[g] = held_version[g]
  <2>1. ASSUME NEW g \in Guards
        PROVE  /\ gpc'[g] = "live" <=> gpc[g] = "live"
               /\ gpc[g] = "live" => gmap'[g] = gmap[g]
    <3>1. CASE gpc[g] = "forgotten" /\ ghandle[g] = h
      BY <3>1 DEF DropHandle
    <3>2. CASE ~(gpc[g] = "forgotten" /\ ghandle[g] = h)
      BY <3>2 DEF DropHandle
    <3> QED
      BY <3>1, <3>2
  <2> QED
    BY <1>1, <2>1 DEF held_version, Snapshot
<1>3. UNCHANGED <<latest, held_version>>
  BY <1>1, <1>2 DEF latest, held_version
<1>4. shown_version' = [shown_version EXCEPT ![h] = None]
  BY <1>0, <1>1 DEF shown_version, View
<1> QED
  BY <1>0, <1>3, <1>4, AbstractState DEF Promise!Drop

-----------------------------------------------------------------------------
(* What the handles show depends on the copies, writer_map and the         *)
(* progress of publish's loop only: no count bit ever reaches the flag.    *)
LEMMA ShownFrame ==
  ASSUME IInv, IInv', UNCHANGED <<handles, todo, maps, writer_map>>
  PROVE  UNCHANGED <<latest, shown_version>>
<1>1. latest' = latest
  BY DEF latest
<1>2. ASSUME NEW h \in handles PROVE View(h)' = View(h)
  BY DEF IInv, Bookkeeping, FlagsDelivered, View
<1>3. shown_version' = shown_version
  BY <1>2 DEF shown_version
<1> QED
  BY <1>1, <1>3

(* A guard opens on what its handle shows, unless the count overflowed.    *)
LEMMA RefineGuard ==
  ASSUME IInv, IInv', NEW g \in Guards, NEW h \in Handles, Guard(g, h)
  PROVE  Promise!Open(g, h) \/ UNCHANGED Promise!vars
<1> USE DEF data, writer
<1>0. TypeOK /\ h \in handles /\ gpc[g] = "free"
  BY DEF IInv, TypeInv, Guard
<1>1. UNCHANGED <<latest, shown_version>>
  BY ShownFrame DEF Guard
<1>2. /\ UNCHANGED maps
      /\ gpc'[g] = IF overflowed(refcounts[h]) THEN "overflowed" ELSE "live"
      /\ gmap'[g] = to_map_index(refcounts[h])
      /\ \A k \in Guards \ {g} : gpc'[k] = gpc[k] /\ gmap'[k] = gmap[k]
  BY <1>0 DEF Guard, TypeOK
<1>3. CASE overflowed(refcounts[h])
  <2>1. \A k \in Guards : held_version'[k] = held_version[k]
    BY <1>0, <1>2, <1>3 DEF held_version, Snapshot
  <2>2. held_version' = held_version
    BY <2>1 DEF held_version
  <2> QED
    BY <1>1, <2>2 DEF Promise!vars
<1>4. CASE ~overflowed(refcounts[h])
  <2>1. held_version' = [held_version EXCEPT ![g] = View(h)]
    BY <1>0, <1>2, <1>4 DEF held_version, Snapshot, View
  <2> QED
    BY <1>0, <1>1, <2>1, AbstractState DEF Promise!Open
<1> QED
  BY <1>3, <1>4

(* The guard's user loses it at the first step of its drop, or by          *)
(* mem::forget.                                                            *)
LEMMA RefineClose ==
  ASSUME IInv, IInv', NEW g \in Guards, DropGuard(g) \/ ForgetGuard(g)
  PROVE  Promise!Close(g)
<1> USE DEF core, data, writer
<1>0. TypeOK /\ gpc[g] = "live"
  BY DEF IInv, TypeInv, DropGuard, ForgetGuard
<1>1. UNCHANGED <<latest, shown_version>>
  BY ShownFrame DEF DropGuard, ForgetGuard
<1>2. /\ UNCHANGED maps
      /\ gpc'[g] # "live"
      /\ \A k \in Guards \ {g} : gpc'[k] = gpc[k] /\ gmap'[k] = gmap[k]
  BY <1>0 DEF DropGuard, ForgetGuard, Leave, TypeOK
<1>3. held_version' = [held_version EXCEPT ![g] = None]
  BY <1>0, <1>2 DEF held_version, Snapshot
<1> QED
  BY <1>0, <1>1, <1>3, AbstractState DEF Promise!Close

(* The rest of a guard's drop, and all of synchronize, stutter.            *)
LEMMA RefineRelease ==
  ASSUME IInv, IInv', NEW g \in Guards, ReleaseStep(g)
  PROVE  UNCHANGED Promise!vars
<1> USE DEF core, data, writer, guards
<1>0. TypeOK
  BY DEF IInv, TypeInv
<1>1. UNCHANGED <<latest, shown_version>>
  BY ShownFrame DEF ReleaseStep, Abort, ReleaseResidual, StoreZero, Unpark
<1>2. /\ UNCHANGED maps
      /\ gpc[g] # "live" /\ gpc'[g] # "live"
      /\ \A k \in Guards \ {g} : gpc'[k] = gpc[k] /\ gmap'[k] = gmap[k]
  BY <1>0 DEF ReleaseStep, Abort, ReleaseResidual, StoreZero, Unpark, Leave, TypeOK
<1>3. \A k \in Guards : held_version'[k] = held_version[k]
  BY <1>2 DEF held_version, Snapshot
<1>4. held_version' = held_version
  BY <1>3 DEF held_version
<1> QED
  BY <1>1, <1>4 DEF Promise!vars

LEMMA RefineQuiet ==
  ASSUME IInv, IInv',
         UNCHANGED <<handles, todo, maps, writer_map, gpc, gmap>>
  PROVE  UNCHANGED Promise!vars
<1>1. UNCHANGED <<latest, shown_version>>
  BY ShownFrame
<1>2. held_version' = held_version
  BY DEF held_version, Snapshot
<1> QED
  BY <1>1, <1>2 DEF Promise!vars

LEMMA RefineStep ==
  IInv /\ IInv' /\ LogBalanced /\ [Next]_vars => [Promise!Next]_(Promise!vars)
<1> SUFFICES ASSUME IInv, IInv', LogBalanced, [Next]_vars
             PROVE  [Promise!Next]_(Promise!vars)
  OBVIOUS
<1> USE DEF Promise!Next
<1>1. CASE FlushOperations \/ WriteOp
  BY <1>1, RefineWrite
<1>2. CASE Publish
  BY <1>2, RefinePublish
<1>3. CASE \E h \in Handles : SwapMaps(h)
  BY <1>3, RefineSwapMaps
<1>4. CASE \E src, h \in Handles : NewReader(src, h)
  BY <1>4, RefineNewReader
<1>5. CASE \E h \in Handles : DropHandle(h)
  BY <1>5, RefineDropHandle
<1>6. CASE \E g \in Guards, h \in Handles : Guard(g, h)
  BY <1>6, RefineGuard
<1>7. CASE \E g \in Guards : DropGuard(g) \/ ForgetGuard(g)
  BY <1>7, RefineClose
<1>8. CASE \E g \in Guards : ReleaseStep(g)
  BY <1>8, RefineRelease
<1>9. CASE \/ \E c \in Calls : Synchronize(c)
           \/ SetWriterThread \/ SetWaitFlag \/ ResetResidual \/ Park \/ ParkSpuriously
           \/ Recheck \/ AbortPublish \/ Unlock \/ AddResidual
           \/ \E t \in Threads : MoveWriter(t)
           \/ Terminated \/ UNCHANGED vars
  <2>1. UNCHANGED <<handles, todo, maps, writer_map, gpc, gmap>>
    BY <1>9 DEF core, data, writer, guards, vars, Synchronize, SetWriterThread, SetWaitFlag,
                ResetResidual, Park, ParkSpuriously, Recheck, AbortPublish, Unlock, AddResidual,
                MoveWriter, Terminated
  <2> QED
    BY <2>1, RefineQuiet
<1> QED
  BY <1>1, <1>2, <1>3, <1>4, <1>5, <1>6, <1>7, <1>8, <1>9 DEF Next, WriterStep

(* The protocol implements the abstract map: whatever the interleaving,    *)
(* users see a map whose versions are published one at a time, once        *)
(* nobody is left behind by more than one.                                 *)
THEOREM Implements == Spec => ImplementsSnapshotMap
<1>1. Init => Promise!Init
  BY RefineInit
<1>2. (IInv /\ LogBalanced) /\ (IInv /\ LogBalanced)' /\ [Next]_vars
        => [Promise!Next]_(Promise!vars)
  BY RefineStep
<1> QED
  BY <1>1, <1>2, LogInvariance, PTL DEF Spec, ImplementsSnapshotMap, Promise!Spec

-----------------------------------------------------------------------------
(* The two properties of reads follow from the abstract step.              *)
Readable ==
  /\ \A h \in handles : View(h) \in Nat /\ shown_version[h] = View(h)
  /\ \A g \in Guards : gpc[g] = "live" => /\ Snapshot(g) \in Nat
                                          /\ held_version[g] = Snapshot(g)

LEMMA ReadableNow == IInv => Readable
BY AbstractState DEF Readable

LEMMA ReadableNext == IInv' => Readable'
BY ReadableNow, PTL

LEMMA HeldStable ==
  ASSUME IInv, IInv', [Promise!Next]_(Promise!vars),
         NEW g \in Guards, gpc[g] = "live", gpc'[g] = "live"
  PROVE  Snapshot(g)' = Snapshot(g)
<1>1. /\ held_version[g] = Snapshot(g) /\ held_version[g] # None
  BY AbstractState
<1>2. held_version'[g] = Snapshot(g)' /\ held_version'[g] # None
  BY ReadableNext, CoreAssumption DEF Readable
<1>3. held_version = [k \in Guards |-> held_version[k]]
  BY DEF held_version
<1>4. held_version'[g] = held_version[g]
  BY <1>1, <1>2, <1>3 DEF Promise!Next, Promise!vars, Promise!Publish, Promise!Deliver,
     Promise!Clone, Promise!Drop, Promise!Open, Promise!Close
<1> QED
  BY <1>1, <1>2, <1>4

LEMMA ViewMonotonic ==
  ASSUME IInv, IInv', LogBalanced, [Promise!Next]_(Promise!vars), NEW h \in handles'
  PROVE  IF h \in handles THEN View(h)' >= View(h)
         ELSE \A k \in handles : View(h)' >= View(k)
<1>1. /\ h \in Handles
      /\ shown_version'[h] = View(h)' /\ View(h)' \in Nat
      /\ shown_version'[h] # None
  <2>1. handles' \subseteq Handles
    BY DEF IInv, TypeInv, TypeOK
  <2> QED
    BY <2>1, ReadableNext, CoreAssumption DEF Readable
<1>2. \A k \in handles : /\ k \in Handles /\ View(k) \in Nat /\ shown_version[k] = View(k)
                         /\ View(k) <= latest
  <2>1. operations \in Nat /\ handles \subseteq Handles /\ (wpc = "writing" => todo = {})
    BY DEF IInv, TypeInv, TypeOK, TodoInLoop
  <2>2. maps[writer_map] \in Nat /\ latest \in Nat
    BY AbstractState
  <2>3. wpc # "writing" => maps[writer_map] <= latest
    BY <2>1, <2>2 DEF LogBalanced
  <2> QED
    BY <2>1, <2>2, <2>3, AbstractState, Views
<1>3. Promise!Alive = handles /\ (h \notin handles => shown_version[h] = None)
  BY <1>1, AbstractState
<1>4. shown_version = [k \in Handles |-> shown_version[k]]
  BY DEF shown_version
<1>5. \/ shown_version'[h] = shown_version[h]
      \/ shown_version'[h] = latest
  BY <1>1, <1>3, <1>4 DEF Promise!Next, Promise!vars, Promise!Publish, Promise!Deliver,
     Promise!Clone, Promise!Drop, Promise!Open, Promise!Close
<1>6. latest \in Nat
  BY AbstractState
<1> QED
  BY <1>1, <1>2, <1>3, <1>5, <1>6

(* A read guard is a snapshot: what it reads never changes under it.       *)
THEOREM SnapshotsStable == Spec => SnapshotStable
<1>1. (IInv /\ LogBalanced) /\ (IInv /\ LogBalanced)' /\ [Next]_vars
        => [\A g \in Guards :
              gpc[g] = "live" /\ gpc'[g] = "live" => Snapshot(g)' = Snapshot(g)]_vars
  BY RefineStep, HeldStable
<1> QED
  BY <1>1, LogInvariance, PTL DEF Spec, SnapshotStable

(* Reads never go back, through the same handle or through a clone.        *)
THEOREM ReadsMonotonic == Spec => MonotonicReads
<1>1. (IInv /\ LogBalanced) /\ (IInv /\ LogBalanced)' /\ [Next]_vars
        => [\A h \in handles' :
              IF h \in handles THEN View(h)' >= View(h)
              ELSE \A k \in handles : View(h)' >= View(k)]_vars
  BY RefineStep, ViewMonotonic
<1> QED
  BY <1>1, LogInvariance, PTL DEF Spec, MonotonicReads
=============================================================================
