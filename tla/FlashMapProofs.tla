--------------------------- MODULE FlashMapProofs ---------------------------
(***************************************************************************)
(* Proofs about FlashMap: the composition runs Core and OpLog, so what is  *)
(* proved of them holds in it, and what OpLog assumes of the readers is    *)
(* what Core guarantees.                                                   *)
(***************************************************************************)
EXTENDS FlashMap, CoreSnapshotProofs

LogProofs == INSTANCE OpLogOwnershipProofs WITH
  maps <- entries, operations <- oplog,
  ForgetWriteGuards <- FALSE, DropPanics <- FALSE

(* LogProofs and Log are the same specification.                           *)
LEMMA SameInit == Log!Init => LogProofs!Init
BY DEF Log!Init, LogProofs!Init, Log!First, Log!Second, Log!MapIndex, Log!Objects,
       LogProofs!First, LogProofs!Second, LogProofs!MapIndex, LogProofs!Objects

LEMMA SameNext == Log!Next => LogProofs!Next
BY DEF Log!Next, Log!InsertVacant, Log!InsertOccupied, Log!Remove, Log!DropLazily,
       Log!Reclaim, Log!Leak, Log!Publish, Log!ForgetWriteGuard, Log!Synchronize,
       Log!BeginFlush, Log!FlushOperation, Log!Flushed, Log!FlushUndefined, Log!FlushPanics,
       Log!FreeCore, Log!Terminated, Log!vars, Log!log, Log!Objects, Log!Here, Log!InMap,
       Log!InLog, Log!Fresh, Log!Dropped, Log!Push, Log!SetEntry, Log!Evict, Log!Writing,
       Log!UseHandle, Log!Apply, Log!Unless, Log!Drops, Log!Replayable, Log!Operation,
       Log!other, Log!First, Log!Second, Log!MapIndex,
       LogProofs!Next, LogProofs!InsertVacant, LogProofs!InsertOccupied, LogProofs!Remove,
       LogProofs!DropLazily, LogProofs!Reclaim, LogProofs!Leak, LogProofs!Publish,
       LogProofs!ForgetWriteGuard, LogProofs!Synchronize, LogProofs!BeginFlush,
       LogProofs!FlushOperation, LogProofs!Flushed, LogProofs!FlushUndefined,
       LogProofs!FlushPanics, LogProofs!FreeCore, LogProofs!Terminated, LogProofs!vars,
       LogProofs!log, LogProofs!Objects, LogProofs!Here, LogProofs!InMap, LogProofs!InLog,
       LogProofs!Fresh, LogProofs!Dropped, LogProofs!Push, LogProofs!SetEntry,
       LogProofs!Evict, LogProofs!Writing, LogProofs!UseHandle, LogProofs!Apply,
       LogProofs!Unless, LogProofs!Drops, LogProofs!Replayable, LogProofs!Operation,
       LogProofs!other, LogProofs!First, LogProofs!Second, LogProofs!MapIndex

-----------------------------------------------------------------------------
(* Each step of the composition is a step of Core or leaves its state      *)
(* alone, and likewise for OpLog.                                          *)
LEMMA CoreStep == [MapNext]_all_vars => [Next]_vars
<1> SUFFICES ASSUME MapNext PROVE [Next]_vars
  BY DEF all_vars
<1>1. CASE phase = "freed" /\ UNCHANGED all_vars
  BY <1>1 DEF all_vars
<1>2. CASE Flushing \/ Leaking \/ Freeing
  BY <1>2 DEF Flushing, Leaking, Freeing
<1>3. CASE ~aborted /\ Synchronizing
  BY <1>3 DEF Synchronizing, Next, WriterStep
<1>4. CASE ~aborted /\ (FlushEnds \/ Writing \/ Publishing)
  BY <1>4 DEF FlushEnds, Writing, Publishing, Next, WriterStep
<1>5. CASE ~aborted /\ Elsewhere
  BY <1>5 DEF Elsewhere, Next, WriterStep
<1> QED
  BY <1>1, <1>2, <1>3, <1>4, <1>5 DEF MapNext

LEMMA Stays ==
  ASSUME \/ Synchronizing \/ Flushing \/ FlushEnds \/ Writing \/ Leaking
         \/ Elsewhere \/ Freeing \/ UNCHANGED all_vars
  PROVE  writer_map' = writer_map
<1> USE DEF core, data, writer, guards, vars
<1>1. CASE Synchronizing
  BY <1>1 DEF Synchronizing, Synchronize, SetWriterThread, SetWaitFlag, ResetResidual, Park,
              ParkSpuriously, Recheck
<1>2. CASE Elsewhere
  BY <1>2 DEF Elsewhere, SwapMaps, AbortPublish, Unlock, AddResidual, MoveWriter, NewReader,
              DropHandle, Guard, DropGuard, ForgetGuard, ReleaseStep, Abort, ReleaseResidual,
              StoreZero, Unpark
<1>3. CASE \/ Flushing \/ FlushEnds \/ Writing \/ Leaking \/ Freeing \/ UNCHANGED all_vars
  BY <1>3 DEF Flushing, FlushEnds, FlushOperations, Writing, WriteOp, Leaking, Freeing, all_vars
<1> QED
  BY <1>1, <1>2, <1>3

LEMMA LogStepOfMap == [MapNext]_all_vars => [Log!Next]_(Log!vars)
<1> SUFFICES ASSUME [MapNext]_all_vars PROVE [Log!Next]_(Log!vars)
  OBVIOUS
<1>0. ASSUME UNCHANGED log_vars, writer_map' = writer_map PROVE UNCHANGED Log!vars
  BY <1>0 DEF log_vars, Log!vars, Log!log
<1>1. CASE Synchronizing
  <2>1. CASE UNCHANGED log_vars
    BY <1>0, <1>1, <2>1, Stays
  <2>2. CASE Synchronized(call')
    <3>1. (call' = "drop") \in BOOLEAN
      OBVIOUS
    <3> QED
      BY <2>2, <3>1 DEF Synchronized, Log!Next
  <2> QED
    BY <1>1, <2>1, <2>2 DEF Synchronizing
<1>2. CASE Elsewhere \/ UNCHANGED all_vars
  BY <1>0, <1>2, Stays DEF Elsewhere, all_vars
<1>3. CASE Flushing \/ FlushEnds \/ Leaking \/ Publishing \/ Freeing
  BY <1>3 DEF Flushing, FlushEnds, Leaking, Publishing, Freeing, Log!Next
<1>4. CASE Writing
  BY <1>4 DEF Writing, insert, replace, remove, drop_lazily, Log!Next
<1> QED
  BY <1>1, <1>2, <1>3, <1>4 DEF MapNext

(* The whole map is an execution of the protocol: every theorem about Core *)
(* holds of it.                                                            *)
THEOREM MapRunsCore == MapSpec => Spec
<1>1. MapInit => Init
  BY DEF MapInit
<1> QED
  BY <1>1, CoreStep, PTL DEF MapSpec, Spec

(* The whole map is an execution of the log, with synchronize returning    *)
(* when Core lets it: every theorem about OpLog holds of it.               *)
THEOREM MapRunsLog == MapSpec => Log!Spec
<1>1. MapInit => Log!Init
  BY DEF MapInit
<1> QED
  BY <1>1, LogStepOfMap, PTL DEF MapSpec, Log!Spec

LEMMA LogInv == MapSpec => [](LogProofs!ReplayInv /\ LogProofs!Ownership)
<1>1. LogProofs!NoFaults
  BY DEF LogProofs!NoFaults
<1>2. LogProofs!Spec => [](LogProofs!ReplayInv /\ LogProofs!Ownership)
  BY <1>1, LogProofs!OwnershipInvariance, MapAssumption
<1>3. Log!Init => LogProofs!Init
  BY SameInit
<1>4. [Log!Next]_(Log!vars) => [LogProofs!Next]_(LogProofs!vars)
  BY SameNext DEF LogProofs!vars, LogProofs!log, Log!vars, Log!log
<1> QED
  BY <1>2, <1>3, <1>4, MapRunsLog, PTL DEF Log!Spec, LogProofs!Spec

-----------------------------------------------------------------------------
(* How the two components' views of the writer hang together.  A log       *)
(* counts as synced only where Core's residual is zero, from the return of *)
(* synchronize on; and Core's number of operations is the log's length.    *)
PhaseMatches ==
  /\ wpc \in {"flush", "writing"} => phase = wpc
  /\ wpc = "dropped" => phase \in {"closed", "freed"}
  /\ wpc \notin {"flush", "writing", "dropped"} => phase = "idle"
  /\ wpc = "flush" => call # "synchronize" /\ (closing <=> call = "drop")

SyncedMatches ==
  synced => wpc \in {"idle", "flush", "writing", "dropped"} /\ residual = 0

FreedMatches == phase = "freed" => handles = {}

LengthMatches == wpc \notin {"flush", "dropped"} => operations = Len(oplog)

Coupled == PhaseMatches /\ SyncedMatches /\ FreedMatches /\ LengthMatches

LEMMA CoupledInit == MapInit => Coupled
BY DEF MapInit, Init, Log!Init, Coupled, PhaseMatches, SyncedMatches, FreedMatches,
       LengthMatches

(* The steps of synchronize: its return is the log's step.                 *)
LEMMA CoupledSynchronize ==
  ASSUME IInv, IInv', Coupled, Synchronizing
  PROVE  Coupled'
<1> USE DEF core, data, guards, Return, Coupled
<1>1. /\ wpc \in {"idle", "set_thread", "set_flag", "reset", "park", "recheck"}
      /\ wpc' \in {"idle", "flush", "set_thread", "set_flag", "reset", "park", "recheck"}
      /\ wpc' = "flush" => call' # "synchronize"
      /\ wpc' = "idle" => call' = "synchronize"
      /\ UNCHANGED <<handles, operations>>
  <2>1. ASSUME NEW c \in Calls, Synchronize(c) PROVE <1>1!:
    BY <2>1 DEF Synchronize
  <2> QED
    BY <2>1 DEF Synchronizing, SetWriterThread, SetWaitFlag, ResetResidual, Park,
                ParkSpuriously, Recheck
<1>2. wpc' \in {"idle", "flush"} => residual' = 0
  BY DEF Synchronizing, Synchronize, SetWriterThread, SetWaitFlag, ResetResidual, Park,
         ParkSpuriously, Recheck
<1>3. CASE wpc' \in {"idle", "flush"}
  <2>1. Synchronized(call')
    BY <1>3 DEF Synchronizing
  <2>2. UNCHANGED oplog
    BY <2>1 DEF Synchronized, Log!Synchronize, Log!Reclaim, Log!BeginFlush, Log!log
  <2>3. wpc' = "idle" => phase' = "idle"
    BY <1>1, <2>1 DEF Synchronized, Log!Synchronize, Log!Reclaim, Log!UseHandle
  <2>4. wpc' = "flush" => phase' = "flush" /\ (closing' <=> call' = "drop")
    BY <1>1, <2>1 DEF Synchronized, Log!BeginFlush
  <2> QED
    BY <1>1, <1>2, <1>3, <2>2, <2>3, <2>4
    DEF PhaseMatches, SyncedMatches, FreedMatches, LengthMatches
<1>4. CASE wpc' \notin {"idle", "flush"}
  <2>1. UNCHANGED <<oplog, phase, closing, synced>>
    BY <1>4 DEF Synchronizing, log_vars
  <2>2. ~synced
    <3>1. synced => wpc = "idle" /\ residual = 0
      BY <1>1 DEF SyncedMatches
    <3> QED
      BY <1>4, <3>1 DEF Synchronizing, Synchronize, SetWriterThread, SetWaitFlag, ResetResidual,
                        Park, ParkSpuriously, Recheck
  <2> QED
    BY <1>1, <1>4, <2>1, <2>2
    DEF PhaseMatches, SyncedMatches, FreedMatches, LengthMatches
<1> QED
  BY <1>3, <1>4

(* The flush, the write guard and the end of the write handle.             *)
LEMMA CoupledWrite ==
  ASSUME IInv, IInv', LogProofs!TypeInv, Coupled,
         Flushing \/ FlushEnds \/ Writing \/ Leaking \/ Publishing \/ Freeing
  PROVE  Coupled'
<1> USE DEF core, data, writer, guards, vars, Coupled, PhaseMatches, SyncedMatches,
            FreedMatches, LengthMatches
<1>0. oplog \in Seq(LogProofs!Operations)
  BY DEF LogProofs!TypeInv, LogProofs!TypeOK
<1>1. CASE Flushing
  BY <1>1 DEF Flushing, Log!FlushOperation
<1>2. CASE FlushEnds
  BY <1>0, <1>2 DEF FlushEnds, FlushOperations, Log!Flushed, Log!log, IInv, ResidualAccounting,
              TypeInv, TypeOK, Calls
<1>3. CASE Writing
  <2>1. (\E op : oplog' = Append(oplog, op)) /\ UNCHANGED <<phase, closing, synced>>
    BY <1>3 DEF Writing, insert, replace, remove, drop_lazily, Log!InsertVacant,
                Log!InsertOccupied, Log!Remove, Log!DropLazily, Log!Push
  <2>2. Len(oplog') = Len(oplog) + 1
    BY <1>0, <2>1
  <2> QED
    BY <1>3, <2>1, <2>2 DEF Writing, WriteOp
<1>4. CASE Leaking
  <2>1. PICK e \in evicted : Log!Leak(e)
    BY <1>4 DEF Leaking
  <2>2. Len(oplog') = Len(oplog)
    BY <1>0, <2>1 DEF Log!Leak
  <2> QED
    BY <1>4, <2>1, <2>2 DEF Leaking, Log!Leak
<1>5. CASE Publishing
  BY <1>5 DEF Publishing, Publish, Log!Publish, Log!log
<1>6. CASE Freeing
  BY <1>6 DEF Freeing, Log!FreeCore, Log!log
<1> QED
  BY <1>1, <1>2, <1>3, <1>4, <1>5, <1>6

(* The rest of publish and the readers: no guard is left to change a       *)
(* residual that is zero.                                                  *)
LEMMA CoupledElsewhere ==
  ASSUME IInv, IInv', Coupled, Elsewhere
  PROVE  Coupled'
<1> USE DEF core, data, writer, guards, Coupled
<1>1. UNCHANGED <<oplog, phase, closing, synced>>
  BY DEF Elsewhere, log_vars
<1>2. UNCHANGED <<operations, call>>
  BY DEF Elsewhere, SwapMaps, AbortPublish, Unlock, AddResidual, MoveWriter, NewReader,
         DropHandle, Guard, DropGuard, ForgetGuard, ReleaseStep, Abort, ReleaseResidual,
         StoreZero, Unpark
<1>3. \/ wpc' = wpc
      \/ wpc = "swap" /\ wpc' = "add"
      \/ wpc = "add" /\ wpc' = "idle"
  BY DEF Elsewhere, SwapMaps, AbortPublish, Unlock, AddResidual, MoveWriter, NewReader,
         DropHandle, Guard, DropGuard, ForgetGuard, ReleaseStep, Abort, ReleaseResidual,
         StoreZero, Unpark
<1>4. PhaseMatches' /\ LengthMatches'
  BY <1>1, <1>2, <1>3 DEF PhaseMatches, LengthMatches
<1>5. handles = {} => handles' = {}
  BY DEF Elsewhere, SwapMaps, AbortPublish, Unlock, AddResidual, MoveWriter, NewReader,
         DropHandle, Guard, DropGuard, ForgetGuard, ReleaseStep, Abort, ReleaseResidual,
         StoreZero, Unpark
<1>6. FreedMatches'
  BY <1>1, <1>5 DEF FreedMatches
<1>7. ASSUME synced PROVE wpc' = wpc /\ residual' = 0
  <2>1. wpc \in {"idle", "flush", "writing", "dropped"} /\ residual = 0
    BY <1>7 DEF SyncedMatches
  <2>2. Owed = 0
    BY <2>1, Sizes DEF IInv, ResidualAccounting
  <2>3. \A g \in Guards : gpc[g] \notin {"release", "last"}
    BY <2>1, <2>2, NobodyOwes DEF Owes, IInv, ResidualAccounting
  <2> QED
    BY <2>1, <2>3
    DEF Elsewhere, SwapMaps, AbortPublish, Unlock, AddResidual, MoveWriter, NewReader,
        DropHandle, Guard, DropGuard, ForgetGuard, ReleaseStep, Abort, ReleaseResidual,
        StoreZero, Unpark
<1>8. SyncedMatches'
  BY <1>1, <1>7 DEF SyncedMatches
<1> QED
  BY <1>4, <1>6, <1>8

LEMMA CoupledStep ==
  IInv /\ IInv' /\ LogProofs!TypeInv /\ Coupled /\ [MapNext]_all_vars => Coupled'
<1> SUFFICES ASSUME IInv, IInv', LogProofs!TypeInv, Coupled, [MapNext]_all_vars PROVE Coupled'
  OBVIOUS
<1>1. CASE UNCHANGED all_vars
  BY <1>1 DEF all_vars, log_vars, vars, core, data, writer, guards, Coupled, PhaseMatches,
              SyncedMatches, FreedMatches, LengthMatches
<1> QED
  BY <1>1, CoupledSynchronize, CoupledWrite, CoupledElsewhere DEF MapNext

MapInv == /\ IInv /\ LogBalanced
          /\ LogProofs!ReplayInv /\ LogProofs!Ownership
          /\ Coupled

LEMMA MapInvariance == MapSpec => []MapInv
<1> DEFINE Parts == /\ IInv /\ LogBalanced
                    /\ LogProofs!ReplayInv /\ LogProofs!Ownership
<1>1. MapSpec => [](IInv /\ LogBalanced)
  BY MapRunsCore, LogInvariance, PTL
<1>2. MapSpec => []Parts
  BY <1>1, LogInv, PTL
<1>3. Parts /\ Parts' /\ Coupled /\ [MapNext]_all_vars => Coupled'
  BY CoupledStep DEF LogProofs!ReplayInv
<1>4. Parts /\ Coupled => MapInv
  BY DEF MapInv
<1> HIDE DEF Parts
<1> QED
  BY <1>2, <1>3, <1>4, CoupledInit, PTL DEF MapSpec

-----------------------------------------------------------------------------
(* Where a live guard can be.                                              *)
LEMMA Quieted == MapInv => SyncedIsQuiet
<1> SUFFICES ASSUME MapInv, synced
             PROVE  /\ \A g \in Guards : gpc[g] = "live" => gmap[g] # writer_map
                    /\ \A h \in handles : to_map_index(refcounts[h]) # writer_map
  BY DEF SyncedIsQuiet
<1>0. IInv /\ wpc \in {"idle", "flush", "writing", "dropped"} /\ residual = 0
  BY DEF MapInv, Coupled, SyncedMatches
<1>1. Owed = 0 /\ todo = {} /\ writer_map \in MapIndex
  BY <1>0 DEF IInv, TypeInv, TypeOK, TodoInLoop, ResidualAccounting
<1>2. \A h \in handles : to_map_index(refcounts[h]) = other(writer_map)
  BY <1>0, <1>1 DEF IInv, Bookkeeping, FlagsDelivered
<1>3. ASSUME NEW g \in Guards, gpc[g] = "live"
      PROVE  gmap[g] = other(writer_map)
  BY <1>0, <1>1, <1>2, <1>3, NobodyOwes DEF IInv, Bookkeeping, Placed, Owes, Counted
<1> QED
  BY <1>1, <1>2, <1>3, Other

LEMMA SameOther ==
  ASSUME NEW i
  PROVE  LogProofs!other(i) = other(i)
BY DEF LogProofs!other, LogProofs!First, LogProofs!Second, other, First, Second

LEMMA GuardOnReadable ==
  ASSUME MapInv, NEW g \in Guards, gpc[g] = "live"
  PROVE  gmap[g] \in LogProofs!Readable /\ handles # {} /\ phase # "freed"
<1>1. TypeOK /\ ghandle[g] \in handles
  BY DEF MapInv, IInv, TypeInv, Bookkeeping, Placed, Counted
<1>2. phase # "freed"
  BY <1>1 DEF MapInv, Coupled, FreedMatches
<1>3. gmap[g] \in {writer_map, other(writer_map)}
  BY <1>1 DEF TypeOK, MapIndex, other
<1>4. synced => gmap[g] # writer_map
  BY Quieted DEF SyncedIsQuiet
<1> QED
  BY <1>1, <1>2, <1>3, <1>4, SameOther DEF LogProofs!Readable

(* What OpLog takes from Core: once synchronize has returned, and until    *)
(* the next publish, no guard is on the writer's copy and no handle hands  *)
(* it out; after the end of the write handle this holds for good.          *)
THEOREM SynchronizeQuietens == MapSpec => []SyncedIsQuiet
BY MapInvariance, Quieted, PTL

(* No live guard reaches an object that was dropped, given back by         *)
(* reclaimer or freed with the map, for any number of guards, handles,     *)
(* keys and objects: the two components together are memory safe.          *)
THEOREM GuardsAreSafe == MapSpec => []GuardsReadValidObjects
<1>1. MapInv => GuardsReadValidObjects
  <2> SUFFICES ASSUME MapInv, NEW g \in Guards, gpc[g] = "live",
                      NEW o \in keys(Read(g)) \cup values(Read(g))
               PROVE  object[o] \in {"aliased", "leaked"}
    BY DEF GuardsReadValidObjects
  <2>1. LogProofs!ReadersSafe
    BY LogProofs!SafeFromOwnership, MapAssumption DEF MapInv
  <2>2. gmap[g] \in LogProofs!Readable
    BY GuardOnReadable
  <2>3. o \in LogProofs!InMap(entries[gmap[g]])
    BY DEF Read, keys, values, iter, contains_key, LogProofs!InMap
  <2> QED
    BY <2>1, <2>2, <2>3 DEF LogProofs!ReadersSafe
<1> QED
  BY <1>1, MapInvariance, PTL

(* A guard keeps the copy it was opened on.                                *)
LEMMA GuardStaysPut ==
  ASSUME TypeOK, [Next]_vars, NEW g \in Guards, gpc[g] = "live", gpc'[g] = "live"
  PROVE  gmap'[g] = gmap[g]
<1> USE DEF core, data, writer, guards, vars, TypeOK
<1>1. ASSUME NEW h \in Handles, DropHandle(h) PROVE gmap'[g] = gmap[g]
  BY <1>1 DEF DropHandle
<1>2. ASSUME NEW k \in Guards, NEW h \in Handles, Guard(k, h) PROVE gmap'[g] = gmap[g]
  BY <1>2 DEF Guard
<1>3. ASSUME NEW k \in Guards, DropGuard(k) \/ ForgetGuard(k) \/ ReleaseStep(k)
      PROVE  gmap'[g] = gmap[g]
  BY <1>3 DEF DropGuard, ForgetGuard, ReleaseStep, Abort, ReleaseResidual, StoreZero, Unpark,
              Leave
<1>4. CASE UNCHANGED gmap
  BY <1>4
<1> QED
  BY <1>1, <1>2, <1>3, <1>4
  DEF Next, WriterStep, Terminated, Synchronize, SetWriterThread, SetWaitFlag, ResetResidual,
      Park, ParkSpuriously, Recheck, MoveWriter, FlushOperations, WriteOp, Publish, SwapMaps,
      AbortPublish, Unlock, AddResidual, NewReader

(* What a guard's View answers does not change during the guard's life:    *)
(* not by the replay of the log, the operations of a write guard, publish  *)
(* or the shutdown.                                                        *)
THEOREM GuardsAreSnapshots == MapSpec => GuardsReadSnapshots
<1>1. MapInv /\ MapInv' /\ [MapNext]_all_vars
        => [\A g \in Guards : gpc[g] = "live" /\ gpc'[g] = "live"
                                => Answers(Read(g))' = Answers(Read(g))]_all_vars
  <2> SUFFICES ASSUME MapInv, MapInv', [MapNext]_all_vars,
                      NEW g \in Guards, gpc[g] = "live", gpc'[g] = "live"
               PROVE  Answers(Read(g))' = Answers(Read(g))
    OBVIOUS
  <2>1. gmap'[g] = gmap[g]
    BY CoreStep, GuardStaysPut DEF MapInv, IInv, TypeInv
  <2>2. gmap[g] \in LogProofs!Readable
    BY GuardOnReadable
  <2>3. phase' # "freed"
    <3>1. ghandle'[g] \in handles'
      BY DEF MapInv, IInv, Bookkeeping, Placed, Counted
    <3> QED
      BY <3>1 DEF MapInv, Coupled, FreedMatches
  <2>4. LogProofs!TypeInv /\ [LogProofs!Next]_(LogProofs!vars)
    BY LogStepOfMap, SameNext
    DEF MapInv, LogProofs!ReplayInv, LogProofs!vars, LogProofs!log, Log!vars, Log!log
  <2>5. \/ UNCHANGED entries
        \/ /\ phase \in {"flush", "writing"}
           /\ entries'[LogProofs!other(writer_map)] = entries[LogProofs!other(writer_map)]
    BY <2>3, <2>4, LogProofs!CopiesTouched, MapAssumption
  <2>6. phase \in {"flush", "writing"} => gmap[g] = LogProofs!other(writer_map)
    BY <2>2, <2>4 DEF LogProofs!TypeInv, LogProofs!WritesSynced, LogProofs!Readable
  <2>7. Read(g)' = Read(g)
    BY <2>1, <2>5, <2>6 DEF Read
  <2> QED
    BY <2>7 DEF Answers
<1> QED
  BY <1>1, MapInvariance, PTL DEF MapSpec, GuardsReadSnapshots

(* Copies that Core gives the same number hold the same entries, and the   *)
(* log is as long as Core counts.                                          *)
THEOREM NumbersNameContents == MapSpec => []VersionsNameContents
<1>1. MapInv => VersionsNameContents
  <2> SUFFICES ASSUME MapInv, wpc \notin {"flush", "dropped"}
               PROVE  /\ operations = Len(oplog)
                      /\ maps[First] = maps[Second] => entries[First] = entries[Second]
    BY DEF VersionsNameContents
  <2>1. operations = Len(oplog) /\ phase # "freed" /\ phase \in {"idle", "writing"}
    BY DEF MapInv, Coupled, LengthMatches, PhaseMatches, IInv, TypeInv, TypeOK, WriterPC
  <2>2. ASSUME maps[First] = maps[Second] PROVE entries[First] = entries[Second]
    <3>1. /\ maps \in [MapIndex -> Nat] /\ operations \in Nat
          /\ writer_map \in MapIndex
      BY DEF MapInv, IInv, TypeInv, TypeOK
    <3>2. maps[writer_map] = latest /\ latest \in Nat
      BY <2>2, <3>1 DEF latest, MapIndex, other
    <3>3. operations = 0
      BY <3>1, <3>2 DEF MapInv, LogBalanced
    <3>4. Len(history) = 0
      BY <2>1, <3>3 DEF MapInv, LogProofs!ReplayInv, LogProofs!TypeInv, LogProofs!TypeOK
    <3>5. LogProofs!Ahead = LogProofs!Behind
      BY <2>1, <3>4 DEF MapInv, LogProofs!ReplayInv, LogProofs!LogReplays, LogProofs!Reached
    <3>6. entries[writer_map] = entries[other(writer_map)]
      BY <3>5, SameOther DEF LogProofs!Ahead, LogProofs!Behind, LogProofs!Here
    <3> QED
      BY <3>1, <3>6 DEF MapIndex, other, First, Second
  <2> QED
    BY <2>1, <2>2
<1> QED
  BY <1>1, MapInvariance, PTL
=============================================================================
