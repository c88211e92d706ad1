---------------------------- MODULE OpLogProofs ----------------------------
(***************************************************************************)
(* Proofs about OpLog, for any keys, any supply of key and value objects   *)
(* and a log of any length: types, what readers may see change, and the    *)
(* replay of the log.                                                      *)
(***************************************************************************)
EXTENDS OpLog, SequenceTheorems, TLAPS

-----------------------------------------------------------------------------
(* The operators of the model.                                             *)

(* The two copies are each other's other.                                  *)
LEMMA OtherCopy ==
  ASSUME NEW i \in MapIndex
  PROVE  other(i) \in MapIndex /\ other(i) # i /\ other(other(i)) = i
BY DEF MapIndex, other, First, Second

(* A key that is present has an entry.                                     *)
LEMMA EntryPresent ==
  ASSUME NEW m \in Map, NEW k \in Keys, m[k] # None
  PROVE  /\ m[k] \in Entries
         /\ m[k].key \in KeyObjects /\ m[k].value \in ValueObjects
BY DEF Map, Entries

(* A map with one entry replaced or removed.                               *)
LEMMA MapUpdate ==
  ASSUME NEW m \in Map, NEW k \in Keys, NEW e \in Entries \cup {None}
  PROVE  /\ [m EXCEPT ![k] = e] \in Map
         /\ [m EXCEPT ![k] = e][k] = e
         /\ \A j \in Keys \ {k} : [m EXCEPT ![k] = e][j] = m[j]
BY DEF Map

(* SetEntry changes the writer's copy only.                                *)
LEMMA CopyUpdate ==
  ASSUME NEW k \in Keys, NEW e \in Entries \cup {None}, SetEntry(k, e),
         maps \in [MapIndex -> Map], writer_map \in MapIndex
  PROVE  /\ maps' \in [MapIndex -> Map]
         /\ maps'[writer_map] = [Here EXCEPT ![k] = e]
         /\ maps'[other(writer_map)] = maps[other(writer_map)]
<1>1. [Here EXCEPT ![k] = e] \in Map
  BY MapUpdate DEF Here
<1>2. maps' = [maps EXCEPT ![writer_map] = [Here EXCEPT ![k] = e]]
  BY DEF SetEntry, Here
<1> QED
  BY <1>1, <1>2, OtherCopy

(* The fields that the replay of an operation relies on.                   *)
WellFormed(op) ==
  /\ op.raw # "Drop" => op.of \in Keys
  /\ op.raw = "InsertUnique" => op.key \in KeyObjects
  /\ op.raw # "Remove" => op.value \in ValueObjects

(* Replaying an operation where it is defined gives a map, and changes the *)
(* entry of its own key only.                                              *)
LEMMA Applied ==
  ASSUME NEW m \in Map, NEW op \in Operations, WellFormed(op), Replayable(op, m)
  PROVE  Apply(op, m) \in Map
<1>1. CASE op.raw = "Drop"
  BY <1>1 DEF Apply
<1>2. CASE op.raw = "InsertUnique"
  <2>1. [key |-> op.key, value |-> op.value] \in Entries \cup {None}
    BY <1>2 DEF WellFormed, Entries
  <2>2. Apply(op, m) = [m EXCEPT ![op.of] = [key |-> op.key, value |-> op.value]]
    BY <1>2 DEF Apply
  <2> QED
    BY <1>2, <2>1, <2>2 DEF WellFormed, Map
<1>3. CASE op.raw = "Replace"
  <2>1. op.of \in Keys /\ m[op.of] \in Entries /\ op.value \in ValueObjects
    BY <1>3, EntryPresent DEF WellFormed, Replayable
  <2>2. [m[op.of] EXCEPT !.value = op.value] \in Entries
    BY <2>1 DEF Entries
  <2>3. Apply(op, m) = [m EXCEPT ![op.of] = [m[op.of] EXCEPT !.value = op.value]]
    BY <1>3 DEF Apply
  <2> QED
    BY <2>1, <2>2, <2>3 DEF Map
<1>4. CASE op.raw = "Remove"
  <2>1. Apply(op, m) = [m EXCEPT ![op.of] = None]
    BY <1>4 DEF Apply
  <2> QED
    BY <1>4, <2>1 DEF WellFormed, Map
<1> QED
  BY <1>1, <1>2, <1>3, <1>4 DEF Operations, Kinds

(* The operation pushed by each method of the write guard.                 *)
LEMMA NewOperation ==
  ASSUME NEW raw \in Kinds, NEW k \in Keys \cup {None}, NEW key \in KeyObjects \cup {None},
         NEW value \in ValueObjects \cup {None}
  PROVE  Operation(raw, k, key, value) \in Operations
BY DEF Operation, Operations

(* Pushing an operation.                                                   *)
LEMMA Pushed ==
  ASSUME NEW op \in Operations, Push(op), operations \in Seq(Operations),
         history \in Seq(Map), Here \in Map, Len(history) = Len(operations)
  PROVE  /\ operations' \in Seq(Operations) /\ history' \in Seq(Map)
         /\ Len(operations) \in Nat
         /\ Len(operations') = Len(operations) + 1
         /\ Len(history') = Len(history) + 1
         /\ \A i \in 1 .. Len(operations) :
              operations'[i] = operations[i] /\ history'[i] = history[i]
         /\ operations'[Len(operations) + 1] = op
         /\ history'[Len(operations) + 1] = Here
BY AppendProperties DEF Push

(* Taking the oldest operation off the log.                                *)
LEMMA Popped ==
  ASSUME operations \in Seq(Operations), history \in Seq(Map),
         Len(history) = Len(operations), operations # <<>>
  PROVE  /\ Tail(operations) \in Seq(Operations) /\ Tail(history) \in Seq(Map)
         /\ Len(operations) \in Nat \ {0}
         /\ Len(Tail(operations)) = Len(operations) - 1
         /\ Len(Tail(history)) = Len(operations) - 1
         /\ \A i \in 1 .. Len(operations) - 1 :
              /\ Tail(operations)[i] = operations[i + 1]
              /\ Tail(history)[i] = history[i + 1]
         /\ Head(operations) = operations[1] /\ Head(operations) \in Operations
<1>1. Len(operations) \in Nat \ {0}
  BY EmptySeq
<1>2. history # <<>>
  BY <1>1, EmptySeq
<1>3. Head(operations) = operations[1]
  BY <1>1
<1> QED
  BY <1>1, <1>2, <1>3, HeadTailProperties

-----------------------------------------------------------------------------
(* Types.  Beside TypeOK the induction needs that logged operations are    *)
(* complete, that no Evicted outlives a use of the write handle, that the  *)
(* log of a closed map is empty, and that the writer's copy is changed     *)
(* after synchronize only.                                                 *)
LogComplete == \A i \in 1 .. Len(operations) : WellFormed(operations[i])

EvictedInUse == phase \notin {"idle", "writing"} => evicted = {}

ClosedIsFlushed == phase \in {"closed", "freed"} => operations = <<>>

WritesSynced == phase \in {"flush", "writing", "closed"} => synced

TypeInv == TypeOK /\ LogComplete /\ EvictedInUse /\ ClosedIsFlushed /\ WritesSynced

LEMMA TypeInit == Init => TypeInv
<1> SUFFICES ASSUME Init PROVE TypeInv
  OBVIOUS
<1>1. Len(operations) = 0 /\ Len(history) = 0
  BY EmptySeq DEF Init
<1>2. operations \in Seq(Operations) /\ history \in Seq(Map)
  BY EmptySeq DEF Init
<1>3. maps \in [MapIndex -> Map]
  BY DEF Init, Map
<1>4. evicted \subseteq [value : ValueObjects, operation : 1 .. Len(operations)]
  BY DEF Init
<1>5. writer_map \in MapIndex /\ object \in [Objects -> ObjectStates] /\ phase \in Phases
  BY DEF Init, MapIndex, ObjectStates, Phases
<1>6. closing \in BOOLEAN /\ synced \in BOOLEAN
  BY DEF Init
<1>7. Len(history) = Len(operations) /\ Len(operations) <= MaxLog
  BY <1>1, OpLogAssumption
<1>8. TypeOK
  BY <1>2, <1>3, <1>4, <1>5, <1>6, <1>7 DEF TypeOK
<1> QED
  BY <1>1, <1>8 DEF Init, TypeInv, LogComplete, EvictedInUse, ClosedIsFlushed, WritesSynced

LEMMA HereType ==
  ASSUME TypeInv
  PROVE  Here \in Map /\ maps[other(writer_map)] \in Map
BY OtherCopy DEF TypeInv, TypeOK, Here

(* A method of the write guard: one push, perhaps one new Evicted.         *)
LEMMA TypePush ==
  ASSUME TypeInv, Writing, NEW op \in Operations, WellFormed(op), Push(op),
         maps' \in [MapIndex -> Map], object' \in [Objects -> ObjectStates],
         UNCHANGED evicted \/ \E v \in ValueObjects : Evict(v),
         UNCHANGED <<writer_map, phase, closing, synced>>
  PROVE  TypeInv'
<1>0. TypeOK /\ LogComplete /\ WritesSynced
  BY DEF TypeInv
<1>1. /\ operations' \in Seq(Operations) /\ history' \in Seq(Map)
      /\ Len(operations) \in Nat
      /\ Len(operations') = Len(operations) + 1
      /\ Len(history') = Len(history) + 1
      /\ \A i \in 1 .. Len(operations) : operations'[i] = operations[i]
      /\ operations'[Len(operations) + 1] = op
  BY <1>0, Pushed, HereType DEF TypeOK
<1>2. evicted' \subseteq [value : ValueObjects, operation : 1 .. Len(operations')]
  <2>1. evicted \subseteq [value : ValueObjects, operation : 1 .. Len(operations')]
    BY <1>0, <1>1 DEF TypeOK
  <2>2. CASE UNCHANGED evicted
    BY <2>1, <2>2
  <2>3. ASSUME NEW v \in ValueObjects, Evict(v)
        PROVE  evicted' \subseteq [value : ValueObjects, operation : 1 .. Len(operations')]
    BY <1>1, <2>1, <2>3 DEF Evict
  <2> QED
    BY <2>2, <2>3
<1>3. TypeOK'
  BY <1>0, <1>1, <1>2, OpLogAssumption DEF TypeOK, Writing
<1>4. LogComplete'
  BY <1>0, <1>1 DEF LogComplete
<1> QED
  BY <1>0, <1>3, <1>4
  DEF TypeInv, Writing, EvictedInUse, ClosedIsFlushed, WritesSynced

LEMMA TypeWriteGuard ==
  ASSUME TypeInv,
         \/ \E k \in Keys, ko \in KeyObjects, v \in ValueObjects : InsertVacant(k, ko, v)
         \/ \E k \in Keys, v \in ValueObjects : InsertOccupied(k, v)
         \/ \E k \in Keys : Remove(k)
         \/ \E v \in ValueObjects : DropLazily(v)
  PROVE  TypeInv'
<1>0. TypeOK /\ Here \in Map
  BY HereType DEF TypeInv
<1>1. ASSUME NEW k \in Keys, NEW ko \in KeyObjects, NEW v \in ValueObjects,
             InsertVacant(k, ko, v)
      PROVE  TypeInv'
  <2>1. /\ Operation("InsertUnique", k, ko, v) \in Operations
        /\ WellFormed(Operation("InsertUnique", k, ko, v))
    BY NewOperation DEF Kinds, WellFormed, Operation
  <2>2. [key |-> ko, value |-> v] \in Entries \cup {None}
    BY DEF Entries
  <2>3. maps' \in [MapIndex -> Map]
    BY <1>0, <1>1, <2>2, CopyUpdate DEF InsertVacant, TypeOK
  <2>4. object' \in [Objects -> ObjectStates]
    BY <1>0, <1>1 DEF InsertVacant, TypeOK, ObjectStates
  <2> QED
    BY <1>1, <2>1, <2>3, <2>4, TypePush DEF InsertVacant
<1>2. ASSUME NEW k \in Keys, NEW v \in ValueObjects, InsertOccupied(k, v)
      PROVE  TypeInv'
  <2>1. /\ Operation("Replace", k, None, v) \in Operations
        /\ WellFormed(Operation("Replace", k, None, v))
    BY NewOperation DEF Kinds, WellFormed, Operation
  <2>2. Here[k] \in Entries /\ Here[k].value \in ValueObjects
    BY <1>0, <1>2, EntryPresent DEF InsertOccupied
  <2>3. [Here[k] EXCEPT !.value = v] \in Entries \cup {None}
    BY <2>2 DEF Entries
  <2>4. maps' \in [MapIndex -> Map]
    BY <1>0, <1>2, <2>3, CopyUpdate DEF InsertOccupied, TypeOK
  <2>5. object' \in [Objects -> ObjectStates]
    BY <1>0, <1>2 DEF InsertOccupied, TypeOK, ObjectStates
  <2> QED
    BY <1>2, <2>1, <2>2, <2>4, <2>5, TypePush DEF InsertOccupied
<1>3. ASSUME NEW k \in Keys, Remove(k) PROVE TypeInv'
  <2>1. /\ Operation("Remove", k, None, None) \in Operations
        /\ WellFormed(Operation("Remove", k, None, None))
    BY NewOperation DEF Kinds, WellFormed, Operation
  <2>2. Here[k].value \in ValueObjects
    BY <1>0, <1>3, EntryPresent DEF Remove
  <2>3. maps' \in [MapIndex -> Map]
    BY <1>0, <1>3, CopyUpdate DEF Remove, TypeOK
  <2> QED
    BY <1>0, <1>3, <2>1, <2>2, <2>3, TypePush DEF Remove, TypeOK
<1>4. ASSUME NEW v \in ValueObjects, DropLazily(v) PROVE TypeInv'
  <2>1. /\ Operation("Drop", None, None, v) \in Operations
        /\ WellFormed(Operation("Drop", None, None, v))
    BY NewOperation DEF Kinds, WellFormed, Operation
  <2>2. object' \in [Objects -> ObjectStates]
    BY <1>0, <1>4 DEF DropLazily, TypeOK, ObjectStates
  <2> QED
    BY <1>0, <1>4, <2>1, <2>2, TypePush DEF DropLazily, TypeOK
<1> QED
  BY <1>1, <1>2, <1>3, <1>4

(* Evicted::leak marks one operation and leaves the others alone.          *)
LEMMA Marked ==
  ASSUME TypeInv, NEW e \in evicted, Leak(e)
  PROVE  /\ e.operation \in 1 .. Len(operations) /\ e.value \in ValueObjects
         /\ Len(operations) \in Nat
         /\ operations' \in Seq(Operations) /\ Len(operations') = Len(operations)
         /\ \A i \in 1 .. Len(operations) :
              /\ operations'[i].raw = operations[i].raw
              /\ operations'[i].of = operations[i].of
              /\ operations'[i].key = operations[i].key
              /\ operations'[i].value = operations[i].value
              /\ operations'[i].leaky = (operations[i].leaky \/ i = e.operation)
<1> DEFINE op == [operations[e.operation] EXCEPT !.leaky = TRUE]
<1>0. TypeOK
  BY DEF TypeInv
<1>1. e.operation \in 1 .. Len(operations) /\ e.value \in ValueObjects
  BY <1>0 DEF TypeOK
<1>2. Len(operations) \in Nat /\ \A i \in 1 .. Len(operations) : operations[i] \in Operations
  BY <1>0, LenProperties, ElementOfSeq DEF TypeOK
<1>3. op \in Operations
  BY <1>1, <1>2 DEF Operations
<1>4. operations' = [operations EXCEPT ![e.operation] = op]
  BY DEF Leak
<1>5. /\ operations' \in Seq(Operations) /\ Len(operations') = Len(operations)
      /\ \A i \in 1 .. Len(operations) :
           operations'[i] = IF i = e.operation THEN op ELSE operations[i]
  BY <1>0, <1>1, <1>3, <1>4, ExceptSeq DEF TypeOK
<1>6. ASSUME NEW i \in 1 .. Len(operations)
      PROVE  /\ operations'[i].raw = operations[i].raw
             /\ operations'[i].of = operations[i].of
             /\ operations'[i].key = operations[i].key
             /\ operations'[i].value = operations[i].value
             /\ operations'[i].leaky = (operations[i].leaky \/ i = e.operation)
  <2>1. operations[i] \in Operations
    BY <1>2
  <2>2. CASE i = e.operation
    BY <1>5, <2>1, <2>2 DEF Operations
  <2>3. CASE i # e.operation
    BY <1>5, <2>1, <2>3 DEF Operations
  <2> QED
    BY <2>2, <2>3
<1> QED
  BY <1>1, <1>2, <1>5, <1>6

LEMMA TypeLeak ==
  ASSUME TypeInv, NEW e \in evicted, Leak(e)
  PROVE  TypeInv'
<1>0. TypeOK /\ LogComplete
  BY DEF TypeInv
<1>1. TypeOK'
  BY <1>0, Marked DEF TypeOK, Leak, ObjectStates
<1>2. LogComplete'
  <2> SUFFICES ASSUME NEW i \in 1 .. Len(operations) PROVE WellFormed(operations'[i])
    BY Marked DEF LogComplete
  <2>1. WellFormed(operations[i])
    BY <1>0 DEF LogComplete
  <2> QED
    BY <2>1, Marked DEF WellFormed
<1>3. ClosedIsFlushed' /\ EvictedInUse' /\ WritesSynced'
  BY DEF TypeInv, EvictedInUse, WritesSynced, ClosedIsFlushed, Leak
<1> QED
  BY <1>1, <1>2, <1>3 DEF TypeInv

(* The write handle: publish, mem::forget, and what follows synchronize.   *)
LEMMA TypeHandle ==
  ASSUME TypeInv,
         \/ Publish \/ ForgetWriteGuard \/ Synchronize
         \/ \E v \in ValueObjects : Reclaim(v)
         \/ \E close \in BOOLEAN : BeginFlush(close)
         \/ Flushed \/ FlushUndefined
  PROVE  TypeInv'
<1> USE DEF TypeInv, LogComplete, EvictedInUse, ClosedIsFlushed, WritesSynced, log, UseHandle,
            Phases, ObjectStates
<1>0. Len(operations) \in Nat
  BY LenProperties DEF TypeOK
<1>1. CASE Publish
  BY <1>1, OtherCopy DEF Publish, TypeOK
<1>2. CASE ForgetWriteGuard
  BY <1>2 DEF ForgetWriteGuard, TypeOK
<1>3. CASE Synchronize
  BY <1>3 DEF Synchronize, TypeOK
<1>4. ASSUME NEW v \in ValueObjects, Reclaim(v) PROVE TypeInv'
  BY <1>4 DEF Reclaim, TypeOK
<1>5. ASSUME NEW close \in BOOLEAN, BeginFlush(close) PROVE TypeInv'
  BY <1>5 DEF BeginFlush, TypeOK
<1>6. CASE Flushed
  BY <1>6 DEF Flushed, TypeOK
<1>7. CASE FlushUndefined
  BY <1>7 DEF FlushUndefined, TypeOK
<1> QED
  BY <1>1, <1>2, <1>3, <1>4, <1>5, <1>6, <1>7

LEMMA DroppedType ==
  ASSUME TypeInv, NEW S
  PROVE  Dropped(S) \in [Objects -> ObjectStates]
BY DEF TypeInv, TypeOK, Dropped, ObjectStates

(* The flush, whole or cut short, and Drop for Core.                       *)
LEMMA TypeFlush ==
  ASSUME TypeInv, FlushOperation \/ FlushPanics \/ FreeCore
  PROVE  TypeInv'
<1>0. TypeOK /\ LogComplete /\ EvictedInUse /\ WritesSynced /\ ClosedIsFlushed
  BY DEF TypeInv
<1>1. ASSUME operations # <<>>, Replayable(Head(operations), Here)
      PROVE  Apply(Head(operations), Here) \in Map
  <2>1. /\ Len(operations) \in Nat \ {0} /\ Head(operations) = operations[1]
        /\ Head(operations) \in Operations
    BY <1>0, <1>1, Popped DEF TypeOK
  <2>2. WellFormed(Head(operations))
    BY <1>0, <2>1 DEF LogComplete
  <2> QED
    BY <1>1, <2>1, <2>2, HereType, Applied
<1>2. CASE FlushOperation
  <2>1. operations # <<>> /\ phase = "flush" /\ evicted = {}
    BY <1>0, <1>2 DEF FlushOperation, EvictedInUse
  <2>2. maps' \in [MapIndex -> Map]
    BY <1>0, <1>1, <1>2 DEF FlushOperation, TypeOK, Here
  <2>3. object' \in [Objects -> ObjectStates]
    BY <1>2, DroppedType DEF FlushOperation
  <2>4. /\ operations' \in Seq(Operations) /\ history' \in Seq(Map)
        /\ Len(operations') = Len(operations) - 1 /\ Len(history') = Len(operations) - 1
        /\ Len(operations) \in Nat \ {0}
        /\ \A i \in 1 .. Len(operations) - 1 : operations'[i] = operations[i + 1]
    BY <1>0, <1>2, <2>1, Popped DEF FlushOperation, TypeOK
  <2>5. TypeOK'
    BY <1>0, <1>2, <2>1, <2>2, <2>3, <2>4, OpLogAssumption DEF FlushOperation, TypeOK
  <2>6. LogComplete'
    BY <1>0, <2>4 DEF LogComplete
  <2> QED
    BY <1>0, <1>2, <2>1, <2>5, <2>6
    DEF FlushOperation, TypeInv, EvictedInUse, WritesSynced, ClosedIsFlushed
<1>3. CASE FlushPanics
  <2>1. operations # <<>> /\ phase = "flush" /\ evicted = {} /\ evicted' = {}
    BY <1>0, <1>3 DEF FlushPanics, EvictedInUse
  <2>2. maps' \in [MapIndex -> Map]
    BY <1>0, <1>1, <1>3 DEF FlushPanics, TypeOK, Here
  <2>3. object' \in [Objects -> ObjectStates]
    BY <1>3, DroppedType DEF FlushPanics
  <2>4. operations' = <<>> /\ history' = <<>>
    BY <1>3 DEF FlushPanics
  <2>5. /\ operations' \in Seq(Operations) /\ history' \in Seq(Map)
        /\ Len(operations') = 0 /\ Len(history') = 0
    BY <2>4, EmptySeq
  <2>6. TypeOK'
    BY <1>0, <1>3, <2>1, <2>2, <2>3, <2>5, OpLogAssumption DEF FlushPanics, TypeOK, Phases
  <2> QED
    BY <1>0, <1>3, <2>1, <2>4, <2>5, <2>6
    DEF FlushPanics, TypeInv, LogComplete, EvictedInUse, WritesSynced, ClosedIsFlushed
<1>4. CASE FreeCore
  <2>1. maps' \in [MapIndex -> Map]
    BY <1>0, <1>4, OtherCopy DEF FreeCore, TypeOK, Map
  <2>2. object' \in [Objects -> ObjectStates]
    BY <1>4, DroppedType DEF FreeCore
  <2>3. TypeOK'
    BY <1>0, <1>4, <2>1, <2>2 DEF FreeCore, TypeOK, Phases, log
  <2> QED
    BY <1>0, <1>4, <2>3
    DEF FreeCore, log, TypeInv, LogComplete, EvictedInUse, WritesSynced, ClosedIsFlushed
<1> QED
  BY <1>2, <1>3, <1>4

LEMMA TypeStep == TypeInv /\ [Next]_vars => TypeInv'
<1> SUFFICES ASSUME TypeInv, [Next]_vars PROVE TypeInv'
  OBVIOUS
<1>1. CASE UNCHANGED vars \/ Terminated
  BY <1>1
  DEF Terminated, vars, log, TypeInv, TypeOK, LogComplete, EvictedInUse, ClosedIsFlushed,
      WritesSynced
<1> QED
  BY <1>1, TypeWriteGuard, TypeLeak, TypeHandle, TypeFlush DEF Next

LEMMA TypeInvariance == Spec => []TypeInv
BY TypeInit, TypeStep, PTL DEF Spec

(* Types hold in every reachable state, with forgotten write guards and    *)
(* panicking destructors: in particular the index an Evicted keeps never   *)
(* leaves the log, although the log is drained and truncated meanwhile.    *)
THEOREM LogTypeCorrect == Spec => []TypeOK
<1>1. TypeInv => TypeOK
  BY DEF TypeInv
<1> QED
  BY <1>1, TypeInvariance, PTL

-----------------------------------------------------------------------------
(* A step changes the writer's copy, while the writer has it to itself, or *)
(* no copy, or frees the map.                                              *)
LEMMA CopiesTouched ==
  ASSUME TypeInv, [Next]_vars
  PROVE  \/ UNCHANGED maps
         \/ /\ phase \in {"flush", "writing"}
            /\ maps'[other(writer_map)] = maps[other(writer_map)]
         \/ phase' = "freed"
<1>0. TypeOK /\ Here \in Map
  BY HereType DEF TypeInv
<1>1. ASSUME NEW k \in Keys, NEW ko \in KeyObjects, NEW v \in ValueObjects,
             InsertVacant(k, ko, v)
      PROVE  phase = "writing" /\ maps'[other(writer_map)] = maps[other(writer_map)]
  BY <1>0, <1>1, OtherCopy DEF InsertVacant, Writing, SetEntry, TypeOK
<1>2. ASSUME NEW k \in Keys, NEW v \in ValueObjects, InsertOccupied(k, v)
      PROVE  phase = "writing" /\ maps'[other(writer_map)] = maps[other(writer_map)]
  BY <1>0, <1>2, OtherCopy DEF InsertOccupied, Writing, SetEntry, TypeOK
<1>3. ASSUME NEW k \in Keys, Remove(k)
      PROVE  phase = "writing" /\ maps'[other(writer_map)] = maps[other(writer_map)]
  BY <1>0, <1>3, OtherCopy DEF Remove, Writing, SetEntry, TypeOK
<1>4. CASE FlushOperation \/ FlushPanics
  BY <1>0, <1>4, OtherCopy DEF FlushOperation, FlushPanics, TypeOK
<1>5. CASE FreeCore
  BY <1>5 DEF FreeCore
<1>6. CASE \/ \E v \in ValueObjects : DropLazily(v) \/ Reclaim(v)
           \/ \E e \in evicted : Leak(e)
           \/ Publish \/ ForgetWriteGuard \/ Synchronize
           \/ \E close \in BOOLEAN : BeginFlush(close)
           \/ Flushed \/ FlushUndefined \/ Terminated \/ UNCHANGED vars
  BY <1>6
  DEF DropLazily, Reclaim, Leak, Publish, ForgetWriteGuard, Synchronize, BeginFlush,
      Flushed, FlushUndefined, Terminated, vars
<1> QED
  BY <1>1, <1>2, <1>3, <1>4, <1>5, <1>6 DEF Next

(* No step changes a copy that a reader may be reading, also when write    *)
(* guards are forgotten and a panic cuts the flush short.                  *)
THEOREM ReadersNeverDisturbed == Spec => ReadersUndisturbed
<1>1. ASSUME TypeInv, [Next]_vars
      PROVE  [\A i \in Readable : phase' # "freed" => maps'[i] = maps[i]]_vars
  <2> SUFFICES ASSUME NEW i \in Readable, phase' # "freed" PROVE maps'[i] = maps[i]
    OBVIOUS
  <2>1. phase \in {"flush", "writing"} => i = other(writer_map)
    BY <1>1 DEF TypeInv, WritesSynced, Readable
  <2> QED
    BY <1>1, <2>1, CopiesTouched
<1> QED
  BY <1>1, TypeInvariance, PTL DEF Spec, ReadersUndisturbed

-----------------------------------------------------------------------------
(* The replay, when every write guard is dropped and no destructor panics. *)
NoFaults == ~ForgetWriteGuards /\ ~DropPanics

LEMMA ReplayInit == Init => LogReplays
<1> SUFFICES ASSUME Init PROVE LogReplays
  OBVIOUS
<1>1. Len(operations) = 0 /\ Len(history) = 0
  BY EmptySeq DEF Init
<1>2. Ahead = Behind
  BY DEF Init, Ahead, Behind, Here, other, MapIndex, First, Second
<1> QED
  BY <1>1, <1>2 DEF LogReplays, Reached

(* A method of the write guard extends the path by one step.               *)
LEMMA ReplayPush ==
  ASSUME TypeInv, LogReplays, NEW op \in Operations, Push(op), Replayable(op, Here),
         phase = "writing", UNCHANGED <<phase, writer_map>>,
         maps'[writer_map] = Apply(op, Here),
         maps'[other(writer_map)] = maps[other(writer_map)]
  PROVE  LogReplays'
<1> DEFINE n == Len(operations)
<1>1. /\ n \in Nat
      /\ Len(operations') = n + 1 /\ Len(history') = n + 1 /\ Len(history) = n
      /\ \A i \in 1 .. n : operations'[i] = operations[i] /\ history'[i] = history[i]
      /\ operations'[n + 1] = op /\ history'[n + 1] = Here
  BY Pushed, HereType DEF TypeInv, TypeOK
<1>2. Ahead = Here /\ Ahead' = Apply(op, Here) /\ Behind' = Behind
  BY DEF Ahead, Behind, Here
<1>3. /\ \A i \in 1 .. n + 1 : Reached(i)' = Reached(i)
      /\ \A i \in Nat : i > n + 1 => Reached(i)' = Apply(op, Here)
      /\ Reached(n + 1) = Here
  BY <1>1, <1>2 DEF Reached
<1>4. Reached(1)' = Behind'
  BY <1>1, <1>2, <1>3 DEF LogReplays
<1>5. ASSUME NEW i \in 1 .. n + 1
      PROVE  /\ Replayable(operations'[i], history'[i])
             /\ Reached(i + 1)' = Apply(operations'[i], history'[i])
  <2>1. CASE i = n + 1
    BY <1>1, <1>3, <2>1
  <2>2. CASE i \in 1 .. n
    BY <1>1, <1>3, <2>2 DEF LogReplays
  <2> QED
    BY <1>1, <2>1, <2>2
<1> QED
  BY <1>1, <1>4, <1>5 DEF LogReplays

(* What an operation does, and where, does not depend on its mark.         *)
LEMMA MarkIrrelevant ==
  ASSUME NEW op, NEW op2, NEW m,
         op2.raw = op.raw, op2.of = op.of, op2.key = op.key, op2.value = op.value
  PROVE  (Replayable(op2, m) <=> Replayable(op, m)) /\ Apply(op2, m) = Apply(op, m)
BY DEF Replayable, Apply

(* A step that leaves the path where it is.                                *)
LEMMA ReplayFrame ==
  ASSUME LogReplays, phase # "freed", Ahead' = Ahead, Behind' = Behind, UNCHANGED log
  PROVE  LogReplays'
BY DEF LogReplays, Reached, log

LEMMA ReplayWriteGuard ==
  ASSUME TypeInv, LogReplays,
         \/ \E k \in Keys, ko \in KeyObjects, v \in ValueObjects : InsertVacant(k, ko, v)
         \/ \E k \in Keys, v \in ValueObjects : InsertOccupied(k, v)
         \/ \E k \in Keys : Remove(k)
         \/ \E v \in ValueObjects : DropLazily(v)
  PROVE  LogReplays'
<1>0. TypeOK /\ Here \in Map
  BY HereType DEF TypeInv
<1>1. ASSUME NEW k \in Keys, NEW ko \in KeyObjects, NEW v \in ValueObjects,
             InsertVacant(k, ko, v)
      PROVE  LogReplays'
  <2> DEFINE op == Operation("InsertUnique", k, ko, v)
  <2>1. op \in Operations
    BY NewOperation DEF Kinds
  <2>2. /\ Replayable(op, Here)
        /\ Apply(op, Here) = [Here EXCEPT ![k] = [key |-> ko, value |-> v]]
    BY <1>1 DEF InsertVacant, Replayable, Apply, Operation
  <2>3. [key |-> ko, value |-> v] \in Entries \cup {None}
    BY DEF Entries
  <2>4. /\ maps'[writer_map] = Apply(op, Here)
        /\ maps'[other(writer_map)] = maps[other(writer_map)]
    BY <1>0, <1>1, <2>2, <2>3, CopyUpdate DEF InsertVacant, TypeOK
  <2> QED
    BY <1>1, <2>1, <2>2, <2>4, ReplayPush DEF InsertVacant, Writing
<1>2. ASSUME NEW k \in Keys, NEW v \in ValueObjects, InsertOccupied(k, v)
      PROVE  LogReplays'
  <2> DEFINE op == Operation("Replace", k, None, v)
  <2>1. op \in Operations
    BY NewOperation DEF Kinds
  <2>2. /\ Replayable(op, Here)
        /\ Apply(op, Here) = [Here EXCEPT ![k] = [Here[k] EXCEPT !.value = v]]
    BY <1>2 DEF InsertOccupied, Replayable, Apply, Operation
  <2>3. [Here[k] EXCEPT !.value = v] \in Entries \cup {None}
    <3>1. Here[k] \in Entries
      BY <1>0, <1>2, EntryPresent DEF InsertOccupied
    <3> QED
      BY <3>1 DEF Entries
  <2>4. /\ maps'[writer_map] = Apply(op, Here)
        /\ maps'[other(writer_map)] = maps[other(writer_map)]
    BY <1>0, <1>2, <2>2, <2>3, CopyUpdate DEF InsertOccupied, TypeOK
  <2> QED
    BY <1>2, <2>1, <2>2, <2>4, ReplayPush DEF InsertOccupied, Writing
<1>3. ASSUME NEW k \in Keys, Remove(k) PROVE LogReplays'
  <2> DEFINE op == Operation("Remove", k, None, None)
  <2>1. op \in Operations
    BY NewOperation DEF Kinds
  <2>2. Replayable(op, Here) /\ Apply(op, Here) = [Here EXCEPT ![k] = None]
    BY <1>3 DEF Remove, Replayable, Apply, Operation
  <2>3. /\ maps'[writer_map] = Apply(op, Here)
        /\ maps'[other(writer_map)] = maps[other(writer_map)]
    BY <1>0, <1>3, <2>2, CopyUpdate DEF Remove, TypeOK
  <2> QED
    BY <1>3, <2>1, <2>2, <2>3, ReplayPush DEF Remove, Writing
<1>4. ASSUME NEW v \in ValueObjects, DropLazily(v) PROVE LogReplays'
  <2> DEFINE op == Operation("Drop", None, None, v)
  <2>1. op \in Operations
    BY NewOperation DEF Kinds
  <2>2. Replayable(op, Here) /\ Apply(op, Here) = Here
    BY DEF Replayable, Apply, Operation
  <2>3. /\ maps'[writer_map] = Apply(op, Here)
        /\ maps'[other(writer_map)] = maps[other(writer_map)]
    BY <1>4, <2>2 DEF DropLazily, Here
  <2> QED
    BY <1>4, <2>1, <2>2, <2>3, ReplayPush DEF DropLazily, Writing
<1> QED
  BY <1>1, <1>2, <1>3, <1>4

LEMMA ReplayLeak ==
  ASSUME TypeInv, LogReplays, NEW e \in evicted, Leak(e)
  PROVE  LogReplays'
<1>1. Ahead' = Ahead /\ Behind' = Behind /\ history' = history /\ phase' = phase
  BY DEF Leak, Ahead, Behind, Here
<1>2. Len(operations') = Len(operations)
  BY Marked
<1>3. ASSUME NEW i \in 1 .. Len(operations), NEW m
      PROVE  /\ Replayable(operations'[i], m) <=> Replayable(operations[i], m)
             /\ Apply(operations'[i], m) = Apply(operations[i], m)
  BY Marked, MarkIrrelevant
<1> QED
  BY <1>1, <1>2, <1>3 DEF LogReplays, Reached

(* One turn of flush_operations takes the first step of the path.          *)
LEMMA ReplayFlush ==
  ASSUME TypeInv, LogReplays, FlushOperation
  PROVE  LogReplays'
<1> DEFINE n == Len(operations)
<1>0. TypeOK
  BY DEF TypeInv
<1>1. /\ n \in Nat \ {0} /\ Len(history) = n
      /\ Len(operations') = n - 1 /\ Len(history') = n - 1
      /\ \A i \in 1 .. n - 1 : /\ operations'[i] = operations[i + 1]
                               /\ history'[i] = history[i + 1]
      /\ Head(operations) = operations[1]
  BY <1>0, Popped DEF FlushOperation, TypeOK
<1>2. /\ Ahead' = Ahead /\ Behind = Here
      /\ Behind' = Apply(operations[1], Here)
  BY <1>0, <1>1, OtherCopy DEF FlushOperation, TypeOK, Ahead, Behind, Here
<1>3. \A i \in 1 .. n : Reached(i)' = Reached(i + 1)
  BY <1>1, <1>2 DEF Reached
<1>4. Reached(1) = Here /\ history[1] = Here
  BY <1>1, <1>2 DEF LogReplays, Reached, FlushOperation
<1>5. Reached(1)' = Behind'
  BY <1>1, <1>2, <1>3, <1>4 DEF LogReplays, FlushOperation
<1>6. ASSUME NEW i \in 1 .. n - 1
      PROVE  /\ Replayable(operations'[i], history'[i])
             /\ Reached(i + 1)' = Apply(operations'[i], history'[i])
  <2>1. i + 1 \in 1 .. n /\ i \in 1 .. n
    BY <1>1
  <2> QED
    BY <1>1, <1>3, <2>1 DEF LogReplays, FlushOperation
<1> QED
  BY <1>1, <1>5, <1>6 DEF LogReplays

LEMMA ReplayHandle ==
  ASSUME TypeInv, LogReplays,
         \/ Publish \/ Synchronize
         \/ \E v \in ValueObjects : Reclaim(v)
         \/ \E close \in BOOLEAN : BeginFlush(close)
         \/ Flushed \/ FlushUndefined \/ FreeCore
  PROVE  LogReplays'
<1> USE DEF log, UseHandle, Ahead, Behind, Here
<1>0. writer_map \in MapIndex
  BY DEF TypeInv, TypeOK
<1>1. CASE Publish
  BY <1>0, <1>1, OtherCopy, ReplayFrame DEF Publish
<1>2. CASE Synchronize
  BY <1>2, ReplayFrame DEF Synchronize
<1>3. ASSUME NEW v \in ValueObjects, Reclaim(v) PROVE LogReplays'
  BY <1>3, ReplayFrame DEF Reclaim
<1>4. ASSUME NEW close \in BOOLEAN, BeginFlush(close) PROVE LogReplays'
  BY <1>4, ReplayFrame DEF BeginFlush
<1>5. CASE Flushed
  <2>1. Len(operations) = 0 /\ Len(history) = 0
    BY <1>5, EmptySeq DEF Flushed, TypeInv, TypeOK
  <2>2. Ahead = Behind
    BY <1>5, <2>1 DEF Flushed, LogReplays, Reached
  <2>3. Ahead' = Ahead /\ Behind' = Behind
    BY <1>5, <2>2 DEF Flushed
  <2> QED
    BY <1>5, <2>3, ReplayFrame DEF Flushed
<1>6. CASE FlushUndefined
  BY <1>6, ReplayFrame DEF FlushUndefined
<1>7. CASE FreeCore
  BY <1>7 DEF FreeCore, LogReplays
<1> QED
  BY <1>1, <1>2, <1>3, <1>4, <1>5, <1>6, <1>7

LEMMA ReplayStep ==
  ASSUME NoFaults, TypeInv, LogReplays, [Next]_vars
  PROVE  LogReplays'
<1>1. CASE UNCHANGED vars \/ Terminated
  BY <1>1 DEF Terminated, vars, log, LogReplays, Reached, Ahead, Behind, Here
<1>2. ~ForgetWriteGuard /\ ~FlushPanics
  BY DEF NoFaults, ForgetWriteGuard, FlushPanics
<1> QED
  BY <1>1, <1>2, ReplayWriteGuard, ReplayLeak, ReplayFlush, ReplayHandle DEF Next

LEMMA ReplayInvariance == NoFaults => (Spec => [](TypeInv /\ LogReplays))
<1> SUFFICES ASSUME NoFaults PROVE Spec => [](TypeInv /\ LogReplays)
  OBVIOUS
<1>1. Init => TypeInv /\ LogReplays
  BY TypeInit, ReplayInit
<1>2. (TypeInv /\ LogReplays) /\ [Next]_vars => (TypeInv /\ LogReplays)'
  BY TypeStep, ReplayStep
<1> QED
  BY <1>1, <1>2, PTL DEF Spec

(* The log is a path from the copy that is behind to the copy that is      *)
(* ahead, replayable at every step, however operations, marks by late      *)
(* Evicted values, publishes and flushes follow each other.                *)
THEOREM LogIsReplayable == NoFaults => (Spec => []LogReplays)
BY ReplayInvariance, PTL

(* flush_operations never runs an unchecked operation where it is not      *)
(* defined.                                                                *)
THEOREM ReplayNeverUndefined == NoFaults => (Spec => []UncheckedOpsSound)
<1>1. TypeInv /\ LogReplays => UncheckedOpsSound
  <2> SUFFICES ASSUME TypeInv, LogReplays, phase = "flush", operations # <<>>
               PROVE  Replayable(Head(operations), Here)
    BY DEF UncheckedOpsSound
  <2>1. Len(operations) \in Nat \ {0} /\ Head(operations) = operations[1]
    BY Popped DEF TypeInv, TypeOK
  <2>2. history[1] = Here
    BY <2>1 DEF LogReplays, Reached, Behind, TypeInv, TypeOK
  <2> QED
    BY <2>1, <2>2 DEF LogReplays
<1> QED
  BY <1>1, ReplayInvariance, PTL

(* A write guard starts from what readers see, and the copies a dropped    *)
(* write handle leaves behind are the same.                                *)
THEOREM FlushCatchesUp == NoFaults => (Spec => []CopiesAgree)
<1>1. TypeInv /\ LogReplays => CopiesAgree
  <2> SUFFICES ASSUME TypeInv, LogReplays,
                      phase = "closed" \/ (phase = "writing" /\ operations = <<>>)
               PROVE  maps[First] = maps[Second]
    BY DEF CopiesAgree, GuardStartsLevel
  <2>1. operations = <<>>
    BY DEF TypeInv, ClosedIsFlushed
  <2>2. Len(history) = 0
    BY <2>1, EmptySeq DEF TypeInv, TypeOK
  <2>3. Ahead = Behind
    BY <2>2 DEF LogReplays, Reached
  <2> QED
    BY <2>3 DEF Ahead, Behind, Here, TypeInv, TypeOK, MapIndex, other, First, Second
<1> QED
  BY <1>1, ReplayInvariance, PTL
=============================================================================
