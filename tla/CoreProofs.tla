----------------------------- MODULE CoreProofs -----------------------------
(***************************************************************************)
(* Proofs about Core, for any number of handles, guards and threads, any   *)
(* word size, with spurious wakeups and forgotten guards.                  *)
(***************************************************************************)
EXTENDS Core, FiniteSetTheorems, TLAPS

-----------------------------------------------------------------------------
(* The packed words.                                                       *)

(* A word is its flag and its count.                                       *)
LEMMA WordParts ==
  ASSUME NEW v \in usize
  PROVE  /\ to_map_index(v) \in MapIndex
         /\ to_count(v) \in 0 .. MAP_INDEX_FLAG - 1
BY OverflowBitAssumption
DEF usize, WORD, MAP_INDEX_FLAG, to_map_index, to_count, MapIndex, First, Second

(* RefCount::increment leaves the flag alone while the count is not full.  *)
LEMMA Incremented ==
  ASSUME NEW v \in usize, to_count(v) < MAP_INDEX_FLAG - 1
  PROVE  /\ incremented(v) \in usize
         /\ to_map_index(incremented(v)) = to_map_index(v)
         /\ to_count(incremented(v)) = to_count(v) + 1
BY OverflowBitAssumption
DEF usize, WORD, MAP_INDEX_FLAG, to_map_index, to_count, incremented, usize_add,
    First, Second

(* RefCount::decrement leaves the flag alone while the count is not zero.  *)
LEMMA Decremented ==
  ASSUME NEW v \in usize, to_count(v) > 0
  PROVE  /\ decremented(v) \in usize
         /\ to_map_index(decremented(v)) = to_map_index(v)
         /\ to_count(decremented(v)) = to_count(v) - 1
BY OverflowBitAssumption
DEF usize, WORD, MAP_INDEX_FLAG, to_map_index, to_count, decremented, usize_sub,
    First, Second

(* RefCount::swap_maps toggles the flag and leaves the count alone.        *)
LEMMA MapsSwapped ==
  ASSUME NEW v \in usize
  PROVE  /\ maps_swapped(v) \in usize
         /\ to_map_index(maps_swapped(v)) = other(to_map_index(v))
         /\ to_count(maps_swapped(v)) = to_count(v)
BY OverflowBitAssumption
DEF usize, WORD, MAP_INDEX_FLAG, to_map_index, to_count, maps_swapped, usize_add,
    other, First, Second

(* A new RefCount has the given flag and no guards.                        *)
LEMMA NewRefCount ==
  ASSUME NEW i \in MapIndex
  PROVE  /\ RefCount_new(i) \in usize
         /\ to_map_index(RefCount_new(i)) = i
         /\ to_count(RefCount_new(i)) = 0
BY OverflowBitAssumption
DEF usize, WORD, MAP_INDEX_FLAG, to_map_index, to_count, RefCount_new, MapIndex,
    First, Second

(* The two copies are each other's other.                                  *)
LEMMA Other ==
  ASSUME NEW i \in MapIndex
  PROVE  other(i) \in MapIndex /\ other(i) # i /\ other(other(i)) = i
BY DEF MapIndex, other, First, Second

(* Addition on an isize is an isize.                                       *)
LEMMA IsizeAdd ==
  ASSUME NEW v \in isize, NEW d \in isize
  PROVE  isize_add(v, d) \in isize
BY OverflowBitAssumption DEF isize, isize_add, WORD, MAP_INDEX_FLAG, isize_MIN

LEMMA Constants ==
  /\ 0 \in usize /\ 0 \in isize /\ isize_MIN \in isize /\ -1 \in isize
  /\ \A n \in 0 .. MAP_INDEX_FLAG - 1 : n \in isize
BY OverflowBitAssumption DEF usize, isize, WORD, MAP_INDEX_FLAG, isize_MIN

(* Every read-modify-write of a RefCount stores a word.                    *)
LEMMA Words ==
  ASSUME NEW v \in usize
  PROVE  incremented(v) \in usize /\ decremented(v) \in usize
BY OverflowBitAssumption
DEF usize, WORD, MAP_INDEX_FLAG, incremented, decremented, usize_add, usize_sub

-----------------------------------------------------------------------------
(* Type correctness.  It needs one fact beside TypeOK: todo is empty when  *)
(* the mutex is free, so that a handle that is dropped is not in it.       *)
TodoInLoop == wpc # "swap" => todo = {}

TypeInv == TypeOK /\ TodoInLoop

LEMMA TypeInit == Init => TypeInv
<1> SUFFICES ASSUME Init PROVE TypeInv
  OBVIOUS
<1>1. RefCount_new(other(Second)) \in usize
  BY NewRefCount, Other DEF MapIndex
<1> QED
  BY <1>1, Constants DEF Init, TypeInv, TypeOK, TodoInLoop, MapIndex, WriterPC, Calls, GuardPC

(* The steps of the writer in synchronize, and on the two guards.          *)
LEMMA TypeWriter ==
  ASSUME TypeInv,
         \/ \E c \in Calls : Synchronize(c)
         \/ \E t \in Threads : MoveWriter(t)
         \/ SetWriterThread \/ SetWaitFlag \/ ResetResidual \/ Park \/ ParkSpuriously
         \/ Recheck \/ FlushOperations \/ WriteOp
  PROVE  TypeInv'
<1> USE DEF TypeInv, TypeOK, TodoInLoop, Return, WriterPC, Calls, core, data, writer, guards
<1>1. ASSUME NEW c \in Calls, Synchronize(c) PROVE TypeInv'
  BY <1>1 DEF Synchronize
<1>2. ASSUME NEW t \in Threads, MoveWriter(t) PROVE TypeInv'
  BY <1>2 DEF MoveWriter
<1>3. CASE SetWriterThread
  BY <1>3 DEF SetWriterThread
<1>4. CASE SetWaitFlag
  BY <1>4, IsizeAdd, Constants DEF SetWaitFlag
<1>5. CASE ResetResidual
  BY <1>5, Constants DEF ResetResidual
<1>6. CASE Park
  BY <1>6 DEF Park
<1>7. CASE ParkSpuriously
  BY <1>7 DEF ParkSpuriously
<1>8. CASE Recheck
  BY <1>8 DEF Recheck
<1>9. CASE FlushOperations
  BY <1>9 DEF FlushOperations
<1>10. CASE WriteOp
  BY <1>10 DEF WriteOp
<1> QED
  BY <1>1, <1>2, <1>3, <1>4, <1>5, <1>6, <1>7, <1>8, <1>9, <1>10

(* publish.                                                                *)
LEMMA TypePublish ==
  ASSUME TypeInv,
         \/ Publish \/ (\E h \in Handles : SwapMaps(h)) \/ AbortPublish
         \/ Unlock \/ AddResidual
  PROVE  TypeInv'
<1> USE DEF TypeInv, TypeOK, TodoInLoop, WriterPC, core, data, writer, guards
<1>1. CASE Publish
  BY <1>1, Other, Constants DEF Publish
<1>2. ASSUME NEW h \in Handles, SwapMaps(h) PROVE TypeInv'
  <2>1. to_count(refcounts[h]) \in isize
    BY WordParts, Constants
  <2>2. isize_add(initial_residual, to_count(refcounts[h])) \in isize
    BY <2>1, IsizeAdd
  <2>3. maps_swapped(refcounts[h]) \in usize
    BY MapsSwapped
  <2> HIDE DEF MapIndex
  <2> QED
    BY <1>2, <2>2, <2>3 DEF SwapMaps
<1>3. CASE AbortPublish
  BY <1>3 DEF AbortPublish
<1>4. CASE Unlock
  BY <1>4 DEF Unlock
<1>5. CASE AddResidual
  BY <1>5, IsizeAdd, Constants DEF AddResidual
<1> QED
  BY <1>1, <1>2, <1>3, <1>4, <1>5

(* Read handles and read guards.                                           *)
LEMMA TypeReader ==
  ASSUME TypeInv,
         \/ \E src, h \in Handles : NewReader(src, h)
         \/ \E h \in Handles : DropHandle(h)
         \/ \E g \in Guards, h \in Handles : Guard(g, h)
         \/ \E g \in Guards : DropGuard(g) \/ ForgetGuard(g) \/ ReleaseStep(g)
  PROVE  TypeInv'
<1> USE DEF TypeInv, TypeOK, TodoInLoop, GuardPC, core, data, writer, guards
<1>1. ASSUME NEW src \in Handles, NEW h \in Handles, NewReader(src, h) PROVE TypeInv'
  <2>1. RefCount_new(other(writer_map)) \in usize
    BY Other, NewRefCount
  <2> QED
    BY <1>1, <2>1 DEF NewReader
<1>2. ASSUME NEW h \in Handles, DropHandle(h) PROVE TypeInv'
  BY <1>2, Constants DEF DropHandle, mutex_free, MapIndex
<1>3. ASSUME NEW g \in Guards, NEW h \in Handles, Guard(g, h) PROVE TypeInv'
  BY <1>3, Words, WordParts DEF Guard
<1>4. ASSUME NEW g \in Guards, DropGuard(g) PROVE TypeInv'
  BY <1>4, Words DEF DropGuard, Leave, MapIndex
<1>5. ASSUME NEW g \in Guards, ForgetGuard(g) PROVE TypeInv'
  BY <1>5 DEF ForgetGuard
<1>6. ASSUME NEW g \in Guards, Abort(g) PROVE TypeInv'
  BY <1>6 DEF Abort
<1>7. ASSUME NEW g \in Guards, ReleaseResidual(g) PROVE TypeInv'
  BY <1>7, IsizeAdd, Constants DEF ReleaseResidual, Leave, MapIndex
<1>8. ASSUME NEW g \in Guards, StoreZero(g) PROVE TypeInv'
  BY <1>8, Constants DEF StoreZero
<1>9. ASSUME NEW g \in Guards, Unpark(g) PROVE TypeInv'
  BY <1>9 DEF Unpark, Leave, MapIndex
<1> QED
  BY <1>1, <1>2, <1>3, <1>4, <1>5, <1>6, <1>7, <1>8, <1>9 DEF ReleaseStep

(* Every step preserves the types.                                         *)
LEMMA TypeStep == TypeInv /\ [Next]_vars => TypeInv'
<1> SUFFICES ASSUME TypeInv, [Next]_vars PROVE TypeInv'
  OBVIOUS
<1>1. CASE UNCHANGED vars
  BY <1>1 DEF TypeInv, TypeOK, TodoInLoop, vars, core, data, writer, guards
<1>2. CASE Terminated
  BY <1>1, <1>2 DEF Terminated
<1> QED
  BY <1>1, <1>2, TypeWriter, TypePublish, TypeReader DEF Next, WriterStep

(* Types hold in every reachable state: in particular residual, every      *)
(* RefCount and publish's sum stay machine words through all the wrapping  *)
(* additions, and the handles publish still has to visit exist.            *)
THEOREM TypeCorrect == Spec => []TypeOK
<1>1. TypeInv => TypeOK
  BY DEF TypeInv
<1> QED
  BY <1>1, TypeInit, TypeStep, PTL DEF Spec

-----------------------------------------------------------------------------
(* The inductive invariant.                                                *)
IInv == TypeInv /\ Bookkeeping /\ ResidualAccounting

(* Sets of guards are finite.                                              *)
LEMMA GuardSets ==
  ASSUME NEW S \in SUBSET Guards
  PROVE  IsFiniteSet(S) /\ Cardinality(S) \in Nat
BY CoreAssumption, FS_Subset, FS_CardinalityType

LEMMA Sizes ==
  /\ Owed \in Nat
  /\ Cardinality(Overflowing) \in Nat
  /\ \A h \in Handles : Cardinality(Holders(h)) \in Nat
BY GuardSets DEF Owed, Residuals, Overflowing, Holders

(* A guard that owes is one that is counted.                               *)
LEMMA OwedPositive ==
  ASSUME NEW g \in Guards, Owes(g)
  PROVE  Owed > 0
<1>1. IsFiniteSet(Residuals) /\ g \in Residuals
  BY GuardSets DEF Residuals
<1> QED
  BY <1>1, FS_EmptySet, FS_CardinalityType DEF Owed

LEMMA NobodyOwes ==
  ASSUME Owed = 0, NEW g \in Guards
  PROVE  ~Owes(g)
BY OwedPositive

(* A step that leaves the refcounts and the guards alone leaves the sets   *)
(* they define alone.                                                      *)
LEMMA Frame ==
  ASSUME UNCHANGED <<refcounts, gpc, ghandle, gmap>>
  PROVE  /\ Owed' = Owed
         /\ Overflowing' = Overflowing
         /\ \A h \in Handles : Holders(h)' = Holders(h)
BY DEF Owed, Residuals, Owes, Overflowing, Holders

LEMMA InvInit == Init => IInv
<1> SUFFICES ASSUME Init PROVE IInv
  OBVIOUS
<1>1. TypeInv
  BY TypeInit
<1>2. Residuals = {} /\ Overflowing = {} /\ \A h \in Handles : Holders(h) = {}
  BY DEF Init, Residuals, Owes, Overflowing, Holders, Counted
<1>3. Owed = 0
  BY <1>2, FS_EmptySet DEF Owed
<1>4. Placed
  BY DEF Init, Placed, Counted
<1>5. RefCount_new(other(Second)) \in usize
      /\ to_map_index(RefCount_new(other(Second))) = other(Second)
      /\ to_count(RefCount_new(other(Second))) = 0
  BY NewRefCount, Other DEF MapIndex
<1>6. CountsExact
  <2>1. Cardinality(Overflowing) = 0
    BY <1>2, FS_EmptySet
  <2>2. ASSUME NEW h \in handles
        PROVE  to_count(refcounts[h]) = 0 /\ Cardinality(Holders(h)) = 0
    <3>1. h \in Handles
      BY <1>1 DEF TypeInv, TypeOK
    <3>2. Holders(h) = {}
      BY <1>2, <3>1
    <3> QED
      BY <1>5, <3>1, <3>2, FS_EmptySet DEF Init
  <2> QED
    BY <2>1, <2>2, OverflowBitAssumption DEF CountsExact
<1>7. FlagsDelivered
  BY <1>1, <1>5 DEF Init, FlagsDelivered, TypeInv, TypeOK
<1>8. ResidualAccounting
  BY <1>3 DEF Init, ResidualAccounting, Sum
<1> QED
  BY <1>1, <1>4, <1>6, <1>7, <1>8 DEF IInv, Bookkeeping

-----------------------------------------------------------------------------
(* The steps of the writer that touch neither refcounts nor guards.        *)
LEMMA Quiet ==
  ASSUME IInv, wpc # "swap", wpc' \notin {"swap", "add"},
         UNCHANGED <<handles, refcounts, writer_map, todo, gpc, ghandle, gmap>>
  PROVE  Bookkeeping' /\ Owed' = Owed
<1>1. /\ Owed' = Owed
      /\ Overflowing' = Overflowing
      /\ \A h \in Handles : Holders(h)' = Holders(h)
  BY Frame
<1>2. Placed'
  BY DEF IInv, Bookkeeping, Placed
<1>3. CountsExact'
  BY <1>1 DEF IInv, TypeInv, TypeOK, Bookkeeping, CountsExact
<1>4. FlagsDelivered'
  BY DEF IInv, Bookkeeping, FlagsDelivered
<1> QED
  BY <1>1, <1>2, <1>3, <1>4 DEF Bookkeeping

(* Core::synchronize, the write handle and the write guard.                *)
LEMMA InvWriter ==
  ASSUME IInv,
         \/ \E c \in Calls : Synchronize(c)
         \/ \E t \in Threads : MoveWriter(t)
         \/ SetWriterThread \/ SetWaitFlag \/ ResetResidual \/ Park \/ ParkSpuriously
         \/ Recheck \/ FlushOperations \/ WriteOp
  PROVE  Bookkeeping' /\ ResidualAccounting'
<1> DEFINE Goal == Bookkeeping' /\ ResidualAccounting'
<1> USE Sizes, OverflowBitAssumption
    DEF Return, core, data, writer, guards, MAP_INDEX_FLAG, isize_MIN
<1>0. TypeOK /\ ResidualAccounting
  BY DEF IInv, TypeInv
<1>1. ASSUME NEW c \in Calls, Synchronize(c) PROVE Goal
  <2>1. Bookkeeping' /\ Owed' = Owed
    BY <1>1, Quiet DEF Synchronize
  <2> QED
    BY <1>0, <1>1, <2>1 DEF Synchronize, ResidualAccounting, Sum
<1>2. ASSUME NEW t \in Threads, MoveWriter(t) PROVE Goal
  <2>1. Bookkeeping' /\ Owed' = Owed
    BY <1>2, Quiet DEF MoveWriter
  <2> QED
    BY <1>0, <1>2, <2>1 DEF MoveWriter, ResidualAccounting, Sum
<1>3. CASE SetWriterThread
  <2>1. Bookkeeping' /\ Owed' = Owed
    BY <1>3, Quiet DEF SetWriterThread
  <2> QED
    BY <1>0, <1>3, <2>1 DEF SetWriterThread, ResidualAccounting, Sum
<1>4. CASE SetWaitFlag
  <2>1. Bookkeeping' /\ Owed' = Owed
    BY <1>4, Quiet DEF SetWaitFlag
  <2>2. residual = Owed /\ residual < MAP_INDEX_FLAG
    BY <1>0, <1>4 DEF SetWaitFlag, ResidualAccounting, TypeOK, isize
  <2>3. residual' = residual + isize_MIN
    BY <1>4, <2>2 DEF SetWaitFlag, isize_add
  <2> QED
    BY <1>0, <1>4, <2>1, <2>2, <2>3 DEF SetWaitFlag, ResidualAccounting, Sum
<1>5. CASE ResetResidual
  <2>1. Bookkeeping' /\ Owed' = Owed
    BY <1>5, Quiet DEF ResetResidual
  <2> QED
    BY <1>0, <1>5, <2>1 DEF ResetResidual, ResidualAccounting, Sum
<1>6. CASE Park \/ ParkSpuriously
  <2>1. Bookkeeping' /\ Owed' = Owed
    BY <1>6, Quiet DEF Park, ParkSpuriously
  <2> QED
    BY <1>0, <1>6, <2>1 DEF Park, ParkSpuriously, ResidualAccounting, Sum
<1>7. CASE Recheck
  <2>1. Bookkeeping' /\ Owed' = Owed
    BY <1>7, Quiet DEF Recheck
  <2> QED
    BY <1>0, <1>7, <2>1 DEF Recheck, ResidualAccounting, Sum
<1>8. CASE FlushOperations
  <2>1. Bookkeeping' /\ Owed' = Owed
    BY <1>8, Quiet DEF FlushOperations
  <2> QED
    BY <1>0, <1>8, <2>1 DEF FlushOperations, ResidualAccounting, Sum
<1>9. CASE WriteOp
  <2>1. Bookkeeping' /\ Owed' = Owed
    BY <1>9, Quiet DEF WriteOp
  <2> QED
    BY <1>0, <1>9, <2>1 DEF WriteOp, ResidualAccounting, Sum
<1> QED
  BY <1>1, <1>2, <1>3, <1>4, <1>5, <1>6, <1>7, <1>8, <1>9

-----------------------------------------------------------------------------
(* publish.  Taking the lock, nobody is left on the copy that becomes the  *)
(* writer's: every guard is on the reader's copy, and no handle is done.   *)
LEMMA InvPublish ==
  ASSUME IInv, Publish
  PROVE  Bookkeeping' /\ ResidualAccounting'
<1> USE DEF data, guards
<1>0. TypeOK /\ TodoInLoop /\ Placed /\ CountsExact /\ FlagsDelivered /\ ResidualAccounting
  BY DEF IInv, TypeInv, Bookkeeping
<1>1. /\ Owed' = Owed
      /\ Overflowing' = Overflowing
      /\ \A h \in Handles : Holders(h)' = Holders(h)
  BY Frame DEF Publish
<1>2. Owed = 0 /\ residual = 0
  BY <1>0 DEF Publish, ResidualAccounting
<1>3. Placed'
  BY <1>0 DEF Publish, Placed
<1>4. CountsExact'
  BY <1>0, <1>1 DEF Publish, TypeOK, CountsExact
<1>5. FlagsDelivered'
  <2>1. \A h \in handles : to_map_index(refcounts[h]) = other(writer_map)
    BY <1>0 DEF Publish, FlagsDelivered
  <2>2. ASSUME NEW g \in Guards, gpc[g] \in Counted
        PROVE  gmap[g] = other(writer_map)
    BY <1>0, <1>2, <2>1, <2>2, NobodyOwes DEF Owes, Placed
  <2> QED
    BY <2>1, <2>2 DEF Publish, FlagsDelivered
<1>6. ResidualAccounting'
  BY <1>0, <1>1, <1>2 DEF Publish, ResidualAccounting, Sum
<1> QED
  BY <1>3, <1>4, <1>5, <1>6 DEF Bookkeeping

(* One turn of the loop makes the guards of one handle residual, all of    *)
(* them at once and none of them for the second time, and adds exactly     *)
(* their number to the sum, which wraps at most once.                      *)
LEMMA InvSwapMaps ==
  ASSUME IInv, NEW h \in Handles, SwapMaps(h)
  PROVE  Bookkeeping' /\ ResidualAccounting'
<1> USE DEF data, guards
<1>0. TypeOK /\ TodoInLoop /\ Placed /\ CountsExact /\ FlagsDelivered
      /\ ResidualAccounting
  BY DEF IInv, TypeInv, Bookkeeping
<1>1. h \in handles /\ h \in todo /\ wpc = "swap" /\ refcounts[h] \in usize
      /\ writer_map \in MapIndex
  BY <1>0 DEF SwapMaps, TypeOK
<1>2. /\ refcounts'[h] = maps_swapped(refcounts[h])
      /\ \A k \in Handles \ {h} : refcounts'[k] = refcounts[k]
  BY <1>0 DEF SwapMaps, TypeOK
<1>3. /\ to_map_index(refcounts[h]) = writer_map
      /\ to_map_index(refcounts'[h]) = other(writer_map)
      /\ to_count(refcounts'[h]) = to_count(refcounts[h])
  BY <1>0, <1>1, <1>2, MapsSwapped DEF FlagsDelivered
<1>4. Overflowing' = Overflowing /\ \A k \in Handles : Holders(k)' = Holders(k)
  BY DEF SwapMaps, Overflowing, Holders
<1>5. Placed'
  BY <1>0 DEF SwapMaps, Placed
<1>6. CountsExact'
  BY <1>0, <1>2, <1>3, <1>4 DEF SwapMaps, TypeOK, CountsExact
<1>7. FlagsDelivered'
  BY <1>0, <1>1, <1>2, <1>3 DEF SwapMaps, TypeOK, FlagsDelivered
<1>8. Owed' = Owed + to_count(refcounts[h])
  <2>1. Residuals \cap Holders(h) = {}
    BY <1>0, <1>1, <1>3 DEF Residuals, Holders, Owes, FlagsDelivered, Counted
  <2>2. Residuals' = Residuals \cup Holders(h)
    <3>1. ASSUME NEW g \in Guards, g \in Holders(h)
          PROVE  Owes(g)'
      BY <1>0, <1>1, <1>3, <3>1, Other
      DEF SwapMaps, Holders, Owes, FlagsDelivered
    <3>2. ASSUME NEW g \in Guards, g \notin Holders(h)
          PROVE  Owes(g)' <=> Owes(g)
      BY <1>0, <1>2, <3>2 DEF SwapMaps, Holders, Owes, Placed, TypeOK
    <3> QED
      BY <3>1, <3>2 DEF Residuals, Holders
  <2>3. Residuals \in SUBSET Guards /\ Holders(h) \in SUBSET Guards
    BY DEF Residuals, Holders
  <2>4. Cardinality(Residuals') =
          Cardinality(Residuals) + Cardinality(Holders(h)) - Cardinality({})
    BY <2>1, <2>2, <2>3, GuardSets, FS_Union
  <2> QED
    BY <1>0, <1>1, <2>3, <2>4, GuardSets, FS_EmptySet DEF Owed, CountsExact
<1>9. ResidualAccounting'
  <2>1. initial_residual >= 0 /\ initial_residual + residual = Owed /\ residual <= 0
    BY <1>0, <1>1, OverflowBitAssumption
    DEF SwapMaps, ResidualAccounting, Sum, TypeOK, isize, MAP_INDEX_FLAG
  <2>2. initial_residual \in 0 .. MAP_INDEX_FLAG - 1 /\ residual \in Int
    BY <1>0, <2>1, OverflowBitAssumption DEF TypeOK, isize, MAP_INDEX_FLAG
  <2>3. to_count(refcounts[h]) \in 0 .. MAP_INDEX_FLAG - 1
    BY <1>1, WordParts
  <2>4. Sum' = initial_residual + to_count(refcounts[h])
    BY <2>2, <2>3, OverflowBitAssumption
    DEF SwapMaps, Sum, isize_add, WORD, MAP_INDEX_FLAG, isize_MIN
  <2>5. wpc' = "swap" /\ residual' = residual
    BY <1>1 DEF SwapMaps
  <2>6. \A g \in Guards : gpc'[g] # "last"
    BY <1>0, <1>1 DEF SwapMaps, ResidualAccounting
  <2> QED
    BY <1>8, <2>1, <2>2, <2>3, <2>4, <2>5, <2>6, Sizes DEF ResidualAccounting
<1> QED
  BY <1>5, <1>6, <1>7, <1>9 DEF Bookkeeping

(* The rest of publish: the sum meets the early releases.                  *)
LEMMA InvAdd ==
  ASSUME IInv, Unlock \/ AddResidual
  PROVE  Bookkeeping' /\ ResidualAccounting'
<1> USE DEF core, data, guards
<1>0. TypeOK /\ TodoInLoop /\ Placed /\ CountsExact /\ FlagsDelivered
      /\ ResidualAccounting
  BY DEF IInv, TypeInv, Bookkeeping
<1>1. /\ Owed' = Owed
      /\ Overflowing' = Overflowing
      /\ \A h \in Handles : Holders(h)' = Holders(h)
  BY Frame DEF Unlock, AddResidual
<1>2. Placed'
  BY <1>0 DEF Unlock, AddResidual, Placed
<1>3. CountsExact'
  BY <1>0, <1>1 DEF Unlock, AddResidual, TypeOK, CountsExact
<1>4. FlagsDelivered'
  BY <1>0 DEF Unlock, AddResidual, FlagsDelivered
<1>5. ResidualAccounting'
  <2>1. CASE Unlock
    <3>1. Sum = initial_residual
      BY <1>0, <2>1, OverflowBitAssumption DEF Unlock, Sum, TypeOK, isize, MAP_INDEX_FLAG
    <3> QED
      BY <1>0, <1>1, <2>1, <3>1 DEF Unlock, ResidualAccounting
  <2>2. CASE AddResidual
    <3>1. initial_residual >= 0 /\ initial_residual + residual = Owed /\ residual <= 0
      BY <1>0, <2>2, Sizes, OverflowBitAssumption
      DEF AddResidual, ResidualAccounting, TypeOK, isize, MAP_INDEX_FLAG
    <3>2. initial_residual \in 0 .. MAP_INDEX_FLAG - 1 /\ residual \in Int
      BY <1>0, <3>1, OverflowBitAssumption DEF TypeOK, isize, MAP_INDEX_FLAG
    <3>3. residual' = Owed
      BY <2>2, <3>1, <3>2, Sizes, OverflowBitAssumption
      DEF AddResidual, isize_add, WORD, MAP_INDEX_FLAG, isize_MIN
    <3> QED
      BY <1>0, <1>1, <2>2, <3>3 DEF AddResidual, ResidualAccounting, Sum
  <2> QED
    BY <2>1, <2>2
<1> QED
  BY <1>2, <1>3, <1>4, <1>5 DEF Bookkeeping

-----------------------------------------------------------------------------
(* Read handles.                                                           *)

(* A clone gets a flag that agrees with everybody else's and no guards.    *)
LEMMA InvNewReader ==
  ASSUME IInv, NEW src \in Handles, NEW h \in Handles, NewReader(src, h)
  PROVE  Bookkeeping' /\ ResidualAccounting'
<1> USE DEF data, writer, guards
<1>0. TypeOK /\ TodoInLoop /\ Placed /\ CountsExact /\ FlagsDelivered
      /\ ResidualAccounting
  BY DEF IInv, TypeInv, Bookkeeping
<1>1. /\ h \notin handles /\ todo = {}
      /\ refcounts'[h] = RefCount_new(other(writer_map))
      /\ \A k \in Handles \ {h} : refcounts'[k] = refcounts[k]
      /\ writer_map \in MapIndex
  BY <1>0 DEF NewReader, mutex_free, TodoInLoop, TypeOK
<1>2. /\ to_map_index(refcounts'[h]) = other(writer_map)
      /\ to_count(refcounts'[h]) = 0
  BY <1>1, Other, NewRefCount
<1>3. Overflowing' = Overflowing /\ \A k \in Handles : Holders(k)' = Holders(k)
  BY DEF NewReader, Overflowing, Holders
<1>4. Placed'
  BY <1>0 DEF NewReader, Placed
<1>5. CountsExact'
  <2>1. Holders(h) = {}
    BY <1>0, <1>1 DEF Placed, Holders
  <2>2. Cardinality(Holders(h)) = 0
    BY <2>1, FS_EmptySet
  <2> QED
    BY <1>0, <1>1, <1>2, <1>3, <2>2, Sizes, OverflowBitAssumption
    DEF NewReader, TypeOK, CountsExact
<1>6. FlagsDelivered'
  BY <1>0, <1>1, <1>2 DEF NewReader, TypeOK, FlagsDelivered
<1>7. Owed' = Owed
  <2>1. ASSUME NEW g \in Guards PROVE Owes(g)' <=> Owes(g)
    BY <1>0, <1>1 DEF NewReader, Owes, Placed, TypeOK
  <2> QED
    BY <2>1 DEF Owed, Residuals
<1>8. ResidualAccounting'
  BY <1>0, <1>7 DEF NewReader, ResidualAccounting, Sum
<1> QED
  BY <1>4, <1>5, <1>6, <1>8 DEF Bookkeeping

(* Dropping a handle takes away forgotten guards only; those that owe keep *)
(* owing.                                                                  *)
LEMMA InvDropHandle ==
  ASSUME IInv, NEW h \in Handles, DropHandle(h)
  PROVE  Bookkeeping' /\ ResidualAccounting'
<1> USE DEF data, writer
<1> DEFINE gone == {g \in Guards : gpc[g] = "forgotten" /\ ghandle[g] = h}
           owed == {g \in gone : gmap[g] # to_map_index(refcounts[h])}
<1>0. TypeOK /\ TodoInLoop /\ Placed /\ CountsExact /\ FlagsDelivered
      /\ ResidualAccounting
  BY DEF IInv, TypeInv, Bookkeeping
<1>1. /\ h \in handles /\ todo = {} /\ todo' = {}
      /\ handles' = handles \ {h}
      /\ \A k \in Handles \ {h} : refcounts'[k] = refcounts[k]
  BY <1>0 DEF DropHandle, mutex_free, TodoInLoop, TypeOK
<1>2. ASSUME NEW g \in Guards
      PROVE  /\ g \notin gone => /\ gpc'[g] = gpc[g] /\ ghandle'[g] = ghandle[g]
                                 /\ gmap'[g] = gmap[g]
             /\ g \in owed => gpc'[g] = "stuck"
             /\ g \in gone \ owed => gpc'[g] = "free"
  BY DEF DropHandle
<1>3. ASSUME NEW g \in Guards, gpc[g] \in Counted, ghandle[g] = h
      PROVE  g \in gone
  BY <1>3 DEF DropHandle, Borrowers, Counted
<1>4. Placed'
  BY <1>0, <1>1, <1>2, <1>3 DEF Placed, Counted
<1>5. CountsExact'
  <2>1. Overflowing' = Overflowing
    BY <1>2 DEF Overflowing
  <2>2. ASSUME NEW k \in Handles \ {h} PROVE Holders(k)' = Holders(k)
    BY <1>2 DEF Holders, Counted
  <2> QED
    BY <1>0, <1>1, <2>1, <2>2 DEF TypeOK, CountsExact
<1>6. FlagsDelivered'
  BY <1>0, <1>1 DEF DropHandle, TypeOK, FlagsDelivered
<1>7. Owed' = Owed
  <2>1. ASSUME NEW g \in Guards PROVE Owes(g)' <=> Owes(g)
    <3>1. CASE g \in gone
      BY <1>2, <3>1 DEF Owes, Counted
    <3>2. CASE g \notin gone
      BY <1>0, <1>1, <1>2, <1>3, <3>2 DEF Owes, Placed, TypeOK
    <3> QED
      BY <3>1, <3>2
  <2> QED
    BY <2>1 DEF Owed, Residuals
<1>8. ResidualAccounting'
  <2>1. \A g \in Guards : gpc'[g] = "last" <=> gpc[g] = "last"
    BY <1>2
  <2>2. UNCHANGED <<wpc, residual, initial_residual>>
    BY DEF DropHandle
  <2> QED
    BY <1>0, <1>7, <2>1, <2>2 DEF ResidualAccounting, Sum
<1> QED
  BY <1>4, <1>5, <1>6, <1>8 DEF Bookkeeping

-----------------------------------------------------------------------------
(* Read guards.                                                            *)

(* A new guard is counted once, cannot carry into the flag, and is not     *)
(* residual: it reads the copy its own increment saw.                      *)
LEMMA InvGuard ==
  ASSUME IInv, NEW g \in Guards, NEW h \in Handles, Guard(g, h)
  PROVE  Bookkeeping' /\ ResidualAccounting'
<1> USE DEF data, writer
<1>0. TypeOK /\ Placed /\ CountsExact /\ FlagsDelivered /\ ResidualAccounting
  BY DEF IInv, TypeInv, Bookkeeping
<1>1. /\ h \in handles /\ gpc[g] = "free" /\ refcounts[h] \in usize
      /\ refcounts'[h] = incremented(refcounts[h])
      /\ \A k \in Handles \ {h} : refcounts'[k] = refcounts[k]
      /\ gpc'[g] = IF overflowed(refcounts[h]) THEN "overflowed" ELSE "live"
      /\ ghandle'[g] = h
      /\ gmap'[g] = to_map_index(refcounts[h])
      /\ \A k \in Guards \ {g} : /\ gpc'[k] = gpc[k] /\ ghandle'[k] = ghandle[k]
                                  /\ gmap'[k] = gmap[k]
  BY <1>0 DEF Guard, TypeOK
<1>2. /\ to_count(refcounts[h]) = Cardinality(Holders(h))
      /\ Cardinality(Holders(h)) <= COUNT_OVERFLOW_BIT + Cardinality(Overflowing)
      /\ Cardinality(Overflowing) <= COUNT_OVERFLOW_BIT - 1
      /\ overflowed(refcounts[h]) => Cardinality(Overflowing) < COUNT_OVERFLOW_BIT - 1
  BY <1>0, <1>1 DEF CountsExact, Guard
<1>3. to_count(refcounts[h]) < MAP_INDEX_FLAG - 1
  BY <1>2, Sizes, OverflowBitAssumption DEF overflowed, MAP_INDEX_FLAG
<1>4. /\ to_map_index(refcounts'[h]) = to_map_index(refcounts[h])
      /\ to_count(refcounts'[h]) = to_count(refcounts[h]) + 1
  BY <1>1, <1>3, Incremented
<1>5. Placed'
  BY <1>0, <1>1 DEF Guard, Placed
<1>6. CountsExact'
  <2>1. /\ Holders(h)' = Holders(h) \cup {g}
        /\ \A k \in Handles \ {h} : Holders(k)' = Holders(k)
    BY <1>1 DEF Holders, Counted
  <2>2. Cardinality(Holders(h)') = Cardinality(Holders(h)) + 1
    <3>1. g \notin Holders(h) /\ Holders(h) \in SUBSET Guards
      BY <1>1 DEF Holders, Counted
    <3> QED
      BY <2>1, <3>1, GuardSets, FS_AddElement
  <2>3. /\ overflowed(refcounts[h]) =>
             Cardinality(Overflowing') = Cardinality(Overflowing) + 1
        /\ ~overflowed(refcounts[h]) => Overflowing' = Overflowing
    <3>1. g \notin Overflowing /\ Overflowing \in SUBSET Guards
      BY <1>1 DEF Overflowing
    <3>2. overflowed(refcounts[h]) => Overflowing' = Overflowing \cup {g}
      BY <1>1 DEF Overflowing
    <3>3. ~overflowed(refcounts[h]) => Overflowing' = Overflowing
      BY <1>1 DEF Overflowing
    <3> QED
      BY <3>1, <3>2, <3>3, GuardSets, FS_AddElement
  <2>4. ~overflowed(refcounts[h]) => Cardinality(Holders(h)) < COUNT_OVERFLOW_BIT
    BY <1>2, Sizes, OverflowBitAssumption DEF overflowed
  <2>5. /\ Cardinality(Overflowing)' <= COUNT_OVERFLOW_BIT - 1
        /\ Cardinality(Overflowing)' >= Cardinality(Overflowing)
        /\ Cardinality(Holders(h))' <= COUNT_OVERFLOW_BIT + Cardinality(Overflowing)'
    BY <1>2, <2>2, <2>3, <2>4, Sizes, OverflowBitAssumption
  <2>6. ASSUME NEW k \in handles'
        PROVE  /\ to_count(refcounts'[k]) = Cardinality(Holders(k))'
               /\ Cardinality(Holders(k))' <= COUNT_OVERFLOW_BIT + Cardinality(Overflowing)'
    <3>1. k \in handles /\ k \in Handles
      BY <1>0 DEF Guard, TypeOK
    <3>2. CASE k = h
      BY <1>2, <1>4, <2>2, <2>5, <3>2
    <3>3. CASE k # h
      <4>1. Holders(k)' = Holders(k) /\ refcounts'[k] = refcounts[k]
        BY <1>1, <2>1, <3>1, <3>3
      <4>2. /\ to_count(refcounts[k]) = Cardinality(Holders(k))
            /\ Cardinality(Holders(k)) <= COUNT_OVERFLOW_BIT + Cardinality(Overflowing)
        BY <1>0, <3>1 DEF CountsExact
      <4>3. Cardinality(Overflowing)' \in Nat /\ Cardinality(Holders(k)) \in Nat
        BY <2>3, <3>1, Sizes
      <4> QED
        BY <2>5, <4>1, <4>2, <4>3, Sizes, OverflowBitAssumption
    <3> QED
      BY <3>2, <3>3
  <2> QED
    BY <2>5, <2>6 DEF CountsExact
<1>7. FlagsDelivered'
  BY <1>0, <1>1, <1>4 DEF Guard, TypeOK, FlagsDelivered
<1>8. Owed' = Owed
  <2>1. ASSUME NEW k \in Guards PROVE Owes(k)' <=> Owes(k)
    BY <1>0, <1>1, <1>4 DEF Owes, Placed, TypeOK, Counted
  <2> QED
    BY <2>1 DEF Owed, Residuals
<1>9. ResidualAccounting'
  BY <1>0, <1>1, <1>8 DEF Guard, ResidualAccounting, Sum
<1> QED
  BY <1>5, <1>6, <1>7, <1>9 DEF Bookkeeping

(* Dropping a guard uncounts it; if the flag moved during its life it is   *)
(* still residual, on its way to release_residual.                         *)
LEMMA InvDropGuard ==
  ASSUME IInv, NEW g \in Guards, DropGuard(g)
  PROVE  Bookkeeping' /\ ResidualAccounting'
<1> USE DEF data, writer
<1>0. TypeOK /\ Placed /\ CountsExact /\ FlagsDelivered /\ ResidualAccounting
  BY DEF IInv, TypeInv, Bookkeeping
<1>h. PICK h \in Handles : h = ghandle[g] /\ h \in handles
  BY <1>0 DEF DropGuard, Placed, Counted, TypeOK
<1>1. gpc[g] = "live" /\ h \in handles /\ h \in Handles /\ refcounts[h] \in usize
  BY <1>0, <1>h DEF DropGuard, TypeOK
<1>2. /\ refcounts'[h] = decremented(refcounts[h])
      /\ \A k \in Handles \ {h} : refcounts'[k] = refcounts[k]
      /\ \A k \in Guards \ {g} : /\ gpc'[k] = gpc[k] /\ ghandle'[k] = ghandle[k]
                                  /\ gmap'[k] = gmap[k]
      /\ gpc'[g] = IF to_map_index(refcounts[h]) # gmap[g] THEN "release" ELSE "free"
  BY <1>0, <1>h, <1>1 DEF DropGuard, Leave, TypeOK
<1>3. /\ g \in Holders(h) /\ Holders(h) \in SUBSET Guards
      /\ to_count(refcounts[h]) = Cardinality(Holders(h))
  BY <1>0, <1>h, <1>1 DEF Holders, Counted, CountsExact
<1>4. Holders(h)' = Holders(h) \ {g} /\ \A k \in Handles \ {h} : Holders(k)' = Holders(k)
  <2>1. gpc'[g] \notin Counted
    BY <1>2 DEF Counted
  <2>2. g \notin Holders(h)' /\ \A k \in Handles \ {h} : g \notin Holders(k)
    BY <1>h, <2>1 DEF Holders
  <2> QED
    BY <1>2, <2>1, <2>2 DEF Holders
<1>5. Cardinality(Holders(h)') = Cardinality(Holders(h)) - 1
  BY <1>3, <1>4, GuardSets, FS_RemoveElement
<1>6. to_count(refcounts[h]) > 0
  <2>1. Cardinality(Holders(h)) # 0
    BY <1>3, GuardSets, FS_EmptySet
  <2> QED
    BY <1>1, <1>3, <2>1, Sizes
<1>7. /\ to_map_index(refcounts'[h]) = to_map_index(refcounts[h])
      /\ to_count(refcounts'[h]) = to_count(refcounts[h]) - 1
  BY <1>1, <1>2, <1>6, Decremented
<1>8. Placed'
  BY <1>0, <1>2 DEF DropGuard, Placed, Counted
<1>9. CountsExact'
  <2>1. Overflowing' = Overflowing
    BY <1>1, <1>2 DEF Overflowing
  <2>2. ASSUME NEW k \in handles
        PROVE  /\ to_count(refcounts'[k]) = Cardinality(Holders(k)')
               /\ Cardinality(Holders(k)') <= COUNT_OVERFLOW_BIT + Cardinality(Overflowing)
    <3>1. /\ k \in Handles
          /\ to_count(refcounts[k]) = Cardinality(Holders(k))
          /\ Cardinality(Holders(k)) <= COUNT_OVERFLOW_BIT + Cardinality(Overflowing)
      BY <1>0 DEF CountsExact, TypeOK
    <3>2. CASE k = h
      BY <1>5, <1>7, <3>1, <3>2, Sizes, OverflowBitAssumption
    <3>3. CASE k # h
      BY <1>2, <1>4, <3>1, <3>3
    <3> QED
      BY <3>2, <3>3
  <2>3. handles' = handles
    BY DEF DropGuard
  <2> QED
    BY <1>0, <2>1, <2>2, <2>3 DEF CountsExact
<1>10. FlagsDelivered'
  BY <1>0, <1>2, <1>7 DEF DropGuard, TypeOK, FlagsDelivered, Counted
<1>11. Owed' = Owed
  <2>1. ASSUME NEW k \in Guards PROVE Owes(k)' <=> Owes(k)
    BY <1>0, <1>h, <1>1, <1>2, <1>7 DEF Owes, Placed, TypeOK, Counted
  <2> QED
    BY <2>1 DEF Owed, Residuals
<1>12. ResidualAccounting'
  BY <1>0, <1>1, <1>2, <1>11 DEF DropGuard, ResidualAccounting, Sum
<1> QED
  BY <1>8, <1>9, <1>10, <1>12 DEF Bookkeeping

(* A step of one guard between states in which it is not counted leaves    *)
(* all the bookkeeping alone; so does forgetting a guard.                  *)
LEMMA Uncounted ==
  ASSUME IInv, NEW g \in Guards,
         \A k \in Guards \ {g} : /\ gpc'[k] = gpc[k] /\ ghandle'[k] = ghandle[k]
                                 /\ gmap'[k] = gmap[k],
         \/ gpc[g] \notin Counted /\ gpc'[g] \notin Counted
         \/ /\ gpc[g] = "live" /\ gpc'[g] = "forgotten"
            /\ ghandle'[g] = ghandle[g] /\ gmap'[g] = gmap[g],
         UNCHANGED <<handles, refcounts, writer_map, todo, wpc, initial_residual, aborted>>
  PROVE  /\ Bookkeeping'
         /\ \A k \in Guards \ {g} : Owes(k)' <=> Owes(k)
<1>0. TypeOK /\ Placed /\ CountsExact /\ FlagsDelivered
  BY DEF IInv, TypeInv, Bookkeeping
<1>1. Overflowing' = Overflowing /\ \A h \in Handles : Holders(h)' = Holders(h)
  BY DEF Overflowing, Holders, Counted
<1>2. Placed'
  BY <1>0 DEF Placed, Counted
<1>3. CountsExact'
  BY <1>0, <1>1 DEF CountsExact, TypeOK
<1>4. FlagsDelivered'
  BY <1>0 DEF FlagsDelivered, Counted
<1>5. \A k \in Guards \ {g} : Owes(k)' <=> Owes(k)
  BY DEF Owes
<1> QED
  BY <1>2, <1>3, <1>4, <1>5 DEF Bookkeeping

(* release_residual's fetch_sub: one residual guard less.                  *)
LEMMA InvReleaseResidual ==
  ASSUME IInv, NEW g \in Guards, ReleaseResidual(g)
  PROVE  Bookkeeping' /\ ResidualAccounting'
<1> USE DEF data, writer
<1>0. TypeOK /\ ResidualAccounting
  BY DEF IInv, TypeInv, Bookkeeping
<1>1. /\ gpc[g] = "release"
      /\ gpc'[g] = IF residual # isize_MIN + 1 THEN "free" ELSE "last"
      /\ \A k \in Guards \ {g} : /\ gpc'[k] = gpc[k] /\ ghandle'[k] = ghandle[k]
                                  /\ gmap'[k] = gmap[k]
      /\ UNCHANGED <<handles, refcounts, writer_map, todo, wpc, initial_residual, aborted>>
  BY <1>0 DEF ReleaseResidual, Leave, TypeOK
<1>2. Bookkeeping' /\ \A k \in Guards \ {g} : Owes(k)' <=> Owes(k)
  BY <1>1, Uncounted DEF Counted
<1>3. Owed' = Owed - 1 /\ Owed > 0
  <2>1. g \in Residuals /\ Residuals \in SUBSET Guards
    BY <1>1 DEF Residuals, Owes
  <2>2. Residuals' = Residuals \ {g}
    BY <1>1, <1>2 DEF Residuals, Owes, Counted
  <2>3. Cardinality(Residuals \ {g}) = Cardinality(Residuals) - 1
    BY <2>1, GuardSets, FS_RemoveElement
  <2>4. Owed > 0
    BY <1>1, OwedPositive DEF Owes
  <2> QED
    BY <2>2, <2>3, <2>4 DEF Owed
<1>4. residual \in isize /\ residual' = isize_add(residual, -1) /\ initial_residual \in isize
  BY <1>0 DEF ReleaseResidual, TypeOK
<1>5. wpc \notin {"flush", "writing", "dropped", "reset"}
  BY <1>0, <1>3 DEF ResidualAccounting
<1> USE <1>1, <1>3, <1>4, Sizes, OverflowBitAssumption
    DEF isize, isize_add, isize_MIN, WORD, MAP_INDEX_FLAG
<1>6. CASE wpc \in {"idle", "set_thread", "set_flag"}
  <2>1. residual = Owed /\ residual' = Owed' /\ gpc'[g] = "free"
    BY <1>0, <1>6 DEF ResidualAccounting
  <2> QED
    BY <1>0, <1>2, <1>6, <2>1 DEF ResidualAccounting, Sum
<1>7. CASE wpc \in {"swap", "add"}
  <2>1. residual <= 0 /\ residual > isize_MIN + 1
    BY <1>0, <1>7 DEF ResidualAccounting, Sum, ReleaseResidual, SumOverflowed
  <2>2. residual' = residual - 1 /\ gpc'[g] = "free"
    BY <2>1
  <2> QED
    BY <1>0, <1>2, <1>7, <2>1, <2>2 DEF ResidualAccounting, Sum
<1>8. CASE wpc \in {"park", "recheck"}
  <2>1. residual = isize_MIN + Owed /\ residual' = residual - 1
    BY <1>0, <1>8 DEF ResidualAccounting
  <2>2. \A k \in Guards : gpc[k] # "last"
    BY <1>0, <2>1 DEF ResidualAccounting
  <2> QED
    BY <1>0, <1>2, <1>8, <2>1, <2>2 DEF ResidualAccounting, Sum
<1> QED
  BY <1>0, <1>5, <1>6, <1>7, <1>8 DEF TypeOK, WriterPC

(* The other steps of a guard change no count.                             *)
LEMMA InvGuardRest ==
  ASSUME IInv, NEW g \in Guards,
         ForgetGuard(g) \/ StoreZero(g) \/ Unpark(g)
  PROVE  Bookkeeping' /\ ResidualAccounting'
<1> USE DEF core, data, writer, guards
<1>0. TypeOK /\ Bookkeeping /\ ResidualAccounting
  BY DEF IInv, TypeInv
<1>1. /\ \A k \in Guards \ {g} : /\ gpc'[k] = gpc[k] /\ ghandle'[k] = ghandle[k]
                                  /\ gmap'[k] = gmap[k]
      /\ UNCHANGED <<handles, refcounts, writer_map, todo, wpc, initial_residual, aborted>>
  BY <1>0 DEF ForgetGuard, StoreZero, Unpark, Leave, TypeOK
<1>2. \/ /\ gpc[g] = "last" /\ gpc'[g] = "unpark" /\ StoreZero(g)
      \/ gpc[g] = "unpark" /\ gpc'[g] = "free" /\ residual' = residual
      \/ /\ gpc[g] = "live" /\ gpc'[g] = "forgotten" /\ residual' = residual
         /\ ghandle'[g] = ghandle[g] /\ gmap'[g] = gmap[g]
  BY <1>0 DEF ForgetGuard, StoreZero, Unpark, Leave, TypeOK
<1>3. Bookkeeping' /\ \A k \in Guards \ {g} : Owes(k)' <=> Owes(k)
  BY <1>1, <1>2, Uncounted DEF Counted
<1>4. Owes(g)' <=> Owes(g)
  BY <1>1, <1>2 DEF Owes, Counted
<1>5. Owed' = Owed
  BY <1>3, <1>4 DEF Owed, Residuals
<1>6. CASE StoreZero(g)
  <2>1. wpc \in {"park", "recheck"} /\ residual = isize_MIN /\ residual' = 0
        /\ \A k \in Guards : gpc'[k] # "last"
    BY <1>0, <1>1, <1>2, <1>6 DEF StoreZero, ResidualAccounting
  <2>2. Owed = 0
    BY <1>0, <2>1, Sizes, OverflowBitAssumption
    DEF ResidualAccounting, isize_MIN, MAP_INDEX_FLAG
  <2> QED
    BY <1>1, <1>3, <1>5, <2>1, <2>2 DEF ResidualAccounting, Sum
<1>7. CASE residual' = residual /\ ~StoreZero(g)
  BY <1>0, <1>1, <1>2, <1>3, <1>5, <1>7 DEF ResidualAccounting, Sum
<1> QED
  BY <1>2, <1>6, <1>7

(* An abort, in increment or in publish, changes nothing else.             *)
LEMMA InvAbort ==
  ASSUME IInv, AbortPublish \/ \E g \in Guards : Abort(g)
  PROVE  Bookkeeping' /\ ResidualAccounting'
<1>0. TypeOK /\ Bookkeeping /\ ResidualAccounting
  BY DEF IInv, TypeInv
<1>1. UNCHANGED <<handles, refcounts, writer_map, todo, wpc, initial_residual,
                  residual, gpc, ghandle, gmap>>
  BY DEF AbortPublish, Abort, core, writer, guards
<1>2. /\ Owed' = Owed
      /\ Overflowing' = Overflowing
      /\ \A h \in Handles : Holders(h)' = Holders(h)
  BY <1>1, Frame
<1>3. Placed' /\ FlagsDelivered'
  BY <1>0, <1>1 DEF Bookkeeping, Placed, FlagsDelivered
<1>4. CountsExact'
  BY <1>0, <1>1, <1>2 DEF Bookkeeping, CountsExact, TypeOK
<1>5. ResidualAccounting'
  BY <1>0, <1>1, <1>2 DEF ResidualAccounting, Sum
<1> QED
  BY <1>3, <1>4, <1>5 DEF Bookkeeping

(* Every step preserves the invariant.                                     *)
LEMMA InvStep == IInv /\ [Next]_vars => IInv'
<1> SUFFICES ASSUME IInv, [Next]_vars PROVE IInv'
  OBVIOUS
<1>1. TypeInv'
  BY TypeStep DEF IInv
<1>2. Bookkeeping' /\ ResidualAccounting'
  <2>1. CASE UNCHANGED vars \/ Terminated
    <3>1. UNCHANGED vars
      BY <2>1 DEF Terminated
    <3>2. /\ Owed' = Owed
          /\ Overflowing' = Overflowing
          /\ \A h \in Handles : Holders(h)' = Holders(h)
      BY <3>1, Frame DEF vars, core, guards
    <3>3. Placed' /\ FlagsDelivered' /\ ResidualAccounting'
      BY <3>1, <3>2
      DEF vars, core, writer, guards, IInv, Bookkeeping, Placed, FlagsDelivered,
          ResidualAccounting, Sum
    <3>4. CountsExact'
      BY <3>1, <3>2
      DEF vars, core, IInv, TypeInv, TypeOK, Bookkeeping, CountsExact
    <3> QED
      BY <3>3, <3>4 DEF Bookkeeping
  <2>2. CASE ~aborted /\ Next
    BY <2>1, <2>2, InvWriter, InvPublish, InvSwapMaps, InvAdd, InvNewReader, InvDropHandle,
       InvGuard, InvDropGuard, InvReleaseResidual, InvGuardRest, InvAbort
    DEF Next, WriterStep, ReleaseStep
  <2>3. CASE aborted /\ Next
    BY <2>1, <2>3 DEF Next
  <2> QED
    BY <2>1, <2>2, <2>3
<1> QED
  BY <1>1, <1>2 DEF IInv

LEMMA Invariance == Spec => []IInv
BY InvInit, InvStep, PTL DEF Spec

-----------------------------------------------------------------------------
(* While the writer is on its copy nobody owes, so that every live guard   *)
(* is where its handle's flag points: the other copy.                      *)
LEMMA Exclusive == IInv => WriterExclusive
<1> SUFFICES ASSUME IInv, WriterOwns
             PROVE  /\ \A g \in Guards : gpc[g] = "live" => gmap[g] # writer_map
                    /\ \A h \in handles : to_map_index(refcounts[h]) # writer_map
  BY DEF WriterExclusive
<1>1. Owed = 0 /\ todo = {} /\ writer_map \in MapIndex
  BY DEF IInv, TypeInv, TypeOK, TodoInLoop, ResidualAccounting, WriterOwns
<1>2. \A h \in handles : to_map_index(refcounts[h]) = other(writer_map)
  BY <1>1 DEF IInv, Bookkeeping, FlagsDelivered
<1>3. ASSUME NEW g \in Guards, gpc[g] = "live"
      PROVE  gmap[g] = other(writer_map)
  BY <1>1, <1>2, <1>3, NobodyOwes DEF IInv, Bookkeeping, Placed, Owes, Counted
<1> QED
  BY <1>1, <1>2, <1>3, Other

(* The copy the writer owns, to mutate it or to reclaim values from, is    *)
(* read by no live guard and handed out by no handle, in any               *)
(* interleaving of any number of readers with publish, synchronize, clones *)
(* and drops.                                                              *)
THEOREM MutualExclusion == Spec => []WriterExclusive
BY Invariance, Exclusive, PTL

(* Core::residual counts exactly the guards left on the old copy, through  *)
(* early releases, the waiting flag and the wrap-around of the words, up   *)
(* to the abort that a wrapped sum ends in.                                *)
THEOREM ResidualExact == Spec => []ResidualAccounting
<1>1. IInv => ResidualAccounting
  BY DEF IInv
<1> QED
  BY <1>1, Invariance, PTL

(* Every RefCount is exact: its count is the number of its handle's guards *)
(* whatever threads overflow it, its flag is the reader's copy or the one  *)
(* publish has yet to swap it from.                                        *)
THEOREM RefCountsExact == Spec => []Bookkeeping
<1>1. IInv => Bookkeeping
  BY DEF IInv
<1> QED
  BY <1>1, Invariance, PTL
=============================================================================
