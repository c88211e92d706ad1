-------------------------- MODULE CoreWakeupProofs --------------------------
(***************************************************************************)
(* The hand-over between the last residual reader and a parked writer: no  *)
(* wakeup is lost, the assertions in the code cannot fail, writer_thread   *)
(* is not raced for, and only readers keep a writer waiting.               *)
(***************************************************************************)
EXTENDS CoreProofs

(* A waiting writer has recorded its own thread; whoever unparks finds a   *)
(* thread.  While residual is negative somebody is still to release or has *)
(* just released last; once it is zero the unpark is pending or delivered. *)
ThreadRecorded ==
  wpc \in {"set_flag", "reset", "park", "recheck"} => writer_thread = current

UnparkHasTarget == \A g \in Guards : gpc[g] = "unpark" => writer_thread # None

WakeupComing ==
  wpc \in {"park", "recheck"} /\ residual < 0 =>
    Owed > 0 \/ \E g \in Guards : gpc[g] = "last"

WakeupSent ==
  wpc = "park" /\ residual = 0 =>
    token[current] \/ \E g \in Guards : gpc[g] = "unpark"

Wakeup == ThreadRecorded /\ UnparkHasTarget /\ WakeupComing /\ WakeupSent

(* Addition on integers can be undone.                                     *)
LEMMA Cancel == \A c, x, y \in Int : c + x = c + y => x = y
OBVIOUS

LEMMA WakeupInit == Init => Wakeup
BY DEF Init, Wakeup, ThreadRecorded, UnparkHasTarget, WakeupComing, WakeupSent

(* The writer inside synchronize.                                          *)
LEMMA WakeupWriter ==
  ASSUME IInv, Wakeup,
         SetWriterThread \/ SetWaitFlag \/ ResetResidual \/ Park \/ ParkSpuriously \/ Recheck
  PROVE  Wakeup'
<1> USE DEF core, data, writer, guards, Return
<1>0. TypeOK /\ ResidualAccounting
  BY DEF IInv, TypeInv
<1>1. ThreadRecorded'
  BY DEF Wakeup, ThreadRecorded, SetWriterThread, SetWaitFlag, ResetResidual, Park,
         ParkSpuriously, Recheck
<1>2. UnparkHasTarget'
  BY <1>0, CoreAssumption
  DEF Wakeup, UnparkHasTarget, SetWriterThread, SetWaitFlag, ResetResidual, Park,
      ParkSpuriously, Recheck, TypeOK
<1>3. Owed' = Owed
  BY Frame DEF SetWriterThread, SetWaitFlag, ResetResidual, Park, ParkSpuriously, Recheck
<1>4. WakeupComing' /\ WakeupSent'
  <2>1. CASE SetWriterThread \/ ResetResidual
    BY <2>1 DEF SetWriterThread, ResetResidual, WakeupComing, WakeupSent
  <2>2. CASE SetWaitFlag
    <3>1. residual = Owed /\ Owed \in Nat /\ residual < MAP_INDEX_FLAG
      BY <1>0, <2>2, Sizes, OverflowBitAssumption
      DEF SetWaitFlag, ResidualAccounting, TypeOK, isize, MAP_INDEX_FLAG
    <3>2. residual' = residual - MAP_INDEX_FLAG /\ residual' < 0
      BY <2>2, <3>1, OverflowBitAssumption
      DEF SetWaitFlag, isize_add, isize_MIN, WORD, MAP_INDEX_FLAG
    <3>3. wpc' \in {"park", "recheck"} => Owed' > 0
      BY <1>3, <2>2, <3>1 DEF SetWaitFlag
    <3> QED
      BY <3>2, <3>3 DEF WakeupComing, WakeupSent
  <2>3. CASE Park \/ ParkSpuriously \/ Recheck
    BY <1>3, <2>3 DEF Park, ParkSpuriously, Recheck, Wakeup, WakeupComing, WakeupSent
  <2> QED
    BY <2>1, <2>2, <2>3
<1> QED
  BY <1>1, <1>2, <1>4 DEF Wakeup

(* Steps of the writer outside synchronize, which nobody waits for.        *)
LEMMA WakeupOutside ==
  ASSUME IInv, Wakeup,
         \/ \E c \in Calls : Synchronize(c)
         \/ \E t \in Threads : MoveWriter(t)
         \/ FlushOperations \/ WriteOp \/ Publish
         \/ (\E h \in Handles : SwapMaps(h)) \/ AbortPublish \/ Unlock \/ AddResidual
  PROVE  Wakeup'
<1> USE DEF core, data, writer, guards, Return
<1>1. /\ wpc' \notin {"set_flag", "reset", "park", "recheck"}
      /\ UNCHANGED <<writer_thread, gpc>>
  BY DEF Synchronize, MoveWriter, FlushOperations, WriteOp, Publish, SwapMaps, AbortPublish,
         SumOverflowed, Unlock, AddResidual
<1> QED
  BY <1>1 DEF Wakeup, ThreadRecorded, UnparkHasTarget, WakeupComing, WakeupSent

(* Steps of readers that leave residual and the wakeup alone.              *)
LEMMA WakeupReaders ==
  ASSUME IInv, IInv', Wakeup,
         UNCHANGED <<residual, writer_thread, wpc, current, token>>,
         \A g \in Guards : \A pc \in {"last", "unpark"} : gpc'[g] = pc <=> gpc[g] = pc
  PROVE  Wakeup'
<1>1. ThreadRecorded' /\ UnparkHasTarget' /\ WakeupSent'
  BY DEF Wakeup, ThreadRecorded, UnparkHasTarget, WakeupSent
<1>2. WakeupComing'
  <2> SUFFICES ASSUME wpc \in {"park", "recheck"}, residual < 0
               PROVE  Owed' > 0 \/ \E g \in Guards : gpc'[g] = "last"
    BY DEF WakeupComing
  <2>1. residual = isize_MIN + Owed /\ residual = isize_MIN + Owed'
    BY DEF IInv, ResidualAccounting
  <2>2. Owed' = Owed
    <3>1. Owed \in Nat /\ Owed' \in Nat
      BY GuardSets DEF Owed, Residuals
    <3>2. isize_MIN \in Int
      BY OverflowBitAssumption DEF isize_MIN, MAP_INDEX_FLAG
    <3>3. isize_MIN + Owed = isize_MIN + Owed'
      BY <2>1
    <3>4. Owed \in Int /\ Owed' \in Int
      BY <3>1
    <3> QED
      BY <3>2, <3>3, <3>4, Cancel
  <2> QED
    BY <2>2 DEF Wakeup, WakeupComing
<1> QED
  BY <1>1, <1>2 DEF Wakeup

(* release_residual.                                                       *)
LEMMA WakeupRelease ==
  ASSUME IInv, IInv', Wakeup, NEW g \in Guards,
         ReleaseResidual(g) \/ StoreZero(g) \/ Unpark(g)
  PROVE  Wakeup'
<1> USE DEF core, data, writer
<1>0. TypeOK /\ ResidualAccounting
  BY DEF IInv, TypeInv
<1>1. /\ UNCHANGED <<writer_thread, wpc, current>>
      /\ \A k \in Guards \ {g} : gpc'[k] = gpc[k]
  BY <1>0 DEF ReleaseResidual, StoreZero, Unpark, Leave, TypeOK
<1>2. CASE ReleaseResidual(g)
  <2>1. /\ gpc[g] = "release" /\ UNCHANGED token
        /\ gpc'[g] = IF residual # isize_MIN + 1 THEN "free" ELSE "last"
    BY <1>0, <1>2 DEF ReleaseResidual, Leave, TypeOK
  <2>2. ThreadRecorded' /\ UnparkHasTarget'
    BY <1>1, <2>1 DEF Wakeup, ThreadRecorded, UnparkHasTarget
  <2>3. Owed > 0 /\ Owed \in Nat
    BY <2>1, OwedPositive, Sizes DEF Owes
  <2>4. CASE wpc \in {"park", "recheck"}
    <3>1. residual = isize_MIN + Owed /\ residual < 0
      BY <1>0, <2>3, <2>4 DEF ResidualAccounting
    <3>2. residual' = residual - 1
      BY <1>2, <2>3, <3>1, OverflowBitAssumption
      DEF ReleaseResidual, isize_add, isize_MIN, WORD, MAP_INDEX_FLAG
    <3>3. residual' = isize_MIN + Owed'
      BY <1>1, <2>4, <3>1, <3>2, <2>3, OverflowBitAssumption
      DEF IInv, ResidualAccounting, isize_MIN, MAP_INDEX_FLAG
    <3>4. Owed' \in Nat
      BY GuardSets DEF Owed, Residuals
    <3>5. Owed' > 0 \/ gpc'[g] = "last"
      <4>1. isize_MIN \in Int
        BY OverflowBitAssumption DEF isize_MIN, MAP_INDEX_FLAG
      <4>2. Owed' = Owed - 1
        <5>1. isize_MIN + Owed' = isize_MIN + (Owed - 1)
          BY <2>3, <3>1, <3>2, <3>3, <4>1
        <5>2. Owed' \in Int /\ Owed - 1 \in Int
          BY <2>3, <3>4
        <5> QED
          BY <4>1, <5>1, <5>2, Cancel
      <4> QED
        BY <2>1, <2>3, <3>1, <3>4, <4>1, <4>2
    <3>6. residual' # 0
      BY <2>3, <3>1, <3>2, OverflowBitAssumption DEF isize_MIN, MAP_INDEX_FLAG
    <3> QED
      BY <2>2, <3>5, <3>6 DEF Wakeup, WakeupComing, WakeupSent
  <2>5. CASE wpc \notin {"park", "recheck"}
    BY <1>1, <2>2, <2>5 DEF Wakeup, WakeupComing, WakeupSent
  <2> QED
    BY <2>4, <2>5
<1>3. CASE StoreZero(g)
  <2>1. /\ gpc[g] = "last" /\ gpc'[g] = "unpark" /\ UNCHANGED token /\ residual' = 0
        /\ wpc \in {"park", "recheck"}
    BY <1>0, <1>3 DEF StoreZero, TypeOK, ResidualAccounting
  <2>2. writer_thread = current /\ current # None
    BY <1>0, <2>1, CoreAssumption DEF Wakeup, ThreadRecorded, TypeOK
  <2> QED
    BY <1>1, <2>1, <2>2
    DEF Wakeup, ThreadRecorded, UnparkHasTarget, WakeupComing, WakeupSent
<1>4. CASE Unpark(g)
  <2>1. /\ gpc[g] = "unpark" /\ gpc'[g] = "free" /\ residual' = residual
        /\ \A t \in Threads : token'[t] <=> token[t] \/ t = writer_thread
    BY <1>0, <1>4 DEF Unpark, Leave, TypeOK
  <2>2. ThreadRecorded' /\ UnparkHasTarget'
    BY <1>1, <2>1 DEF Wakeup, ThreadRecorded, UnparkHasTarget
  <2>3. WakeupSent'
    BY <1>0, <1>1, <2>1 DEF Wakeup, WakeupSent, ThreadRecorded, TypeOK
  <2>4. Owed' = Owed
    <3>1. \A k \in Guards : Owes(k)' <=> Owes(k)
      BY <1>0, <1>4, <2>1 DEF Unpark, Leave, Owes, Counted, TypeOK
    <3> QED
      BY <3>1 DEF Owed, Residuals
  <2>5. WakeupComing'
    BY <1>1, <2>1, <2>4 DEF Wakeup, WakeupComing
  <2> QED
    BY <2>2, <2>3, <2>5 DEF Wakeup
<1> QED
  BY <1>2, <1>3, <1>4

LEMMA WakeupStep == IInv /\ IInv' /\ Wakeup /\ [Next]_vars => Wakeup'
<1> SUFFICES ASSUME IInv, IInv', Wakeup, [Next]_vars PROVE Wakeup'
  OBVIOUS
<1> USE DEF core, data, writer, guards
<1>0. TypeOK
  BY DEF IInv, TypeInv
<1>1. CASE UNCHANGED vars \/ Terminated
  BY <1>1, WakeupReaders DEF vars, Terminated
<1>2. ASSUME NEW src \in Handles, NEW h \in Handles, NewReader(src, h) PROVE Wakeup'
  BY <1>2, WakeupReaders DEF NewReader
<1>3. ASSUME NEW h \in Handles, DropHandle(h) PROVE Wakeup'
  <2>1. \A g \in Guards : \A pc \in {"last", "unpark"} : gpc'[g] = pc <=> gpc[g] = pc
    BY <1>3 DEF DropHandle
  <2> QED
    BY <1>3, <2>1, WakeupReaders DEF DropHandle
<1>4. ASSUME NEW g \in Guards, NEW h \in Handles, Guard(g, h) PROVE Wakeup'
  BY <1>0, <1>4, WakeupReaders DEF Guard, TypeOK
<1>5. ASSUME NEW g \in Guards, DropGuard(g) \/ ForgetGuard(g) PROVE Wakeup'
  BY <1>0, <1>5, WakeupReaders DEF DropGuard, ForgetGuard, Leave, TypeOK
<1>6. ASSUME NEW g \in Guards, Abort(g) PROVE Wakeup'
  BY <1>6, WakeupReaders DEF Abort
<1>7. ASSUME NEW g \in Guards, ReleaseResidual(g) \/ StoreZero(g) \/ Unpark(g)
      PROVE  Wakeup'
  BY <1>7, WakeupRelease
<1> QED
  BY <1>1, <1>2, <1>3, <1>4, <1>5, <1>6, <1>7, WakeupWriter, WakeupOutside
  DEF Next, WriterStep, ReleaseStep

LEMMA WakeupInvariance == Spec => [](IInv /\ Wakeup)
<1>1. Init => IInv /\ Wakeup
  BY InvInit, WakeupInit
<1>2. (IInv /\ Wakeup) /\ [Next]_vars => (IInv /\ Wakeup)'
  BY InvStep, WakeupStep
<1> QED
  BY <1>1, <1>2, PTL DEF Spec

-----------------------------------------------------------------------------
(* A writer in thread::park without a token has recorded the thread it is  *)
(* on, whatever the earlier moves of the write handle between threads, and *)
(* unless a residual guard was forgotten some guard's drop is still to run *)
(* or on its way to the unpark, with any number of readers.                *)
THEOREM WakeupNeverLost == Spec => []NoLostWakeup
<1>1. IInv /\ Wakeup => NoLostWakeup
  <2> SUFFICES ASSUME IInv, Wakeup, wpc = "park", ~token[current]
               PROVE  /\ writer_thread = current
                      /\ \E g \in Guards : g \in Residuals \/ gpc[g] \in {"last", "unpark"}
    BY DEF NoLostWakeup
  <2>1. writer_thread = current
    BY DEF Wakeup, ThreadRecorded
  <2>2. residual < 0 \/ residual = 0
    BY DEF IInv, ResidualAccounting
  <2>3. CASE residual = 0
    BY <2>1, <2>3 DEF Wakeup, WakeupSent
  <2>4. CASE residual < 0
    <3>1. Owed > 0 => \E g \in Guards : g \in Residuals
      <4>1. Residuals = {} => Owed = 0
        BY FS_EmptySet DEF Owed
      <4> QED
        BY <4>1 DEF Residuals
    <3> QED
      BY <2>1, <2>4, <3>1 DEF Wakeup, WakeupComing
  <2> QED
    BY <2>2, <2>3, <2>4
<1> QED
  BY <1>1, WakeupInvariance, PTL

(* None of the three assertions in src/core/mod.rs can fail, in builds     *)
(* that check them or not.                                                 *)
THEOREM AssertionsHold == Spec => []CodeAssertions
<1>1. IInv /\ Wakeup => CodeAssertions
  <2> SUFFICES ASSUME IInv, Wakeup PROVE CodeAssertions
    OBVIOUS
  <2>1. residual \in Int
    BY OverflowBitAssumption DEF IInv, TypeInv, TypeOK, isize, MAP_INDEX_FLAG
  <2> QED
    BY <2>1 DEF IInv, ResidualAccounting, Wakeup, UnparkHasTarget, CodeAssertions
<1> QED
  BY <1>1, WakeupInvariance, PTL

-----------------------------------------------------------------------------
(* When park returns by its token only, the hand-over is exclusive: from   *)
(* the last release to the return of park there is one reader on its way,  *)
(* or one token, and the writer stays parked on its thread.                *)
Waking(g) == gpc[g] \in {"last", "unpark"}

Handover ==
  /\ \A g \in Guards : Waking(g) =>
       /\ wpc = "park"
       /\ \A t \in Threads : ~token[t]
       /\ \A k \in Guards : Waking(k) => k = g
  /\ \A g \in Guards : gpc[g] = "unpark" => residual = 0
  /\ \A t \in Threads : token[t] => wpc = "park" /\ t = current /\ residual = 0
  /\ wpc = "recheck" => residual = 0

LEMMA HandoverInit == Init => Handover
BY DEF Init, Handover, Waking

(* With no reader on its way and no token, only the writer matters.        *)
LEMMA HandoverIdle ==
  ASSUME Handover, wpc # "park", wpc' # "recheck", UNCHANGED <<gpc, token>>
  PROVE  Handover'
BY DEF Handover, Waking

(* Readers that are not waking leave the hand-over alone.                  *)
LEMMA HandoverReaders ==
  ASSUME Handover, UNCHANGED <<residual, wpc, current, token>>,
         \A g \in Guards : \A pc \in {"last", "unpark"} : gpc'[g] = pc <=> gpc[g] = pc
  PROVE  Handover'
BY DEF Handover, Waking

LEMMA HandoverRelease ==
  ASSUME IInv, IInv', Wakeup, Handover, NEW g \in Guards,
         ReleaseResidual(g) \/ StoreZero(g) \/ Unpark(g)
  PROVE  Handover'
<1> USE DEF core, data, writer
<1>0. TypeOK /\ ResidualAccounting /\ ResidualAccounting'
  BY DEF IInv, TypeInv
<1>1. /\ UNCHANGED <<writer_thread, wpc, current>>
      /\ \A k \in Guards \ {g} : gpc'[k] = gpc[k]
  BY <1>0 DEF ReleaseResidual, StoreZero, Unpark, Leave, TypeOK
<1>2. CASE ReleaseResidual(g)
  <2>1. /\ gpc[g] = "release" /\ UNCHANGED token
        /\ gpc'[g] = IF residual # isize_MIN + 1 THEN "free" ELSE "last"
    BY <1>0, <1>2 DEF ReleaseResidual, Leave, TypeOK
  <2>2. Owed > 0 /\ Owed \in Nat
    BY <2>1, OwedPositive, Sizes DEF Owes
  <2>3. wpc \in {"park", "recheck"} => residual = isize_MIN + Owed /\ residual < 0
    BY <1>0, <2>2 DEF ResidualAccounting
  <2>4. /\ wpc # "recheck"
        /\ \A t \in Threads : ~token[t]
        /\ \A k \in Guards : gpc[k] # "unpark"
    BY <2>3 DEF Handover, Waking
  <2>5. \A k \in Guards : gpc[k] # "last"
    <3>1. ASSUME NEW k \in Guards, gpc[k] = "last" PROVE FALSE
      <4>1. residual = isize_MIN /\ residual = isize_MIN + Owed
        BY <1>0, <2>3, <3>1 DEF ResidualAccounting
      <4>2. isize_MIN \in Int
        BY OverflowBitAssumption DEF isize_MIN, MAP_INDEX_FLAG
      <4> QED
        BY <2>2, <4>1, <4>2
    <3> QED
      BY <3>1
  <2>6. gpc'[g] = "last" => wpc = "park"
    BY <1>0, <1>1, <2>4 DEF ResidualAccounting
  <2> QED
    BY <1>1, <2>1, <2>4, <2>5, <2>6 DEF Handover, Waking
<1>3. CASE StoreZero(g)
  <2>1. gpc[g] = "last" /\ gpc'[g] = "unpark" /\ UNCHANGED token /\ residual' = 0
    BY <1>0, <1>3 DEF StoreZero, TypeOK
  <2> QED
    BY <1>1, <2>1 DEF Handover, Waking
<1>4. CASE Unpark(g)
  <2>1. /\ gpc[g] = "unpark" /\ gpc'[g] = "free" /\ residual' = residual
        /\ \A t \in Threads : token'[t] <=> token[t] \/ t = writer_thread
    BY <1>0, <1>4 DEF Unpark, Leave, TypeOK
  <2>2. wpc = "park" /\ writer_thread = current /\ residual = 0
    BY <2>1 DEF Handover, Waking, Wakeup, ThreadRecorded
  <2> QED
    BY <1>1, <2>1, <2>2 DEF Handover, Waking
<1> QED
  BY <1>2, <1>3, <1>4

LEMMA HandoverStep ==
  ASSUME IInv, IInv', Wakeup, Handover, [Next]_vars, ~ParkSpuriously
  PROVE  Handover'
<1> USE DEF core, data, writer, guards
<1>0. TypeOK
  BY DEF IInv, TypeInv
<1>1. CASE UNCHANGED vars \/ Terminated
  BY <1>1, HandoverReaders DEF vars, Terminated
<1>2. CASE \/ \E c \in Calls : Synchronize(c)
           \/ \E t \in Threads : MoveWriter(t)
           \/ SetWriterThread \/ SetWaitFlag \/ ResetResidual \/ FlushOperations \/ WriteOp
           \/ Publish \/ (\E h \in Handles : SwapMaps(h)) \/ AbortPublish \/ Unlock
           \/ AddResidual
  <2>1. wpc # "park" /\ wpc' # "recheck" /\ UNCHANGED <<gpc, token>>
    BY <1>2 DEF Synchronize, MoveWriter, SetWriterThread, SetWaitFlag, ResetResidual,
                FlushOperations, WriteOp, Publish, SwapMaps, AbortPublish, SumOverflowed,
                Unlock, AddResidual, Return
  <2> QED
    BY <2>1, HandoverIdle
<1>3. CASE Park
  BY <1>0, <1>3 DEF Park, Handover, Waking, TypeOK
<1>4. CASE Recheck
  BY <1>4 DEF Recheck, Return, Handover, Waking
<1>5. CASE ParkSpuriously
  BY <1>5
<1>6. ASSUME NEW src \in Handles, NEW h \in Handles, NewReader(src, h) PROVE Handover'
  BY <1>6, HandoverReaders DEF NewReader
<1>7. ASSUME NEW h \in Handles, DropHandle(h) PROVE Handover'
  <2>1. \A g \in Guards : \A pc \in {"last", "unpark"} : gpc'[g] = pc <=> gpc[g] = pc
    BY <1>7 DEF DropHandle
  <2> QED
    BY <1>7, <2>1, HandoverReaders DEF DropHandle
<1>8. ASSUME NEW g \in Guards, NEW h \in Handles, Guard(g, h) PROVE Handover'
  BY <1>0, <1>8, HandoverReaders DEF Guard, TypeOK
<1>9. ASSUME NEW g \in Guards, DropGuard(g) \/ ForgetGuard(g) \/ Abort(g) PROVE Handover'
  BY <1>0, <1>9, HandoverReaders DEF DropGuard, ForgetGuard, Abort, Leave, TypeOK
<1>10. ASSUME NEW g \in Guards, ReleaseResidual(g) \/ StoreZero(g) \/ Unpark(g)
       PROVE  Handover'
  BY <1>10, HandoverRelease
<1> QED
  BY <1>1, <1>2, <1>3, <1>4, <1>5, <1>6, <1>7, <1>8, <1>9, <1>10
  DEF Next, WriterStep, ReleaseStep

(* If park returns by its token only, the plain cell writer_thread is not  *)
(* raced for: nobody is about to read it when the writer assigns it.  With *)
(* spurious wakeups this is false (run spurious_wakeup).                   *)
THEOREM WriterThreadNotRaced == ~SpuriousWakeups => (Spec => []WriterThreadRaceFree)
<1> SUFFICES ASSUME ~SpuriousWakeups PROVE Spec => []WriterThreadRaceFree
  OBVIOUS
<1>1. Init => Handover
  BY HandoverInit
<1>2. (IInv /\ Wakeup) /\ (IInv /\ Wakeup)' /\ Handover /\ [Next]_vars => Handover'
  BY HandoverStep DEF ParkSpuriously
<1>3. Handover => WriterThreadRaceFree
  BY DEF Handover, Waking, WriterThreadRaceFree
<1> QED
  BY <1>1, <1>2, <1>3, WakeupInvariance, PTL DEF Spec

-----------------------------------------------------------------------------
(* When no read guard is forgotten, every guard that is not free borrows   *)
(* its handle, up to the end of its drop.                                  *)
Borrowing == {"live", "release", "last", "unpark", "overflowed"}

Borrowed ==
  \A g \in Guards : /\ gpc[g] \in Borrowing \cup {"free"}
                    /\ gpc[g] \in Borrowing => ghandle[g] \in handles

LEMMA BorrowedInit == Init => Borrowed
BY DEF Init, Borrowed, Borrowing

LEMMA BorrowedStep ==
  ASSUME ~ForgetGuards, TypeOK, Borrowed, [Next]_vars
  PROVE  Borrowed'
<1> USE DEF core, data, writer, guards, Borrowing
<1>1. ASSUME NEW src \in Handles, NEW h \in Handles, NewReader(src, h) PROVE Borrowed'
  BY <1>1 DEF NewReader, Borrowed
<1>2. ASSUME NEW h \in Handles, DropHandle(h) PROVE Borrowed'
  <2>1. \A g \in Guards : gpc'[g] = gpc[g] /\ ghandle'[g] = ghandle[g]
    BY <1>2 DEF DropHandle, Borrowed
  <2>2. \A g \in Guards : gpc[g] \in Borrowing => ghandle[g] # h
    BY <1>2 DEF DropHandle, Borrowers
  <2> QED
    BY <1>2, <2>1, <2>2 DEF DropHandle, Borrowed
<1>3. ASSUME NEW g \in Guards, NEW h \in Handles, Guard(g, h) PROVE Borrowed'
  BY <1>3 DEF Guard, Borrowed, TypeOK
<1>4. ASSUME NEW g \in Guards, DropGuard(g) \/ ReleaseStep(g) PROVE Borrowed'
  BY <1>4 DEF DropGuard, ReleaseStep, Abort, ReleaseResidual, StoreZero, Unpark, Leave,
              Borrowed, TypeOK
<1>5. ASSUME NEW g \in Guards, ForgetGuard(g) PROVE Borrowed'
  BY <1>5 DEF ForgetGuard
<1>6. CASE UNCHANGED <<handles, gpc, ghandle>>
  BY <1>6 DEF Borrowed
<1> QED
  BY <1>1, <1>2, <1>3, <1>4, <1>5, <1>6
  DEF Next, WriterStep, Terminated, vars, Synchronize, SetWriterThread, SetWaitFlag,
      ResetResidual, Park, ParkSpuriously, Recheck, MoveWriter, FlushOperations, WriteOp,
      Publish, SwapMaps, AbortPublish, Unlock, AddResidual

(* When no read guard is forgotten, a writer that has to wait waits for a  *)
(* handle that exists: with every read handle gone, synchronize does not   *)
(* block.  A forgotten guard breaks this (run forgotten_read_guard).       *)
THEOREM OnlyReadersBlock == ~ForgetGuards => (Spec => []WaitsForReaders)
<1> SUFFICES ASSUME ~ForgetGuards PROVE Spec => []WaitsForReaders
  OBVIOUS
<1>1. Init => Borrowed
  BY BorrowedInit
<1>2. IInv /\ Borrowed /\ [Next]_vars => Borrowed'
  BY BorrowedStep DEF IInv, TypeInv
<1>3. Borrowed /\ NoLostWakeup => WaitsForReaders
  BY DEF Borrowed, Borrowing, NoLostWakeup, Abandoned, Residuals, WaitsForReaders, Owes, Counted
<1> QED
  BY <1>1, <1>2, <1>3, Invariance, WakeupNeverLost, PTL DEF Spec
=============================================================================
