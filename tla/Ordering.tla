------------------------------ MODULE Ordering ------------------------------
(***************************************************************************)
(* Happens-before: are the orderings that flashmap gives its atomics and   *)
(* fences enough to keep the plain memory they guard free of data races?   *)
(*                                                                         *)
(* The steps are those of Core.  Beside them, knows records for every      *)
(* agent and every place it can leave a view in, which accesses to plain   *)
(* memory happen before what the agent does next, or are passed on to      *)
(* whoever acquires the place.  A new access is known to its agent only.   *)
(*                                                                         *)
(* Values are those of an interleaving.  Every access whose result decides *)
(* anything is a read-modify-write, which reads the newest value, or the   *)
(* writer's load of residual, for which an older value is that of an       *)
(* earlier load.                                                           *)
(***************************************************************************)
EXTENDS Core

VARIABLES
  knows,   \* the view of each place
  early    \* has thread::park ever returned without a token?

ordered_vars == <<vars, knows, early>>

(* Agents: the writer, whichever thread owns it (moving it orders the      *)
(* threads), the guards, and the holders of a read handle before and after *)
(* its guards.  Locations: each RefCount, residual, the refcounts mutex    *)
(* and the park tokens.  Fenced is what a relaxed write of the writer      *)
(* releases, Pending what its next acquire fence acquires.                 *)
Writer      == <<"writer">>
Reader(g)   == <<"reader", g>>
Holder(h)   == <<"holder", h>>
Ended(h)    == <<"ended", h>>
Counter(h)  == <<"refcount", h>>
Residual    == <<"residual">>
Mutex       == <<"mutex">>
Token(t)    == <<"token", t>>
Fenced      == <<"fenced">>
Pending     == <<"pending">>

Places ==
  {Writer, Residual, Mutex, Fenced, Pending}
    \cup {Reader(g) : g \in Guards}
    \cup (UNION {{Holder(h), Ended(h), Counter(h)} : h \in Handles})
    \cup {Token(t) : t \in Threads}

(* Accesses to plain memory: the newest write of each copy of the map, the *)
(* reads of each copy by a guard, the newest write and read of             *)
(* writer_thread.                                                          *)
WriteOf(i)   == <<"write", i>>
ReadOf(g, i) == <<"read", g, i>>
CellWrite    == <<"cell_write">>
CellRead     == <<"cell_read">>

Reads    == {ReadOf(g, i) : g \in Guards, i \in MapIndex} \cup {CellRead}
Writes   == {WriteOf(i) : i \in MapIndex} \cup {CellWrite}
Accesses == Reads \cup Writes

-----------------------------------------------------------------------------
(* The orderings in the code.                                              *)
increment_ordering       == "Acquire"
swap_maps_ordering       == "Relaxed"
release_ordering         == "AcqRel"    \* release_residual, fetch_sub
store_zero_ordering      == "Release"   \* release_residual, store
load_ordering            == "Acquire"   \* synchronize, first load
reset_ordering           == "Release"   \* synchronize, store
recheck_ordering         == "Acquire"   \* synchronize, load after park
add_residual_ordering    == "Relaxed"   \* publish, fetch_add

(* Mutants: the decrement, the release half of the fetch_add(isize::MIN)   *)
(* and the first fence of publish are relaxed.                             *)
decrement_relaxed        == "Relaxed"
wait_flag_acquire        == "Acquire"
first_fence_relaxed      == "Relaxed"

decrement_ordering       == "Release"
wait_flag_ordering       == "AcqRel"    \* synchronize, fetch_add
first_fence              == "Release"   \* publish
last_fence               == "Acquire"   \* publish

Acquires(ord) == ord \in {"Acquire", "AcqRel"}
Releases(ord) == ord \in {"Release", "AcqRel"}

-----------------------------------------------------------------------------
(* What each place has to carry: reads matter to the writer, and only      *)
(* until it knows of them; writes of a copy to readers, through a RefCount *)
(* or a cloned handle; the write of writer_thread to the reader that       *)
(* unparks, through residual.  A view that carries less can only make the  *)
(* properties below harder to satisfy.                                     *)
Carries(p) ==
  CASE p[1] \in {"writer", "reader"} -> Accesses
    [] p[1] \in {"holder", "refcount", "mutex", "fenced"} -> Accesses \ {CellWrite}
    [] p[1] = "residual" -> Reads \cup {CellWrite}
    [] p[1] \in {"ended", "token", "pending"} -> Reads

Settled(k) ==
  [p \in Places |-> IF p = Writer THEN k[p]
                    ELSE (k[p] \cap Carries(p)) \ (k[Writer] \cap Reads)]

(* What an atomic access by agent a to location l does to the views k.  A  *)
(* read-modify-write continues the release sequence it reads from; a store *)
(* starts a new one.                                                       *)
Passed(k, a, ord) ==
  IF Releases(ord) THEN k[a] ELSE IF a = Writer THEN k[Fenced] ELSE {}

Got(k, a, l, ord) ==
  IF Acquires(ord) THEN [k EXCEPT ![a] = @ \cup k[l]]
  ELSE IF a = Writer THEN [k EXCEPT ![Pending] = @ \cup k[l]] ELSE k

Put(k, a, l, ord) == [k EXCEPT ![l] = @ \cup Passed(k, a, ord)]

load(k, a, l, ord)      == Got(k, a, l, ord)
store(k, a, l, ord)     == [k EXCEPT ![l] = Passed(k, a, ord)]
fetch_add(k, a, l, ord) == Put(Got(k, a, l, ord), a, l, ord)

lock(k, a)   == load(k, a, Mutex, "Acquire")
unlock(k, a) == Put(k, a, Mutex, "Release")

(* An access to plain memory by a: what others knew of the location is     *)
(* out of date.                                                            *)
Access(k, a, e) ==
  [p \in Places |-> IF p = a THEN k[p] \cup {e} ELSE k[p] \ {e}]

(* The guard g ends; whoever drops the handle later does so after it.      *)
End(k, g) ==
  [k EXCEPT ![Ended(ghandle[g])] = @ \cup k[Reader(g)], ![Reader(g)] = {}]

Update(k) == knows' = Settled(k) /\ UNCHANGED early

-----------------------------------------------------------------------------
OrderedInit ==
  /\ Init
  /\ knows = [p \in Places |->
       CASE p = Writer -> Accesses
         [] \E h \in handles : p = Holder(h) -> Writes \ {CellWrite}
         [] OTHER -> {}]
  /\ early = FALSE

Synchronize_ordered(c) ==
  /\ Synchronize(c)
  /\ Update(load(knows, Writer, Residual, load_ordering))

SetWriterThread_ordered ==
  /\ SetWriterThread
  /\ Update(Access(knows, Writer, CellWrite))

SetWaitFlag_ordered ==
  /\ SetWaitFlag
  /\ Update(fetch_add(knows, Writer, Residual, wait_flag_ordering))

ResetResidual_ordered ==
  /\ ResetResidual
  /\ Update(store(knows, Writer, Residual, reset_ordering))

(* thread::park acquires what the unpark it consumes released.             *)
Park_ordered ==
  /\ Park
  /\ Update([load(knows, Writer, Token(current), "Acquire")
                 EXCEPT ![Token(current)] = {}])

ParkSpuriously_ordered ==
  /\ ParkSpuriously
  /\ early' = TRUE
  /\ UNCHANGED knows

Recheck_ordered ==
  /\ Recheck
  /\ Update(load(knows, Writer, Residual, recheck_ordering))

MoveWriter_ordered(t) == MoveWriter(t) /\ UNCHANGED <<knows, early>>

(* flush_operations and the write guard take the copy by &mut, whether or  *)
(* not they change an entry.                                               *)
FlushOperations_ordered ==
  /\ FlushOperations
  /\ Update(Access(knows, Writer, WriteOf(writer_map)))

WriteOp_ordered ==
  /\ WriteOp
  /\ Update(Access(knows, Writer, WriteOf(writer_map)))

(* fence(Release), then the lock.                                          *)
Publish_ordered ==
  /\ Publish
  /\ Update(lock([knows EXCEPT ![Fenced] =
                      IF Releases(first_fence) THEN knows[Writer] ELSE {}],
                   Writer))

SwapMaps_ordered(h) ==
  /\ SwapMaps(h)
  /\ Update(fetch_add(knows, Writer, Counter(h), swap_maps_ordering))

Unlock_ordered ==
  /\ Unlock
  /\ Update(unlock(knows, Writer))

(* The fetch_add, then fence(Acquire).  No relaxed access of the writer    *)
(* comes before the next pair of fences.                                   *)
AddResidual_ordered ==
  LET k == fetch_add(knows, Writer, Residual, add_residual_ordering) IN
  /\ AddResidual
  /\ Update([k EXCEPT
                 ![Writer] = @ \cup (IF Acquires(last_fence) THEN k[Pending] ELSE {}),
                 ![Pending] = {}, ![Fenced] = {}])

(* The clone is made by a holder of src, under the lock.                   *)
NewReader_ordered(src, h) ==
  /\ NewReader(src, h)
  /\ Update([unlock(knows, Holder(src))
                 EXCEPT ![Holder(h)] = knows[Holder(src)] \cup knows[Mutex]])

(* The handle is dropped after its guards, by a holder, under the lock.    *)
DropHandle_ordered(h) ==
  /\ DropHandle(h)
  /\ Update([knows EXCEPT ![Mutex] = @ \cup knows[Holder(h)] \cup knows[Ended(h)],
                            ![Holder(h)] = {}, ![Ended(h)] = {}, ![Counter(h)] = {}])

(* A guard starts from what the holder of its handle knows and reads as    *)
(* long as it is live.  The name of a guard is used again only when the    *)
(* writer knows of its last reads: Guards bounds the reads that the writer *)
(* does not know of.  Aborts are left out: a thread that finds the         *)
(* overflow bit reads nothing, and a publish whose sum overflowed goes no  *)
(* further.                                                                *)
Retired(g) == \A i \in MapIndex : ReadOf(g, i) \in knows[Writer]

Guard_ordered(g, h) ==
  LET k == fetch_add([knows EXCEPT ![Reader(g)] = knows[Holder(h)]],
                     Reader(g), Counter(h), increment_ordering) IN
  /\ Retired(g)
  /\ ~overflowed(refcounts[h])
  /\ Guard(g, h)
  /\ Update(Access(k, Reader(g), ReadOf(g, gmap'[g])))

DropGuard_ordered(g) ==
  LET k == fetch_add(knows, Reader(g), Counter(ghandle[g]), decrement_ordering) IN
  /\ DropGuard(g)
  /\ Update(IF gpc'[g] = "free" THEN End(k, g) ELSE k)

ReleaseResidual_ordered(g) ==
  LET k == fetch_add(knows, Reader(g), Residual, release_ordering) IN
  /\ ReleaseResidual(g)
  /\ Update(IF gpc'[g] = "free" THEN End(k, g) ELSE k)

StoreZero_ordered(g) ==
  /\ StoreZero(g)
  /\ Update(store(knows, Reader(g), Residual, store_zero_ordering))

(* The read of writer_thread, and the unpark.                              *)
Unpark_ordered(g) ==
  LET k == Access(knows, Reader(g), CellRead) IN
  /\ Unpark(g)
  /\ Update(End(Put(k, Reader(g), Token(writer_thread), "Release"), g))

OrderedNext ==
  \/ /\ ~aborted
     /\ \/ \E c \in Calls : Synchronize_ordered(c)
        \/ SetWriterThread_ordered
        \/ SetWaitFlag_ordered
        \/ ResetResidual_ordered
        \/ Park_ordered
        \/ ParkSpuriously_ordered
        \/ Recheck_ordered
        \/ \E t \in Threads : MoveWriter_ordered(t)
        \/ FlushOperations_ordered
        \/ WriteOp_ordered
        \/ Publish_ordered
        \/ \E h \in Handles : SwapMaps_ordered(h)
        \/ Unlock_ordered
        \/ AddResidual_ordered
        \/ \E src, h \in Handles : NewReader_ordered(src, h)
        \/ \E h \in Handles : DropHandle_ordered(h)
        \/ \E g \in Guards, h \in Handles : Guard_ordered(g, h)
        \/ \E g \in Guards : \/ DropGuard_ordered(g)
                             \/ ReleaseResidual_ordered(g)
                             \/ StoreZero_ordered(g)
                             \/ Unpark_ordered(g)
  \/ Terminated /\ UNCHANGED <<knows, early>>

OrderedSpec == OrderedInit /\ [][OrderedNext]_ordered_vars

-----------------------------------------------------------------------------
(* What a live guard reads was written before, in happens-before: the      *)
(* newest write of its copy reached it through the swap of its RefCount,   *)
(* or through the mutex if its handle was cloned after the publish.        *)
ReadsAfterWrites ==
  \A g \in Guards : gpc[g] = "live" => WriteOf(gmap[g]) \in knows[Reader(g)]

(* When the writer may change its copy, every read of that copy by any     *)
(* guard so far happens before: a guard that left before its handle was    *)
(* swapped, during the publish, while the writer waited, last or not, or   *)
(* whose handle is gone.                                                   *)
WritesAfterReads ==
  wpc \in {"flush", "writing"} =>
    \A g \in Guards : ReadOf(g, writer_map) \in knows[Writer]

(* As long as park only returns by its token, the accesses to the plain    *)
(* cell writer_thread are ordered: the reader that unparks knows of the    *)
(* writer's assignment, and the writer assigns again only when it knows of *)
(* that read.                                                              *)
CellOrdered ==
  ~early =>
    /\ \A g \in Guards : gpc[g] = "unpark" => CellWrite \in knows[Reader(g)]
    /\ wpc = "set_thread" => CellRead \in knows[Writer]
=============================================================================
