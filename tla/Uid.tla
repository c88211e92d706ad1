-------------------------------- MODULE Uid --------------------------------
(***************************************************************************)
(* WriterUid (src/write.rs): the numbers by which the maps of a process    *)
(* recognise their own leaked values.                                      *)
(*                                                                         *)
(* A Leaked has no lifetime: it may outlive its map and be offered to any  *)
(* write handle of the process.  The handle compares uids, which come from *)
(* one global counter of the width of a usize.                             *)
(***************************************************************************)
EXTENDS Naturals

CONSTANTS
  Maps,     \* the maps a process may build, each at most once
  Values,   \* values that may be leaked
  None,     \* no uid, no leaked value
  WORD      \* 2^usize::BITS

VARIABLES
  NEXT_WRITER_UID,  \* the counter
  uid,              \* the uid of each map that was built
  live,             \* the maps whose write handle exists
  leaked,           \* Leaked { value, handle_uid } and the map it came from
  panicked,         \* has WriterUid::next panicked?
  accepted          \* auxiliary: who accepted a value, and whose it was

vars == <<NEXT_WRITER_UID, uid, live, leaked, panicked, accepted>>

Init ==
  /\ NEXT_WRITER_UID = 1
  /\ uid = [m \in Maps |-> None]
  /\ live = {}
  /\ leaked = [v \in Values |-> None]
  /\ panicked = FALSE
  /\ accepted = {}

(* WriteHandle::new: WriterUid::next panics on zero, after its fetch_add.  *)
Build(m) ==
  /\ uid[m] = None
  /\ NEXT_WRITER_UID' = (NEXT_WRITER_UID + 1) % WORD
  /\ IF NEXT_WRITER_UID # 0
     THEN /\ uid' = [uid EXCEPT ![m] = NEXT_WRITER_UID]
          /\ live' = live \cup {m}
          /\ UNCHANGED panicked
     ELSE /\ panicked' = TRUE
          /\ UNCHANGED <<uid, live>>
  /\ UNCHANGED <<leaked, accepted>>

(* The write handle is dropped.                                            *)
Drop(m) ==
  /\ m \in live
  /\ live' = live \ {m}
  /\ UNCHANGED <<NEXT_WRITER_UID, uid, leaked, panicked, accepted>>

(* Evicted::new takes the uid of the guard's handle, leak keeps it.        *)
Leak(m, v) ==
  /\ m \in live
  /\ leaked[v] = None
  /\ leaked' = [leaked EXCEPT ![v] = [map |-> m, handle_uid |-> uid[m]]]
  /\ UNCHANGED <<NEXT_WRITER_UID, uid, live, panicked, accepted>>

(* reclaimer's function and drop_lazily: the value is consumed; with       *)
(* another uid the assertion panics.                                       *)
Take(m, v) ==
  /\ m \in live
  /\ leaked[v] # None
  /\ leaked' = [leaked EXCEPT ![v] = None]
  /\ accepted' = IF leaked[v].handle_uid = uid[m]
                 THEN accepted \cup {[by |-> m, of |-> leaked[v].map]} ELSE accepted
  /\ UNCHANGED <<NEXT_WRITER_UID, uid, live, panicked>>

(* Leaked::into_inner: the alias goes to the user, unchecked.              *)
IntoInner(v) ==
  /\ leaked[v] # None
  /\ leaked' = [leaked EXCEPT ![v] = None]
  /\ UNCHANGED <<NEXT_WRITER_UID, uid, live, panicked, accepted>>

Next ==
  \/ \E m \in Maps : Build(m) \/ Drop(m)
  \/ \E m \in Maps, v \in Values : Leak(m, v) \/ Take(m, v)
  \/ \E v \in Values : IntoInner(v)

Spec == Init /\ [][Next]_vars

-----------------------------------------------------------------------------
(* A write handle gives out, or takes into its log, only values of its own *)
(* map (write.rs: "Panics if the leaked value provided came from a         *)
(* different map then the one this handle is associated with").            *)
OwnValuesOnly == \A a \in accepted : a.by = a.of

(* The check is sound as long as no construction has panicked, whatever    *)
(* was built, dropped, leaked and offered to whom.                         *)
OwnValuesUntilPanic == ~panicked => OwnValuesOnly
=============================================================================
