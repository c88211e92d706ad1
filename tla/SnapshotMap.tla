---------------------------- MODULE SnapshotMap ----------------------------
(***************************************************************************)
(* What flashmap promises its users, with no copies, counters or parking:  *)
(* a single-writer map whose versions are numbered, read handles that show *)
(* a version each, and read guards that hold a version each.               *)
(*                                                                         *)
(* The promise is stronger than snapshot reads.  A version is published    *)
(* only when every handle shows the previous one and no guard holds an     *)
(* older one, so that at most two versions are ever reachable: the two     *)
(* copies of the map suffice.                                              *)
(***************************************************************************)
EXTENDS Naturals

CONSTANTS Handles, Guards, None   \* None is not a version

VARIABLES
  version,   \* the version the writer published last
  shown,     \* the version a guard made from each handle would hold
  held       \* the version each guard holds

vars == <<version, shown, held>>

Alive == {h \in Handles : shown[h] # None}
Held  == {held[g] : g \in Guards} \ {None}

Init ==
  /\ version = 0
  /\ \E h \in Handles : shown = [k \in Handles |-> IF k = h THEN 0 ELSE None]
  /\ held = [g \in Guards |-> None]

(* The writer publishes; it never loses an operation.                      *)
Publish ==
  /\ version' \in Nat /\ version' >= version
  /\ \A h \in Alive : shown[h] = version
  /\ Held \subseteq {version}
  /\ UNCHANGED <<shown, held>>

(* The handles move to the new version one by one.                         *)
Deliver(h) ==
  /\ h \in Alive
  /\ shown' = [shown EXCEPT ![h] = version]
  /\ UNCHANGED <<version, held>>

(* A handle is cloned; the clone shows the newest version, and so does     *)
(* every other handle.                                                     *)
Clone(h) ==
  /\ Alive # {}
  /\ h \in Handles \ Alive
  /\ \A k \in Alive : shown[k] = version
  /\ shown' = [shown EXCEPT ![h] = version]
  /\ UNCHANGED <<version, held>>

Drop(h) ==
  /\ h \in Alive
  /\ shown' = [shown EXCEPT ![h] = None]
  /\ UNCHANGED <<version, held>>

Open(g, h) ==
  /\ held[g] = None
  /\ h \in Alive
  /\ held' = [held EXCEPT ![g] = shown[h]]
  /\ UNCHANGED <<version, shown>>

Close(g) ==
  /\ held[g] # None
  /\ held' = [held EXCEPT ![g] = None]
  /\ UNCHANGED <<version, shown>>

Next ==
  \/ Publish
  \/ \E h \in Handles : Deliver(h) \/ Clone(h) \/ Drop(h)
  \/ \E g \in Guards, h \in Handles : Open(g, h)
  \/ \E g \in Guards : Close(g)

Spec == Init /\ [][Next]_vars
=============================================================================
