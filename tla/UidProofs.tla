----------------------------- MODULE UidProofs -----------------------------
(* Before the counter wraps, uids tell maps apart.                         *)
EXTENDS Uid, TLAPS

Record == [map : Maps, handle_uid : Nat]

(* Every uid handed out is below the counter, or the counter is zero and   *)
(* the next construction panics: a new uid is a fresh one.                 *)
UidInv ==
  /\ NEXT_WRITER_UID \in 0 .. WORD - 1
  /\ uid \in [Maps -> Nat \cup {None}]
  /\ live \subseteq Maps /\ \A m \in live : uid[m] # None
  /\ leaked \in [Values -> Record \cup {None}]
  /\ \A v \in Values : leaked[v] # None =>
       uid[leaked[v].map] # None /\ leaked[v].handle_uid = uid[leaked[v].map]
  /\ ~panicked =>
       /\ NEXT_WRITER_UID # 0 =>
            \A m \in Maps : uid[m] # None => uid[m] < NEXT_WRITER_UID
       /\ \A m, n \in Maps : uid[m] # None /\ uid[m] = uid[n] => m = n
       /\ OwnValuesOnly

LEMMA UidStart ==
  ASSUME WORD \in Nat \ {0, 1}, None \notin Nat, None \notin Record, Init
  PROVE  UidInv
BY DEF Init, UidInv, OwnValuesOnly

LEMMA UidStep ==
  ASSUME WORD \in Nat \ {0, 1}, None \notin Nat, None \notin Record,
         UidInv, [Next]_vars
  PROVE  UidInv'
<1>1. ASSUME NEW m \in Maps, Build(m) PROVE UidInv'
  <2> DEFINE next == NEXT_WRITER_UID
  <2>1. next' \in 0 .. WORD - 1 /\ (next' # 0 => next' = next + 1)
    BY <1>1 DEF Build, UidInv
  <2>2. leaked' = leaked /\ accepted' = accepted
    BY <1>1 DEF Build
  <2>3. CASE next # 0
    <3>1. /\ uid' = [uid EXCEPT ![m] = next]
          /\ live' = live \cup {m}
          /\ panicked' = panicked
          /\ uid[m] = None
      BY <1>1, <2>3 DEF Build
    <3>2. /\ uid' \in [Maps -> Nat \cup {None}]
          /\ uid'[m] = next /\ next \in Nat
          /\ \A n \in Maps : n # m => uid'[n] = uid[n]
      BY <3>1 DEF UidInv
    <3>3. live' \subseteq Maps /\ \A n \in live' : uid'[n] # None
      BY <3>1, <3>2 DEF UidInv
    <3>4. ASSUME NEW v \in Values, leaked[v] # None
          PROVE  uid'[leaked[v].map] # None /\ leaked[v].handle_uid = uid'[leaked[v].map]
      <4>1. leaked[v].map \in Maps /\ leaked[v].map # m
        BY <3>1, <3>4 DEF UidInv, Record
      <4> QED
        BY <3>2, <3>4, <4>1 DEF UidInv
    <3>5. ASSUME ~panicked, NEW n \in Maps, uid'[n] # None
          PROVE  uid'[n] \in Nat /\ uid'[n] < next + 1 /\ (n # m => uid'[n] < next)
      BY <2>3, <3>2, <3>5 DEF UidInv
    <3>6. ASSUME ~panicked, NEW n \in Maps, NEW o \in Maps,
                 uid'[n] # None, uid'[n] = uid'[o]
          PROVE  n = o
      BY <3>2, <3>5, <3>6 DEF UidInv
    <3> QED
      BY <2>1, <2>2, <3>1, <3>2, <3>3, <3>4, <3>5, <3>6 DEF UidInv, OwnValuesOnly
  <2>4. CASE next = 0
    BY <1>1, <2>1, <2>4 DEF Build, UidInv
  <2> QED
    BY <2>3, <2>4
<1>2. ASSUME NEW m \in Maps, Drop(m) PROVE UidInv'
  BY <1>2 DEF Drop, UidInv, OwnValuesOnly
<1>3. ASSUME NEW m \in Maps, NEW v \in Values, Leak(m, v) PROVE UidInv'
  BY <1>3 DEF Leak, UidInv, OwnValuesOnly, Record
<1>4. ASSUME NEW m \in Maps, NEW v \in Values, Take(m, v) PROVE UidInv'
  BY <1>4 DEF Take, UidInv, OwnValuesOnly, Record
<1>5. ASSUME NEW v \in Values, IntoInner(v) PROVE UidInv'
  BY <1>5 DEF IntoInner, UidInv, OwnValuesOnly
<1>6. CASE UNCHANGED vars
  BY <1>6 DEF vars, UidInv, OwnValuesOnly
<1> QED
  BY <1>1, <1>2, <1>3, <1>4, <1>5, <1>6 DEF Next

(* Until WriterUid::next panics, reclaimer and drop_lazily accept a leaked *)
(* value only from the map it came from: for every number of maps and      *)
(* values and every width of the counter.                                  *)
THEOREM UidsTellMapsApart ==
  ASSUME WORD \in Nat \ {0, 1}, None \notin Nat, None \notin Record
  PROVE  Spec => []OwnValuesUntilPanic
<1>1. Init => UidInv
  BY UidStart
<1>2. UidInv /\ [Next]_vars => UidInv'
  BY UidStep
<1>3. UidInv => OwnValuesUntilPanic
  BY DEF UidInv, OwnValuesUntilPanic
<1> QED
  BY <1>1, <1>2, <1>3, PTL DEF Spec
=============================================================================
