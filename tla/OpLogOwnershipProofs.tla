------------------------ MODULE OpLogOwnershipProofs ------------------------
(***************************************************************************)
(* Who drops each key and value object, proved for any log: the copies of  *)
(* the map and the log alias every object, and one place owns it.          *)
(***************************************************************************)
EXTENDS OpLogProofs

(* The objects that the replay of a logged operation will drop.            *)
ToDrop(i) == Drops(operations[i], history[i])

Positions == 1 .. Len(operations)

(* No object is in two entries.                                            *)
Injective(m) ==
  \A j, k \in Keys :
    /\ m[j] # None /\ m[k] # None
    /\ m[j].key = m[k].key \/ m[j].value = m[k].value
    => j = k

(* Every object the map's side owns is owned once: by the copy that is     *)
(* ahead, or by the logged operation that will drop it.  What is on the    *)
(* copy that is behind may already be the user's, and is still valid as    *)
(* long as readers may be on that copy.                                    *)
MapOwns == \A o \in InMap(Ahead) : object[o] = "aliased"

LogOwns ==
  \A i \in Positions : \A o \in ToDrop(i) :
    object[o] = "aliased" /\ o \notin InMap(Ahead)

DroppedOnce == \A i, j \in Positions : \A o \in ToDrop(i) : o \in ToDrop(j) => i = j

NothingLost ==
  \A o \in Objects : object[o] = "aliased" =>
    o \in InMap(Ahead) \/ \E i \in Positions : o \in ToDrop(i)

BehindValid ==
  phase = "writing" \/ ~synced =>
    \A o \in InMap(Behind) : object[o] \in {"aliased", "leaked"}

Owned == MapOwns /\ LogOwns /\ DroppedOnce /\ NothingLost /\ Injective(Ahead) /\ BehindValid

Ownership == (phase # "freed" => Owned) /\ NoDoubleDrop /\ NoLeak /\ EvictedValid

ReplayInv == TypeInv /\ LogReplays

-----------------------------------------------------------------------------
(* The objects of a map.                                                   *)
LEMMA Members ==
  ASSUME NEW m, NEW o
  PROVE  o \in InMap(m) <=>
           \E k \in Keys : m[k] # None /\ (o = m[k].key \/ o = m[k].value)
BY DEF InMap

LEMMA MembersAreObjects ==
  ASSUME NEW m \in Map
  PROVE  InMap(m) \subseteq Objects
BY Members, EntryPresent DEF Objects

(* An object is a key or a value, not both.                                *)
LEMMA KeysAreNotValues ==
  ASSUME NEW a \in KeyObjects, NEW b \in ValueObjects
  PROVE  a # b
BY OpLogAssumption

(* What the replay of an operation drops, variant by variant.              *)
LEMMA DropsOf ==
  ASSUME NEW op, NEW m
  PROVE  /\ op.raw = "InsertUnique" => Drops(op, m) = {}
         /\ op.raw = "Replace" =>
              Drops(op, m) = IF op.leaky THEN {} ELSE {m[op.of].value}
         /\ op.raw = "Remove" =>
              Drops(op, m) = {m[op.of].key} \cup (IF op.leaky THEN {} ELSE {m[op.of].value})
         /\ op.raw = "Drop" => Drops(op, m) = {op.value}
BY DEF Drops, Unless

LEMMA DropsAreObjects ==
  ASSUME NEW m \in Map, NEW op \in Operations, WellFormed(op), Replayable(op, m)
  PROVE  Drops(op, m) \subseteq Objects
<1>1. op.raw \in Kinds
  BY DEF Operations
<1>2. op.raw \in {"Replace", "Remove"} =>
        m[op.of].key \in KeyObjects /\ m[op.of].value \in ValueObjects
  BY EntryPresent DEF WellFormed, Replayable
<1>3. op.raw = "Drop" => op.value \in ValueObjects
  BY DEF WellFormed
<1> QED
  BY <1>1, <1>2, <1>3, DropsOf DEF Kinds, Objects

LEMMA LoggedAreObjects ==
  ASSUME ReplayInv, phase # "freed", NEW i \in Positions
  PROVE  /\ ToDrop(i) \subseteq Objects
         /\ operations[i] \in Operations /\ history[i] \in Map
         /\ WellFormed(operations[i]) /\ Replayable(operations[i], history[i])
<1>1. /\ operations[i] \in Operations /\ history[i] \in Map
      /\ WellFormed(operations[i]) /\ Replayable(operations[i], history[i])
  BY ElementOfSeq DEF ReplayInv, TypeInv, TypeOK, LogComplete, LogReplays, Positions
<1> QED
  BY <1>1, DropsAreObjects DEF ToDrop

LEMMA OwnershipInit == Init => Ownership
<1> SUFFICES ASSUME Init PROVE Ownership
  OBVIOUS
<1>1. Len(operations) = 0
  BY EmptySeq DEF Init
<1>2. Positions = {}
  BY <1>1 DEF Positions
<1>3. \A k \in Keys : Ahead[k] = None /\ Behind[k] = None
  BY DEF Init, Ahead, Behind, Here, other, MapIndex, First, Second
<1>4. InMap(Ahead) = {} /\ InMap(Behind) = {}
  BY <1>3 DEF InMap
<1>5. Owned
  BY <1>2, <1>3, <1>4
  DEF Init, Owned, MapOwns, LogOwns, DroppedOnce, NothingLost, Injective, BehindValid
<1> QED
  BY <1>5 DEF Init, Ownership, NoDoubleDrop, NoLeak, EvictedValid

-----------------------------------------------------------------------------
(* The methods of the write guard.  D is what the operation's replay will  *)
(* drop, G what becomes the map's.                                         *)
LEMMA OwnedPush ==
  ASSUME ReplayInv, Ownership, NEW op \in Operations, Push(op),
         phase = "writing", UNCHANGED <<phase, writer_map, synced>>,
         maps'[other(writer_map)] = maps[other(writer_map)],
         NEW D, D = Drops(op, Here), NEW G \in SUBSET Objects,
         NEW m, m = maps'[writer_map], Injective(m),
         \A o \in G : object[o] # "aliased",
         object' = [o \in Objects |-> IF o \in G THEN "aliased" ELSE object[o]],
         InMap(m) \subseteq InMap(Here) \cup G,
         InMap(Here) \subseteq InMap(m) \cup D,
         D \subseteq InMap(Here) \cup G,
         D \cap InMap(m) = {},
         G \subseteq InMap(m) \cup D
  PROVE  Owned' /\ NoDoubleDrop' /\ NoLeak'
<1> PICK n \in Nat : n = Len(operations)
  BY LenProperties DEF ReplayInv, TypeInv, TypeOK
<1>0. /\ TypeOK /\ Here \in Map /\ maps[other(writer_map)] \in Map /\ Owned /\ NoDoubleDrop
  BY HereType DEF ReplayInv, TypeInv, Ownership
<1>1. /\ Positions = 1 .. n /\ Positions' = 1 .. n + 1
      /\ \A i \in 1 .. n : ToDrop(i)' = ToDrop(i)
      /\ ToDrop(n + 1)' = D
  BY <1>0, Pushed DEF TypeOK, Positions, ToDrop
<1>2. Ahead = Here /\ Ahead' = m /\ Behind' = Behind /\ Behind = maps[other(writer_map)]
  BY DEF Ahead, Behind, Here
<1>3. InMap(Here) \subseteq Objects /\ InMap(Behind) \subseteq Objects
  BY <1>0, <1>2, MembersAreObjects
<1>4. \A o \in Objects : object[o] = "aliased" => o \notin G /\ object'[o] = "aliased"
  OBVIOUS
<1>5. \A o \in InMap(m) \cup D : o \in Objects /\ object'[o] = "aliased"
  BY <1>0, <1>2, <1>3, <1>4 DEF Owned, MapOwns
<1>6. InMap(Ahead)' = InMap(m)
  BY <1>2 DEF InMap
<1>7. MapOwns'
  BY <1>5, <1>6 DEF MapOwns
<1>8. ASSUME NEW i \in 1 .. n, NEW o \in ToDrop(i)
      PROVE  /\ o \in Objects /\ object'[o] = "aliased"
             /\ o \notin InMap(Here) /\ o \notin G /\ o \notin InMap(m) /\ o \notin D
  <2>1. o \in Objects
    BY <1>1, LoggedAreObjects
  <2>2. object[o] = "aliased" /\ o \notin InMap(Here)
    BY <1>0, <1>1, <1>2 DEF Owned, LogOwns
  <2> QED
    BY <1>4, <2>1, <2>2
<1>9. LogOwns'
  BY <1>1, <1>5, <1>6, <1>8 DEF LogOwns
<1>10. DroppedOnce'
  <2> SUFFICES ASSUME NEW i \in 1 .. n + 1, NEW j \in 1 .. n + 1,
                      NEW o \in ToDrop(i)', o \in ToDrop(j)'
               PROVE  i = j
    BY <1>1 DEF DroppedOnce
  <2>1. CASE i \in 1 .. n /\ j \in 1 .. n
    BY <1>0, <1>1, <2>1 DEF Owned, DroppedOnce
  <2>2. CASE i = n + 1 \/ j = n + 1
    BY <1>1, <1>8, <2>2
  <2> QED
    BY <2>1, <2>2
<1>11. NothingLost'
  <2> SUFFICES ASSUME NEW o \in Objects, object'[o] = "aliased"
               PROVE  o \in InMap(m) \/ \E i \in 1 .. n + 1 : o \in ToDrop(i)'
    BY <1>1, <1>6 DEF NothingLost
  <2>1. CASE o \in InMap(m) \cup D
    BY <1>1, <2>1
  <2>2. CASE o \notin InMap(m) \cup D
    <3>1. object[o] = "aliased" /\ o \notin InMap(Here)
      BY <2>2
    <3>2. PICK i \in 1 .. n : o \in ToDrop(i)
      BY <1>0, <1>1, <1>2, <3>1 DEF Owned, NothingLost
    <3> QED
      BY <1>1, <3>2
  <2> QED
    BY <2>1, <2>2
<1>12. BehindValid'
  <2>1. InMap(Behind)' = InMap(Behind)
    BY <1>2 DEF InMap
  <2> QED
    BY <1>0, <1>3, <2>1 DEF Owned, BehindValid
<1>13. Injective(Ahead)'
  BY <1>2 DEF Injective
<1>14. NoDoubleDrop' /\ NoLeak'
  BY <1>0 DEF NoDoubleDrop, NoLeak
<1> QED
  BY <1>7, <1>9, <1>10, <1>11, <1>12, <1>13, <1>14 DEF Owned

(* A method of the write guard keeps the Evicted values of earlier ones    *)
(* and may add its own.                                                    *)
LEMMA EvictedPush ==
  ASSUME ReplayInv, Ownership, NEW op \in Operations, Push(op),
         \A o \in Objects : object[o] = "aliased" => object'[o] = "aliased",
         \/ UNCHANGED evicted
         \/ /\ op.raw \in {"Replace", "Remove"} /\ ~op.leaky
            /\ Here[op.of].value \in ValueObjects
            /\ object[Here[op.of].value] = "aliased"
            /\ Evict(Here[op.of].value)
  PROVE  EvictedValid'
<1> PICK n \in Nat : n = Len(operations)
  BY LenProperties DEF ReplayInv, TypeInv, TypeOK
<1>0. TypeOK /\ Here \in Map /\ EvictedValid
  BY HereType DEF ReplayInv, TypeInv, Ownership
<1>1. /\ \A i \in 1 .. n : operations'[i] = operations[i] /\ history'[i] = history[i]
      /\ operations'[n + 1] = op /\ history'[n + 1] = Here
  BY <1>0, Pushed DEF TypeOK
<1> SUFFICES ASSUME NEW e \in evicted'
             PROVE  /\ object'[e.value] = "aliased"
                    /\ operations'[e.operation].raw \in {"Replace", "Remove"}
                    /\ ~operations'[e.operation].leaky
                    /\ history'[e.operation][operations'[e.operation].of].value = e.value
  BY DEF EvictedValid
<1>2. CASE e \in evicted
  <2>1. e.operation \in 1 .. n /\ e.value \in Objects
    BY <1>0, <1>2 DEF TypeOK, Objects
  <2> QED
    BY <1>0, <1>1, <1>2, <2>1 DEF EvictedValid
<1>3. CASE e \notin evicted
  <2>1. e = [value |-> Here[op.of].value, operation |-> n + 1]
    BY <1>3 DEF Evict
  <2>2. e.value = Here[op.of].value /\ e.operation = n + 1
    BY <2>1
  <2> QED
    BY <1>1, <1>3, <2>2 DEF Objects
<1> QED
  BY <1>2, <1>3

LEMMA OwnedInsertVacant ==
  ASSUME ReplayInv, Ownership, NEW k \in Keys, NEW ko \in KeyObjects, NEW v \in ValueObjects,
         InsertVacant(k, ko, v)
  PROVE  Ownership'
<1> DEFINE op == Operation("InsertUnique", k, ko, v)
           ne == [key |-> ko, value |-> v]
<1> PICK m : m = maps'[writer_map]
  OBVIOUS
<1>0. TypeOK /\ Here \in Map /\ phase = "writing" /\ Here = Ahead
  BY HereType DEF ReplayInv, TypeInv, InsertVacant, Writing, Ahead
<1>1. MapOwns /\ Injective(Here)
  BY <1>0 DEF Ownership, Owned
<1>2. op \in Operations /\ op.raw = "InsertUnique"
  BY NewOperation DEF Kinds, Operation
<1>3. ne \in Entries \cup {None} /\ ne # None /\ ne.key = ko /\ ne.value = v
  <2>1. ne \in Entries /\ ne.key = ko /\ ne.value = v
    BY DEF Entries
  <2>2. ne # None
    BY <2>1, OpLogAssumption DEF Entries
  <2> QED
    BY <2>1, <2>2
<1>4. /\ m = [Here EXCEPT ![k] = ne]
      /\ maps'[other(writer_map)] = maps[other(writer_map)]
  BY <1>0, <1>3, CopyUpdate DEF InsertVacant, TypeOK
<1>5. \A j \in Keys : m[j] = IF j = k THEN ne ELSE Here[j]
  BY <1>0, <1>4 DEF Map
<1>6. /\ Here[k] = None
      /\ object[ko] = "gone" /\ object[v] = "gone" /\ ko \in Objects /\ v \in Objects
  BY <1>0 DEF InsertVacant, Fresh, Objects
<1>7. ko \notin InMap(Here) /\ v \notin InMap(Here)
  BY <1>0, <1>1, <1>6 DEF MapOwns
<1>8. \A o : o \in InMap(m) <=> o \in InMap(Here) \cup {ko, v}
  <2> TAKE o
  <2>1. o \in {ko, v} => o \in InMap(m)
    BY <1>3, <1>5, Members
  <2>2. o \in InMap(Here) => o \in InMap(m)
    BY <1>5, <1>6, Members
  <2>3. o \in InMap(m) => o \in InMap(Here) \cup {ko, v}
    BY <1>3, <1>5, Members
  <2> QED
    BY <2>1, <2>2, <2>3
<1>9. Injective(m)
  <2> SUFFICES ASSUME NEW i \in Keys, NEW j \in Keys, m[i] # None, m[j] # None,
                      m[i].key = m[j].key \/ m[i].value = m[j].value
               PROVE  i = j
    BY DEF Injective
  <2>1. CASE i # k /\ j # k
    BY <1>1, <1>5, <2>1 DEF Injective
  <2>2. CASE i = k /\ j # k
    BY <1>3, <1>5, <1>7, <2>2, Members
  <2>3. CASE i # k /\ j = k
    BY <1>3, <1>5, <1>7, <2>3, Members
  <2> QED
    BY <2>1, <2>2, <2>3
<1>10. object' = [o \in Objects |-> IF o \in {ko, v} THEN "aliased" ELSE object[o]]
  BY <1>0, <1>6 DEF InsertVacant, TypeOK
<1>11. Drops(op, Here) = {}
  BY <1>2, DropsOf
<1>12. Push(op) /\ UNCHANGED <<phase, writer_map, synced, evicted>>
  BY DEF InsertVacant
<1>13. Owned' /\ NoDoubleDrop' /\ NoLeak'
  <2> PICK D, G : D = {} /\ G = {ko, v}
    OBVIOUS
  <2>1. /\ InMap(m) \subseteq InMap(Here) \cup G
        /\ InMap(Here) \subseteq InMap(m) \cup D
        /\ D \subseteq InMap(Here) \cup G
        /\ D \cap InMap(m) = {}
        /\ G \subseteq InMap(m) \cup D
    BY <1>8
  <2>2. /\ G \in SUBSET Objects /\ D = Drops(op, Here) /\ m = maps'[writer_map]
        /\ \A o \in G : object[o] # "aliased"
        /\ object' = [o \in Objects |-> IF o \in G THEN "aliased" ELSE object[o]]
    BY <1>6, <1>10, <1>11
  <2>3. /\ op \in Operations /\ Push(op) /\ phase = "writing"
        /\ UNCHANGED <<phase, writer_map, synced>>
        /\ maps'[other(writer_map)] = maps[other(writer_map)]
    BY <1>0, <1>2, <1>4, <1>12
  <2> HIDE DEF op
  <2> QED
    BY <1>9, <2>1, <2>2, <2>3, OwnedPush
<1>14. EvictedValid'
  BY <1>2, <1>10, <1>12, EvictedPush
<1> QED
  BY <1>13, <1>14 DEF Ownership

LEMMA OwnedInsertOccupied ==
  ASSUME ReplayInv, Ownership, NEW k \in Keys, NEW v \in ValueObjects, InsertOccupied(k, v)
  PROVE  Ownership'
<1> DEFINE op == Operation("Replace", k, None, v)
<1> PICK m, old : m = maps'[writer_map] /\ old = Here[k].value
  OBVIOUS
<1> DEFINE ne == [Here[k] EXCEPT !.value = v]
<1>0. TypeOK /\ Here \in Map /\ phase = "writing" /\ Here = Ahead /\ Here[k] # None
  BY HereType DEF ReplayInv, TypeInv, InsertOccupied, Writing, Ahead
<1>1. MapOwns /\ Injective(Here)
  BY <1>0 DEF Ownership, Owned
<1>2. op \in Operations /\ op.raw = "Replace" /\ op.of = k /\ op.leaky = FALSE
  BY NewOperation DEF Kinds, Operation
<1>3. Here[k] \in Entries /\ Here[k].key \in KeyObjects /\ old \in ValueObjects
  BY <1>0, EntryPresent
<1>4. ne \in Entries \cup {None} /\ ne # None /\ ne.key = Here[k].key /\ ne.value = v
  <2>1. ne \in Entries /\ ne.key = Here[k].key /\ ne.value = v
    BY <1>3 DEF Entries
  <2>2. ne # None
    BY <2>1, OpLogAssumption DEF Entries
  <2> QED
    BY <2>1, <2>2
<1>5. /\ m = [Here EXCEPT ![k] = ne]
      /\ maps'[other(writer_map)] = maps[other(writer_map)]
  BY <1>0, <1>4, CopyUpdate DEF InsertOccupied, TypeOK
<1>6. \A j \in Keys : m[j] = IF j = k THEN ne ELSE Here[j]
  BY <1>0, <1>5 DEF Map
<1>7. object[v] = "gone" /\ v \in Objects
  BY DEF InsertOccupied, Fresh, Objects
<1>8. v \notin InMap(Here) /\ old \in InMap(Here) /\ object[old] = "aliased" /\ v # old
  BY <1>0, <1>1, <1>7, Members DEF MapOwns
<1>9. /\ v \in InMap(m)
      /\ \A o \in InMap(Here) : o \in InMap(m) \/ o = old
      /\ \A o \in InMap(m) : o \in InMap(Here) \/ o = v
  <2>1. v \in InMap(m) /\ Here[k].key \in InMap(m) /\ Here[k].key \in InMap(Here)
    BY <1>0, <1>4, <1>6, Members
  <2>2. ASSUME NEW o \in InMap(Here) PROVE o \in InMap(m) \/ o = old
    BY <1>6, <2>1, Members
  <2>3. ASSUME NEW o \in InMap(m) PROVE o \in InMap(Here) \/ o = v
    <3>1. PICK j \in Keys : m[j] # None /\ (o = m[j].key \/ o = m[j].value)
      BY <2>3, Members
    <3>2. CASE j = k
      BY <1>4, <1>6, <2>1, <3>1, <3>2
    <3>3. CASE j # k
      BY <1>6, <3>1, <3>3, Members
    <3> QED
      BY <3>2, <3>3
  <2> QED
    BY <2>1, <2>2, <2>3
<1>10. old \notin InMap(m)
  <2> SUFFICES ASSUME NEW j \in Keys, m[j] # None, old = m[j].key \/ old = m[j].value
               PROVE  FALSE
    BY Members
  <2>1. CASE j = k
    BY <1>3, <1>4, <1>6, <1>8, <2>1, KeysAreNotValues
  <2>2. CASE j # k
    <3>1. m[j] = Here[j] /\ Here[j].key \in KeyObjects
      BY <1>0, <1>6, <2>2, EntryPresent
    <3>2. old = Here[j].value
      BY <1>3, <3>1, KeysAreNotValues
    <3> QED
      BY <1>0, <1>1, <2>2, <3>1, <3>2 DEF Injective
  <2> QED
    BY <2>1, <2>2
<1>11. Injective(m)
  <2> SUFFICES ASSUME NEW i \in Keys, NEW j \in Keys, m[i] # None, m[j] # None,
                      m[i].key = m[j].key \/ m[i].value = m[j].value
               PROVE  i = j
    BY DEF Injective
  <2>1. CASE i # k /\ j # k
    BY <1>1, <1>6, <2>1 DEF Injective
  <2>2. CASE i = k /\ j # k
    <3>1. m[k] = ne /\ m[j] = Here[j]
      BY <1>6, <2>2
    <3>2. Here[j].value # v
      BY <1>8, <2>2, <3>1, Members
    <3>3. Here[j].key = Here[k].key
      BY <1>4, <2>2, <3>1, <3>2
    <3> QED
      BY <1>0, <1>1, <2>2, <3>1, <3>3 DEF Injective
  <2>3. CASE i # k /\ j = k
    <3>1. m[k] = ne /\ m[i] = Here[i]
      BY <1>6, <2>3
    <3>2. Here[i].value # v
      BY <1>8, <2>3, <3>1, Members
    <3>3. Here[i].key = Here[k].key
      BY <1>4, <2>3, <3>1, <3>2
    <3> QED
      BY <1>0, <1>1, <2>3, <3>1, <3>3 DEF Injective
  <2> QED
    BY <2>1, <2>2, <2>3
<1>12. object' = [o \in Objects |-> IF o \in {v} THEN "aliased" ELSE object[o]]
  BY <1>0, <1>7 DEF InsertOccupied, TypeOK
<1>13. Drops(op, Here) = {old}
  BY <1>2, DropsOf
<1>14. Push(op) /\ UNCHANGED <<phase, writer_map, synced>> /\ Evict(old)
  BY DEF InsertOccupied
<1>15. Owned' /\ NoDoubleDrop' /\ NoLeak'
  <2> PICK D, G : D = {old} /\ G = {v}
    OBVIOUS
  <2>1. /\ InMap(m) \subseteq InMap(Here) \cup G
        /\ InMap(Here) \subseteq InMap(m) \cup D
        /\ D \subseteq InMap(Here) \cup G
        /\ D \cap InMap(m) = {}
        /\ G \subseteq InMap(m) \cup D
    BY <1>8, <1>9, <1>10
  <2>2. /\ G \in SUBSET Objects /\ D = Drops(op, Here) /\ m = maps'[writer_map]
        /\ \A o \in G : object[o] # "aliased"
        /\ object' = [o \in Objects |-> IF o \in G THEN "aliased" ELSE object[o]]
    BY <1>7, <1>12, <1>13
  <2>3. /\ op \in Operations /\ Push(op) /\ phase = "writing"
        /\ UNCHANGED <<phase, writer_map, synced>>
        /\ maps'[other(writer_map)] = maps[other(writer_map)]
    BY <1>0, <1>2, <1>5, <1>14
  <2> HIDE DEF op
  <2> QED
    BY <1>11, <2>1, <2>2, <2>3, OwnedPush
<1>16. EvictedValid'
  <2>1. /\ op \in Operations /\ Push(op)
        /\ op.raw \in {"Replace", "Remove"} /\ ~op.leaky /\ Here[op.of].value = old
    BY <1>2, <1>14
  <2>2. \A o \in Objects : object[o] = "aliased" => object'[o] = "aliased"
    BY <1>12
  <2> HIDE DEF op
  <2> QED
    BY <1>3, <1>8, <1>14, <2>1, <2>2, EvictedPush
<1> QED
  BY <1>15, <1>16 DEF Ownership

LEMMA OwnedRemove ==
  ASSUME ReplayInv, Ownership, NEW k \in Keys, Remove(k)
  PROVE  Ownership'
<1> DEFINE op == Operation("Remove", k, None, None)
<1> PICK m, old, oldkey : m = maps'[writer_map] /\ old = Here[k].value /\ oldkey = Here[k].key
  OBVIOUS
<1>0. TypeOK /\ Here \in Map /\ phase = "writing" /\ Here = Ahead /\ Here[k] # None
  BY HereType DEF ReplayInv, TypeInv, Remove, Writing, Ahead
<1>1. MapOwns /\ Injective(Here)
  BY <1>0 DEF Ownership, Owned
<1>2. op \in Operations /\ op.raw = "Remove" /\ op.of = k /\ op.leaky = FALSE
  BY NewOperation DEF Kinds, Operation
<1>3. oldkey \in KeyObjects /\ old \in ValueObjects
  BY <1>0, EntryPresent
<1>4. /\ m = [Here EXCEPT ![k] = None]
      /\ maps'[other(writer_map)] = maps[other(writer_map)]
  BY <1>0, CopyUpdate DEF Remove, TypeOK
<1>5. \A j \in Keys : m[j] = IF j = k THEN None ELSE Here[j]
  BY <1>0, <1>4 DEF Map
<1>6. old \in InMap(Here) /\ oldkey \in InMap(Here) /\ object[old] = "aliased"
  BY <1>0, <1>1, Members DEF MapOwns
<1>7. /\ \A o \in InMap(Here) : o \in InMap(m) \/ o = old \/ o = oldkey
      /\ \A o \in InMap(m) : o \in InMap(Here)
  BY <1>0, <1>5, Members
<1>8. old \notin InMap(m) /\ oldkey \notin InMap(m)
  <2> SUFFICES ASSUME NEW j \in Keys, m[j] # None,
                      \/ old = m[j].key \/ old = m[j].value
                      \/ oldkey = m[j].key \/ oldkey = m[j].value
               PROVE  FALSE
    BY Members
  <2>1. j # k /\ m[j] = Here[j]
    BY <1>5
  <2>2. Here[j].key \in KeyObjects /\ Here[j].value \in ValueObjects
    BY <1>0, <2>1, EntryPresent
  <2>3. old = Here[j].value \/ oldkey = Here[j].key
    BY <1>3, <2>1, <2>2, KeysAreNotValues
  <2> QED
    BY <1>0, <1>1, <2>1, <2>3 DEF Injective
<1>9. Injective(m)
  BY <1>1, <1>5 DEF Injective
<1>10. object' = [o \in Objects |-> object[o]]
  BY <1>0 DEF Remove, TypeOK
<1>11. Drops(op, Here) = {oldkey, old}
  BY <1>2, DropsOf
<1>12. Push(op) /\ UNCHANGED <<phase, writer_map, synced>> /\ Evict(old)
  BY DEF Remove
<1>13. Owned' /\ NoDoubleDrop' /\ NoLeak'
  <2> PICK D, G : D = {oldkey, old} /\ G = {}
    OBVIOUS
  <2>1. /\ InMap(m) \subseteq InMap(Here) \cup G
        /\ InMap(Here) \subseteq InMap(m) \cup D
        /\ D \subseteq InMap(Here) \cup G
        /\ D \cap InMap(m) = {}
        /\ G \subseteq InMap(m) \cup D
    BY <1>6, <1>7, <1>8
  <2>2. /\ G \in SUBSET Objects /\ D = Drops(op, Here) /\ m = maps'[writer_map]
        /\ \A o \in G : object[o] # "aliased"
        /\ object' = [o \in Objects |-> IF o \in G THEN "aliased" ELSE object[o]]
    BY <1>10, <1>11
  <2>3. /\ op \in Operations /\ Push(op) /\ phase = "writing"
        /\ UNCHANGED <<phase, writer_map, synced>>
        /\ maps'[other(writer_map)] = maps[other(writer_map)]
    BY <1>0, <1>2, <1>4, <1>12
  <2> HIDE DEF op
  <2> QED
    BY <1>9, <2>1, <2>2, <2>3, OwnedPush
<1>14. EvictedValid'
  <2>1. /\ op \in Operations /\ Push(op)
        /\ op.raw \in {"Replace", "Remove"} /\ ~op.leaky /\ Here[op.of].value = old
    BY <1>2, <1>12
  <2>2. \A o \in Objects : object[o] = "aliased" => object'[o] = "aliased"
    BY <1>10
  <2> HIDE DEF op
  <2> QED
    BY <1>3, <1>6, <1>12, <2>1, <2>2, EvictedPush
<1> QED
  BY <1>13, <1>14 DEF Ownership

LEMMA OwnedDropLazily ==
  ASSUME ReplayInv, Ownership, NEW v \in ValueObjects, DropLazily(v)
  PROVE  Ownership'
<1> DEFINE op == Operation("Drop", None, None, v)
<1> PICK m : m = maps'[writer_map]
  OBVIOUS
<1>0. TypeOK /\ Here \in Map /\ phase = "writing" /\ Here = Ahead /\ m = Here
  BY HereType DEF ReplayInv, TypeInv, DropLazily, Writing, Ahead, Here
<1>1. MapOwns /\ Injective(Here)
  BY <1>0 DEF Ownership, Owned
<1>2. op \in Operations /\ op.raw = "Drop" /\ op.value = v
  BY NewOperation DEF Kinds, Operation
<1>3. object[v] = "leaked" /\ v \in Objects /\ v \notin InMap(Here)
  BY <1>0, <1>1 DEF DropLazily, Objects, MapOwns
<1>4. object' = [o \in Objects |-> IF o \in {v} THEN "aliased" ELSE object[o]]
  BY <1>0, <1>3 DEF DropLazily, TypeOK
<1>5. Drops(op, Here) = {v}
  BY <1>2, DropsOf
<1>6. Push(op) /\ UNCHANGED <<maps, phase, writer_map, synced, evicted>>
  BY DEF DropLazily
<1>7. Owned' /\ NoDoubleDrop' /\ NoLeak'
  <2> PICK D, G : D = {v} /\ G = {v}
    OBVIOUS
  <2>1. /\ InMap(m) \subseteq InMap(Here) \cup G
        /\ InMap(Here) \subseteq InMap(m) \cup D
        /\ D \subseteq InMap(Here) \cup G
        /\ D \cap InMap(m) = {}
        /\ G \subseteq InMap(m) \cup D
    BY <1>0, <1>3
  <2>2. /\ G \in SUBSET Objects /\ D = Drops(op, Here) /\ m = maps'[writer_map]
        /\ \A o \in G : object[o] # "aliased"
        /\ object' = [o \in Objects |-> IF o \in G THEN "aliased" ELSE object[o]]
        /\ Injective(m)
    BY <1>0, <1>1, <1>3, <1>4, <1>5
  <2>3. /\ op \in Operations /\ Push(op) /\ phase = "writing"
        /\ UNCHANGED <<phase, writer_map, synced>>
        /\ maps'[other(writer_map)] = maps[other(writer_map)]
    BY <1>0, <1>2, <1>6
  <2> HIDE DEF op
  <2> QED
    BY <2>1, <2>2, <2>3, OwnedPush
<1>8. EvictedValid'
  BY <1>2, <1>4, <1>6, EvictedPush
<1> QED
  BY <1>7, <1>8 DEF Ownership

-----------------------------------------------------------------------------
(* Evicted::leak: the value leaves the operation that would drop it, and   *)
(* no other place owned it.                                                *)
LEMMA OwnedLeak ==
  ASSUME ReplayInv, Ownership, NEW e \in evicted, Leak(e)
  PROVE  Ownership'
<1> PICK n \in Nat : n = Len(operations)
  BY LenProperties DEF ReplayInv, TypeInv, TypeOK
<1> DEFINE p == e.operation
           v == e.value
<1>0. TypeOK /\ TypeInv /\ NoDoubleDrop /\ EvictedValid
  BY DEF ReplayInv, TypeInv, Ownership
<1>1. /\ p \in 1 .. n /\ v \in ValueObjects /\ v \in Objects
      /\ operations[p].raw \in {"Replace", "Remove"} /\ ~operations[p].leaky
      /\ history[p][operations[p].of].value = v
      /\ object[v] = "aliased"
  BY <1>0, Marked DEF EvictedValid, Objects
<1>2. phase \in {"idle", "writing"} /\ phase' = phase
  BY <1>0 DEF TypeInv, EvictedInUse, Leak
<1>3. Owned
  BY <1>2 DEF Ownership
<1>4. /\ Positions = 1 .. n /\ Positions' = 1 .. n
      /\ \A i \in 1 .. n : /\ operations'[i].raw = operations[i].raw
                           /\ operations'[i].of = operations[i].of
                           /\ operations'[i].value = operations[i].value
                           /\ operations'[i].leaky = (operations[i].leaky \/ i = p)
      /\ history' = history
  BY <1>0, Marked DEF Positions, Leak
<1>5. \A i \in 1 .. n : i # p => ToDrop(i)' = ToDrop(i)
  BY <1>4 DEF ToDrop, Drops, Unless
<1>6. v \in ToDrop(p)
  BY <1>1, DropsOf DEF ToDrop
<1>7. \A o : o \in ToDrop(p)' <=> o \in ToDrop(p) /\ o # v
  <2> DEFINE m == history[p]
  <2>1. /\ m \in Map /\ operations[p] \in Operations /\ WellFormed(operations[p])
        /\ Replayable(operations[p], m)
    BY <1>1, <1>2, <1>4, LoggedAreObjects
  <2>2. m[operations[p].of].key \in KeyObjects
    BY <1>1, <2>1, EntryPresent DEF Replayable, WellFormed
  <2>3. m[operations[p].of].key # v
    BY <1>1, <2>2, KeysAreNotValues
  <2>4. ToDrop(p)' = Drops(operations'[p], m) /\ ToDrop(p) = Drops(operations[p], m)
    BY <1>4 DEF ToDrop
  <2>5. /\ operations'[p].raw = operations[p].raw /\ operations'[p].of = operations[p].of
        /\ operations'[p].leaky
    BY <1>1, <1>4
  <2>6. CASE operations[p].raw = "Replace"
    <3>1. Drops(operations[p], m) = {v} /\ Drops(operations'[p], m) = {}
      BY <1>1, <2>5, <2>6, DropsOf
    <3> QED
      BY <2>4, <3>1
  <2>7. CASE operations[p].raw = "Remove"
    <3>1. /\ Drops(operations[p], m) = {m[operations[p].of].key, v}
          /\ Drops(operations'[p], m) = {m[operations[p].of].key}
      BY <1>1, <2>5, <2>7, DropsOf
    <3> QED
      BY <2>3, <2>4, <3>1
  <2> QED
    BY <1>1, <2>6, <2>7
<1>8. \A i \in 1 .. n : \A o : o \in ToDrop(i)' <=> o \in ToDrop(i) /\ o # v
  <2> SUFFICES ASSUME NEW i \in 1 .. n, i # p PROVE v \notin ToDrop(i)
    BY <1>5, <1>7
  <2> QED
    BY <1>1, <1>3, <1>4, <1>6 DEF Owned, DroppedOnce
<1>9. Ahead' = Ahead /\ Behind' = Behind /\ synced' = synced
  BY DEF Leak, Ahead, Behind, Here
<1>10. object' = [o \in Objects |-> IF o = v THEN "leaked" ELSE object[o]]
  BY <1>0 DEF Leak, TypeOK
<1>11. v \notin InMap(Ahead)
  BY <1>1, <1>3, <1>4, <1>6 DEF Owned, LogOwns
<1>12. InMap(Ahead) \subseteq Objects /\ InMap(Behind) \subseteq Objects
  BY <1>0, HereType, MembersAreObjects DEF Ahead, Behind
<1>13. \A i \in 1 .. n : ToDrop(i) \subseteq Objects
  BY <1>2, <1>4, LoggedAreObjects
<1>14. InMap(Ahead)' = InMap(Ahead) /\ InMap(Behind)' = InMap(Behind)
  BY <1>9 DEF InMap
<1>15. MapOwns' /\ Injective(Ahead)' /\ BehindValid'
  BY <1>2, <1>3, <1>9, <1>10, <1>11, <1>12, <1>14
  DEF Owned, MapOwns, Injective, BehindValid
<1>16. LogOwns' /\ DroppedOnce'
  BY <1>3, <1>4, <1>8, <1>10, <1>13, <1>14 DEF Owned, LogOwns, DroppedOnce
<1>17. NothingLost'
  BY <1>3, <1>4, <1>8, <1>10, <1>14 DEF Owned, NothingLost
<1>18. NoDoubleDrop' /\ NoLeak'
  BY <1>0, <1>2, <1>10 DEF NoDoubleDrop, NoLeak
<1>19. EvictedValid'
  <2> SUFFICES ASSUME NEW f \in evicted, f # e
               PROVE  /\ object'[f.value] = "aliased"
                      /\ operations'[f.operation].raw \in {"Replace", "Remove"}
                      /\ ~operations'[f.operation].leaky
                      /\ history'[f.operation][operations'[f.operation].of].value = f.value
    BY DEF EvictedValid, Leak
  <2>1. /\ f.operation \in 1 .. n /\ f.value \in ValueObjects /\ f.value \in Objects
        /\ f = [value |-> f.value, operation |-> f.operation]
        /\ e = [value |-> e.value, operation |-> e.operation]
    BY <1>0 DEF TypeOK, Objects
  <2>2. /\ operations[f.operation].raw \in {"Replace", "Remove"}
        /\ ~operations[f.operation].leaky
        /\ history[f.operation][operations[f.operation].of].value = f.value
        /\ object[f.value] = "aliased"
    BY <1>0 DEF EvictedValid
  <2>3. f.operation # p
    BY <1>1, <2>1, <2>2
  <2>4. f.value \in ToDrop(f.operation)
    BY <2>2, DropsOf DEF ToDrop
  <2>5. f.value # v
    BY <1>1, <1>3, <1>4, <1>6, <2>1, <2>3, <2>4 DEF Owned, DroppedOnce
  <2> QED
    BY <1>4, <1>10, <2>1, <2>2, <2>3, <2>5
<1> QED
  BY <1>15, <1>16, <1>17, <1>18, <1>19 DEF Ownership, Owned

-----------------------------------------------------------------------------
(* A step of the write handle that moves no entry and no operation, and    *)
(* changes at most an object that is the user's.                           *)
LEMMA OwnedFrame ==
  ASSUME ReplayInv, Owned, phase # "freed", Ahead' = Ahead, UNCHANGED log, BehindValid',
         \A o \in Objects : object'[o] = "aliased" <=> object[o] = "aliased"
  PROVE  Owned'
<1>1. /\ Positions' = Positions /\ InMap(Ahead)' = InMap(Ahead)
      /\ \A i \in Positions : ToDrop(i)' = ToDrop(i)
  BY DEF Positions, InMap, ToDrop, log
<1>2. \A i \in Positions : ToDrop(i) \subseteq Objects
  BY LoggedAreObjects
<1>3. InMap(Ahead) \subseteq Objects
  BY HereType, MembersAreObjects DEF Ahead, ReplayInv
<1>4. MapOwns' /\ Injective(Ahead)'
  BY <1>1, <1>3 DEF Owned, MapOwns, Injective
<1>5. LogOwns' /\ DroppedOnce'
  BY <1>1, <1>2 DEF Owned, LogOwns, DroppedOnce
<1>6. NothingLost'
  BY <1>1 DEF Owned, NothingLost
<1> QED
  BY <1>4, <1>5, <1>6 DEF Owned

LEMMA OwnedHandle ==
  ASSUME ReplayInv, Ownership,
         \/ Publish \/ Synchronize
         \/ \E v \in ValueObjects : Reclaim(v)
         \/ \E close \in BOOLEAN : BeginFlush(close)
         \/ Flushed \/ FlushUndefined
  PROVE  Ownership'
<1>0. TypeOK /\ TypeInv /\ NoDoubleDrop /\ EvictedValid
  BY DEF ReplayInv, TypeInv, Ownership
<1>1. phase # "freed" /\ phase' # "freed" /\ Owned /\ UNCHANGED log
  BY DEF Ownership, Publish, Synchronize, Reclaim, BeginFlush, Flushed, FlushUndefined,
         UseHandle
<1>2. Ahead' = Ahead /\ (Behind' = Behind \/ (Flushed /\ Behind' = Ahead))
  <2>1. CASE Flushed
    <3>1. Len(history) = 0
      BY <1>0, <2>1, EmptySeq DEF Flushed, TypeOK
    <3>2. Ahead = Behind
      BY <1>1, <3>1 DEF ReplayInv, LogReplays, Reached
    <3> QED
      BY <2>1, <3>2 DEF Flushed, Ahead, Behind, Here
  <2>2. CASE ~Flushed
    BY <1>0, <2>2, OtherCopy
    DEF Ahead, Behind, Here, TypeOK, Publish, Synchronize, Reclaim, BeginFlush,
        FlushUndefined, UseHandle
  <2> QED
    BY <2>1, <2>2
<1>3. /\ \A o \in Objects : object'[o] = "aliased" <=> object[o] = "aliased"
      /\ \A o \in Objects : object'[o] # "corrupt"
      /\ object' = object \/ (synced' /\ phase' # "writing")
  BY <1>0 DEF NoDoubleDrop, TypeOK, Publish, Synchronize, Reclaim, BeginFlush, Flushed,
              FlushUndefined, UseHandle
<1>4. BehindValid'
  <2> SUFFICES ASSUME phase' = "writing" \/ ~synced'
               PROVE  \A o \in InMap(Behind)' : object'[o] \in {"aliased", "leaked"}
    BY DEF BehindValid
  <2>1. object' = object
    BY <1>3
  <2>2. CASE Behind' = Behind /\ (phase = "writing" \/ ~synced)
    BY <1>1, <2>1, <2>2 DEF Owned, BehindValid, InMap
  <2>3. CASE Flushed /\ Behind' = Ahead
    BY <1>1, <2>1, <2>3 DEF Owned, MapOwns, InMap
  <2>4. phase = "writing" \/ ~synced \/ Flushed
    BY <1>0 DEF TypeInv, WritesSynced, Publish, Synchronize, Reclaim, BeginFlush,
                FlushUndefined, UseHandle
  <2>5. CASE Flushed /\ Behind' # Ahead
    BY <1>0, <1>2, <2>5 DEF Flushed, TypeInv, WritesSynced, Ahead, Behind, Here
  <2> QED
    BY <1>2, <2>2, <2>3, <2>4, <2>5
<1>5. Owned'
  BY <1>1, <1>2, <1>3, <1>4, OwnedFrame
<1>6. NoDoubleDrop' /\ NoLeak'
  BY <1>1, <1>3 DEF NoDoubleDrop, NoLeak
<1>7. EvictedValid'
  <2>1. evicted' = {} \/ (evicted' = evicted /\ object' = object)
    BY DEF Publish, Synchronize, Reclaim, BeginFlush, Flushed, FlushUndefined, UseHandle
  <2> QED
    BY <1>0, <1>1, <2>1 DEF EvictedValid, log
<1> QED
  BY <1>5, <1>6, <1>7 DEF Ownership

(* One turn of flush_operations: what it drops it owns, and nobody else.   *)
LEMMA OwnedFlush ==
  ASSUME ReplayInv, Ownership, FlushOperation
  PROVE  Ownership'
<1> PICK n \in Nat : n = Len(operations)
  BY LenProperties DEF ReplayInv, TypeInv, TypeOK
<1>0. TypeOK /\ TypeInv /\ NoDoubleDrop /\ phase = "flush" /\ phase' = "flush" /\ synced' = synced
  BY DEF ReplayInv, TypeInv, Ownership, FlushOperation
<1>1. Owned /\ synced /\ evicted = {} /\ evicted' = {}
  BY <1>0 DEF Ownership, TypeInv, WritesSynced, EvictedInUse, FlushOperation
<1>2. /\ n > 0 /\ Positions = 1 .. n /\ Positions' = 1 .. n - 1
      /\ \A i \in 1 .. n - 1 : ToDrop(i)' = ToDrop(i + 1)
      /\ Head(operations) = operations[1]
  BY <1>0, Popped DEF FlushOperation, TypeOK, Positions, ToDrop
<1>3. Ahead' = Ahead
  BY <1>0, OtherCopy DEF FlushOperation, TypeOK, Ahead, Here
<1>4. history[1] = Here
  BY <1>0, <1>2 DEF ReplayInv, LogReplays, Reached, Behind, TypeOK
<1>5. object' = Dropped(ToDrop(1))
  BY <1>2, <1>4 DEF FlushOperation, ToDrop
<1>6. \A i \in 1 .. n : ToDrop(i) \subseteq Objects
  BY <1>0, <1>2, LoggedAreObjects
<1>7. /\ \A o \in ToDrop(1) : object[o] = "aliased" /\ o \notin InMap(Ahead)
      /\ \A i \in 2 .. n : ToDrop(i) \cap ToDrop(1) = {}
  BY <1>1, <1>2 DEF Owned, LogOwns, DroppedOnce
<1>8. \A o \in Objects : object'[o] = IF o \in ToDrop(1) THEN "gone" ELSE object[o]
  BY <1>5, <1>7 DEF Dropped
<1>9. InMap(Ahead) \subseteq Objects /\ InMap(Ahead)' = InMap(Ahead)
  BY <1>0, <1>3, HereType, MembersAreObjects DEF Ahead, InMap
<1>10. MapOwns' /\ Injective(Ahead)' /\ BehindValid'
  BY <1>0, <1>1, <1>3, <1>7, <1>8, <1>9 DEF Owned, MapOwns, Injective, BehindValid
<1>11. ASSUME NEW i \in 1 .. n - 1
       PROVE  /\ i + 1 \in 2 .. n /\ i + 1 \in Positions
              /\ ToDrop(i)' = ToDrop(i + 1) /\ ToDrop(i + 1) \subseteq Objects
  BY <1>2, <1>6
<1>12. LogOwns'
  BY <1>1, <1>2, <1>7, <1>8, <1>9, <1>11 DEF Owned, LogOwns
<1>13. DroppedOnce'
  BY <1>1, <1>2, <1>11 DEF Owned, DroppedOnce
<1>14. NothingLost'
  <2> SUFFICES ASSUME NEW o \in Objects, object'[o] = "aliased", o \notin InMap(Ahead)
               PROVE  \E i \in 1 .. n - 1 : o \in ToDrop(i)'
    BY <1>2, <1>9 DEF NothingLost
  <2>1. object[o] = "aliased" /\ o \notin ToDrop(1)
    BY <1>8
  <2>2. PICK i \in 1 .. n : o \in ToDrop(i)
    BY <1>1, <1>2, <2>1 DEF Owned, NothingLost
  <2>3. i - 1 \in 1 .. n - 1 /\ (i - 1) + 1 = i
    BY <2>1, <2>2
  <2> QED
    BY <1>2, <2>2, <2>3
<1>15. NoDoubleDrop' /\ NoLeak' /\ EvictedValid'
  BY <1>0, <1>1, <1>8 DEF NoDoubleDrop, NoLeak, EvictedValid
<1> QED
  BY <1>10, <1>12, <1>13, <1>14, <1>15 DEF Ownership, Owned

(* Drop for Core drops what is left, all of it.                            *)
LEMMA OwnedFree ==
  ASSUME ReplayInv, Ownership, FreeCore
  PROVE  Ownership'
<1>0. TypeOK /\ TypeInv /\ NoDoubleDrop /\ phase = "closed" /\ phase' = "freed"
  BY DEF ReplayInv, TypeInv, Ownership, FreeCore
<1>1. Owned /\ evicted = {} /\ evicted' = {} /\ operations = <<>>
  BY <1>0 DEF Ownership, TypeInv, EvictedInUse, ClosedIsFlushed, FreeCore
<1>2. Positions = {}
  BY <1>1, EmptySeq DEF Positions
<1>3. \A o \in Objects : object[o] = "aliased" <=> o \in InMap(Ahead)
  BY <1>1, <1>2 DEF Owned, MapOwns, NothingLost
<1>4. object' = Dropped(InMap(Ahead))
  BY <1>0 DEF FreeCore, Ahead
<1>5. \A o \in Objects : object'[o] = IF object[o] = "aliased" THEN "gone" ELSE object[o]
  BY <1>3, <1>4 DEF Dropped
<1>6. NoDoubleDrop' /\ NoLeak' /\ EvictedValid'
  BY <1>0, <1>1, <1>5 DEF NoDoubleDrop, NoLeak, EvictedValid
<1> QED
  BY <1>0, <1>6 DEF Ownership

LEMMA OwnershipStep ==
  ASSUME NoFaults, ReplayInv, Ownership, [Next]_vars
  PROVE  Ownership'
<1>1. CASE UNCHANGED vars \/ Terminated
  <2>1. /\ UNCHANGED <<maps, writer_map, operations, history, object, evicted, phase, synced>>
    BY <1>1 DEF Terminated, vars, log
  <2>2. Ahead' = Ahead /\ Behind' = Behind
    BY <2>1 DEF Ahead, Behind, Here
  <2>3. Owned => Owned'
    BY <2>1, <2>2
    DEF Owned, MapOwns, LogOwns, DroppedOnce, NothingLost, Injective, BehindValid, InMap,
        Positions, ToDrop
  <2> QED
    BY <2>1, <2>3 DEF Ownership, NoDoubleDrop, NoLeak, EvictedValid
<1>2. ~ForgetWriteGuard /\ ~FlushPanics
  BY DEF NoFaults, ForgetWriteGuard, FlushPanics
<1> QED
  BY <1>1, <1>2, OwnedInsertVacant, OwnedInsertOccupied, OwnedRemove, OwnedDropLazily,
     OwnedLeak, OwnedHandle, OwnedFlush, OwnedFree DEF Next

LEMMA OwnershipInvariance == NoFaults => (Spec => [](ReplayInv /\ Ownership))
<1> SUFFICES ASSUME NoFaults PROVE Spec => [](ReplayInv /\ Ownership)
  OBVIOUS
<1>1. Init => ReplayInv /\ Ownership
  BY TypeInit, ReplayInit, OwnershipInit DEF ReplayInv
<1>2. (ReplayInv /\ Ownership) /\ [Next]_vars => (ReplayInv /\ Ownership)'
  BY TypeStep, ReplayStep, OwnershipStep DEF ReplayInv
<1> QED
  BY <1>1, <1>2, PTL DEF Spec

-----------------------------------------------------------------------------
(* Nothing is dropped twice, nor while a Leaked owns it.                   *)
THEOREM NeverDroppedTwice == NoFaults => (Spec => []NoDoubleDrop)
<1>1. Ownership => NoDoubleDrop
  BY DEF Ownership
<1> QED
  BY <1>1, OwnershipInvariance, PTL

(* When both handles are gone, nothing the map owned is left.              *)
THEOREM NothingLeaks == NoFaults => (Spec => []NoLeak)
<1>1. Ownership => NoLeak
  BY DEF Ownership
<1> QED
  BY <1>1, OwnershipInvariance, PTL

(* An Evicted value is valid and its index is that of the operation whose  *)
(* replay would drop it, however late it is leaked.                        *)
THEOREM EvictedStaysValid == NoFaults => (Spec => []EvictedValid)
<1>1. Ownership => EvictedValid
  BY DEF Ownership
<1> QED
  BY <1>1, OwnershipInvariance, PTL

(* Readers are on the copy that is ahead, or on the one behind while what  *)
(* is on it is still valid.                                                *)
LEMMA SafeFromOwnership == ReplayInv /\ Ownership => ReadersSafe
<1> SUFFICES ASSUME ReplayInv, Ownership, NEW i \in Readable, NEW o \in InMap(maps[i])
             PROVE  object[o] \in {"aliased", "leaked"}
  BY DEF ReadersSafe
<1>1. phase # "freed" /\ Owned
  BY DEF Readable, Ownership
<1>2. maps[i] = Ahead \/ (maps[i] = Behind /\ (phase = "writing" \/ ~synced))
  BY <1>1 DEF Readable, Ahead, Behind, Here
<1> QED
  BY <1>1, <1>2 DEF Owned, MapOwns, BehindValid

(* No reader reaches an object that the flush or Drop for Core dropped, or *)
(* that reclaimer gave back.                                               *)
THEOREM ReadersReachValidObjects == NoFaults => (Spec => []ReadersSafe)
BY SafeFromOwnership, OwnershipInvariance, PTL
=============================================================================
