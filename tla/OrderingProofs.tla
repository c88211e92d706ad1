--------------------------- MODULE OrderingProofs ---------------------------
(***************************************************************************)
(* Proofs about Ordering: the orderings of the atomics and fences are      *)
(* enough for the plain memory they guard, for any number of handles,      *)
(* guards, threads and publishes.                                          *)
(***************************************************************************)
EXTENDS Ordering, CoreWakeupProofs

-----------------------------------------------------------------------------
(* Places and accesses are told apart by their names.                      *)
LEMMA PlaceNames ==
  /\ Writer \in Places /\ Residual \in Places /\ Mutex \in Places
  /\ Fenced \in Places /\ Pending \in Places
  /\ \A g \in Guards : Reader(g) \in Places
  /\ \A h \in Handles : Holder(h) \in Places /\ Ended(h) \in Places /\ Counter(h) \in Places
  /\ \A t \in Threads : Token(t) \in Places
<1>1. \A h \in Handles :
        {Holder(h), Ended(h), Counter(h)} \in {{Holder(x), Ended(x), Counter(x)} : x \in Handles}
  OBVIOUS
<1>2. \A h \in Handles : \A p \in {Holder(h), Ended(h), Counter(h)} : p \in Places
  BY <1>1 DEF Places
<1>3. (\A g \in Guards : Reader(g) \in Places) /\ (\A t \in Threads : Token(t) \in Places)
  BY DEF Places
<1>4. \A p \in {Writer, Residual, Mutex, Fenced, Pending} : p \in Places
  BY DEF Places
<1> QED
  BY <1>2, <1>3, <1>4

LEMMA Distinct ==
  /\ Writer # Residual /\ Writer # Mutex /\ Writer # Fenced /\ Writer # Pending
  /\ Residual # Mutex /\ Residual # Fenced /\ Residual # Pending
  /\ Mutex # Fenced /\ Mutex # Pending /\ Fenced # Pending
BY DEF Writer, Residual, Mutex, Fenced, Pending

LEMMA DistinctReader ==
  \A g : /\ Reader(g) \notin {Writer, Residual, Mutex, Fenced, Pending}
         /\ \A k : Reader(k) = Reader(g) => k = g
         /\ \A h : Reader(g) \notin {Holder(h), Ended(h), Counter(h), Token(h)}
BY DEF Reader, Writer, Residual, Mutex, Fenced, Pending, Holder, Ended, Counter, Token

LEMMA DistinctHandle ==
  \A h : /\ Holder(h) \notin {Writer, Residual, Mutex, Fenced, Pending}
         /\ Ended(h) \notin {Writer, Residual, Mutex, Fenced, Pending}
         /\ Counter(h) \notin {Writer, Residual, Mutex, Fenced, Pending}
         /\ \A k : /\ Holder(h) \notin {Ended(k), Counter(k), Token(k)}
                   /\ Ended(h) \notin {Counter(k), Token(k)}
                   /\ Counter(h) # Token(k)
                   /\ Holder(k) = Holder(h) => k = h
                   /\ Ended(k) = Ended(h) => k = h
                   /\ Counter(k) = Counter(h) => k = h
BY DEF Writer, Residual, Mutex, Fenced, Pending, Holder, Ended, Counter, Token

LEMMA DistinctToken ==
  \A t : /\ Token(t) \notin {Writer, Residual, Mutex, Fenced, Pending}
         /\ \A u : Token(u) = Token(t) => u = t
BY DEF Writer, Residual, Mutex, Fenced, Pending, Token

LEMMA AccessNames ==
  /\ \A i \in MapIndex : WriteOf(i) \in Accesses /\ WriteOf(i) \notin Reads
  /\ CellWrite \in Accesses /\ CellWrite \notin Reads
  /\ \A g \in Guards, i \in MapIndex : ReadOf(g, i) \in Reads
  /\ CellRead \in Reads
  /\ Reads \subseteq Accesses
  /\ \A i, j : /\ WriteOf(i) # CellWrite /\ WriteOf(i) # CellRead
               /\ WriteOf(i) = WriteOf(j) => i = j
  /\ \A g, k, i, j : /\ ReadOf(g, i) # CellRead /\ ReadOf(g, i) # CellWrite
                     /\ ReadOf(g, i) # WriteOf(j)
                     /\ ReadOf(g, i) = ReadOf(k, j) => g = k /\ i = j
  /\ CellRead # CellWrite
BY DEF Accesses, Reads, Writes, WriteOf, ReadOf, CellWrite, CellRead

(* What a place carries.                                                   *)
LEMMA Carried ==
  /\ \A g : Carries(Reader(g)) = Accesses
  /\ \A h : /\ Carries(Holder(h)) = Accesses \ {CellWrite}
            /\ Carries(Counter(h)) = Accesses \ {CellWrite}
            /\ Carries(Ended(h)) = Reads
            /\ Carries(Token(h)) = Reads
  /\ Carries(Mutex) = Accesses \ {CellWrite}
  /\ Carries(Fenced) = Accesses \ {CellWrite}
  /\ Carries(Residual) = Reads \cup {CellWrite}
  /\ Carries(Pending) = Reads
BY DEF Carries, Reader, Holder, Counter, Ended, Token, Mutex, Fenced, Residual, Pending

LEMMA AllCarryReads ==
  ASSUME NEW p \in Places, p # Writer
  PROVE  Reads \subseteq Carries(p)
<1>1. Reads \subseteq Accesses \ {CellWrite}
  BY AccessNames
<1>2. CASE p \in {Residual, Mutex, Fenced, Pending}
  BY <1>1, <1>2, Carried
<1>3. CASE \E g \in Guards : p = Reader(g)
  BY <1>1, <1>3, Carried
<1>4. CASE \E h \in Handles : p \in {Holder(h), Ended(h), Counter(h)}
  BY <1>1, <1>4, Carried
<1>5. CASE \E t \in Threads : p = Token(t)
  BY <1>1, <1>5, Carried
<1> QED
  BY <1>2, <1>3, <1>4, <1>5 DEF Places

Views == [Places -> SUBSET Accesses]

(* Settling keeps the writes where they are carried, and a read until the  *)
(* writer knows of it.                                                     *)
LEMMA SettledViews ==
  ASSUME NEW k \in Views
  PROVE  Settled(k) \in Views /\ Settled(k)[Writer] = k[Writer]
BY PlaceNames DEF Settled, Views

LEMMA SettledWrites ==
  ASSUME NEW k \in Views, NEW i \in MapIndex
  PROVE  /\ \A g \in Guards : WriteOf(i) \in Settled(k)[Reader(g)] <=> WriteOf(i) \in k[Reader(g)]
         /\ \A h \in Handles : /\ WriteOf(i) \in Settled(k)[Holder(h)]
                                    <=> WriteOf(i) \in k[Holder(h)]
                               /\ WriteOf(i) \in Settled(k)[Counter(h)]
                                    <=> WriteOf(i) \in k[Counter(h)]
         /\ WriteOf(i) \in Settled(k)[Mutex] <=> WriteOf(i) \in k[Mutex]
         /\ WriteOf(i) \in Settled(k)[Fenced] <=> WriteOf(i) \in k[Fenced]
<1>1. WriteOf(i) \in Accesses \ {CellWrite} /\ WriteOf(i) \notin Reads
  BY AccessNames
<1>2. ASSUME NEW p \in Places, p # Writer, WriteOf(i) \in Carries(p)
      PROVE  WriteOf(i) \in Settled(k)[p] <=> WriteOf(i) \in k[p]
  BY <1>1, <1>2 DEF Settled
<1> QED
  BY <1>1, <1>2, PlaceNames, Carried, Distinct, DistinctReader, DistinctHandle

LEMMA SettledCell ==
  ASSUME NEW k \in Views
  PROVE  /\ \A g \in Guards : CellWrite \in Settled(k)[Reader(g)] <=> CellWrite \in k[Reader(g)]
         /\ CellWrite \in Settled(k)[Residual] <=> CellWrite \in k[Residual]
<1>1. CellWrite \in Accesses /\ CellWrite \notin Reads
  BY AccessNames
<1>2. ASSUME NEW p \in Places, p # Writer, CellWrite \in Carries(p)
      PROVE  CellWrite \in Settled(k)[p] <=> CellWrite \in k[p]
  BY <1>1, <1>2 DEF Settled
<1> QED
  BY <1>1, <1>2, PlaceNames, Carried, Distinct, DistinctReader

LEMMA SettledReads ==
  ASSUME NEW k \in Views, NEW r \in Reads, NEW p \in Places
  PROVE  r \in Settled(k)[Writer] \/ r \in Settled(k)[p] <=> r \in k[Writer] \/ r \in k[p]
<1>1. CASE p = Writer
  BY <1>1, SettledViews
<1>2. CASE p # Writer
  BY <1>2, SettledViews, AllCarryReads DEF Settled
<1> QED
  BY <1>1, <1>2

-----------------------------------------------------------------------------
(* The views after each kind of access, place by place.                    *)
LEMMA Loaded ==
  ASSUME NEW k \in Views, NEW a \in Places, NEW l \in Places, NEW ord, Acquires(ord)
  PROVE  /\ load(k, a, l, ord) \in Views
         /\ \A p \in Places, e \in Accesses :
              e \in load(k, a, l, ord)[p] <=> e \in k[p] \/ (p = a /\ e \in k[l])
BY DEF load, Got, Views

LEMMA Stored ==
  ASSUME NEW k \in Views, NEW a \in Places, NEW l \in Places, NEW ord, Releases(ord)
  PROVE  /\ store(k, a, l, ord) \in Views
         /\ \A p \in Places, e \in Accesses :
              e \in store(k, a, l, ord)[p] <=> IF p = l THEN e \in k[a] ELSE e \in k[p]
BY DEF store, Passed, Views

LEMMA PutReleased ==
  ASSUME NEW k \in Views, NEW a \in Places, NEW l \in Places, NEW ord, Releases(ord)
  PROVE  /\ Put(k, a, l, ord) \in Views
         /\ \A p \in Places, e \in Accesses :
              e \in Put(k, a, l, ord)[p] <=> e \in k[p] \/ (p = l /\ e \in k[a])
BY DEF Put, Passed, Views

(* A read-modify-write that acquires and releases, acquires only, releases *)
(* only, and a relaxed one of the writer between its fences.               *)
LEMMA AddedAcqRel ==
  ASSUME NEW k \in Views, NEW a \in Places, NEW l \in Places, a # l
  PROVE  /\ fetch_add(k, a, l, "AcqRel") \in Views
         /\ \A p \in Places, e \in Accesses :
              e \in fetch_add(k, a, l, "AcqRel")[p]
                <=> e \in k[p] \/ (p = a /\ e \in k[l]) \/ (p = l /\ e \in k[a])
BY DEF fetch_add, Put, Passed, Got, Acquires, Releases, Views

LEMMA AddedAcquire ==
  ASSUME NEW k \in Views, NEW a \in Places, NEW l \in Places, a # l, a # Writer
  PROVE  /\ fetch_add(k, a, l, "Acquire") \in Views
         /\ \A p \in Places, e \in Accesses :
              e \in fetch_add(k, a, l, "Acquire")[p] <=> e \in k[p] \/ (p = a /\ e \in k[l])
BY DEF fetch_add, Put, Passed, Got, Acquires, Releases, Views

LEMMA AddedRelease ==
  ASSUME NEW k \in Views, NEW a \in Places, NEW l \in Places, a # l, a # Writer
  PROVE  /\ fetch_add(k, a, l, "Release") \in Views
         /\ \A p \in Places, e \in Accesses :
              e \in fetch_add(k, a, l, "Release")[p] <=> e \in k[p] \/ (p = l /\ e \in k[a])
BY DEF fetch_add, Put, Passed, Got, Acquires, Releases, Views

LEMMA AddedRelaxed ==
  ASSUME NEW k \in Views, NEW l \in Places, l \notin {Writer, Pending, Fenced}
  PROVE  /\ fetch_add(k, Writer, l, "Relaxed") \in Views
         /\ \A p \in Places, e \in Accesses :
              e \in fetch_add(k, Writer, l, "Relaxed")[p]
                <=> e \in k[p] \/ (p = l /\ e \in k[Fenced]) \/ (p = Pending /\ e \in k[l])
BY PlaceNames, Distinct DEF fetch_add, Put, Passed, Got, Acquires, Releases, Views

LEMMA Accessed ==
  ASSUME NEW k \in Views, NEW a \in Places, NEW x \in Accesses
  PROVE  /\ Access(k, a, x) \in Views
         /\ \A p \in Places, e \in Accesses :
              e \in Access(k, a, x)[p] <=> IF e = x THEN p = a ELSE e \in k[p]
BY DEF Access, Views

LEMMA EndedView ==
  ASSUME NEW k \in Views, NEW g \in Guards, ghandle[g] \in Handles
  PROVE  /\ End(k, g) \in Views
         /\ \A p \in Places, e \in Accesses :
              e \in End(k, g)[p] <=> /\ p # Reader(g)
                                     /\ \/ e \in k[p]
                                        \/ p = Ended(ghandle[g]) /\ e \in k[Reader(g)]
BY PlaceNames, DistinctReader DEF End, Views

-----------------------------------------------------------------------------
(* The views after each action.                                            *)
After(K) == K \in Views /\ knows' = Settled(K)

LEMMA LoadView ==
  ASSUME knows \in Views, (\E c \in Calls : Synchronize_ordered(c)) \/ Recheck_ordered
  PROVE  \E K : /\ After(K)
                /\ \A p \in Places, e \in Accesses :
                     e \in K[p] <=> e \in knows[p] \/ (p = Writer /\ e \in knows[Residual])
<1> DEFINE K == load(knows, Writer, Residual, "Acquire")
<1>1. knows' = Settled(K)
  BY DEF Synchronize_ordered, Recheck_ordered, Update, load_ordering, recheck_ordering
<1>2. Acquires("Acquire")
  BY DEF Acquires
<1>3. /\ K \in Views
      /\ \A p \in Places, e \in Accesses :
           e \in K[p] <=> e \in knows[p] \/ (p = Writer /\ e \in knows[Residual])
  BY <1>2, Loaded, PlaceNames
<1> HIDE DEF K
<1> QED
  BY <1>1, <1>3 DEF After

LEMMA SetWriterThreadView ==
  ASSUME knows \in Views, SetWriterThread_ordered
  PROVE  \E K : /\ After(K)
                /\ \A p \in Places, e \in Accesses :
                     e \in K[p] <=> IF e = CellWrite THEN p = Writer ELSE e \in knows[p]
<1> DEFINE K == Access(knows, Writer, CellWrite)
<1>1. knows' = Settled(K)
  BY DEF SetWriterThread_ordered, Update
<1>2. /\ K \in Views
      /\ \A p \in Places, e \in Accesses :
           e \in K[p] <=> IF e = CellWrite THEN p = Writer ELSE e \in knows[p]
  BY Accessed, PlaceNames, AccessNames
<1> HIDE DEF K
<1> QED
  BY <1>1, <1>2 DEF After

LEMMA SetWaitFlagView ==
  ASSUME knows \in Views, SetWaitFlag_ordered
  PROVE  \E K : /\ After(K)
                /\ \A p \in Places, e \in Accesses :
                     e \in K[p] <=> \/ e \in knows[p]
                                    \/ p = Writer /\ e \in knows[Residual]
                                    \/ p = Residual /\ e \in knows[Writer]
<1> DEFINE K == fetch_add(knows, Writer, Residual, "AcqRel")
<1>1. knows' = Settled(K)
  BY DEF SetWaitFlag_ordered, Update, wait_flag_ordering
<1>2. /\ K \in Views
      /\ \A p \in Places, e \in Accesses :
           e \in K[p] <=> \/ e \in knows[p]
                          \/ p = Writer /\ e \in knows[Residual]
                          \/ p = Residual /\ e \in knows[Writer]
  BY AddedAcqRel, PlaceNames, Distinct
<1> HIDE DEF K
<1> QED
  BY <1>1, <1>2 DEF After

LEMMA ResetResidualView ==
  ASSUME knows \in Views, ResetResidual_ordered
  PROVE  \E K : /\ After(K)
                /\ \A p \in Places, e \in Accesses :
                     e \in K[p] <=> IF p = Residual THEN e \in knows[Writer] ELSE e \in knows[p]
<1> DEFINE K == store(knows, Writer, Residual, "Release")
<1>1. knows' = Settled(K)
  BY DEF ResetResidual_ordered, Update, reset_ordering
<1>2. Releases("Release")
  BY DEF Releases
<1>3. /\ K \in Views
      /\ \A p \in Places, e \in Accesses :
           e \in K[p] <=> IF p = Residual THEN e \in knows[Writer] ELSE e \in knows[p]
  BY <1>2, Stored, PlaceNames
<1> HIDE DEF K
<1> QED
  BY <1>1, <1>3 DEF After

LEMMA ParkView ==
  ASSUME knows \in Views, current \in Threads, Park_ordered
  PROVE  \E K : /\ After(K)
                /\ \A p \in Places, e \in Accesses :
                     e \in K[p] <=> /\ p # Token(current)
                                    /\ \/ e \in knows[p]
                                       \/ p = Writer /\ e \in knows[Token(current)]
<1> DEFINE L == load(knows, Writer, Token(current), "Acquire")
           K == [L EXCEPT ![Token(current)] = {}]
<1>1. knows' = Settled(K)
  BY DEF Park_ordered, Update
<1>2. Acquires("Acquire") /\ Token(current) \in Places /\ Token(current) # Writer
  BY PlaceNames, DistinctToken DEF Acquires
<1>3. /\ L \in Views
      /\ \A p \in Places, e \in Accesses :
           e \in L[p] <=> e \in knows[p] \/ (p = Writer /\ e \in knows[Token(current)])
  BY <1>2, Loaded, PlaceNames
<1> HIDE DEF L
<1>4. /\ K \in Views
      /\ \A p \in Places, e \in Accesses : e \in K[p] <=> p # Token(current) /\ e \in L[p]
  BY <1>2, <1>3 DEF Views
<1> HIDE DEF K
<1>5. After(K)
  BY <1>1, <1>4 DEF After
<1> QED
  BY <1>2, <1>3, <1>4, <1>5

LEMMA WriteView ==
  ASSUME knows \in Views, writer_map \in MapIndex, FlushOperations_ordered \/ WriteOp_ordered
  PROVE  \E K : /\ After(K)
                /\ \A p \in Places, e \in Accesses :
                     e \in K[p] <=> IF e = WriteOf(writer_map) THEN p = Writer ELSE e \in knows[p]
<1> DEFINE K == Access(knows, Writer, WriteOf(writer_map))
<1>1. knows' = Settled(K)
  BY DEF FlushOperations_ordered, WriteOp_ordered, Update
<1>2. /\ K \in Views
      /\ \A p \in Places, e \in Accesses :
           e \in K[p] <=> IF e = WriteOf(writer_map) THEN p = Writer ELSE e \in knows[p]
  BY Accessed, PlaceNames, AccessNames
<1> HIDE DEF K
<1> QED
  BY <1>1, <1>2 DEF After

LEMMA PublishView ==
  ASSUME knows \in Views, Publish_ordered
  PROVE  \E K : /\ After(K)
                /\ \A p \in Places, e \in Accesses :
                     e \in K[p] <=> IF p = Fenced THEN e \in knows[Writer]
                                    ELSE e \in knows[p] \/ (p = Writer /\ e \in knows[Mutex])
<1> DEFINE L == [knows EXCEPT ![Fenced] = knows[Writer]]
           K == load(L, Writer, Mutex, "Acquire")
<1>1. knows' = Settled(K)
  BY DEF Publish_ordered, Update, lock, Releases, first_fence
<1>2. /\ L \in Views
      /\ \A p \in Places, e \in Accesses :
           e \in L[p] <=> IF p = Fenced THEN e \in knows[Writer] ELSE e \in knows[p]
  BY PlaceNames DEF Views
<1> HIDE DEF L
<1>3. Acquires("Acquire")
  BY DEF Acquires
<1>4. /\ K \in Views
      /\ \A p \in Places, e \in Accesses :
           e \in K[p] <=> e \in L[p] \/ (p = Writer /\ e \in L[Mutex])
  BY <1>2, <1>3, Loaded, PlaceNames
<1> HIDE DEF K
<1>5. After(K)
  BY <1>1, <1>4 DEF After
<1> QED
  BY <1>2, <1>4, <1>5, PlaceNames, Distinct

LEMMA SwapMapsView ==
  ASSUME knows \in Views, NEW h \in Handles, SwapMaps_ordered(h)
  PROVE  \E K : /\ After(K)
                /\ \A p \in Places, e \in Accesses :
                     e \in K[p] <=> \/ e \in knows[p]
                                    \/ p = Counter(h) /\ e \in knows[Fenced]
                                    \/ p = Pending /\ e \in knows[Counter(h)]
<1> DEFINE K == fetch_add(knows, Writer, Counter(h), "Relaxed")
<1>1. knows' = Settled(K)
  BY DEF SwapMaps_ordered, Update, swap_maps_ordering
<1>2. /\ K \in Views
      /\ \A p \in Places, e \in Accesses :
           e \in K[p] <=> \/ e \in knows[p]
                          \/ p = Counter(h) /\ e \in knows[Fenced]
                          \/ p = Pending /\ e \in knows[Counter(h)]
  BY AddedRelaxed, PlaceNames, DistinctHandle
<1> HIDE DEF K
<1> QED
  BY <1>1, <1>2 DEF After

LEMMA UnlockView ==
  ASSUME knows \in Views, Unlock_ordered
  PROVE  \E K : /\ After(K)
                /\ \A p \in Places, e \in Accesses :
                     e \in K[p] <=> e \in knows[p] \/ (p = Mutex /\ e \in knows[Writer])
<1> DEFINE K == Put(knows, Writer, Mutex, "Release")
<1>1. knows' = Settled(K)
  BY DEF Unlock_ordered, Update, unlock
<1>2. Releases("Release")
  BY DEF Releases
<1>3. /\ K \in Views
      /\ \A p \in Places, e \in Accesses :
           e \in K[p] <=> e \in knows[p] \/ (p = Mutex /\ e \in knows[Writer])
  BY <1>2, PutReleased, PlaceNames
<1> HIDE DEF K
<1> QED
  BY <1>1, <1>3 DEF After

LEMMA AddResidualView ==
  ASSUME knows \in Views, AddResidual_ordered
  PROVE  \E K : /\ After(K)
                /\ \A p \in Places, e \in Accesses :
                     e \in K[p] <=> /\ p \notin {Pending, Fenced}
                                    /\ \/ e \in knows[p]
                                       \/ p = Writer /\ e \in knows[Pending]
                                       \/ p = Writer /\ e \in knows[Residual]
                                       \/ p = Residual /\ e \in knows[Fenced]
<1> DEFINE L == fetch_add(knows, Writer, Residual, "Relaxed")
           K == [L EXCEPT ![Writer] = @ \cup L[Pending], ![Pending] = {}, ![Fenced] = {}]
<1>1. knows' = Settled(K)
  BY DEF AddResidual_ordered, Update, Acquires, last_fence, add_residual_ordering
<1>2. /\ L \in Views
      /\ \A p \in Places, e \in Accesses :
           e \in L[p] <=> \/ e \in knows[p]
                          \/ p = Residual /\ e \in knows[Fenced]
                          \/ p = Pending /\ e \in knows[Residual]
  BY AddedRelaxed, PlaceNames, Distinct
<1> HIDE DEF L
<1>3. /\ K \in Views
      /\ \A p \in Places, e \in Accesses :
           e \in K[p] <=> /\ p \notin {Pending, Fenced}
                          /\ e \in L[p] \/ (p = Writer /\ e \in L[Pending])
  BY <1>2, PlaceNames, Distinct DEF Views
<1> HIDE DEF K
<1>4. After(K)
  BY <1>1, <1>3 DEF After
<1> QED
  BY <1>2, <1>3, <1>4, PlaceNames, Distinct

LEMMA NewReaderView ==
  ASSUME knows \in Views, NEW src \in Handles, NEW h \in Handles, NewReader_ordered(src, h)
  PROVE  \E K : /\ After(K)
                /\ \A p \in Places, e \in Accesses :
                     e \in K[p] <=> IF p = Holder(h)
                                    THEN e \in knows[Holder(src)] \/ e \in knows[Mutex]
                                    ELSE e \in knows[p] \/ (p = Mutex /\ e \in knows[Holder(src)])
<1> DEFINE L == Put(knows, Holder(src), Mutex, "Release")
           K == [L EXCEPT ![Holder(h)] = knows[Holder(src)] \cup knows[Mutex]]
<1>1. knows' = Settled(K)
  BY DEF NewReader_ordered, Update, unlock
<1>2. Releases("Release") /\ Holder(h) \in Places /\ Holder(src) \in Places
  BY PlaceNames DEF Releases
<1>3. /\ L \in Views
      /\ \A p \in Places, e \in Accesses :
           e \in L[p] <=> e \in knows[p] \/ (p = Mutex /\ e \in knows[Holder(src)])
  BY <1>2, PutReleased, PlaceNames
<1> HIDE DEF L
<1>4. /\ K \in Views
      /\ \A p \in Places, e \in Accesses :
           e \in K[p] <=> IF p = Holder(h) THEN e \in knows[Holder(src)] \/ e \in knows[Mutex]
                          ELSE e \in L[p]
  BY <1>2, <1>3, PlaceNames DEF Views
<1> HIDE DEF K
<1>5. After(K)
  BY <1>1, <1>4 DEF After
<1> QED
  BY <1>3, <1>4, <1>5

LEMMA DropHandleView ==
  ASSUME knows \in Views, NEW h \in Handles, DropHandle_ordered(h)
  PROVE  \E K : /\ After(K)
                /\ \A p \in Places, e \in Accesses :
                     e \in K[p] <=> /\ p \notin {Holder(h), Ended(h), Counter(h)}
                                    /\ \/ e \in knows[p]
                                       \/ p = Mutex /\ e \in knows[Holder(h)]
                                       \/ p = Mutex /\ e \in knows[Ended(h)]
<1> DEFINE K == [knows EXCEPT ![Mutex] = @ \cup knows[Holder(h)] \cup knows[Ended(h)],
                              ![Holder(h)] = {}, ![Ended(h)] = {}, ![Counter(h)] = {}]
<1>1. knows' = Settled(K)
  BY DEF DropHandle_ordered, Update
<1>2. /\ K \in Views
      /\ \A p \in Places, e \in Accesses :
           e \in K[p] <=> /\ p \notin {Holder(h), Ended(h), Counter(h)}
                          /\ \/ e \in knows[p]
                             \/ p = Mutex /\ e \in knows[Holder(h)]
                             \/ p = Mutex /\ e \in knows[Ended(h)]
  BY PlaceNames DEF Views
<1> HIDE DEF K
<1> QED
  BY <1>1, <1>2 DEF After

(* The read of the copy is new: nobody else knows of it.                   *)
LEMMA GuardView ==
  ASSUME knows \in Views, NEW g \in Guards, NEW h \in Handles, gmap'[g] \in MapIndex,
         Guard_ordered(g, h)
  PROVE  \E K : /\ After(K)
                /\ \A p \in Places, e \in Accesses :
                     e \in K[p] <=> IF e = ReadOf(g, gmap'[g]) THEN p = Reader(g)
                                    ELSE IF p = Reader(g)
                                    THEN e \in knows[Holder(h)] \/ e \in knows[Counter(h)]
                                    ELSE e \in knows[p]
<1> DEFINE L == [knows EXCEPT ![Reader(g)] = knows[Holder(h)]]
           M == fetch_add(L, Reader(g), Counter(h), "Acquire")
           K == Access(M, Reader(g), ReadOf(g, gmap'[g]))
<1>1. knows' = Settled(K)
  BY DEF Guard_ordered, Update, increment_ordering
<1>2. /\ Reader(g) \in Places /\ Counter(h) \in Places /\ Holder(h) \in Places
      /\ Reader(g) # Counter(h) /\ Reader(g) # Writer
      /\ ReadOf(g, gmap'[g]) \in Accesses
  BY PlaceNames, DistinctReader, AccessNames
<1>3. /\ L \in Views
      /\ \A p \in Places, e \in Accesses :
           e \in L[p] <=> IF p = Reader(g) THEN e \in knows[Holder(h)] ELSE e \in knows[p]
  BY <1>2 DEF Views
<1> HIDE DEF L
<1>4. /\ M \in Views
      /\ \A p \in Places, e \in Accesses :
           e \in M[p] <=> e \in L[p] \/ (p = Reader(g) /\ e \in L[Counter(h)])
  BY <1>2, <1>3, AddedAcquire
<1> HIDE DEF M
<1>5. /\ K \in Views
      /\ \A p \in Places, e \in Accesses :
           e \in K[p] <=> IF e = ReadOf(g, gmap'[g]) THEN p = Reader(g) ELSE e \in M[p]
  BY <1>2, <1>4, Accessed
<1> HIDE DEF K
<1>6. After(K)
  BY <1>1, <1>5 DEF After
<1> QED
  BY <1>2, <1>3, <1>4, <1>5, <1>6

LEMMA DropGuardView ==
  ASSUME knows \in Views, NEW g \in Guards, ghandle[g] \in Handles, DropGuard_ordered(g)
  PROVE  \E K : /\ After(K)
                /\ \A p \in Places, e \in Accesses :
                     e \in K[p] <=> /\ gpc'[g] = "free" => p # Reader(g)
                                    /\ \/ e \in knows[p]
                                       \/ p = Counter(ghandle[g]) /\ e \in knows[Reader(g)]
                                       \/ /\ gpc'[g] = "free" /\ p = Ended(ghandle[g])
                                          /\ e \in knows[Reader(g)]
<1> DEFINE L == fetch_add(knows, Reader(g), Counter(ghandle[g]), "Release")
           K == IF gpc'[g] = "free" THEN End(L, g) ELSE L
<1>1. knows' = Settled(K)
  BY DEF DropGuard_ordered, Update, decrement_ordering
<1>2. /\ Reader(g) \in Places /\ Counter(ghandle[g]) \in Places
      /\ Reader(g) # Counter(ghandle[g]) /\ Reader(g) # Writer
  BY PlaceNames, DistinctReader
<1>3. /\ L \in Views
      /\ \A p \in Places, e \in Accesses :
           e \in L[p] <=> e \in knows[p] \/ (p = Counter(ghandle[g]) /\ e \in knows[Reader(g)])
  BY <1>2, AddedRelease
<1> HIDE DEF L
<1>4. /\ End(L, g) \in Views
      /\ \A p \in Places, e \in Accesses :
           e \in End(L, g)[p] <=> /\ p # Reader(g)
                                  /\ \/ e \in L[p]
                                     \/ p = Ended(ghandle[g]) /\ e \in L[Reader(g)]
  BY <1>3, EndedView
<1>5. /\ K \in Views
      /\ \A p \in Places, e \in Accesses :
           e \in K[p] <=> IF gpc'[g] = "free" THEN e \in End(L, g)[p] ELSE e \in L[p]
  BY <1>3, <1>4
<1> HIDE DEF K
<1>6. After(K)
  BY <1>1, <1>5 DEF After
<1> QED
  BY <1>2, <1>3, <1>4, <1>5, <1>6

LEMMA ReleaseResidualView ==
  ASSUME knows \in Views, NEW g \in Guards, ghandle[g] \in Handles, ReleaseResidual_ordered(g)
  PROVE  \E K : /\ After(K)
                /\ \A p \in Places, e \in Accesses :
                     /\ e \in knows[p] /\ p # Reader(g) => e \in K[p]
                     /\ e \in knows[Reader(g)] => e \in K[Residual]
                     /\ gpc'[g] # "free" /\ (e \in knows[Reader(g)] \/ e \in knows[Residual])
                          => e \in K[Reader(g)]
<1> DEFINE L == fetch_add(knows, Reader(g), Residual, "AcqRel")
           K == IF gpc'[g] = "free" THEN End(L, g) ELSE L
<1>1. knows' = Settled(K)
  BY DEF ReleaseResidual_ordered, Update, release_ordering
<1>2. /\ Reader(g) \in Places /\ Residual \in Places /\ Reader(g) # Residual
  BY PlaceNames, DistinctReader
<1>3. /\ L \in Views
      /\ \A p \in Places, e \in Accesses :
           e \in L[p] <=> \/ e \in knows[p]
                          \/ p = Reader(g) /\ e \in knows[Residual]
                          \/ p = Residual /\ e \in knows[Reader(g)]
  BY <1>2, AddedAcqRel
<1> HIDE DEF L
<1>4. /\ End(L, g) \in Views
      /\ \A p \in Places, e \in Accesses :
           e \in End(L, g)[p] <=> /\ p # Reader(g)
                                  /\ \/ e \in L[p]
                                     \/ p = Ended(ghandle[g]) /\ e \in L[Reader(g)]
  BY <1>3, EndedView
<1>5. /\ K \in Views
      /\ \A p \in Places, e \in Accesses :
           e \in K[p] <=> IF gpc'[g] = "free" THEN e \in End(L, g)[p] ELSE e \in L[p]
  BY <1>3, <1>4
<1> HIDE DEF K
<1>6. After(K)
  BY <1>1, <1>5 DEF After
<1> QED
  BY <1>2, <1>3, <1>4, <1>5, <1>6

LEMMA StoreZeroView ==
  ASSUME knows \in Views, NEW g \in Guards, StoreZero_ordered(g)
  PROVE  \E K : /\ After(K)
                /\ \A p \in Places, e \in Accesses :
                     e \in K[p] <=> IF p = Residual THEN e \in knows[Reader(g)] ELSE e \in knows[p]
<1> DEFINE K == store(knows, Reader(g), Residual, "Release")
<1>1. knows' = Settled(K)
  BY DEF StoreZero_ordered, Update, store_zero_ordering
<1>2. Releases("Release") /\ Reader(g) \in Places
  BY PlaceNames DEF Releases
<1>3. /\ K \in Views
      /\ \A p \in Places, e \in Accesses :
           e \in K[p] <=> IF p = Residual THEN e \in knows[Reader(g)] ELSE e \in knows[p]
  BY <1>2, Stored, PlaceNames
<1> HIDE DEF K
<1> QED
  BY <1>1, <1>3 DEF After

(* Of the read of writer_thread the token knows, and whoever drops the     *)
(* handle.                                                                 *)
LEMMA UnparkView ==
  ASSUME knows \in Views, NEW g \in Guards, ghandle[g] \in Handles, writer_thread \in Threads,
         Unpark_ordered(g)
  PROVE  \E K : /\ After(K)
                /\ \A p \in Places, e \in Accesses :
                     /\ e # CellRead /\ e \in knows[p] /\ p # Reader(g) => e \in K[p]
                     /\ e = CellRead /\ p = Token(writer_thread) => e \in K[p]
<1> DEFINE L == Access(knows, Reader(g), CellRead)
           M == Put(L, Reader(g), Token(writer_thread), "Release")
           K == End(M, g)
<1>1. knows' = Settled(K)
  BY DEF Unpark_ordered, Update
<1>2. /\ Reader(g) \in Places /\ Token(writer_thread) \in Places /\ Releases("Release")
      /\ Reader(g) # Token(writer_thread) /\ CellRead \in Accesses
  BY PlaceNames, DistinctReader, AccessNames DEF Releases
<1>3. /\ L \in Views
      /\ \A p \in Places, e \in Accesses :
           e \in L[p] <=> IF e = CellRead THEN p = Reader(g) ELSE e \in knows[p]
  BY <1>2, Accessed
<1> HIDE DEF L
<1>4. /\ M \in Views
      /\ \A p \in Places, e \in Accesses :
           e \in M[p] <=> e \in L[p] \/ (p = Token(writer_thread) /\ e \in L[Reader(g)])
  BY <1>2, <1>3, PutReleased
<1> HIDE DEF M
<1>5. /\ K \in Views
      /\ \A p \in Places, e \in Accesses :
           e \in K[p] <=> /\ p # Reader(g)
                          /\ \/ e \in M[p]
                             \/ p = Ended(ghandle[g]) /\ e \in M[Reader(g)]
  BY <1>4, EndedView
<1> HIDE DEF K
<1>6. After(K)
  BY <1>1, <1>5 DEF After
<1> QED
  BY <1>2, <1>3, <1>4, <1>5, <1>6

-----------------------------------------------------------------------------
(* Ordering runs Core: what is proved of Core holds in it.                 *)
LEMMA OrderedStep == [OrderedNext]_ordered_vars => [Next]_vars
<1> SUFFICES ASSUME OrderedNext PROVE [Next]_vars
  BY DEF ordered_vars
<1>1. CASE Terminated /\ UNCHANGED <<knows, early>>
  BY <1>1 DEF Next
<1>2. ASSUME ~aborted,
             \/ \E c \in Calls : Synchronize_ordered(c)
             \/ SetWriterThread_ordered \/ SetWaitFlag_ordered \/ ResetResidual_ordered
             \/ Park_ordered \/ ParkSpuriously_ordered \/ Recheck_ordered
             \/ \E t \in Threads : MoveWriter_ordered(t)
             \/ FlushOperations_ordered \/ WriteOp_ordered \/ Publish_ordered
             \/ \E h \in Handles : SwapMaps_ordered(h)
             \/ Unlock_ordered \/ AddResidual_ordered
      PROVE  Next
  BY <1>2
  DEF Next, WriterStep, Synchronize_ordered, SetWriterThread_ordered, SetWaitFlag_ordered,
      ResetResidual_ordered, Park_ordered, ParkSpuriously_ordered, Recheck_ordered,
      MoveWriter_ordered, FlushOperations_ordered, WriteOp_ordered, Publish_ordered,
      SwapMaps_ordered, Unlock_ordered, AddResidual_ordered
<1>3. ASSUME ~aborted,
             \/ \E src, h \in Handles : NewReader_ordered(src, h)
             \/ \E h \in Handles : DropHandle_ordered(h)
             \/ \E g \in Guards, h \in Handles : Guard_ordered(g, h)
             \/ \E g \in Guards : \/ DropGuard_ordered(g) \/ ReleaseResidual_ordered(g)
                                  \/ StoreZero_ordered(g) \/ Unpark_ordered(g)
      PROVE  Next
  BY <1>3
  DEF Next, ReleaseStep, NewReader_ordered, DropHandle_ordered, Guard_ordered,
      DropGuard_ordered, ReleaseResidual_ordered, StoreZero_ordered, Unpark_ordered
<1> QED
  BY <1>1, <1>2, <1>3 DEF OrderedNext

(* A guard that is not free has a handle's name until the end of its drop. *)
Named ==
  \A g \in Guards : gpc[g] \in {"live", "release", "last", "unpark"} => ghandle[g] \in Handles

LEMMA NamedStep == TypeOK /\ Named /\ [Next]_vars => Named'
<1> SUFFICES ASSUME TypeOK, Named, [Next]_vars PROVE Named'
  OBVIOUS
<1> USE DEF core, data, writer, guards, Named
<1>1. ASSUME NEW h \in Handles, DropHandle(h) PROVE Named'
  BY <1>1 DEF DropHandle
<1>2. ASSUME NEW g \in Guards, NEW h \in Handles, Guard(g, h) PROVE Named'
  BY <1>2 DEF Guard, TypeOK
<1>3. ASSUME NEW g \in Guards, DropGuard(g) \/ ForgetGuard(g) \/ ReleaseStep(g) PROVE Named'
  BY <1>3 DEF DropGuard, ForgetGuard, ReleaseStep, Abort, ReleaseResidual, StoreZero, Unpark,
              Leave, TypeOK
<1>4. CASE UNCHANGED <<gpc, ghandle>>
  BY <1>4
<1> QED
  BY <1>1, <1>2, <1>3, <1>4
  DEF Next, WriterStep, Terminated, vars, Synchronize, SetWriterThread, SetWaitFlag,
      ResetResidual, Park, ParkSpuriously, Recheck, MoveWriter, FlushOperations, WriteOp,
      Publish, SwapMaps, AbortPublish, Unlock, AddResidual, NewReader

Base == IInv /\ Wakeup /\ Named

LEMMA BaseInvariance == OrderedSpec => []Base
<1>1. OrderedInit => Init /\ Named
  BY DEF OrderedInit, Init, Named
<1>2. IInv /\ Named /\ [Next]_vars => Named'
  BY NamedStep DEF IInv, TypeInv
<1>3. OrderedSpec => Spec
  BY <1>1, OrderedStep, PTL DEF OrderedSpec, Spec
<1>4. IInv /\ Wakeup /\ Named => Base
  BY DEF Base
<1> QED
  BY <1>1, <1>2, <1>3, <1>4, OrderedStep, WakeupInvariance, PTL DEF OrderedSpec

-----------------------------------------------------------------------------
(* Writes reach readers.  The writer knows of its writes.  The newest      *)
(* write of the copy a handle hands out is known to the handle's holder or *)
(* waits in the handle's RefCount; that of the copy published last, to a   *)
(* cloner or in the mutex; and while publish swaps the RefCounts, it is    *)
(* what the first fence lets them release.                                 *)
WriterKnows == \A i \in MapIndex : WriteOf(i) \in knows[Writer]

HandlesKnow ==
  \A h \in handles : LET w == WriteOf(to_map_index(refcounts[h])) IN
    w \in knows[Holder(h)] \/ w \in knows[Counter(h)]

MutexKnows ==
  wpc # "swap" =>
    \A h \in handles : \/ WriteOf(other(writer_map)) \in knows[Holder(h)]
                       \/ WriteOf(other(writer_map)) \in knows[Mutex]

FenceKnows == wpc = "swap" => WriteOf(other(writer_map)) \in knows[Fenced]

WriteViews ==
  /\ knows \in Views
  /\ WriterKnows /\ HandlesKnow /\ MutexKnows /\ FenceKnows /\ ReadsAfterWrites

LEMMA WriteViewsInit == OrderedInit => WriteViews
<1> SUFFICES ASSUME OrderedInit PROVE WriteViews
  OBVIOUS
<1>1. /\ knows \in [Places -> SUBSET Accesses]
      /\ knows[Writer] = Accesses
      /\ \A h \in handles : knows[Holder(h)] = Writes \ {CellWrite}
  <2>1. handles \subseteq Handles
    BY DEF OrderedInit, Init
  <2>2. \A p \in Places : knows[p] = IF p = Writer THEN Accesses
                                    ELSE IF \E h \in handles : p = Holder(h)
                                    THEN Writes \ {CellWrite} ELSE {}
    BY DistinctHandle DEF OrderedInit
  <2>3. Writes \subseteq Accesses
    BY DEF Accesses
  <2> QED
    BY <2>1, <2>2, <2>3, PlaceNames, DistinctHandle DEF OrderedInit
<1>2. \A i \in MapIndex : WriteOf(i) \in Writes \ {CellWrite}
  BY AccessNames DEF Writes
<1>3. IInv
  BY InvInit DEF OrderedInit
<1>4. \A h \in handles : to_map_index(refcounts[h]) \in MapIndex
  BY <1>3, WordParts DEF IInv, TypeInv, TypeOK
<1>5. other(writer_map) \in MapIndex
  BY <1>3, Other DEF IInv, TypeInv, TypeOK
<1>6. HandlesKnow /\ MutexKnows
  BY <1>1, <1>2, <1>4, <1>5 DEF HandlesKnow, MutexKnows
<1>7. WriterKnows
  BY <1>1, AccessNames DEF WriterKnows
<1>8. FenceKnows /\ ReadsAfterWrites
  BY DEF OrderedInit, Init, FenceKnows, ReadsAfterWrites
<1> QED
  BY <1>1, <1>6, <1>7, <1>8 DEF WriteViews, Views

(* The writes a place knows of, and still knows of after a step.           *)
Kept(K, p) == \A i \in MapIndex : WriteOf(i) \in knows[p] => WriteOf(i) \in K[p]

(* A step of the writer outside publish and its writes, of a guard that    *)
(* ends, or of a handle that is dropped.                                   *)
LEMMA WritesGrow ==
  ASSUME IInv, IInv', WriteViews, NEW K, After(K),
         UNCHANGED <<todo, writer_map>>, handles' \subseteq handles,
         wpc' = "swap" <=> wpc = "swap",
         \A g \in Guards : gpc'[g] = "live" => /\ gpc[g] = "live" /\ gmap'[g] = gmap[g]
                                               /\ Kept(K, Reader(g)),
         \A h \in handles' : Kept(K, Holder(h)) /\ Kept(K, Counter(h)),
         Kept(K, Writer), Kept(K, Mutex), wpc = "swap" => Kept(K, Fenced)
  PROVE  WriteViews'
<1>0. /\ TypeOK /\ handles \subseteq Handles
      /\ \A h \in handles : to_map_index(refcounts[h]) \in MapIndex
      /\ writer_map \in MapIndex /\ other(writer_map) \in MapIndex
  BY WordParts, Other DEF IInv, TypeInv, TypeOK
<1>1. K \in Views /\ knows' = Settled(K) /\ knows' \in Views /\ knows'[Writer] = K[Writer]
  BY SettledViews DEF After
<1>2. \A h \in handles' : to_map_index(refcounts'[h]) = to_map_index(refcounts[h])
  BY DEF IInv, Bookkeeping, FlagsDelivered
<1>3. WriterKnows'
  BY <1>1 DEF WriteViews, WriterKnows, Kept
<1>4. HandlesKnow'
  BY <1>0, <1>1, <1>2, SettledWrites DEF WriteViews, HandlesKnow, Kept
<1>5. MutexKnows' /\ FenceKnows'
  BY <1>0, <1>1, SettledWrites DEF WriteViews, MutexKnows, FenceKnows, Kept
<1>6. ReadsAfterWrites'
  BY <1>0, <1>1, SettledWrites DEF WriteViews, ReadsAfterWrites, Kept, TypeOK
<1> QED
  BY <1>1, <1>3, <1>4, <1>5, <1>6 DEF WriteViews

(* synchronize, the last step of publish, and the drops.                   *)
LEMMA WritesSynchronize ==
  ASSUME IInv, IInv', WriteViews,
         \/ \E c \in Calls : Synchronize_ordered(c)
         \/ SetWriterThread_ordered \/ SetWaitFlag_ordered \/ ResetResidual_ordered
         \/ Park_ordered \/ Recheck_ordered \/ AddResidual_ordered
  PROVE  WriteViews'
<1> USE DEF core, data, writer, guards
<1>0. knows \in Views /\ TypeOK /\ handles \subseteq Handles
  BY DEF WriteViews, IInv, TypeInv, TypeOK
<1>1. /\ UNCHANGED <<todo, writer_map, handles, gpc, gmap>>
      /\ wpc # "swap" /\ wpc' # "swap"
  BY DEF Synchronize_ordered, Synchronize, SetWriterThread_ordered, SetWriterThread,
         SetWaitFlag_ordered, SetWaitFlag, ResetResidual_ordered, ResetResidual, Park_ordered,
         Park, Recheck_ordered, Recheck, AddResidual_ordered, AddResidual, Return
<1>2. \E K : /\ After(K)
             /\ \A p \in Places, i \in MapIndex :
                  /\ p \notin {Residual, Pending, Fenced} /\ (\A t \in Threads : p # Token(t))
                  /\ WriteOf(i) \in knows[p]
                  => WriteOf(i) \in K[p]
  <2> USE <1>0, AccessNames
  <2>1. CASE (\E c \in Calls : Synchronize_ordered(c)) \/ Recheck_ordered
    BY <2>1, LoadView
  <2>2. CASE SetWriterThread_ordered
    BY <2>2, SetWriterThreadView
  <2>3. CASE SetWaitFlag_ordered
    BY <2>3, SetWaitFlagView
  <2>4. CASE ResetResidual_ordered
    BY <2>4, ResetResidualView
  <2>5. CASE Park_ordered
    BY <2>5, ParkView DEF TypeOK
  <2>6. CASE AddResidual_ordered
    BY <2>6, AddResidualView
  <2> QED
    BY <2>1, <2>2, <2>3, <2>4, <2>5, <2>6
<1>3. PICK K : /\ After(K)
               /\ \A p \in Places, i \in MapIndex :
                    /\ p \notin {Residual, Pending, Fenced} /\ (\A t \in Threads : p # Token(t))
                    /\ WriteOf(i) \in knows[p]
                    => WriteOf(i) \in K[p]
  BY <1>2
<1>4. Kept(K, Writer) /\ Kept(K, Mutex)
  BY <1>3, PlaceNames, Distinct, DistinctToken DEF Kept
<1>5. \A g \in Guards : Kept(K, Reader(g))
  BY <1>3, PlaceNames, DistinctReader DEF Kept
<1>6. \A h \in handles : Kept(K, Holder(h)) /\ Kept(K, Counter(h))
  BY <1>0, <1>3, PlaceNames, DistinctHandle DEF Kept
<1> QED
  BY <1>1, <1>3, <1>4, <1>5, <1>6, WritesGrow

LEMMA WritesDropHandle ==
  ASSUME IInv, IInv', WriteViews, NEW h \in Handles, DropHandle_ordered(h)
  PROVE  WriteViews'
<1>0. knows \in Views /\ handles \subseteq Handles
  BY DEF WriteViews, IInv, TypeInv, TypeOK
<1>1. UNCHANGED <<todo, writer_map, wpc>> /\ handles' = handles \ {h}
  BY DEF DropHandle_ordered, DropHandle, writer
<1>2. \A g \in Guards : gpc'[g] = "live" => gpc[g] = "live" /\ gmap'[g] = gmap[g]
  BY DEF DropHandle_ordered, DropHandle
<1>3. PICK K : /\ After(K)
               /\ \A p \in Places, e \in Accesses :
                    e \in knows[p] /\ p \notin {Holder(h), Ended(h), Counter(h)} => e \in K[p]
  BY <1>0, DropHandleView
<1>4. Kept(K, Writer) /\ Kept(K, Mutex) /\ Kept(K, Fenced)
  BY <1>3, AccessNames, PlaceNames, DistinctHandle DEF Kept
<1>5. \A g \in Guards : Kept(K, Reader(g))
  BY <1>3, AccessNames, PlaceNames, DistinctReader DEF Kept
<1>6. \A k \in handles' : Kept(K, Holder(k)) /\ Kept(K, Counter(k))
  BY <1>0, <1>1, <1>3, AccessNames, PlaceNames, DistinctHandle DEF Kept
<1> QED
  BY <1>1, <1>2, <1>3, <1>4, <1>5, <1>6, WritesGrow

LEMMA WritesDropGuard ==
  ASSUME IInv, IInv', Wakeup, Named, WriteViews, NEW g \in Guards,
         \/ DropGuard_ordered(g) \/ ReleaseResidual_ordered(g)
         \/ StoreZero_ordered(g) \/ Unpark_ordered(g)
  PROVE  WriteViews'
<1> USE DEF core, data, writer
<1>0. knows \in Views /\ handles \subseteq Handles /\ TypeOK /\ ghandle[g] \in Handles
  BY DEF WriteViews, IInv, TypeInv, TypeOK, Named, DropGuard_ordered, DropGuard,
         ReleaseResidual_ordered, ReleaseResidual, StoreZero_ordered, StoreZero, Unpark_ordered,
         Unpark
<1>1. /\ UNCHANGED <<todo, writer_map, wpc, handles>>
      /\ gpc'[g] # "live"
      /\ \A k \in Guards \ {g} : gpc'[k] = gpc[k] /\ gmap'[k] = gmap[k]
  BY <1>0 DEF TypeOK, DropGuard_ordered, DropGuard, ReleaseResidual_ordered, ReleaseResidual,
         StoreZero_ordered, StoreZero, Unpark_ordered, Unpark, Leave
<1>2. \E K : /\ After(K)
             /\ \A p \in Places, i \in MapIndex :
                  /\ p # Reader(g) /\ p # Residual /\ WriteOf(i) \in knows[p]
                  => WriteOf(i) \in K[p]
  <2> USE <1>0, AccessNames
  <2>1. CASE DropGuard_ordered(g)
    BY <2>1, DropGuardView
  <2>2. CASE ReleaseResidual_ordered(g)
    BY <2>2, ReleaseResidualView
  <2>3. CASE StoreZero_ordered(g)
    BY <2>3, StoreZeroView
  <2>4. CASE Unpark_ordered(g)
    <3>1. writer_thread \in Threads
      BY <2>4 DEF Unpark_ordered, Unpark, Wakeup, UnparkHasTarget, TypeOK
    <3> QED
      BY <2>4, <3>1, UnparkView
  <2> QED
    BY <2>1, <2>2, <2>3, <2>4
<1>3. PICK K : /\ After(K)
               /\ \A p \in Places, i \in MapIndex :
                    /\ p # Reader(g) /\ p # Residual /\ WriteOf(i) \in knows[p]
                    => WriteOf(i) \in K[p]
  BY <1>2
<1>4. Kept(K, Writer) /\ Kept(K, Mutex) /\ Kept(K, Fenced)
  BY <1>3, PlaceNames, Distinct, DistinctReader DEF Kept
<1>5. \A k \in Guards : gpc'[k] = "live" => Kept(K, Reader(k))
  BY <1>1, <1>3, PlaceNames, DistinctReader DEF Kept
<1>6. \A h \in handles : Kept(K, Holder(h)) /\ Kept(K, Counter(h))
  BY <1>0, <1>3, PlaceNames, DistinctHandle, DistinctReader DEF Kept
<1> QED
  BY <1>1, <1>3, <1>4, <1>5, <1>6, WritesGrow

(* A write is of the copy nobody reads: what was known of the other one    *)
(* still is.                                                               *)
LEMMA WritesWrite ==
  ASSUME IInv, IInv', WriteViews, FlushOperations_ordered \/ WriteOp_ordered
  PROVE  WriteViews'
<1> USE DEF core, data, writer, guards
<1>0. /\ knows \in Views /\ TypeOK /\ handles \subseteq Handles
      /\ writer_map \in MapIndex /\ other(writer_map) \in MapIndex
      /\ other(writer_map) # writer_map
  BY Other DEF WriteViews, IInv, TypeInv, TypeOK
<1>1. /\ UNCHANGED <<writer_map, handles, refcounts, gpc, gmap>>
      /\ wpc \in {"flush", "writing"} /\ wpc' # "swap"
  BY DEF FlushOperations_ordered, FlushOperations, WriteOp_ordered, WriteOp
<1>2. /\ \A g \in Guards : gpc[g] = "live" => gmap[g] # writer_map
      /\ \A h \in handles : to_map_index(refcounts[h]) # writer_map
  BY <1>1, Exclusive DEF WriterExclusive, WriterOwns
<1>3. \A h \in handles : to_map_index(refcounts[h]) \in MapIndex
  BY <1>0, WordParts DEF TypeOK
<1>4. PICK K : /\ After(K)
               /\ \A p \in Places, e \in Accesses :
                    e \in K[p] <=> IF e = WriteOf(writer_map) THEN p = Writer ELSE e \in knows[p]
  BY <1>0, WriteView
<1>5. K \in Views /\ knows' = Settled(K) /\ knows' \in Views /\ knows'[Writer] = K[Writer]
  BY <1>4, SettledViews DEF After
<1>6. \A p \in Places, i \in MapIndex :
        i # writer_map => (WriteOf(i) \in K[p] <=> WriteOf(i) \in knows[p])
  BY <1>4, AccessNames
<1>7. WriterKnows'
  BY <1>4, <1>5, AccessNames, PlaceNames DEF WriteViews, WriterKnows
<1>8. HandlesKnow'
  BY <1>0, <1>1, <1>2, <1>3, <1>5, <1>6, PlaceNames, SettledWrites DEF WriteViews, HandlesKnow
<1>9. MutexKnows' /\ FenceKnows'
  BY <1>0, <1>1, <1>5, <1>6, PlaceNames, SettledWrites DEF WriteViews, MutexKnows, FenceKnows
<1>10. ReadsAfterWrites'
  BY <1>0, <1>1, <1>2, <1>5, <1>6, PlaceNames, SettledWrites
  DEF WriteViews, ReadsAfterWrites, TypeOK
<1> QED
  BY <1>5, <1>7, <1>8, <1>9, <1>10 DEF WriteViews

(* publish: the first fence, the swaps it covers, the unlock.              *)
LEMMA WritesPublish ==
  ASSUME IInv, IInv', WriteViews, Publish_ordered
  PROVE  WriteViews'
<1> USE DEF data, guards
<1>0. /\ knows \in Views /\ TypeOK /\ handles \subseteq Handles
      /\ writer_map' \in MapIndex /\ other(writer_map') \in MapIndex
  BY Other DEF WriteViews, IInv, TypeInv, TypeOK, Publish_ordered, Publish
<1>1. UNCHANGED <<handles, refcounts, gpc, gmap>> /\ wpc' = "swap"
  BY DEF Publish_ordered, Publish
<1>2. \A h \in handles : to_map_index(refcounts[h]) \in MapIndex
  BY <1>0, WordParts DEF TypeOK
<1>3. PICK K : /\ After(K)
               /\ \A p \in Places, e \in Accesses :
                    e \in K[p] <=> IF p = Fenced THEN e \in knows[Writer]
                                   ELSE e \in knows[p] \/ (p = Writer /\ e \in knows[Mutex])
  BY <1>0, PublishView
<1>4. K \in Views /\ knows' = Settled(K) /\ knows' \in Views /\ knows'[Writer] = K[Writer]
  BY <1>3, SettledViews DEF After
<1>5. WriterKnows'
  BY <1>3, <1>4, AccessNames, PlaceNames, Distinct DEF WriteViews, WriterKnows
<1>6. HandlesKnow'
  BY <1>0, <1>1, <1>2, <1>3, <1>4, AccessNames, PlaceNames, DistinctHandle, SettledWrites
  DEF WriteViews, HandlesKnow
<1>7. MutexKnows' /\ FenceKnows'
  BY <1>0, <1>1, <1>3, <1>4, AccessNames, PlaceNames, SettledWrites
  DEF WriteViews, WriterKnows, MutexKnows, FenceKnows
<1>8. ReadsAfterWrites'
  BY <1>0, <1>1, <1>3, <1>4, AccessNames, PlaceNames, DistinctReader, SettledWrites
  DEF WriteViews, ReadsAfterWrites, TypeOK
<1> QED
  BY <1>4, <1>5, <1>6, <1>7, <1>8 DEF WriteViews

LEMMA WritesSwapMaps ==
  ASSUME IInv, IInv', WriteViews, NEW h \in Handles, SwapMaps_ordered(h)
  PROVE  WriteViews'
<1> USE DEF data, guards
<1>0. /\ knows \in Views /\ TypeOK /\ handles \subseteq Handles
      /\ other(writer_map) \in MapIndex
  BY Other DEF WriteViews, IInv, TypeInv, TypeOK
<1>1. /\ UNCHANGED <<writer_map, handles, gpc, gmap>> /\ wpc = "swap" /\ wpc' = "swap"
      /\ \A k \in Handles \ {h} : refcounts'[k] = refcounts[k]
      /\ h \in handles /\ h \notin todo'
  BY <1>0 DEF SwapMaps_ordered, SwapMaps, TypeOK
<1>2. /\ \A k \in handles : to_map_index(refcounts[k]) \in MapIndex
      /\ to_map_index(refcounts'[h]) = other(writer_map)
  BY <1>0, <1>1, WordParts DEF TypeOK, IInv, Bookkeeping, FlagsDelivered
<1>3. PICK K : /\ After(K)
               /\ \A p \in Places, e \in Accesses :
                    e \in K[p] <=> \/ e \in knows[p]
                                   \/ p = Counter(h) /\ e \in knows[Fenced]
                                   \/ p = Pending /\ e \in knows[Counter(h)]
  BY <1>0, SwapMapsView
<1>4. K \in Views /\ knows' = Settled(K) /\ knows' \in Views /\ knows'[Writer] = K[Writer]
  BY <1>3, SettledViews DEF After
<1>5. WriterKnows'
  BY <1>3, <1>4, AccessNames, PlaceNames DEF WriteViews, WriterKnows
<1>6. HandlesKnow'
  <2>1. WriteOf(other(writer_map)) \in K[Counter(h)]
    BY <1>0, <1>1, <1>3, AccessNames, PlaceNames DEF WriteViews, FenceKnows
  <2> QED
    BY <1>0, <1>1, <1>2, <1>3, <1>4, <2>1, AccessNames, PlaceNames, SettledWrites
    DEF WriteViews, HandlesKnow
<1>7. MutexKnows' /\ FenceKnows'
  BY <1>0, <1>1, <1>3, <1>4, AccessNames, PlaceNames, SettledWrites
  DEF WriteViews, MutexKnows, FenceKnows
<1>8. ReadsAfterWrites'
  BY <1>0, <1>1, <1>3, <1>4, AccessNames, PlaceNames, SettledWrites
  DEF WriteViews, ReadsAfterWrites, TypeOK
<1> QED
  BY <1>4, <1>5, <1>6, <1>7, <1>8 DEF WriteViews

LEMMA WritesUnlock ==
  ASSUME IInv, IInv', WriteViews, Unlock_ordered
  PROVE  WriteViews'
<1> USE DEF core, data, guards
<1>0. /\ knows \in Views /\ TypeOK /\ handles \subseteq Handles
      /\ other(writer_map) \in MapIndex
  BY Other DEF WriteViews, IInv, TypeInv, TypeOK
<1>1. UNCHANGED <<writer_map, handles, refcounts, gpc, gmap>> /\ wpc' = "add"
  BY DEF Unlock_ordered, Unlock
<1>2. \A k \in handles : to_map_index(refcounts[k]) \in MapIndex
  BY <1>0, WordParts DEF TypeOK
<1>3. PICK K : /\ After(K)
               /\ \A p \in Places, e \in Accesses :
                    e \in K[p] <=> e \in knows[p] \/ (p = Mutex /\ e \in knows[Writer])
  BY <1>0, UnlockView
<1>4. K \in Views /\ knows' = Settled(K) /\ knows' \in Views /\ knows'[Writer] = K[Writer]
  BY <1>3, SettledViews DEF After
<1>5. WriterKnows'
  BY <1>3, <1>4, AccessNames, PlaceNames DEF WriteViews, WriterKnows
<1>6. HandlesKnow'
  BY <1>0, <1>1, <1>2, <1>3, <1>4, AccessNames, PlaceNames, SettledWrites
  DEF WriteViews, HandlesKnow
<1>7. MutexKnows' /\ FenceKnows'
  BY <1>0, <1>1, <1>3, <1>4, AccessNames, PlaceNames, SettledWrites
  DEF WriteViews, WriterKnows, MutexKnows, FenceKnows
<1>8. ReadsAfterWrites'
  BY <1>0, <1>1, <1>3, <1>4, AccessNames, PlaceNames, SettledWrites
  DEF WriteViews, ReadsAfterWrites, TypeOK
<1> QED
  BY <1>4, <1>5, <1>6, <1>7, <1>8 DEF WriteViews

(* A clone knows what its source or the mutex does.                        *)
LEMMA WritesNewReader ==
  ASSUME IInv, IInv', WriteViews, NEW src \in Handles, NEW h \in Handles,
         NewReader_ordered(src, h)
  PROVE  WriteViews'
<1> USE DEF data, writer, guards
<1>0. /\ knows \in Views /\ TypeOK /\ handles \subseteq Handles
      /\ other(writer_map) \in MapIndex
  BY Other DEF WriteViews, IInv, TypeInv, TypeOK
<1>1. /\ UNCHANGED <<writer_map, wpc, gpc, gmap>> /\ handles' = handles \cup {h}
      /\ \A k \in Handles \ {h} : refcounts'[k] = refcounts[k]
      /\ wpc # "swap" /\ src \in handles /\ h \notin handles
      /\ to_map_index(refcounts'[h]) = other(writer_map)
  BY <1>0, NewRefCount DEF NewReader_ordered, NewReader, mutex_free, TypeOK
<1>2. \A k \in handles : to_map_index(refcounts[k]) \in MapIndex
  BY <1>0, WordParts DEF TypeOK
<1>3. PICK K : /\ After(K)
               /\ \A p \in Places, e \in Accesses :
                    e \in K[p] <=> IF p = Holder(h)
                                   THEN e \in knows[Holder(src)] \/ e \in knows[Mutex]
                                   ELSE e \in knows[p] \/ (p = Mutex /\ e \in knows[Holder(src)])
  BY <1>0, NewReaderView
<1>4. K \in Views /\ knows' = Settled(K) /\ knows' \in Views /\ knows'[Writer] = K[Writer]
  BY <1>3, SettledViews DEF After
<1>5. \A p \in Places, i \in MapIndex :
        p # Holder(h) /\ WriteOf(i) \in knows[p] => WriteOf(i) \in K[p]
  BY <1>3, AccessNames
<1>6. WriteOf(other(writer_map)) \in K[Holder(h)]
  BY <1>0, <1>1, <1>3, AccessNames, PlaceNames DEF WriteViews, MutexKnows
<1>7. WriterKnows'
  BY <1>4, <1>5, PlaceNames, DistinctHandle DEF WriteViews, WriterKnows
<1>8. \A k \in handles : k # h /\ Holder(k) # Holder(h) /\ Counter(k) # Holder(h)
  BY <1>1, DistinctHandle
<1>9. HandlesKnow'
  <2>1. ASSUME NEW k \in handles
        PROVE  LET w == WriteOf(to_map_index(refcounts'[k])) IN
               w \in knows'[Holder(k)] \/ w \in knows'[Counter(k)]
    <3>1. LET w == WriteOf(to_map_index(refcounts[k])) IN
          w \in K[Holder(k)] \/ w \in K[Counter(k)]
      BY <1>0, <1>2, <1>5, <1>8, PlaceNames DEF WriteViews, HandlesKnow
    <3> QED
      BY <1>0, <1>1, <1>2, <1>4, <1>8, <3>1, SettledWrites
  <2>2. WriteOf(to_map_index(refcounts'[h])) \in knows'[Holder(h)]
    BY <1>0, <1>1, <1>4, <1>6, SettledWrites
  <2> QED
    BY <1>1, <2>1, <2>2 DEF HandlesKnow
<1>10. MutexKnows' /\ FenceKnows'
  <2>1. ASSUME NEW k \in handles
        PROVE  \/ WriteOf(other(writer_map)) \in knows'[Holder(k)]
               \/ WriteOf(other(writer_map)) \in knows'[Mutex]
    <3>1. \/ WriteOf(other(writer_map)) \in K[Holder(k)]
          \/ WriteOf(other(writer_map)) \in K[Mutex]
      BY <1>0, <1>1, <1>5, <1>8, PlaceNames, DistinctHandle DEF WriteViews, MutexKnows
    <3> QED
      BY <1>0, <1>4, <3>1, SettledWrites
  <2>2. WriteOf(other(writer_map)) \in knows'[Holder(h)]
    BY <1>0, <1>4, <1>6, SettledWrites
  <2> QED
    BY <1>1, <2>1, <2>2 DEF MutexKnows, FenceKnows
<1>11. ReadsAfterWrites'
  BY <1>0, <1>1, <1>4, <1>5, PlaceNames, DistinctReader, SettledWrites
  DEF WriteViews, ReadsAfterWrites, TypeOK
<1> QED
  BY <1>4, <1>7, <1>9, <1>10, <1>11 DEF WriteViews

(* A guard acquires the newest write of its copy from its holder or from   *)
(* the RefCount.                                                           *)
LEMMA WritesGuard ==
  ASSUME IInv, IInv', WriteViews, NEW g \in Guards, NEW h \in Handles, Guard_ordered(g, h)
  PROVE  WriteViews'
<1> USE DEF data, writer
<1>0. /\ knows \in Views /\ TypeOK /\ TypeOK' /\ handles \subseteq Handles
      /\ other(writer_map) \in MapIndex /\ gmap'[g] \in MapIndex
  BY Other DEF WriteViews, IInv, TypeInv, TypeOK
<1>1. /\ UNCHANGED <<writer_map, handles, todo, wpc>> /\ h \in handles
      /\ gmap'[g] = to_map_index(refcounts[h])
      /\ \A k \in Guards \ {g} : gpc'[k] = gpc[k] /\ gmap'[k] = gmap[k]
  BY <1>0 DEF Guard_ordered, Guard, TypeOK
<1>2. \A k \in handles : /\ to_map_index(refcounts[k]) \in MapIndex
                         /\ to_map_index(refcounts'[k]) = to_map_index(refcounts[k])
  BY <1>0, <1>1, WordParts DEF TypeOK, IInv, Bookkeeping, FlagsDelivered
<1>3. PICK K : /\ After(K)
               /\ \A p \in Places, e \in Accesses :
                    e \in K[p] <=> IF e = ReadOf(g, gmap'[g]) THEN p = Reader(g)
                                   ELSE IF p = Reader(g)
                                   THEN e \in knows[Holder(h)] \/ e \in knows[Counter(h)]
                                   ELSE e \in knows[p]
  BY <1>0, GuardView
<1>4. K \in Views /\ knows' = Settled(K) /\ knows' \in Views /\ knows'[Writer] = K[Writer]
  BY <1>3, SettledViews DEF After
<1>5. \A p \in Places, i \in MapIndex :
        p # Reader(g) /\ WriteOf(i) \in knows[p] => WriteOf(i) \in K[p]
  BY <1>3, AccessNames
<1>6. WriteOf(gmap'[g]) \in K[Reader(g)]
  <2>1. WriteOf(gmap'[g]) \in knows[Holder(h)] \/ WriteOf(gmap'[g]) \in knows[Counter(h)]
    BY <1>1 DEF WriteViews, HandlesKnow
  <2>2. WriteOf(gmap'[g]) \in Accesses /\ WriteOf(gmap'[g]) # ReadOf(g, gmap'[g])
    BY <1>0, AccessNames
  <2> QED
    BY <1>3, <2>1, <2>2, PlaceNames
<1>7. WriterKnows'
  BY <1>4, <1>5, PlaceNames, DistinctReader DEF WriteViews, WriterKnows
<1>8. HandlesKnow'
  BY <1>0, <1>1, <1>2, <1>4, <1>5, PlaceNames, DistinctReader, SettledWrites
  DEF WriteViews, HandlesKnow
<1>9. MutexKnows' /\ FenceKnows'
  BY <1>0, <1>1, <1>4, <1>5, PlaceNames, DistinctReader, SettledWrites
  DEF WriteViews, MutexKnows, FenceKnows
<1>10. ReadsAfterWrites'
  <2>1. ASSUME NEW k \in Guards \ {g}, gpc'[k] = "live"
        PROVE  WriteOf(gmap'[k]) \in knows'[Reader(k)]
    <3>1. gmap[k] \in MapIndex /\ Reader(k) # Reader(g) /\ WriteOf(gmap[k]) \in knows[Reader(k)]
      BY <1>0, <1>1, <2>1, DistinctReader DEF TypeOK, WriteViews, ReadsAfterWrites
    <3> QED
      BY <1>1, <1>4, <1>5, <3>1, PlaceNames, SettledWrites
  <2>2. WriteOf(gmap'[g]) \in knows'[Reader(g)]
    BY <1>0, <1>4, <1>6, SettledWrites
  <2> QED
    BY <2>1, <2>2 DEF ReadsAfterWrites
<1> QED
  BY <1>4, <1>7, <1>8, <1>9, <1>10 DEF WriteViews

LEMMA WritesStep == Base /\ Base' /\ WriteViews /\ [OrderedNext]_ordered_vars => WriteViews'
<1> SUFFICES ASSUME IInv, IInv', Wakeup, Named, WriteViews, [OrderedNext]_ordered_vars
             PROVE  WriteViews'
  BY DEF Base
<1>1. CASE \/ \E t \in Threads : MoveWriter_ordered(t)
           \/ ParkSpuriously_ordered
           \/ Terminated /\ UNCHANGED <<knows, early>>
           \/ UNCHANGED ordered_vars
  <2>1. /\ UNCHANGED <<writer_map, handles, refcounts, gpc, gmap, knows>>
        /\ wpc' = "swap" <=> wpc = "swap"
    BY <1>1 DEF MoveWriter_ordered, MoveWriter, ParkSpuriously_ordered, ParkSpuriously,
                Terminated, ordered_vars, vars, core, data, writer, guards
  <2> QED
    BY <2>1 DEF WriteViews, WriterKnows, HandlesKnow, MutexKnows, FenceKnows, ReadsAfterWrites
<1>2. CASE \/ \E c \in Calls : Synchronize_ordered(c)
           \/ SetWriterThread_ordered \/ SetWaitFlag_ordered \/ ResetResidual_ordered
           \/ Park_ordered \/ Recheck_ordered \/ AddResidual_ordered
  BY <1>2, WritesSynchronize
<1>3. CASE \/ FlushOperations_ordered \/ WriteOp_ordered \/ Publish_ordered
           \/ \E h \in Handles : SwapMaps_ordered(h)
           \/ Unlock_ordered
  BY <1>3, WritesWrite, WritesPublish, WritesSwapMaps, WritesUnlock
<1>4. CASE \/ \E src, h \in Handles : NewReader_ordered(src, h)
           \/ \E h \in Handles : DropHandle_ordered(h)
           \/ \E g \in Guards, h \in Handles : Guard_ordered(g, h)
  BY <1>4, WritesNewReader, WritesDropHandle, WritesGuard
<1>5. CASE \E g \in Guards : \/ DropGuard_ordered(g) \/ ReleaseResidual_ordered(g)
                             \/ StoreZero_ordered(g) \/ Unpark_ordered(g)
  BY <1>5, WritesDropGuard
<1> QED
  BY <1>1, <1>2, <1>3, <1>4, <1>5 DEF OrderedNext

LEMMA WriteViewsInvariance == OrderedSpec => []WriteViews
BY BaseInvariance, WriteViewsInit, WritesStep, PTL DEF OrderedSpec

(* The newest write of the copy a live guard reads happens before its      *)
(* reads: through the release sequence of its RefCount that the first      *)
(* fence of publish heads, through the mutex, or through the handle it was *)
(* cloned from; for any number of publishes, clones and drops.             *)
THEOREM GuardsSeeWrites == OrderedSpec => []ReadsAfterWrites
<1>1. WriteViews => ReadsAfterWrites
  BY DEF WriteViews
<1> QED
  BY <1>1, WriteViewsInvariance, PTL

-----------------------------------------------------------------------------
(* Reads reach the writer.  The last read by g of the readers' copy: the   *)
(* writer knows of it or will when it locks the mutex, or it waits in the  *)
(* RefCount of a handle and is passed on when that handle is dropped, or g *)
(* still reads.                                                            *)
OfReaders(k, g) ==
  LET r == ReadOf(g, other(writer_map)) IN
  \/ r \in k[Writer] \/ r \in k[Mutex]
  \/ \E h \in handles : r \in k[Counter(h)] /\ r \in k[Ended(h)]
  \/ gpc[g] = "live" /\ gmap[g] = other(writer_map) /\ r \in k[Reader(g)]

(* The last read by g of the writer's copy: the writer knows of it or will *)
(* when it acquires residual; or it waits for the last fence of publish,   *)
(* or in a RefCount that publish has yet to swap; or g is still to release *)
(* it.                                                                     *)
OfWriter(k, g) ==
  LET r == ReadOf(g, writer_map) IN
  \/ r \in k[Writer] \/ r \in k[Residual]
  \/ wpc \in {"swap", "add"} /\ r \in k[Pending]
  \/ \E h \in todo : r \in k[Counter(h)]
  \/ gpc[g] \in {"live", "release"} /\ gmap[g] = writer_map /\ r \in k[Reader(g)]

(* The reader that finds itself last knows of all of them, and so does the *)
(* writer when nobody is left.                                             *)
LastKnows(k) ==
  \A l \in Guards : gpc[l] = "last" =>
    \A g \in Guards : ReadOf(g, writer_map) \in k[Writer] \/ ReadOf(g, writer_map) \in k[Reader(l)]

OwnerKnows(k) ==
  wpc \in {"reset", "flush", "writing"} =>
    \A g \in Guards : ReadOf(g, writer_map) \in k[Writer]

ReadViews(k) ==
  /\ \A g \in Guards : OfReaders(k, g) /\ OfWriter(k, g)
  /\ LastKnows(k) /\ OwnerKnows(k)

LEMMA ReadViewsInit == OrderedInit => ReadViews(knows)
<1> SUFFICES ASSUME OrderedInit PROVE ReadViews(knows)
  OBVIOUS
<1>1. knows[Writer] = Accesses
  <2>1. \A p \in Places : p = Writer => knows[p] = Accesses
    BY DistinctHandle DEF OrderedInit
  <2> QED
    BY <2>1, PlaceNames
<1>2. \A g \in Guards, i \in MapIndex : ReadOf(g, i) \in Accesses
  BY AccessNames
<1>3. writer_map \in MapIndex /\ other(writer_map) \in MapIndex
  BY Other DEF OrderedInit, Init, MapIndex
<1> QED
  BY <1>1, <1>2, <1>3 DEF ReadViews, OfReaders, OfWriter, LastKnows, OwnerKnows

(* Settling forgets only reads that the writer knows of.                   *)
LEMMA ReadsSettle ==
  ASSUME TypeOK', NEW K, After(K), ReadViews(K)'
  PROVE  ReadViews(knows)'
<1>1. /\ K \in Views /\ knows' = Settled(K)
      /\ \A h \in handles' : h \in Handles
      /\ \A h \in todo' : h \in Handles
  BY DEF After, TypeOK
<1>2. \A g \in Guards : ReadOf(g, writer_map') \in Reads /\ ReadOf(g, other(writer_map')) \in Reads
  BY AccessNames, Other DEF TypeOK
<1>3. ASSUME NEW r \in Reads, NEW p \in Places
      PROVE  r \in K[Writer] \/ r \in K[p] => r \in knows'[Writer] \/ r \in knows'[p]
  BY <1>1, SettledReads
<1>4. ASSUME NEW g \in Guards PROVE OfReaders(knows, g)'
  <2> DEFINE r == ReadOf(g, other(writer_map'))
  <2>0. r \in Reads
    BY <1>2
  <2>1. CASE r \in K[Writer] \/ r \in K[Mutex]
    BY <1>3, <2>0, <2>1, PlaceNames DEF OfReaders
  <2>2. CASE \E h \in handles' : r \in K[Counter(h)] /\ r \in K[Ended(h)]
    BY <1>1, <1>3, <2>0, <2>2, PlaceNames DEF OfReaders
  <2>3. CASE gpc'[g] = "live" /\ gmap'[g] = other(writer_map') /\ r \in K[Reader(g)]
    BY <1>3, <2>0, <2>3, PlaceNames DEF OfReaders
  <2> QED
    BY <2>1, <2>2, <2>3 DEF ReadViews, OfReaders
<1>5. ASSUME NEW g \in Guards PROVE OfWriter(knows, g)'
  <2> DEFINE r == ReadOf(g, writer_map')
  <2>0. r \in Reads
    BY <1>2
  <2>1. CASE r \in K[Writer] \/ r \in K[Residual]
    BY <1>3, <2>0, <2>1, PlaceNames DEF OfWriter
  <2>2. CASE wpc' \in {"swap", "add"} /\ r \in K[Pending]
    BY <1>3, <2>0, <2>2, PlaceNames DEF OfWriter
  <2>3. CASE \E h \in todo' : r \in K[Counter(h)]
    BY <1>1, <1>3, <2>0, <2>3, PlaceNames DEF OfWriter
  <2>4. CASE gpc'[g] \in {"live", "release"} /\ gmap'[g] = writer_map' /\ r \in K[Reader(g)]
    BY <1>3, <2>0, <2>4, PlaceNames DEF OfWriter
  <2> QED
    BY <2>1, <2>2, <2>3, <2>4 DEF ReadViews, OfWriter
<1>6. LastKnows(knows)'
  BY <1>2, <1>3, PlaceNames DEF ReadViews, LastKnows
<1>7. OwnerKnows(knows)'
  BY <1>2, <1>3, PlaceNames DEF ReadViews, OwnerKnows
<1> QED
  BY <1>4, <1>5, <1>6, <1>7 DEF ReadViews

(* When nobody owes, no guard is left on the writer's copy, and the writer *)
(* knows of all reads of it once it has acquired residual.                 *)
LEMMA NobodyBehind ==
  ASSUME IInv, Owed = 0, wpc # "swap", NEW g \in Guards, gpc[g] \in {"live", "release"}
  PROVE  gmap[g] # writer_map
<1>1. ~Owes(g)
  BY NobodyOwes
<1>2. gpc[g] = "live" /\ gmap[g] = to_map_index(refcounts[ghandle[g]])
  BY <1>1 DEF Owes, Counted
<1>3. ghandle[g] \in handles /\ todo = {} /\ writer_map \in MapIndex
  BY <1>2 DEF IInv, TypeInv, TypeOK, Bookkeeping, Placed, FlagsDelivered, Counted
<1> QED
  BY <1>2, <1>3, Other DEF IInv, Bookkeeping, FlagsDelivered

LEMMA AllReleased ==
  ASSUME IInv, Owed = 0, wpc \notin {"swap", "add"}, ReadViews(knows), NEW g \in Guards
  PROVE  ReadOf(g, writer_map) \in knows[Writer] \/ ReadOf(g, writer_map) \in knows[Residual]
<1>1. todo = {}
  BY DEF IInv, Bookkeeping, FlagsDelivered
<1> QED
  BY <1>1, NobodyBehind DEF ReadViews, OfWriter

(* Steps of the writer that change neither the roles of the copies nor the *)
(* guards.                                                                 *)
LEMMA ReadsKept ==
  ASSUME ReadViews(knows), TypeOK, NEW K,
         UNCHANGED <<writer_map, handles, gpc, gmap>>,
         \A p \in Places, g \in Guards, i \in MapIndex :
           /\ p \notin {Residual, Pending, Fenced} /\ (\A t \in Threads : p # Token(t))
           /\ ReadOf(g, i) \in knows[p]
           => ReadOf(g, i) \in K[p],
         \A g \in Guards : OfWriter(K, g)',
         OwnerKnows(K)'
  PROVE  ReadViews(K)'
<1>1. writer_map \in MapIndex /\ other(writer_map) \in MapIndex /\ handles \subseteq Handles
  BY Other DEF TypeOK
<1>2. /\ \A g \in Guards, i \in MapIndex :
           /\ ReadOf(g, i) \in knows[Writer] => ReadOf(g, i) \in K[Writer]
           /\ ReadOf(g, i) \in knows[Mutex] => ReadOf(g, i) \in K[Mutex]
           /\ \A l \in Guards : ReadOf(g, i) \in knows[Reader(l)] => ReadOf(g, i) \in K[Reader(l)]
  BY PlaceNames, Distinct, DistinctReader, DistinctToken
<1>3. \A h \in Handles, g \in Guards, i \in MapIndex :
        /\ ReadOf(g, i) \in knows[Counter(h)] => ReadOf(g, i) \in K[Counter(h)]
        /\ ReadOf(g, i) \in knows[Ended(h)] => ReadOf(g, i) \in K[Ended(h)]
  BY PlaceNames, DistinctHandle
<1>4. ASSUME NEW g \in Guards PROVE OfReaders(K, g)'
  BY <1>1, <1>2, <1>3 DEF ReadViews, OfReaders
<1>5. LastKnows(K)'
  BY <1>1, <1>2 DEF ReadViews, LastKnows
<1> QED
  BY <1>4, <1>5 DEF ReadViews

(* synchronize.                                                            *)
LEMMA ReadsLoad ==
  ASSUME IInv, knows \in Views, ReadViews(knows),
         (\E c \in Calls : Synchronize_ordered(c)) \/ Recheck_ordered
  PROVE  \E K : After(K) /\ ReadViews(K)'
<1> USE DEF core, data, guards
<1>0. TypeOK /\ writer_map \in MapIndex
  BY DEF IInv, TypeInv, TypeOK
<1>1. /\ UNCHANGED <<writer_map, handles, todo, gpc, gmap>>
      /\ wpc \in {"idle", "recheck"} /\ wpc' \notin {"swap", "add", "reset", "writing"}
      /\ wpc' = "flush" => residual = 0
  BY DEF Synchronize_ordered, Synchronize, Recheck_ordered, Recheck, Return
<1>2. PICK K : /\ After(K)
               /\ \A p \in Places, e \in Accesses :
                    e \in K[p] <=> e \in knows[p] \/ (p = Writer /\ e \in knows[Residual])
  BY LoadView
<1>3. \A g \in Guards : ReadOf(g, writer_map) \in Accesses
  BY <1>0, AccessNames
<1>4. \A p \in Places, g \in Guards, i \in MapIndex :
        ReadOf(g, i) \in knows[p] => ReadOf(g, i) \in K[p]
  BY <1>2, AccessNames
<1>5. \A g \in Guards : OfWriter(K, g)'
  <2>1. todo = {}
    BY <1>1 DEF IInv, Bookkeeping, FlagsDelivered
  <2> QED
    BY <1>0, <1>1, <1>4, <2>1, PlaceNames DEF ReadViews, OfWriter
<1>6. OwnerKnows(K)'
  <2> SUFFICES ASSUME wpc' = "flush", NEW g \in Guards
               PROVE  ReadOf(g, writer_map) \in K[Writer]
    BY <1>1 DEF OwnerKnows
  <2>1. Owed = 0
    BY <1>1 DEF IInv, ResidualAccounting
  <2>2. ReadOf(g, writer_map) \in knows[Writer] \/ ReadOf(g, writer_map) \in knows[Residual]
    BY <1>1, <2>1, AllReleased
  <2> QED
    BY <1>2, <1>3, <2>2, PlaceNames
<1>7. ReadViews(K)'
  BY <1>0, <1>1, <1>4, <1>5, <1>6, ReadsKept
<1> QED
  BY <1>2, <1>7

LEMMA ReadsSetWaitFlag ==
  ASSUME IInv, knows \in Views, ReadViews(knows), SetWaitFlag_ordered
  PROVE  \E K : After(K) /\ ReadViews(K)'
<1> USE DEF core, data, guards
<1>0. TypeOK /\ writer_map \in MapIndex
  BY DEF IInv, TypeInv, TypeOK
<1>1. /\ UNCHANGED <<writer_map, handles, todo, gpc, gmap>>
      /\ wpc = "set_flag" /\ wpc' \in {"park", "reset"}
      /\ wpc' = "reset" => residual = 0
  BY DEF SetWaitFlag_ordered, SetWaitFlag
<1>2. PICK K : /\ After(K)
               /\ \A p \in Places, e \in Accesses :
                    e \in K[p] <=> \/ e \in knows[p]
                                   \/ p = Writer /\ e \in knows[Residual]
                                   \/ p = Residual /\ e \in knows[Writer]
  BY SetWaitFlagView
<1>3. \A g \in Guards : ReadOf(g, writer_map) \in Accesses
  BY <1>0, AccessNames
<1>4. \A p \in Places, g \in Guards, i \in MapIndex :
        ReadOf(g, i) \in knows[p] => ReadOf(g, i) \in K[p]
  BY <1>2, AccessNames
<1>5. \A g \in Guards : OfWriter(K, g)'
  <2>1. todo = {}
    BY <1>1 DEF IInv, Bookkeeping, FlagsDelivered
  <2> QED
    BY <1>0, <1>1, <1>4, <2>1, PlaceNames DEF ReadViews, OfWriter
<1>6. OwnerKnows(K)'
  <2> SUFFICES ASSUME wpc' = "reset", NEW g \in Guards
               PROVE  ReadOf(g, writer_map) \in K[Writer]
    BY <1>1 DEF OwnerKnows
  <2>1. Owed = 0
    BY <1>1 DEF IInv, ResidualAccounting
  <2>2. ReadOf(g, writer_map) \in knows[Writer] \/ ReadOf(g, writer_map) \in knows[Residual]
    BY <1>1, <2>1, AllReleased
  <2> QED
    BY <1>2, <1>3, <2>2, PlaceNames
<1>7. ReadViews(K)'
  BY <1>0, <1>1, <1>4, <1>5, <1>6, ReadsKept
<1> QED
  BY <1>2, <1>7

LEMMA ReadsResetResidual ==
  ASSUME IInv, knows \in Views, ReadViews(knows), ResetResidual_ordered
  PROVE  \E K : After(K) /\ ReadViews(K)'
<1> USE DEF core, data, guards
<1>0. TypeOK /\ writer_map \in MapIndex
  BY DEF IInv, TypeInv, TypeOK
<1>1. UNCHANGED <<writer_map, handles, gpc, gmap>> /\ wpc = "reset"
  BY DEF ResetResidual_ordered, ResetResidual
<1>2. PICK K : /\ After(K)
               /\ \A p \in Places, e \in Accesses :
                    e \in K[p] <=> IF p = Residual THEN e \in knows[Writer] ELSE e \in knows[p]
  BY ResetResidualView
<1>3. \A p \in Places, g \in Guards, i \in MapIndex :
        p # Residual /\ ReadOf(g, i) \in knows[p] => ReadOf(g, i) \in K[p]
  BY <1>2, AccessNames
<1>4. \A g \in Guards : ReadOf(g, writer_map) \in K[Writer]
  BY <1>0, <1>1, <1>3, PlaceNames, Distinct DEF ReadViews, OwnerKnows
<1>5. (\A g \in Guards : OfWriter(K, g)') /\ OwnerKnows(K)'
  BY <1>1, <1>4 DEF OfWriter, OwnerKnows
<1>6. ReadViews(K)'
  BY <1>0, <1>1, <1>3, <1>5, ReadsKept
<1> QED
  BY <1>2, <1>6

(* The rest of synchronize, and the writes.                                *)
LEMMA ReadsQuiet ==
  ASSUME IInv, knows \in Views, ReadViews(knows),
         SetWriterThread_ordered \/ Park_ordered \/ FlushOperations_ordered \/ WriteOp_ordered
  PROVE  \E K : After(K) /\ ReadViews(K)'
<1> USE DEF core, data, writer, guards
<1>0. TypeOK /\ writer_map \in MapIndex
  BY DEF IInv, TypeInv, TypeOK
<1>1. /\ UNCHANGED <<writer_map, handles, todo, gpc, gmap>>
      /\ wpc \notin {"swap", "add"}
      /\ wpc' \in {"reset", "flush", "writing"} => wpc \in {"flush", "writing"}
  BY DEF SetWriterThread_ordered, SetWriterThread, Park_ordered, Park, FlushOperations_ordered,
         FlushOperations, WriteOp_ordered, WriteOp
<1>2. \E K : /\ After(K)
             /\ \A p \in Places, g \in Guards, i \in MapIndex :
                  (\A t \in Threads : p # Token(t)) /\ ReadOf(g, i) \in knows[p]
                  => ReadOf(g, i) \in K[p]
  <2> USE <1>0, AccessNames
  <2>1. CASE SetWriterThread_ordered
    BY <2>1, SetWriterThreadView
  <2>2. CASE Park_ordered
    BY <2>2, ParkView DEF TypeOK
  <2>3. CASE FlushOperations_ordered \/ WriteOp_ordered
    BY <2>3, WriteView
  <2> QED
    BY <2>1, <2>2, <2>3
<1>3. PICK K : /\ After(K)
               /\ \A p \in Places, g \in Guards, i \in MapIndex :
                    (\A t \in Threads : p # Token(t)) /\ ReadOf(g, i) \in knows[p]
                    => ReadOf(g, i) \in K[p]
  BY <1>2
<1>4. \A g \in Guards, i \in MapIndex :
        /\ ReadOf(g, i) \in knows[Writer] => ReadOf(g, i) \in K[Writer]
        /\ ReadOf(g, i) \in knows[Residual] => ReadOf(g, i) \in K[Residual]
        /\ \A l \in Guards : ReadOf(g, i) \in knows[Reader(l)] => ReadOf(g, i) \in K[Reader(l)]
  BY <1>3, PlaceNames, DistinctReader, DistinctToken
<1>5. \A g \in Guards : OfWriter(K, g)'
  <2>1. todo = {}
    BY <1>1 DEF IInv, Bookkeeping, FlagsDelivered
  <2> QED
    BY <1>0, <1>1, <1>4, <2>1 DEF ReadViews, OfWriter
<1>6. OwnerKnows(K)'
  BY <1>0, <1>1, <1>4 DEF ReadViews, OwnerKnows
<1>7. ReadViews(K)'
  BY <1>0, <1>1, <1>3, <1>5, <1>6, ReadsKept
<1> QED
  BY <1>3, <1>7

(* publish.  The copies change roles; the lock acquires what dropped       *)
(* handles left, each swap what left its handle, and the last fence passes *)
(* that on to the writer.                                                  *)
LEMMA ReadsPublish ==
  ASSUME IInv, knows \in Views, ReadViews(knows), Publish_ordered
  PROVE  \E K : After(K) /\ ReadViews(K)'
<1> USE DEF data, guards
<1>0. /\ TypeOK /\ writer_map \in MapIndex /\ other(writer_map) \in MapIndex
      /\ handles \subseteq Handles
  BY Other DEF IInv, TypeInv, TypeOK
<1>1. /\ UNCHANGED <<handles, gpc, gmap>> /\ writer_map' = other(writer_map)
      /\ other(writer_map') = writer_map /\ todo' = handles
      /\ wpc = "writing" /\ wpc' = "swap"
  BY <1>0, Other DEF Publish_ordered, Publish
<1>2. PICK K : /\ After(K)
               /\ \A p \in Places, e \in Accesses :
                    e \in K[p] <=> IF p = Fenced THEN e \in knows[Writer]
                                   ELSE e \in knows[p] \/ (p = Writer /\ e \in knows[Mutex])
  BY PublishView
<1>3. \A p \in Places, g \in Guards, i \in MapIndex :
        p # Fenced /\ ReadOf(g, i) \in knows[p] => ReadOf(g, i) \in K[p]
  BY <1>2, AccessNames
<1>4. \A g \in Guards, i \in MapIndex :
        ReadOf(g, i) \in knows[Writer] \/ ReadOf(g, i) \in knows[Mutex] => ReadOf(g, i) \in K[Writer]
  BY <1>2, AccessNames, PlaceNames, Distinct
<1>5. \A g \in Guards : OfReaders(K, g)'
  BY <1>0, <1>1, <1>4 DEF ReadViews, OwnerKnows, OfReaders
<1>6. ASSUME NEW g \in Guards PROVE OfWriter(K, g)'
  <2> DEFINE r == ReadOf(g, other(writer_map))
  <2>1. CASE r \in knows[Writer] \/ r \in knows[Mutex]
    BY <1>0, <1>1, <1>4, <2>1 DEF OfWriter
  <2>2. CASE \E h \in handles : r \in knows[Counter(h)] /\ r \in knows[Ended(h)]
    BY <1>0, <1>1, <1>3, <2>2, PlaceNames, DistinctHandle DEF OfWriter
  <2>3. CASE gpc[g] = "live" /\ gmap[g] = other(writer_map) /\ r \in knows[Reader(g)]
    BY <1>0, <1>1, <1>3, <2>3, PlaceNames, DistinctReader DEF OfWriter
  <2> QED
    BY <2>1, <2>2, <2>3 DEF ReadViews, OfReaders
<1>7. LastKnows(K)' /\ OwnerKnows(K)'
  BY <1>1 DEF LastKnows, OwnerKnows, IInv, ResidualAccounting
<1>8. ReadViews(K)'
  BY <1>5, <1>6, <1>7 DEF ReadViews
<1> QED
  BY <1>2, <1>8

LEMMA ReadsSwapMaps ==
  ASSUME IInv, knows \in Views, ReadViews(knows), NEW h \in Handles, SwapMaps_ordered(h)
  PROVE  \E K : After(K) /\ ReadViews(K)'
<1> USE DEF data, guards
<1>0. TypeOK /\ writer_map \in MapIndex /\ todo \subseteq Handles
  BY DEF IInv, TypeInv, TypeOK
<1>1. /\ UNCHANGED <<writer_map, handles, gpc, gmap>> /\ todo' = todo \ {h}
      /\ wpc = "swap" /\ wpc' = "swap"
  BY DEF SwapMaps_ordered, SwapMaps
<1>2. PICK K : /\ After(K)
               /\ \A p \in Places, e \in Accesses :
                    e \in K[p] <=> \/ e \in knows[p]
                                   \/ p = Counter(h) /\ e \in knows[Fenced]
                                   \/ p = Pending /\ e \in knows[Counter(h)]
  BY SwapMapsView
<1>3. \A p \in Places, g \in Guards, i \in MapIndex :
        /\ ReadOf(g, i) \in knows[p] => ReadOf(g, i) \in K[p]
        /\ ReadOf(g, i) \in knows[Counter(h)] => ReadOf(g, i) \in K[Pending]
  BY <1>2, AccessNames, PlaceNames
<1>4. \A g \in Guards : OfWriter(K, g)'
  BY <1>0, <1>1, <1>3, PlaceNames DEF ReadViews, OfWriter
<1>5. OwnerKnows(K)'
  BY <1>1 DEF OwnerKnows
<1>6. ReadViews(K)'
  BY <1>0, <1>1, <1>3, <1>4, <1>5, ReadsKept
<1> QED
  BY <1>2, <1>6

LEMMA ReadsUnlock ==
  ASSUME IInv, knows \in Views, ReadViews(knows), Unlock_ordered
  PROVE  \E K : After(K) /\ ReadViews(K)'
<1> USE DEF core, data, guards
<1>0. TypeOK /\ writer_map \in MapIndex /\ todo \subseteq Handles
  BY DEF IInv, TypeInv, TypeOK
<1>1. UNCHANGED <<writer_map, handles, todo, gpc, gmap>> /\ wpc = "swap" /\ wpc' = "add"
  BY DEF Unlock_ordered, Unlock
<1>2. PICK K : /\ After(K)
               /\ \A p \in Places, e \in Accesses :
                    e \in K[p] <=> e \in knows[p] \/ (p = Mutex /\ e \in knows[Writer])
  BY UnlockView
<1>3. \A p \in Places, g \in Guards, i \in MapIndex :
        ReadOf(g, i) \in knows[p] => ReadOf(g, i) \in K[p]
  BY <1>2, AccessNames
<1>4. \A g \in Guards : OfWriter(K, g)'
  BY <1>0, <1>1, <1>3, PlaceNames DEF ReadViews, OfWriter
<1>5. OwnerKnows(K)'
  BY <1>1 DEF OwnerKnows
<1>6. ReadViews(K)'
  BY <1>0, <1>1, <1>3, <1>4, <1>5, ReadsKept
<1> QED
  BY <1>2, <1>6

LEMMA ReadsAddResidual ==
  ASSUME IInv, knows \in Views, ReadViews(knows), AddResidual_ordered
  PROVE  \E K : After(K) /\ ReadViews(K)'
<1> USE DEF data, guards
<1>0. TypeOK /\ writer_map \in MapIndex
  BY DEF IInv, TypeInv, TypeOK
<1>1. UNCHANGED <<writer_map, handles, gpc, gmap>> /\ wpc = "add" /\ wpc' = "idle"
  BY DEF AddResidual_ordered, AddResidual
<1>2. PICK K : /\ After(K)
               /\ \A p \in Places, e \in Accesses :
                    e \in K[p] <=> /\ p \notin {Pending, Fenced}
                                   /\ \/ e \in knows[p]
                                      \/ p = Writer /\ e \in knows[Pending]
                                      \/ p = Writer /\ e \in knows[Residual]
                                      \/ p = Residual /\ e \in knows[Fenced]
  BY AddResidualView
<1>3. \A p \in Places, g \in Guards, i \in MapIndex :
        /\ p \notin {Pending, Fenced} /\ ReadOf(g, i) \in knows[p] => ReadOf(g, i) \in K[p]
        /\ ReadOf(g, i) \in knows[Pending] => ReadOf(g, i) \in K[Writer]
  BY <1>2, AccessNames, PlaceNames, Distinct
<1>4. \A g \in Guards : OfWriter(K, g)'
  <2>1. todo = {}
    BY <1>1 DEF IInv, Bookkeeping, FlagsDelivered
  <2> QED
    BY <1>0, <1>1, <1>3, <2>1, PlaceNames, Distinct, DistinctReader DEF ReadViews, OfWriter
<1>5. OwnerKnows(K)'
  BY <1>1 DEF OwnerKnows
<1>6. ReadViews(K)'
  BY <1>0, <1>1, <1>3, <1>4, <1>5, ReadsKept
<1> QED
  BY <1>2, <1>6

(* Handles.  What a handle's guards read goes to the mutex with it.        *)
LEMMA ReadsNewReader ==
  ASSUME IInv, knows \in Views, ReadViews(knows), NEW src \in Handles, NEW h \in Handles,
         NewReader_ordered(src, h)
  PROVE  \E K : After(K) /\ ReadViews(K)'
<1> USE DEF data, writer, guards
<1>0. /\ TypeOK /\ writer_map \in MapIndex /\ other(writer_map) \in MapIndex
      /\ handles \subseteq Handles
  BY Other DEF IInv, TypeInv, TypeOK
<1>1. UNCHANGED <<writer_map, todo, wpc, gpc, gmap>> /\ handles' = handles \cup {h} /\ todo = {}
  BY DEF NewReader_ordered, NewReader, mutex_free, IInv, Bookkeeping, FlagsDelivered
<1>2. PICK K : /\ After(K)
               /\ \A p \in Places, e \in Accesses :
                    e \in K[p] <=> IF p = Holder(h)
                                   THEN e \in knows[Holder(src)] \/ e \in knows[Mutex]
                                   ELSE e \in knows[p] \/ (p = Mutex /\ e \in knows[Holder(src)])
  BY NewReaderView
<1>3. \A p \in Places, g \in Guards, i \in MapIndex :
        p # Holder(h) /\ ReadOf(g, i) \in knows[p] => ReadOf(g, i) \in K[p]
  BY <1>2, AccessNames
<1>4. \A g \in Guards, i \in MapIndex :
        /\ \A p \in {Writer, Mutex, Residual, Pending} :
             ReadOf(g, i) \in knows[p] => ReadOf(g, i) \in K[p]
        /\ \A l \in Guards : ReadOf(g, i) \in knows[Reader(l)] => ReadOf(g, i) \in K[Reader(l)]
  BY <1>3, PlaceNames, DistinctReader, DistinctHandle
<1>5. \A k \in Handles, g \in Guards, i \in MapIndex :
        /\ ReadOf(g, i) \in knows[Counter(k)] => ReadOf(g, i) \in K[Counter(k)]
        /\ ReadOf(g, i) \in knows[Ended(k)] => ReadOf(g, i) \in K[Ended(k)]
  BY <1>3, PlaceNames, DistinctHandle
<1>6. \A g \in Guards : OfReaders(K, g)'
  BY <1>0, <1>1, <1>4, <1>5 DEF ReadViews, OfReaders
<1>7. \A g \in Guards : OfWriter(K, g)'
  BY <1>0, <1>1, <1>4 DEF ReadViews, OfWriter
<1>8. LastKnows(K)' /\ OwnerKnows(K)'
  BY <1>0, <1>1, <1>4 DEF ReadViews, LastKnows, OwnerKnows
<1>9. ReadViews(K)'
  BY <1>6, <1>7, <1>8 DEF ReadViews
<1> QED
  BY <1>2, <1>9

LEMMA ReadsDropHandle ==
  ASSUME IInv, knows \in Views, ReadViews(knows), NEW h \in Handles, DropHandle_ordered(h)
  PROVE  \E K : After(K) /\ ReadViews(K)'
<1> USE DEF data, writer
<1>0. /\ TypeOK /\ writer_map \in MapIndex /\ other(writer_map) \in MapIndex
      /\ handles \subseteq Handles
  BY Other DEF IInv, TypeInv, TypeOK
<1>1. UNCHANGED <<writer_map, todo, wpc>> /\ handles' = handles \ {h} /\ todo = {}
  BY DEF DropHandle_ordered, DropHandle, mutex_free, IInv, Bookkeeping, FlagsDelivered
<1>2. \A g \in Guards : /\ gpc[g] \in {"live", "release"} => gpc'[g] = gpc[g] /\ gmap'[g] = gmap[g]
                        /\ gpc'[g] = "last" => gpc[g] = "last"
  BY DEF DropHandle_ordered, DropHandle
<1>3. PICK K : /\ After(K)
               /\ \A p \in Places, e \in Accesses :
                    e \in K[p] <=> /\ p \notin {Holder(h), Ended(h), Counter(h)}
                                   /\ \/ e \in knows[p]
                                      \/ p = Mutex /\ e \in knows[Holder(h)]
                                      \/ p = Mutex /\ e \in knows[Ended(h)]
  BY DropHandleView
<1>4. \A p \in Places, g \in Guards, i \in MapIndex :
        p \notin {Holder(h), Ended(h), Counter(h)} /\ ReadOf(g, i) \in knows[p]
        => ReadOf(g, i) \in K[p]
  BY <1>3, AccessNames
<1>5. \A g \in Guards, i \in MapIndex :
        /\ \A p \in {Writer, Mutex, Residual, Pending} :
             ReadOf(g, i) \in knows[p] => ReadOf(g, i) \in K[p]
        /\ \A l \in Guards : ReadOf(g, i) \in knows[Reader(l)] => ReadOf(g, i) \in K[Reader(l)]
  BY <1>4, PlaceNames, DistinctReader, DistinctHandle
<1>6. \A k \in Handles \ {h}, g \in Guards, i \in MapIndex :
        /\ ReadOf(g, i) \in knows[Counter(k)] => ReadOf(g, i) \in K[Counter(k)]
        /\ ReadOf(g, i) \in knows[Ended(k)] => ReadOf(g, i) \in K[Ended(k)]
  BY <1>4, PlaceNames, DistinctHandle
<1>7. \A g \in Guards, i \in MapIndex :
        ReadOf(g, i) \in knows[Ended(h)] => ReadOf(g, i) \in K[Mutex]
  BY <1>3, AccessNames, PlaceNames, DistinctHandle
<1>8. ASSUME NEW g \in Guards PROVE OfReaders(K, g)'
  <2> DEFINE r == ReadOf(g, other(writer_map))
  <2>1. CASE r \in knows[Writer] \/ r \in knows[Mutex]
    BY <1>0, <1>1, <1>5, <2>1 DEF OfReaders
  <2>2. ASSUME NEW k \in handles, r \in knows[Counter(k)], r \in knows[Ended(k)]
        PROVE  OfReaders(K, g)'
    BY <1>0, <1>1, <1>6, <1>7, <2>2 DEF OfReaders
  <2>3. CASE gpc[g] = "live" /\ gmap[g] = other(writer_map) /\ r \in knows[Reader(g)]
    BY <1>0, <1>1, <1>2, <1>5, <2>3 DEF OfReaders
  <2> QED
    BY <2>1, <2>2, <2>3 DEF ReadViews, OfReaders
<1>9. \A g \in Guards : OfWriter(K, g)'
  BY <1>0, <1>1, <1>2, <1>5 DEF ReadViews, OfWriter
<1>10. LastKnows(K)' /\ OwnerKnows(K)'
  BY <1>0, <1>1, <1>2, <1>5 DEF ReadViews, LastKnows, OwnerKnows
<1>11. ReadViews(K)'
  BY <1>8, <1>9, <1>10 DEF ReadViews
<1> QED
  BY <1>3, <1>11

(* Guards.  A new guard is on the copy its handle hands out, and the writer *)
(* knows of the reads it replaces.                                         *)
LEMMA ReadsGuard ==
  ASSUME IInv, TypeOK', knows \in Views, ReadViews(knows), NEW g \in Guards, NEW h \in Handles,
         Guard_ordered(g, h)
  PROVE  \E K : After(K) /\ ReadViews(K)'
<1> USE DEF data, writer
<1>0. /\ TypeOK /\ writer_map \in MapIndex /\ other(writer_map) \in MapIndex
      /\ other(writer_map) # writer_map /\ handles \subseteq Handles /\ gmap'[g] \in MapIndex
  BY Other DEF IInv, TypeInv, TypeOK
<1>1. /\ UNCHANGED <<writer_map, handles, todo, wpc>>
      /\ gpc[g] = "free" /\ gpc'[g] = "live"
      /\ gmap'[g] \in {writer_map, other(writer_map)}
      /\ wpc # "swap" => gmap'[g] = other(writer_map)
      /\ \A k \in Guards \ {g} : gpc'[k] = gpc[k] /\ gmap'[k] = gmap[k]
  BY <1>0 DEF Guard_ordered, Guard, TypeOK, IInv, Bookkeeping, FlagsDelivered
<1>2. PICK K : /\ After(K)
               /\ \A p \in Places, e \in Accesses :
                    e \in K[p] <=> IF e = ReadOf(g, gmap'[g]) THEN p = Reader(g)
                                   ELSE IF p = Reader(g)
                                   THEN e \in knows[Holder(h)] \/ e \in knows[Counter(h)]
                                   ELSE e \in knows[p]
  BY <1>0, GuardView
<1>3. \A p \in Places, k \in Guards, i \in MapIndex :
        /\ p # Reader(g) /\ ReadOf(k, i) # ReadOf(g, gmap'[g]) /\ ReadOf(k, i) \in knows[p]
        => ReadOf(k, i) \in K[p]
  BY <1>2, AccessNames
<1>4. \A k \in Guards, i \in MapIndex : k # g \/ i # gmap'[g] =>
        /\ ReadOf(k, i) # ReadOf(g, gmap'[g])
        /\ \A p \in {Writer, Mutex, Residual, Pending} :
             ReadOf(k, i) \in knows[p] => ReadOf(k, i) \in K[p]
        /\ \A l \in Guards \ {g} : ReadOf(k, i) \in knows[Reader(l)] => ReadOf(k, i) \in K[Reader(l)]
  BY <1>0, <1>3, AccessNames, PlaceNames, DistinctReader
<1>5. \A j \in Handles, k \in Guards \ {g}, i \in MapIndex :
        /\ ReadOf(k, i) \in knows[Counter(j)] => ReadOf(k, i) \in K[Counter(j)]
        /\ ReadOf(k, i) \in knows[Ended(j)] => ReadOf(k, i) \in K[Ended(j)]
  BY <1>3, <1>4, PlaceNames, DistinctReader
<1>6. /\ ReadOf(g, gmap'[g]) \in K[Reader(g)]
      /\ \A i \in MapIndex : i # gmap'[g] => ReadOf(g, i) \in K[Writer]
  <2>1. ReadOf(g, gmap'[g]) \in K[Reader(g)]
    BY <1>0, <1>2, AccessNames, PlaceNames
  <2> QED
    BY <1>4, <2>1 DEF Guard_ordered, Retired
<1>7. OfReaders(K, g)' /\ OfWriter(K, g)'
  BY <1>0, <1>1, <1>6 DEF OfReaders, OfWriter
<1>8. ASSUME NEW k \in Guards \ {g} PROVE OfReaders(K, k)'
  BY <1>0, <1>1, <1>4, <1>5 DEF ReadViews, OfReaders
<1>9. ASSUME NEW k \in Guards \ {g} PROVE OfWriter(K, k)'
  <2>1. todo \subseteq Handles
    BY <1>0 DEF TypeOK
  <2> QED
    BY <1>0, <1>1, <1>4, <1>5, <2>1 DEF ReadViews, OfWriter
<1>10. LastKnows(K)'
  <2> SUFFICES ASSUME NEW l \in Guards, gpc'[l] = "last", NEW k \in Guards
               PROVE  ReadOf(k, writer_map) \in K[Writer] \/ ReadOf(k, writer_map) \in K[Reader(l)]
    BY <1>1 DEF LastKnows
  <2>1. l # g /\ gpc[l] = "last" /\ wpc # "swap"
    BY <1>1 DEF IInv, ResidualAccounting
  <2> QED
    BY <1>0, <1>1, <1>4, <2>1 DEF ReadViews, LastKnows
<1>11. OwnerKnows(K)'
  BY <1>0, <1>1, <1>4 DEF ReadViews, OwnerKnows
<1>12. ReadViews(K)'
  BY <1>7, <1>8, <1>9, <1>10, <1>11 DEF ReadViews
<1> QED
  BY <1>2, <1>12

(* A guard that ends before its handle is swapped leaves its reads in the  *)
(* RefCount and with the handle; a residual one keeps them.                *)
LEMMA ReadsDropGuard ==
  ASSUME IInv, knows \in Views, ReadViews(knows), NEW g \in Guards, DropGuard_ordered(g)
  PROVE  \E K : After(K) /\ ReadViews(K)'
<1> USE DEF data, writer
<1> DEFINE h == ghandle[g]
<1>0. /\ TypeOK /\ writer_map \in MapIndex /\ other(writer_map) \in MapIndex
      /\ other(writer_map) # writer_map /\ handles \subseteq Handles /\ todo \subseteq Handles
  BY Other DEF IInv, TypeInv, TypeOK
<1>1. /\ UNCHANGED <<writer_map, handles, todo, wpc>>
      /\ gpc[g] = "live" /\ h \in handles
      /\ \A k \in Guards \ {g} : gpc'[k] = gpc[k] /\ gmap'[k] = gmap[k]
      /\ gpc'[g] \in {"free", "release"}
      /\ gpc'[g] = "release" => gmap'[g] = gmap[g]
  BY <1>0 DEF DropGuard_ordered, DropGuard, Leave, TypeOK, IInv, Bookkeeping, Placed, Counted
<1>2. /\ gmap[g] = other(writer_map) => gpc'[g] = "free"
      /\ gmap[g] = writer_map /\ gpc'[g] = "free" => h \in todo
  BY <1>0, <1>1
  DEF DropGuard_ordered, DropGuard, Leave, TypeOK, IInv, Bookkeeping, FlagsDelivered, Counted
<1>3. h \in Handles
  BY <1>0, <1>1
<1>4. PICK K : /\ After(K)
               /\ \A p \in Places, e \in Accesses :
                    e \in K[p] <=> /\ gpc'[g] = "free" => p # Reader(g)
                                   /\ \/ e \in knows[p]
                                      \/ p = Counter(h) /\ e \in knows[Reader(g)]
                                      \/ /\ gpc'[g] = "free" /\ p = Ended(h)
                                         /\ e \in knows[Reader(g)]
  BY <1>3, DropGuardView
<1> HIDE DEF h
<1>5. \A p \in Places, k \in Guards, i \in MapIndex :
        /\ p # Reader(g) /\ ReadOf(k, i) \in knows[p] => ReadOf(k, i) \in K[p]
        /\ gpc'[g] = "release" /\ ReadOf(k, i) \in knows[p] => ReadOf(k, i) \in K[p]
  BY <1>4, AccessNames
<1>6. \A k \in Guards, i \in MapIndex : ReadOf(k, i) \in knows[Reader(g)] =>
        /\ ReadOf(k, i) \in K[Counter(h)]
        /\ gpc'[g] = "free" => ReadOf(k, i) \in K[Ended(h)]
  BY <1>3, <1>4, AccessNames, PlaceNames, DistinctReader
<1>7. \A k \in Guards, i \in MapIndex :
        /\ \A p \in {Writer, Mutex, Residual, Pending} :
             ReadOf(k, i) \in knows[p] => ReadOf(k, i) \in K[p]
        /\ \A l \in Guards \ {g} : ReadOf(k, i) \in knows[Reader(l)] => ReadOf(k, i) \in K[Reader(l)]
        /\ \A j \in Handles :
             /\ ReadOf(k, i) \in knows[Counter(j)] => ReadOf(k, i) \in K[Counter(j)]
             /\ ReadOf(k, i) \in knows[Ended(j)] => ReadOf(k, i) \in K[Ended(j)]
  BY <1>5, PlaceNames, DistinctReader
<1>8. \A k \in Guards : OfReaders(K, k)'
  BY <1>0, <1>1, <1>2, <1>6, <1>7 DEF ReadViews, OfReaders
<1>9. ASSUME NEW k \in Guards PROVE OfWriter(K, k)'
  <2>1. CASE k # g
    BY <1>0, <1>1, <1>7, <2>1 DEF ReadViews, OfWriter
  <2>2. CASE k = g
    BY <1>0, <1>1, <1>2, <1>5, <1>6, <1>7, <2>2, PlaceNames DEF ReadViews, OfWriter
  <2> QED
    BY <2>1, <2>2
<1>10. LastKnows(K)' /\ OwnerKnows(K)'
  BY <1>0, <1>1, <1>7 DEF ReadViews, LastKnows, OwnerKnows
<1>11. ReadViews(K)'
  BY <1>8, <1>9, <1>10 DEF ReadViews
<1> QED
  BY <1>4, <1>11

(* release_residual.  The last to release acquires what the others         *)
(* released, and the store of zero passes it on.                           *)
LEMMA ReadsReleaseResidual ==
  ASSUME IInv, IInv', Named, knows \in Views, ReadViews(knows), NEW g \in Guards,
         ReleaseResidual_ordered(g)
  PROVE  \E K : After(K) /\ ReadViews(K)'
<1> USE DEF data, writer
<1>0. /\ TypeOK /\ writer_map \in MapIndex /\ other(writer_map) \in MapIndex
      /\ handles \subseteq Handles /\ todo \subseteq Handles
  BY Other DEF IInv, TypeInv, TypeOK
<1>1. /\ UNCHANGED <<writer_map, handles, todo, wpc>>
      /\ gpc[g] = "release" /\ ghandle[g] \in Handles
      /\ \A k \in Guards \ {g} : gpc'[k] = gpc[k] /\ gmap'[k] = gmap[k]
      /\ gpc'[g] \in {"free", "last"}
  BY <1>0 DEF ReleaseResidual_ordered, ReleaseResidual, Leave, TypeOK, Named
<1>2. PICK K : /\ After(K)
               /\ \A p \in Places, e \in Accesses :
                    /\ e \in knows[p] /\ p # Reader(g) => e \in K[p]
                    /\ e \in knows[Reader(g)] => e \in K[Residual]
                    /\ gpc'[g] # "free" /\ (e \in knows[Reader(g)] \/ e \in knows[Residual])
                         => e \in K[Reader(g)]
  BY <1>1, ReleaseResidualView
<1>3. \A p \in Places, k \in Guards, i \in MapIndex :
        /\ p # Reader(g) /\ ReadOf(k, i) \in knows[p] => ReadOf(k, i) \in K[p]
        /\ ReadOf(k, i) \in knows[Reader(g)] => ReadOf(k, i) \in K[Residual]
        /\ /\ gpc'[g] = "last"
           /\ ReadOf(k, i) \in knows[Reader(g)] \/ ReadOf(k, i) \in knows[Residual]
           => ReadOf(k, i) \in K[Reader(g)]
  BY <1>2, AccessNames
<1>4. \A k \in Guards, i \in MapIndex :
        /\ \A p \in {Writer, Mutex, Residual, Pending} :
             ReadOf(k, i) \in knows[p] => ReadOf(k, i) \in K[p]
        /\ \A l \in Guards \ {g} : ReadOf(k, i) \in knows[Reader(l)] => ReadOf(k, i) \in K[Reader(l)]
        /\ \A j \in Handles :
             /\ ReadOf(k, i) \in knows[Counter(j)] => ReadOf(k, i) \in K[Counter(j)]
             /\ ReadOf(k, i) \in knows[Ended(j)] => ReadOf(k, i) \in K[Ended(j)]
  BY <1>3, PlaceNames, DistinctReader
<1>5. \A k \in Guards : OfReaders(K, k)'
  BY <1>0, <1>1, <1>4 DEF ReadViews, OfReaders
<1>6. ASSUME NEW k \in Guards PROVE OfWriter(K, k)'
  <2>1. CASE k # g
    BY <1>0, <1>1, <1>4, <2>1 DEF ReadViews, OfWriter
  <2>2. CASE k = g
    BY <1>0, <1>1, <1>3, <1>4, <2>2, PlaceNames DEF ReadViews, OfWriter
  <2> QED
    BY <2>1, <2>2
<1>7. ASSUME gpc'[g] = "last", NEW k \in Guards
      PROVE  ReadOf(k, writer_map) \in K[Writer] \/ ReadOf(k, writer_map) \in K[Reader(g)]
  <2>1. wpc \in {"park", "recheck"} /\ residual' = isize_MIN
    BY <1>1, <1>7 DEF IInv, ResidualAccounting
  <2>2. Owed' = 0 /\ todo = {}
    <3>1. residual' = isize_MIN + Owed' \/ Owed' = 0
      BY <1>1, <2>1 DEF IInv, ResidualAccounting
    <3>2. Owed' \in Nat /\ isize_MIN \in Int
      BY GuardSets, OverflowBitAssumption DEF Owed, Residuals, isize_MIN, MAP_INDEX_FLAG
    <3>3. todo = {}
      BY <2>1 DEF IInv, Bookkeeping, FlagsDelivered
    <3>4. \A c, x \in Int : c + x = c => x = 0
      OBVIOUS
    <3>5. Owed' \in Int
      BY <3>2
    <3> QED
      BY <2>1, <3>1, <3>2, <3>3, <3>4, <3>5
  <2>3. k # g /\ gpc[k] \in {"live", "release"} => gmap[k] # writer_map
    <3> SUFFICES ASSUME k # g, gpc'[k] \in {"live", "release"} PROVE gmap'[k] # writer_map'
      BY <1>1
    <3>1. ~Owes(k)'
      <4>1. IsFiniteSet(Residuals') /\ (Owes(k)' => k \in Residuals')
        BY GuardSets DEF Residuals
      <4> QED
        BY <2>2, <4>1, FS_EmptySet DEF Owed
    <3>2. gpc'[k] = "live" /\ gmap'[k] = to_map_index(refcounts'[ghandle'[k]])
      BY <3>1 DEF Owes, Counted
    <3>3. ghandle'[k] \in handles' /\ todo' = {} /\ writer_map' \in MapIndex
      BY <1>0, <1>1, <2>2, <3>2 DEF IInv, Bookkeeping, Placed, Counted
    <3> QED
      BY <3>2, <3>3, Other DEF IInv, Bookkeeping, FlagsDelivered
  <2> QED
    BY <1>0, <1>1, <1>3, <1>4, <1>7, <2>1, <2>2, <2>3, PlaceNames DEF ReadViews, OfWriter
<1>8. LastKnows(K)'
  BY <1>0, <1>1, <1>4, <1>7 DEF ReadViews, LastKnows
<1>9. OwnerKnows(K)'
  BY <1>0, <1>1, <1>4 DEF ReadViews, OwnerKnows
<1>10. ReadViews(K)'
  BY <1>5, <1>6, <1>8, <1>9 DEF ReadViews
<1> QED
  BY <1>2, <1>10

LEMMA ReadsStoreZero ==
  ASSUME IInv, knows \in Views, ReadViews(knows), NEW g \in Guards, StoreZero_ordered(g)
  PROVE  \E K : After(K) /\ ReadViews(K)'
<1> USE DEF data, writer
<1>0. /\ TypeOK /\ writer_map \in MapIndex /\ other(writer_map) \in MapIndex
      /\ handles \subseteq Handles
  BY Other DEF IInv, TypeInv, TypeOK
<1>1. /\ UNCHANGED <<writer_map, handles, todo, wpc, gmap>>
      /\ gpc[g] = "last" /\ gpc'[g] = "unpark"
      /\ \A k \in Guards \ {g} : gpc'[k] = gpc[k]
  BY <1>0 DEF StoreZero_ordered, StoreZero, TypeOK
<1>2. PICK K : /\ After(K)
               /\ \A p \in Places, e \in Accesses :
                    e \in K[p] <=> IF p = Residual THEN e \in knows[Reader(g)] ELSE e \in knows[p]
  BY StoreZeroView
<1>3. \A p \in Places, k \in Guards, i \in MapIndex :
        /\ p # Residual /\ ReadOf(k, i) \in knows[p] => ReadOf(k, i) \in K[p]
        /\ ReadOf(k, i) \in knows[Reader(g)] => ReadOf(k, i) \in K[Residual]
  BY <1>2, AccessNames, PlaceNames
<1>4. \A k \in Guards, i \in MapIndex :
        /\ \A p \in {Writer, Mutex} : ReadOf(k, i) \in knows[p] => ReadOf(k, i) \in K[p]
        /\ \A l \in Guards : ReadOf(k, i) \in knows[Reader(l)] => ReadOf(k, i) \in K[Reader(l)]
        /\ \A j \in Handles :
             /\ ReadOf(k, i) \in knows[Counter(j)] => ReadOf(k, i) \in K[Counter(j)]
             /\ ReadOf(k, i) \in knows[Ended(j)] => ReadOf(k, i) \in K[Ended(j)]
  BY <1>3, PlaceNames, Distinct, DistinctReader, DistinctHandle
<1>5. \A k \in Guards : OfReaders(K, k)'
  BY <1>0, <1>1, <1>4 DEF ReadViews, OfReaders
<1>6. \A k \in Guards : OfWriter(K, k)'
  BY <1>0, <1>1, <1>3, <1>4, PlaceNames DEF ReadViews, LastKnows, OfWriter
<1>7. LastKnows(K)' /\ OwnerKnows(K)'
  BY <1>0, <1>1, <1>4 DEF ReadViews, LastKnows, OwnerKnows
<1>8. ReadViews(K)'
  BY <1>5, <1>6, <1>7 DEF ReadViews
<1> QED
  BY <1>2, <1>8

LEMMA ReadsUnpark ==
  ASSUME IInv, Wakeup, Named, knows \in Views, ReadViews(knows), NEW g \in Guards,
         Unpark_ordered(g)
  PROVE  \E K : After(K) /\ ReadViews(K)'
<1> USE DEF core, data, writer
<1>0. /\ TypeOK /\ writer_map \in MapIndex /\ other(writer_map) \in MapIndex
      /\ handles \subseteq Handles /\ todo \subseteq Handles
  BY Other DEF IInv, TypeInv, TypeOK
<1>1. /\ UNCHANGED <<writer_map, handles, todo, wpc>>
      /\ gpc[g] = "unpark" /\ gpc'[g] = "free" /\ ghandle[g] \in Handles
      /\ writer_thread \in Threads
      /\ \A k \in Guards \ {g} : gpc'[k] = gpc[k] /\ gmap'[k] = gmap[k]
  BY <1>0 DEF Unpark_ordered, Unpark, Leave, TypeOK, Named, Wakeup, UnparkHasTarget
<1>2. PICK K : /\ After(K)
               /\ \A p \in Places, e \in Accesses :
                    e # CellRead /\ e \in knows[p] /\ p # Reader(g) => e \in K[p]
  BY <1>1, UnparkView
<1>3. \A p \in Places, k \in Guards, i \in MapIndex :
        p # Reader(g) /\ ReadOf(k, i) \in knows[p] => ReadOf(k, i) \in K[p]
  BY <1>2, AccessNames
<1>4. \A k \in Guards, i \in MapIndex :
        /\ \A p \in {Writer, Mutex, Residual, Pending} :
             ReadOf(k, i) \in knows[p] => ReadOf(k, i) \in K[p]
        /\ \A l \in Guards \ {g} : ReadOf(k, i) \in knows[Reader(l)] => ReadOf(k, i) \in K[Reader(l)]
        /\ \A j \in Handles :
             /\ ReadOf(k, i) \in knows[Counter(j)] => ReadOf(k, i) \in K[Counter(j)]
             /\ ReadOf(k, i) \in knows[Ended(j)] => ReadOf(k, i) \in K[Ended(j)]
  BY <1>3, PlaceNames, DistinctReader
<1>5. \A k \in Guards : OfReaders(K, k)'
  BY <1>0, <1>1, <1>4 DEF ReadViews, OfReaders
<1>6. \A k \in Guards : OfWriter(K, k)'
  BY <1>0, <1>1, <1>4 DEF ReadViews, OfWriter
<1>7. LastKnows(K)' /\ OwnerKnows(K)'
  BY <1>0, <1>1, <1>4 DEF ReadViews, LastKnows, OwnerKnows
<1>8. ReadViews(K)'
  BY <1>5, <1>6, <1>7 DEF ReadViews
<1> QED
  BY <1>2, <1>8

LEMMA ReadsStep ==
  Base /\ Base' /\ WriteViews /\ ReadViews(knows) /\ [OrderedNext]_ordered_vars
    => ReadViews(knows)'
<1> SUFFICES ASSUME IInv, IInv', Wakeup, Named, knows \in Views, ReadViews(knows),
                    [OrderedNext]_ordered_vars
             PROVE  ReadViews(knows)'
  BY DEF Base, WriteViews
<1>0. TypeOK'
  BY DEF IInv, TypeInv
<1>1. CASE \/ \E t \in Threads : MoveWriter_ordered(t)
           \/ ParkSpuriously_ordered
           \/ Terminated /\ UNCHANGED <<knows, early>>
           \/ UNCHANGED ordered_vars
  <2>1. /\ UNCHANGED <<writer_map, handles, todo, gpc, gmap, knows>>
        /\ \A pc \in {"swap", "add", "reset", "flush", "writing"} : wpc' = pc <=> wpc = pc
    BY <1>1 DEF MoveWriter_ordered, MoveWriter, ParkSpuriously_ordered, ParkSpuriously,
                Terminated, ordered_vars, vars, core, data, writer, guards
  <2> QED
    BY <2>1 DEF ReadViews, OfReaders, OfWriter, LastKnows, OwnerKnows
<1>2. CASE \/ \E c \in Calls : Synchronize_ordered(c)
           \/ SetWriterThread_ordered \/ SetWaitFlag_ordered \/ ResetResidual_ordered
           \/ Park_ordered \/ Recheck_ordered \/ FlushOperations_ordered \/ WriteOp_ordered
  BY <1>0, <1>2, ReadsSettle, ReadsLoad, ReadsSetWaitFlag, ReadsResetResidual, ReadsQuiet
<1>3. CASE \/ Publish_ordered
           \/ \E h \in Handles : SwapMaps_ordered(h)
           \/ Unlock_ordered \/ AddResidual_ordered
  BY <1>0, <1>3, ReadsSettle, ReadsPublish, ReadsSwapMaps, ReadsUnlock, ReadsAddResidual
<1>4. CASE \/ \E src, h \in Handles : NewReader_ordered(src, h)
           \/ \E h \in Handles : DropHandle_ordered(h)
           \/ \E g \in Guards, h \in Handles : Guard_ordered(g, h)
  BY <1>0, <1>4, ReadsSettle, ReadsNewReader, ReadsDropHandle, ReadsGuard
<1>5. CASE \E g \in Guards : \/ DropGuard_ordered(g) \/ ReleaseResidual_ordered(g)
                             \/ StoreZero_ordered(g) \/ Unpark_ordered(g)
  BY <1>0, <1>5, ReadsSettle, ReadsDropGuard, ReadsReleaseResidual, ReadsStoreZero, ReadsUnpark
<1> QED
  BY <1>1, <1>2, <1>3, <1>4, <1>5 DEF OrderedNext

(* Every read of the writer's copy, by any guard on any path out of it,    *)
(* happens before the writer changes that copy again: what the Release of  *)
(* the decrement, the fences of publish, the AcqRel of release_residual,   *)
(* the store of zero and the two Acquire loads are for.                    *)
THEOREM WriterSeesReads == OrderedSpec => []WritesAfterReads
<1>1. ReadViews(knows) => WritesAfterReads
  BY DEF ReadViews, OwnerKnows, WritesAfterReads
<1> QED
  BY <1>1, BaseInvariance, WriteViewsInvariance, ReadViewsInit, ReadsStep, PTL DEF OrderedSpec

-----------------------------------------------------------------------------
(* The plain cell writer_thread.  Until park has returned without a token, *)
(* the hand-over is exclusive.                                             *)
LEMMA ByToken ==
  ASSUME TypeOK, [OrderedNext]_ordered_vars, ~early'
  PROVE  ~early /\ ~ParkSpuriously
<1> USE DEF core, data, writer, guards
<1> SUFFICES ASSUME early \/ (wpc = "park" /\ wpc' = "recheck" /\ UNCHANGED token) PROVE FALSE
  BY DEF ParkSpuriously
<1>1. CASE Park_ordered
  BY <1>1 DEF Park_ordered, Park, Update, TypeOK
<1>2. CASE ParkSpuriously_ordered
  BY <1>2 DEF ParkSpuriously_ordered
<1>3. CASE \/ \E t \in Threads : MoveWriter_ordered(t)
           \/ Terminated /\ UNCHANGED <<knows, early>>
           \/ UNCHANGED ordered_vars
  BY <1>3 DEF MoveWriter_ordered, MoveWriter, Terminated, ordered_vars, vars
<1>4. CASE \/ \E c \in Calls : Synchronize_ordered(c)
           \/ SetWriterThread_ordered \/ SetWaitFlag_ordered \/ ResetResidual_ordered
           \/ Recheck_ordered \/ FlushOperations_ordered \/ WriteOp_ordered \/ Publish_ordered
           \/ \E h \in Handles : SwapMaps_ordered(h)
           \/ Unlock_ordered \/ AddResidual_ordered
  BY <1>4
  DEF Update, Synchronize_ordered, Synchronize, SetWriterThread_ordered, SetWriterThread,
      SetWaitFlag_ordered, SetWaitFlag, ResetResidual_ordered, ResetResidual, Recheck_ordered,
      Recheck, FlushOperations_ordered, FlushOperations, WriteOp_ordered, WriteOp,
      Publish_ordered, Publish, SwapMaps_ordered, SwapMaps, Unlock_ordered, Unlock,
      AddResidual_ordered, AddResidual
<1>5. CASE \/ \E src, h \in Handles : NewReader_ordered(src, h)
           \/ \E h \in Handles : DropHandle_ordered(h)
           \/ \E g \in Guards, h \in Handles : Guard_ordered(g, h)
           \/ \E g \in Guards : \/ DropGuard_ordered(g) \/ ReleaseResidual_ordered(g)
                                \/ StoreZero_ordered(g) \/ Unpark_ordered(g)
  BY <1>5
  DEF Update, NewReader_ordered, NewReader, DropHandle_ordered, DropHandle, Guard_ordered, Guard,
      DropGuard_ordered, DropGuard, ReleaseResidual_ordered, ReleaseResidual, StoreZero_ordered,
      StoreZero, Unpark_ordered, Unpark
<1> QED
  BY <1>1, <1>2, <1>3, <1>4, <1>5 DEF OrderedNext

TokenOnly == ~early => Handover

LEMMA TokenOnlyInvariance == OrderedSpec => []TokenOnly
<1>1. OrderedInit => TokenOnly
  BY HandoverInit DEF OrderedInit, TokenOnly
<1>2. Base /\ Base' /\ TokenOnly /\ [OrderedNext]_ordered_vars => TokenOnly'
  <2> SUFFICES ASSUME Base, Base', TokenOnly, [OrderedNext]_ordered_vars, ~early'
               PROVE  Handover'
    BY DEF TokenOnly
  <2>1. Handover /\ ~ParkSpuriously
    BY ByToken DEF Base, IInv, TypeInv, TokenOnly
  <2> QED
    BY <2>1, OrderedStep, HandoverStep DEF Base
<1> QED
  BY <1>1, <1>2, BaseInvariance, PTL DEF OrderedSpec

(* The writer's assignment reaches the reader that will unpark through     *)
(* residual; that reader's read reaches the writer through the token.      *)
CellViews(k) ==
  /\ CellWrite \in k[Writer]
  /\ wpc \in {"park", "recheck"} /\ residual < 0 => CellWrite \in k[Residual]
  /\ ~early =>
       /\ \A g \in Guards : Waking(g) => CellWrite \in k[Reader(g)]
       /\ CellRead \in k[Writer] \/ (token[current] /\ CellRead \in k[Token(current)])

LEMMA CellViewsInit == OrderedInit => CellViews(knows)
<1> SUFFICES ASSUME OrderedInit PROVE CellViews(knows)
  OBVIOUS
<1>1. \A p \in Places : p = Writer => knows[p] = Accesses
  BY DistinctHandle DEF OrderedInit
<1>2. CellWrite \in knows[Writer] /\ CellRead \in knows[Writer]
  BY <1>1, PlaceNames, AccessNames
<1> QED
  BY <1>2 DEF OrderedInit, Init, CellViews, Waking

LEMMA CellSettles ==
  ASSUME TypeOK', NEW K, After(K), CellViews(K)'
  PROVE  CellViews(knows)'
<1>1. K \in Views /\ knows' = Settled(K) /\ knows'[Writer] = K[Writer] /\ current' \in Threads
  BY SettledViews DEF After, TypeOK
<1>2. CellRead \in K[Writer] \/ CellRead \in K[Token(current')]
      => CellRead \in knows'[Writer] \/ CellRead \in knows'[Token(current')]
  BY <1>1, SettledReads, AccessNames, PlaceNames
<1>3. CellRead \in K[Writer] => CellRead \in knows'[Writer]
  BY <1>1
<1> QED
  BY <1>1, <1>2, <1>3, SettledCell DEF CellViews

(* Steps that are not part of the hand-over.                               *)
LEMMA CellKept ==
  ASSUME CellViews(knows), knows \in Views, NEW K, TypeOK,
         UNCHANGED <<early, current, token>>,
         wpc' \in {"park", "recheck"} /\ residual' < 0
           => /\ wpc \in {"park", "recheck"} /\ residual < 0
              /\ (CellWrite \in knows[Residual] => CellWrite \in K[Residual]),
         \A g \in Guards : Waking(g)' =>
           Waking(g) /\ (CellWrite \in knows[Reader(g)] => CellWrite \in K[Reader(g)]),
         CellWrite \in knows[Writer] => CellWrite \in K[Writer],
         CellRead \in knows[Writer] => CellRead \in K[Writer],
         CellRead \in knows[Token(current)] => CellRead \in K[Token(current)]
  PROVE  CellViews(K)'
BY DEF CellViews

LEMMA CellWriter ==
  ASSUME IInv, knows \in Views, CellViews(knows),
         \/ \E c \in Calls : Synchronize_ordered(c)
         \/ Recheck_ordered \/ ResetResidual_ordered \/ FlushOperations_ordered \/ WriteOp_ordered
         \/ Publish_ordered \/ (\E h \in Handles : SwapMaps_ordered(h)) \/ Unlock_ordered
         \/ AddResidual_ordered
  PROVE  \E K : After(K) /\ CellViews(K)'
<1> USE DEF core, data, writer, guards
<1>0. TypeOK /\ writer_map \in MapIndex /\ current \in Threads
  BY DEF IInv, TypeInv, TypeOK
<1>1. /\ UNCHANGED <<early, current, token, gpc>>
      /\ wpc' \in {"park", "recheck"} => wpc = "recheck" /\ residual' = residual
      /\ wpc = "recheck" => Recheck_ordered
  BY DEF Update, Synchronize_ordered, Synchronize, Recheck_ordered, Recheck,
         ResetResidual_ordered, ResetResidual, FlushOperations_ordered, FlushOperations,
         WriteOp_ordered, WriteOp, Publish_ordered, Publish, SwapMaps_ordered, SwapMaps,
         Unlock_ordered, Unlock, AddResidual_ordered, AddResidual, Return
<1>2. \E K : /\ After(K)
             /\ \A p \in Places, e \in {CellWrite, CellRead} :
                  p \notin {Residual, Pending, Fenced} /\ e \in knows[p] => e \in K[p]
             /\ wpc = "recheck" => (CellWrite \in knows[Residual] => CellWrite \in K[Residual])
  <2> USE <1>0, AccessNames, PlaceNames
  <2>1. CASE (\E c \in Calls : Synchronize_ordered(c)) \/ Recheck_ordered
    BY <2>1, LoadView
  <2>2. CASE ResetResidual_ordered
    BY <2>2, ResetResidualView DEF ResetResidual_ordered, ResetResidual
  <2>3. CASE FlushOperations_ordered \/ WriteOp_ordered
    BY <2>3, WriteView
  <2>4. CASE Publish_ordered
    BY <2>4, PublishView, Distinct
  <2>5. ASSUME NEW h \in Handles, SwapMaps_ordered(h)
        PROVE  \E K : /\ After(K)
                      /\ \A p \in Places, e \in {CellWrite, CellRead} :
                           e \in knows[p] => e \in K[p]
    BY <2>5, SwapMapsView
  <2>6. CASE Unlock_ordered
    BY <2>6, UnlockView
  <2>7. CASE AddResidual_ordered
    BY <2>7, AddResidualView DEF AddResidual_ordered, AddResidual
  <2> QED
    BY <2>1, <2>2, <2>3, <2>4, <2>5, <2>6, <2>7
<1>3. PICK K : /\ After(K)
               /\ \A p \in Places, e \in {CellWrite, CellRead} :
                    p \notin {Residual, Pending, Fenced} /\ e \in knows[p] => e \in K[p]
               /\ wpc = "recheck" => (CellWrite \in knows[Residual] => CellWrite \in K[Residual])
  BY <1>2
<1>4. /\ CellWrite \in knows[Writer] => CellWrite \in K[Writer]
      /\ CellRead \in knows[Writer] => CellRead \in K[Writer]
      /\ CellRead \in knows[Token(current)] => CellRead \in K[Token(current)]
  BY <1>0, <1>3, PlaceNames, Distinct, DistinctToken
<1>5. \A g \in Guards : CellWrite \in knows[Reader(g)] => CellWrite \in K[Reader(g)]
  BY <1>3, PlaceNames, DistinctReader
<1>6. CellViews(K)'
  BY <1>0, <1>1, <1>3, <1>4, <1>5, CellKept DEF Waking
<1> QED
  BY <1>3, <1>6

LEMMA CellHandles ==
  ASSUME IInv, knows \in Views, CellViews(knows),
         \/ \E src, h \in Handles : NewReader_ordered(src, h)
         \/ \E h \in Handles : DropHandle_ordered(h)
  PROVE  \E K : After(K) /\ CellViews(K)'
<1> USE DEF data, writer, guards
<1>0. TypeOK /\ current \in Threads
  BY DEF IInv, TypeInv, TypeOK
<1>1. /\ UNCHANGED <<early, current, token, wpc, residual>>
      /\ \A g \in Guards : Waking(g)' => Waking(g)
  BY DEF Update, NewReader_ordered, NewReader, DropHandle_ordered, DropHandle, Waking
<1>2. \E K : /\ After(K)
             /\ \A p \in Places, e \in {CellWrite, CellRead} :
                  /\ \A h \in Handles : p \notin {Holder(h), Ended(h), Counter(h)}
                  /\ e \in knows[p]
                  => e \in K[p]
  <2> USE AccessNames
  <2>1. ASSUME NEW src \in Handles, NEW h \in Handles, NewReader_ordered(src, h)
        PROVE  \E K : /\ After(K)
                      /\ \A p \in Places, e \in {CellWrite, CellRead} :
                           p # Holder(h) /\ e \in knows[p] => e \in K[p]
    BY <2>1, NewReaderView
  <2>2. ASSUME NEW h \in Handles, DropHandle_ordered(h)
        PROVE  \E K : /\ After(K)
                      /\ \A p \in Places, e \in {CellWrite, CellRead} :
                           p \notin {Holder(h), Ended(h), Counter(h)} /\ e \in knows[p] => e \in K[p]
    BY <2>2, DropHandleView
  <2> QED
    BY <2>1, <2>2
<1>3. PICK K : /\ After(K)
               /\ \A p \in Places, e \in {CellWrite, CellRead} :
                    /\ \A h \in Handles : p \notin {Holder(h), Ended(h), Counter(h)}
                    /\ e \in knows[p]
                    => e \in K[p]
  BY <1>2
<1>4. /\ CellWrite \in knows[Writer] => CellWrite \in K[Writer]
      /\ CellWrite \in knows[Residual] => CellWrite \in K[Residual]
      /\ CellRead \in knows[Writer] => CellRead \in K[Writer]
      /\ CellRead \in knows[Token(current)] => CellRead \in K[Token(current)]
  BY <1>0, <1>3, PlaceNames, DistinctHandle
<1>5. \A g \in Guards : CellWrite \in knows[Reader(g)] => CellWrite \in K[Reader(g)]
  BY <1>3, PlaceNames, DistinctReader
<1>6. CellViews(K)'
  BY <1>0, <1>1, <1>3, <1>4, <1>5, CellKept
<1> QED
  BY <1>3, <1>6

LEMMA CellGuards ==
  ASSUME IInv, TypeOK', Named, knows \in Views, CellViews(knows), NEW g \in Guards,
         (\E h \in Handles : Guard_ordered(g, h)) \/ DropGuard_ordered(g)
  PROVE  \E K : After(K) /\ CellViews(K)'
<1> USE DEF data, writer
<1>0. TypeOK /\ current \in Threads /\ gmap'[g] \in MapIndex
  BY DEF IInv, TypeInv, TypeOK
<1>1. /\ UNCHANGED <<early, current, token, wpc, residual>>
      /\ ~Waking(g)' /\ \A k \in Guards \ {g} : gpc'[k] = gpc[k]
  BY <1>0 DEF Update, Guard_ordered, Guard, DropGuard_ordered, DropGuard, Leave, Waking, TypeOK
<1>2. \E K : /\ After(K)
             /\ \A p \in Places, e \in {CellWrite, CellRead} :
                  p # Reader(g) /\ e \in knows[p] => e \in K[p]
  <2> USE <1>0, AccessNames
  <2>1. ASSUME NEW h \in Handles, Guard_ordered(g, h)
        PROVE  \E K : /\ After(K)
                      /\ \A p \in Places, e \in {CellWrite, CellRead} :
                           p # Reader(g) /\ e \in knows[p] => e \in K[p]
    BY <2>1, GuardView
  <2>2. CASE DropGuard_ordered(g)
    <3>1. ghandle[g] \in Handles
      BY <2>2 DEF DropGuard_ordered, DropGuard, Named
    <3> QED
      BY <2>2, <3>1, DropGuardView
  <2> QED
    BY <2>1, <2>2
<1>3. PICK K : /\ After(K)
               /\ \A p \in Places, e \in {CellWrite, CellRead} :
                    p # Reader(g) /\ e \in knows[p] => e \in K[p]
  BY <1>2
<1>4. /\ CellWrite \in knows[Writer] => CellWrite \in K[Writer]
      /\ CellWrite \in knows[Residual] => CellWrite \in K[Residual]
      /\ CellRead \in knows[Writer] => CellRead \in K[Writer]
      /\ CellRead \in knows[Token(current)] => CellRead \in K[Token(current)]
  BY <1>0, <1>3, PlaceNames, DistinctReader
<1>5. \A k \in Guards \ {g} : CellWrite \in knows[Reader(k)] => CellWrite \in K[Reader(k)]
  BY <1>3, PlaceNames, DistinctReader
<1>6. CellViews(K)'
  BY <1>0, <1>1, <1>3, <1>4, <1>5, CellKept DEF Waking
<1> QED
  BY <1>3, <1>6

(* The hand-over.  Nobody is waking when the writer assigns; the waiting   *)
(* flag releases the assignment, the last release acquires it; the unpark  *)
(* releases the read, park acquires it.                                    *)
LEMMA CellAssign ==
  ASSUME TypeOK, TokenOnly, knows \in Views, CellViews(knows), SetWriterThread_ordered
  PROVE  \E K : After(K) /\ CellViews(K)'
<1>1. UNCHANGED <<early, gpc>> /\ wpc = "set_thread" /\ wpc' = "set_flag"
  BY DEF Update, SetWriterThread_ordered, SetWriterThread, guards
<1>2. PICK K : /\ After(K)
               /\ \A p \in Places, e \in Accesses :
                    e \in K[p] <=> IF e = CellWrite THEN p = Writer ELSE e \in knows[p]
  BY SetWriterThreadView
<1>3. ~early => ~token[current] /\ \A g \in Guards : ~Waking(g)
  BY <1>1 DEF TokenOnly, Handover, TypeOK
<1>4. CellWrite \in K[Writer] /\ (CellRead \in knows[Writer] => CellRead \in K[Writer])
  BY <1>2, AccessNames, PlaceNames
<1>5. ~early => CellRead \in knows[Writer]
  BY <1>3 DEF CellViews
<1>6. \A g \in Guards : Waking(g)' <=> Waking(g)
  BY <1>1 DEF Waking
<1>7. CellViews(K)'
  BY <1>1, <1>3, <1>4, <1>5, <1>6 DEF CellViews
<1> QED
  BY <1>2, <1>7

LEMMA CellSetWaitFlag ==
  ASSUME TypeOK, knows \in Views, CellViews(knows), SetWaitFlag_ordered
  PROVE  \E K : After(K) /\ CellViews(K)'
<1>0. current \in Threads
  BY DEF TypeOK
<1>1. UNCHANGED <<early, token, current, gpc>>
  BY DEF Update, SetWaitFlag_ordered, SetWaitFlag, guards
<1>2. PICK K : /\ After(K)
               /\ \A p \in Places, e \in Accesses :
                    e \in K[p] <=> \/ e \in knows[p]
                                   \/ p = Writer /\ e \in knows[Residual]
                                   \/ p = Residual /\ e \in knows[Writer]
  BY SetWaitFlagView
<1>3. \A p \in Places : /\ CellWrite \in knows[p] => CellWrite \in K[p]
                        /\ CellRead \in knows[p] => CellRead \in K[p]
  BY <1>2, AccessNames
<1>4. CellWrite \in K[Residual]
  BY <1>2, AccessNames, PlaceNames DEF CellViews
<1>5. CellViews(K)'
  BY <1>0, <1>1, <1>3, <1>4, PlaceNames DEF CellViews, Waking
<1> QED
  BY <1>2, <1>5

LEMMA CellPark ==
  ASSUME TypeOK, knows \in Views, CellViews(knows), Park_ordered
  PROVE  \E K : After(K) /\ CellViews(K)'
<1>0. current \in Threads
  BY DEF TypeOK
<1>1. UNCHANGED <<early, current, gpc, residual>> /\ wpc = "park"
  BY DEF Update, Park_ordered, Park, guards, core
<1>2. PICK K : /\ After(K)
               /\ \A p \in Places, e \in Accesses :
                    e \in K[p] <=> /\ p # Token(current)
                                   /\ \/ e \in knows[p]
                                      \/ p = Writer /\ e \in knows[Token(current)]
  BY <1>0, ParkView
<1>3. /\ CellWrite \in knows[Writer] => CellWrite \in K[Writer]
      /\ CellWrite \in knows[Residual] => CellWrite \in K[Residual]
      /\ \A g \in Guards : CellWrite \in knows[Reader(g)] => CellWrite \in K[Reader(g)]
      /\ CellRead \in knows[Writer] \/ CellRead \in knows[Token(current)] => CellRead \in K[Writer]
  BY <1>0, <1>2, AccessNames, PlaceNames, DistinctToken, DistinctReader
<1>4. CellViews(K)'
  BY <1>1, <1>3 DEF CellViews, Waking
<1> QED
  BY <1>2, <1>4

LEMMA CellReleaseResidual ==
  ASSUME IInv, IInv', Named, knows \in Views, CellViews(knows), NEW g \in Guards,
         ReleaseResidual_ordered(g)
  PROVE  \E K : After(K) /\ CellViews(K)'
<1> USE DEF data, writer
<1>0. TypeOK /\ current \in Threads
  BY DEF IInv, TypeInv, TypeOK
<1>1. /\ UNCHANGED <<early, current, token, wpc>>
      /\ gpc[g] = "release" /\ ghandle[g] \in Handles /\ gpc'[g] \in {"free", "last"}
      /\ \A k \in Guards \ {g} : gpc'[k] = gpc[k]
  BY <1>0 DEF Update, ReleaseResidual_ordered, ReleaseResidual, Leave, TypeOK, Named
<1>2. wpc \in {"park", "recheck"} => residual < 0
  <2>1. Owed > 0 /\ Owed \in Nat
    BY <1>1, OwedPositive, Sizes DEF Owes
  <2> QED
    BY <2>1 DEF IInv, ResidualAccounting
<1>3. gpc'[g] = "last" => wpc \in {"park", "recheck"}
  BY <1>1 DEF IInv, ResidualAccounting
<1>4. PICK K : /\ After(K)
               /\ \A p \in Places, e \in Accesses :
                    /\ e \in knows[p] /\ p # Reader(g) => e \in K[p]
                    /\ gpc'[g] # "free" /\ (e \in knows[Reader(g)] \/ e \in knows[Residual])
                         => e \in K[Reader(g)]
  BY <1>1, ReleaseResidualView
<1>5. /\ CellWrite \in knows[Writer] => CellWrite \in K[Writer]
      /\ CellWrite \in knows[Residual] => CellWrite \in K[Residual]
      /\ CellRead \in knows[Writer] => CellRead \in K[Writer]
      /\ CellRead \in knows[Token(current)] => CellRead \in K[Token(current)]
      /\ \A k \in Guards \ {g} : CellWrite \in knows[Reader(k)] => CellWrite \in K[Reader(k)]
      /\ gpc'[g] = "last" /\ CellWrite \in knows[Residual] => CellWrite \in K[Reader(g)]
  BY <1>0, <1>4, AccessNames, PlaceNames, DistinctReader
<1>6. CellViews(K)'
  BY <1>0, <1>1, <1>2, <1>3, <1>5 DEF CellViews, Waking
<1> QED
  BY <1>4, <1>6

LEMMA CellStoreZero ==
  ASSUME TypeOK, knows \in Views, CellViews(knows), NEW g \in Guards, StoreZero_ordered(g)
  PROVE  \E K : After(K) /\ CellViews(K)'
<1> USE DEF data, writer
<1>0. current \in Threads
  BY DEF TypeOK
<1>1. /\ UNCHANGED <<early, current, token, wpc>> /\ residual' = 0 /\ Waking(g)
      /\ \A k \in Guards \ {g} : gpc'[k] = gpc[k]
  BY DEF Update, StoreZero_ordered, StoreZero, Waking, TypeOK
<1>2. PICK K : /\ After(K)
               /\ \A p \in Places, e \in Accesses :
                    e \in K[p] <=> IF p = Residual THEN e \in knows[Reader(g)] ELSE e \in knows[p]
  BY StoreZeroView
<1>3. /\ CellWrite \in knows[Writer] => CellWrite \in K[Writer]
      /\ CellRead \in knows[Writer] => CellRead \in K[Writer]
      /\ CellRead \in knows[Token(current)] => CellRead \in K[Token(current)]
      /\ \A k \in Guards : CellWrite \in knows[Reader(k)] => CellWrite \in K[Reader(k)]
  BY <1>0, <1>2, AccessNames, PlaceNames, Distinct, DistinctReader, DistinctToken
<1>4. CellViews(K)'
  BY <1>0, <1>1, <1>3 DEF CellViews, Waking
<1> QED
  BY <1>2, <1>4

LEMMA CellUnpark ==
  ASSUME IInv, Wakeup, Named, TokenOnly, knows \in Views, CellViews(knows), NEW g \in Guards,
         Unpark_ordered(g)
  PROVE  \E K : After(K) /\ CellViews(K)'
<1> USE DEF core, data, writer
<1>0. TypeOK /\ current \in Threads
  BY DEF IInv, TypeInv, TypeOK
<1>1. /\ UNCHANGED <<early, current, wpc, residual>>
      /\ gpc[g] = "unpark" /\ gpc'[g] = "free" /\ ghandle[g] \in Handles
      /\ writer_thread \in Threads /\ token'[writer_thread]
      /\ \A k \in Guards \ {g} : gpc'[k] = gpc[k]
  BY <1>0 DEF Update, Unpark_ordered, Unpark, Leave, TypeOK, Named, Wakeup, UnparkHasTarget
<1>2. ~early => writer_thread = current
  BY <1>1 DEF TokenOnly, Handover, Waking, Wakeup, ThreadRecorded
<1>3. PICK K : /\ After(K)
               /\ \A p \in Places, e \in Accesses :
                    /\ e # CellRead /\ e \in knows[p] /\ p # Reader(g) => e \in K[p]
                    /\ e = CellRead /\ p = Token(writer_thread) => e \in K[p]
  BY <1>1, UnparkView
<1>4. /\ CellWrite \in knows[Writer] => CellWrite \in K[Writer]
      /\ CellWrite \in knows[Residual] => CellWrite \in K[Residual]
      /\ \A k \in Guards \ {g} : CellWrite \in knows[Reader(k)] => CellWrite \in K[Reader(k)]
      /\ CellRead \in K[Token(writer_thread)]
  BY <1>1, <1>3, AccessNames, PlaceNames, DistinctReader
<1>5. CellViews(K)'
  BY <1>0, <1>1, <1>2, <1>4 DEF CellViews, Waking
<1> QED
  BY <1>3, <1>5

LEMMA CellStep ==
  /\ Base /\ Base' /\ WriteViews /\ TokenOnly /\ CellViews(knows) /\ [OrderedNext]_ordered_vars
  => CellViews(knows)'
<1> SUFFICES ASSUME IInv, IInv', Wakeup, Named, knows \in Views, TokenOnly, CellViews(knows),
                    [OrderedNext]_ordered_vars
             PROVE  CellViews(knows)'
  BY DEF Base, WriteViews
<1>0. TypeOK /\ TypeOK'
  BY DEF IInv, TypeInv
<1>1. ASSUME NEW t \in Threads, MoveWriter_ordered(t) PROVE CellViews(knows)'
  <2>1. /\ UNCHANGED <<early, token, gpc, residual, wpc, knows>> /\ wpc = "idle"
    BY <1>1 DEF MoveWriter_ordered, MoveWriter, core, guards
  <2>2. ~early => ~token[current]
    BY <1>0, <2>1 DEF TokenOnly, Handover, TypeOK
  <2> QED
    BY <2>1, <2>2 DEF CellViews, Waking
<1>2. CASE ParkSpuriously_ordered
  BY <1>2 DEF ParkSpuriously_ordered, ParkSpuriously, core, CellViews
<1>3. CASE (Terminated /\ UNCHANGED <<knows, early>>) \/ UNCHANGED ordered_vars
  <2>1. UNCHANGED <<early, token, current, gpc, residual, wpc, knows>>
    BY <1>3 DEF Terminated, ordered_vars, vars, core, writer, guards
  <2> QED
    BY <2>1 DEF CellViews, Waking
<1>4. CASE \/ \E c \in Calls : Synchronize_ordered(c)
           \/ Recheck_ordered \/ ResetResidual_ordered \/ FlushOperations_ordered
           \/ WriteOp_ordered \/ Publish_ordered \/ (\E h \in Handles : SwapMaps_ordered(h))
           \/ Unlock_ordered \/ AddResidual_ordered
  BY <1>0, <1>4, CellSettles, CellWriter
<1>5. CASE SetWriterThread_ordered \/ SetWaitFlag_ordered \/ Park_ordered
  BY <1>0, <1>5, CellSettles, CellAssign, CellSetWaitFlag, CellPark
<1>6. CASE \/ \E src, h \in Handles : NewReader_ordered(src, h)
           \/ \E h \in Handles : DropHandle_ordered(h)
  BY <1>0, <1>6, CellSettles, CellHandles
<1>7. CASE \E g \in Guards : (\E h \in Handles : Guard_ordered(g, h)) \/ DropGuard_ordered(g)
  BY <1>0, <1>7, CellSettles, CellGuards
<1>8. CASE \E g \in Guards : ReleaseResidual_ordered(g) \/ StoreZero_ordered(g) \/ Unpark_ordered(g)
  BY <1>0, <1>8, CellSettles, CellReleaseResidual, CellStoreZero, CellUnpark
<1> QED
  BY <1>1, <1>2, <1>3, <1>4, <1>5, <1>6, <1>7, <1>8 DEF OrderedNext

(* Until park returns without a token, the accesses to the plain cell      *)
(* writer_thread are ordered: the assignment before the read that unparks, *)
(* that read before the next assignment, wherever the write handle has     *)
(* been moved in between.                                                  *)
THEOREM CellAccessesOrdered == OrderedSpec => []CellOrdered
<1>1. Base /\ TokenOnly /\ CellViews(knows) => CellOrdered
  <2> SUFFICES ASSUME Base, TokenOnly, CellViews(knows), ~early PROVE CellOrdered
    BY DEF CellOrdered
  <2>1. wpc = "set_thread" => ~token[current]
    BY DEF Base, IInv, TypeInv, TypeOK, TokenOnly, Handover
  <2> QED
    BY <2>1 DEF CellViews, CellOrdered, Waking
<1> QED
  BY <1>1, BaseInvariance, WriteViewsInvariance, TokenOnlyInvariance, CellViewsInit, CellStep, PTL
  DEF OrderedSpec
=============================================================================
