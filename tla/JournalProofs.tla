---------------------------- MODULE JournalProofs ----------------------------
(***************************************************************************)
(* Proofs about Journal, for every finite set of uuids and every value of  *)
(* the limits.  First what the operators of JournalRows and JournalDb do,  *)
(* then types, then the invariant of the cache, then the refinement.       *)
(***************************************************************************)
EXTENDS Journal, FiniteSetTheorems, TLAPS

(* No statement raises SQLException: the condition under which the cache,  *)
(* the pool and the table agree.                                           *)
Reliable == ~SqlMayFail

-----------------------------------------------------------------------------
(* Rows and maps *)

(* Summing an update into a well-formed row gives a well-formed row.       *)
LEMMA SummedType ==
  ASSUME NEW old \in ReqData, NEW c \in Command
  PROVE  Summed(old, c) \in ReqData
BY DEF Summed, ReqData, ReqRecord, Command, Blank

LEMMA BlankType == Blank \in ReqData
BY DEF Blank, ReqData, ReqRecord

LEMMA NoReqIsNoRow == NoRow \notin ReqData
BY ReqAssumption DEF ReqData

LEMMA MapTypes ==
  ASSUME NEW m \in RowMap
  PROVE  /\ EmptyMap \in RowMap
         /\ \A S : Only(m, S) \in RowMap
         /\ \A p \in RowMap : Overlay(p, m) \in RowMap
         /\ \A u \in UUID, r \in ReqData : [m EXCEPT ![u] = r] \in RowMap
BY DEF RowMap, EmptyMap, Only, Overlay

(* A map is empty when it has no key.                                      *)
LEMMA EmptyHasNoKeys ==
  ASSUME NEW m \in RowMap
  PROVE  m = EmptyMap <=> Keys(m) = {}
BY DEF RowMap, EmptyMap, Keys

LEMMA OverlayEmpty ==
  ASSUME NEW m \in RowMap
  PROVE  Overlay(EmptyMap, m) = m
BY DEF RowMap, EmptyMap, Overlay

(* Any set of uuids can be counted.                                        *)
LEMMA Countable ==
  ASSUME NEW S, S \subseteq UUID
  PROVE  IsFiniteSet(S) /\ Cardinality(S) \in Nat
BY UUIDAssumption, FS_Subset, FS_CardinalityType

-----------------------------------------------------------------------------
(* The connection *)

LEMMA ContentType ==
  ASSUME NEW d \in Connection
  PROVE  Content(d) \in RowMap
BY MapTypes DEF Connection, Content

LEMMA FlushType ==
  ASSUME NEW d \in Connection, NEW f \in Flush(d)
  PROVE  /\ f \in Connection
         /\ f.cleaner = d.cleaner
<1>1. EmptyMap \in RowMap /\ Content(d) \in RowMap /\ d.table \in RowMap
  BY ContentType, MapTypes DEF Connection
<1>2. QED
  BY <1>1 DEF Flush, Connection

LEMMA PushType ==
  ASSUME NEW d \in Connection, NEW u \in UUID, NEW r \in ReqData, NEW e \in PushDataToDb(d, u, r)
  PROVE  e \in Connection
<1> DEFINE pooled == [d EXCEPT !.pool[u] = r]
<1>1. pooled \in Connection
  BY MapTypes DEF Connection
<1>2. [pooled EXCEPT !.cleaner = TRUE] \in Connection
  BY <1>1 DEF Connection
<1>3. QED
  BY <1>1, <1>2, FlushType DEF PushDataToDb

LEMMA CronType ==
  ASSUME NEW d \in Connection, NEW e \in CronJob(d)
  PROVE  e \in Connection
BY FlushType DEF CronJob, Connection

LEMMA ClearType ==
  ASSUME NEW d \in Connection, NEW last, NEW e \in NotifyToClearDb(d, last)
  PROVE  e \in Connection
<1>1. PICK f \in Flush(d), ok \in SqlOk :
        e = [f EXCEPT !.table = IF ok THEN Only(@, {u \in UUID : u > last}) ELSE @]
  BY DEF NotifyToClearDb
<1>2. f \in Connection /\ f.table \in RowMap
  BY FlushType DEF Connection
<1>3. QED
  BY <1>1, <1>2, MapTypes DEF Connection

LEMMA GetDataType ==
  ASSUME NEW d \in Connection, NEW u \in UUID, NEW g \in GetData(d, u)
  PROVE  g.db \in Connection /\ g.row \in ReqData \cup {NoRow}
<1>1. PICK f \in Flush(d), ok \in SqlOk : g = [db |-> f, row |-> IF ok THEN f.table[u] ELSE NoRow]
  BY DEF GetData
<1>2. f \in Connection
  BY FlushType
<1>3. QED
  BY <1>1, <1>2 DEF Connection, RowMap

LEMMA BatchDataType ==
  ASSUME NEW d \in Connection, NEW b \in GetBatchData(d)
  PROVE  b.db \in Connection /\ b.rows \in RowMap
<1>1. PICK f \in Flush(d), ok \in SqlOk :
        \E r \in IF ok THEN FirstRows(f.table) ELSE {EmptyMap} : b = [db |-> f, rows |-> r]
  BY DEF GetBatchData
<1>2. f \in Connection /\ f.table \in RowMap
  BY FlushType DEF Connection
<1>3. FirstRows(f.table) \subseteq RowMap /\ EmptyMap \in RowMap
  BY <1>2, MapTypes DEF FirstRows
<1>4. QED
  BY <1>1, <1>2, <1>3

-----------------------------------------------------------------------------
(* The connection when no statement fails                                  *)

LEMMA ReliableFlush ==
  ASSUME Reliable, NEW d \in Connection, NEW f \in Flush(d)
  PROVE  /\ f.table = Content(d)
         /\ Content(f) = Content(d)
         /\ f.pool = EmptyMap
<1>1. d.table \in RowMap /\ Content(d) \in RowMap
  BY ContentType DEF Connection
<1>2. f.table = Content(d) /\ f.pool = EmptyMap
  <2>1. CASE d.pool = EmptyMap
    BY <1>1, <2>1, OverlayEmpty DEF Flush, Content
  <2>2. CASE d.pool # EmptyMap
    BY <2>2 DEF Flush, Connection, Reliable
  <2>3. QED
    BY <2>1, <2>2
<1>3. QED
  BY <1>1, <1>2, OverlayEmpty DEF Content

(* Pushing a row changes what a reader sees in that row and no other, and  *)
(* leaves the table as it was or brings all of it up to date.              *)
LEMMA ReliablePush ==
  ASSUME Reliable, NEW d \in Connection, NEW u \in UUID, NEW r \in ReqData,
         NEW e \in PushDataToDb(d, u, r)
  PROVE  /\ Content(e) = [Content(d) EXCEPT ![u] = r]
         /\ e.table \in {d.table, Content(e)}
<1> DEFINE pooled == [d EXCEPT !.pool[u] = r]
<1>1. pooled \in Connection /\ pooled.table = d.table
  BY MapTypes DEF Connection
<1>2. Content(pooled) = [Content(d) EXCEPT ![u] = r]
  BY NoReqIsNoRow DEF Content, Overlay, Connection, RowMap
<1>3. CASE e \in Flush(pooled)
  BY <1>1, <1>2, <1>3, ReliableFlush
<1>4. CASE e = [pooled EXCEPT !.cleaner = TRUE]
  <2>1. e.pool = pooled.pool /\ e.table = pooled.table
    BY <1>1, <1>4 DEF Connection
  <2>2. QED
    BY <1>1, <1>2, <2>1 DEF Content
<1>5. QED
  BY <1>3, <1>4 DEF PushDataToDb

LEMMA ReliableCron ==
  ASSUME Reliable, NEW d \in Connection, NEW e \in CronJob(d)
  PROVE  Content(e) = Content(d) /\ e.table = Content(d)
<1>1. PICK f \in Flush(d) : e = [f EXCEPT !.cleaner = FALSE]
  BY DEF CronJob
<1>2. e.pool = f.pool /\ e.table = f.table
  BY <1>1, FlushType DEF Connection
<1>3. QED
  BY <1>2, ReliableFlush DEF Content

(* Clearing up to last leaves exactly the greater uuids, and is durable.   *)
LEMMA ReliableClear ==
  ASSUME Reliable, NEW d \in Connection, NEW last, NEW e \in NotifyToClearDb(d, last)
  PROVE  /\ Content(e) = Only(Content(d), {u \in UUID : u > last})
         /\ e.table = Content(e)
<1> DEFINE kept == {u \in UUID : u > last}
<1>1. SqlOk = {TRUE}
  BY DEF Reliable, SqlOk
<1>2. PICK f \in Flush(d) : e = [f EXCEPT !.table = Only(@, kept)]
  BY <1>1 DEF NotifyToClearDb
<1>3. f \in Connection /\ f.pool = EmptyMap /\ f.table = Content(d)
  BY FlushType, ReliableFlush
<1>4. e.pool = EmptyMap /\ e.table = Only(Content(d), kept)
  BY <1>2, <1>3 DEF Connection
<1>5. Only(Content(d), kept) \in RowMap
  BY MapTypes, ContentType
<1>6. QED
  BY <1>4, <1>5, OverlayEmpty DEF Content

LEMMA ReliableGetData ==
  ASSUME Reliable, NEW d \in Connection, NEW u \in UUID, NEW g \in GetData(d, u)
  PROVE  /\ g.db \in Flush(d)
         /\ g.row = Content(d)[u]
<1>1. SqlOk = {TRUE}
  BY DEF Reliable, SqlOk
<1>2. PICK f \in Flush(d) : g = [db |-> f, row |-> f.table[u]]
  BY <1>1 DEF GetData
<1>3. QED
  BY <1>2, ReliableFlush

(* A refill reads a prefix of the journal, and all of it when fewer rows   *)
(* than the LIMIT came back.                                               *)
LEMMA ReliableBatchData ==
  ASSUME Reliable, NEW d \in Connection, NEW b \in GetBatchData(d)
  PROVE  /\ b.db \in Flush(d)
         /\ \A u \in Keys(b.rows) : b.rows[u] = Content(d)[u]
         /\ IsPrefixSet(Keys(b.rows), Keys(Content(d)))
         /\ Cardinality(Keys(b.rows)) < RETRIEVE_LIMIT => b.rows = Content(d)
<1>1. SqlOk = {TRUE}
  BY DEF Reliable, SqlOk
<1>2. PICK f \in Flush(d) : b.db = f /\ b.rows \in FirstRows(f.table)
  BY <1>1 DEF GetBatchData
<1>3. f.table = Content(d) /\ Content(d) \in RowMap
  BY ReliableFlush, ContentType
<1> DEFINE m == Content(d)
           K == Keys(m)
<1>4. PICK S \in SUBSET K :
        /\ b.rows = Only(m, S)
        /\ IsPrefixSet(S, K)
        /\ Cardinality(S) = IF Cardinality(K) < RETRIEVE_LIMIT THEN Cardinality(K) ELSE RETRIEVE_LIMIT
  BY <1>2, <1>3 DEF FirstRows
<1>5. Keys(b.rows) = S
  BY <1>4 DEF Keys, Only
<1>6. \A u \in S : b.rows[u] = m[u]
  BY <1>4 DEF Only, Keys
<1>7. ASSUME Cardinality(S) < RETRIEVE_LIMIT
      PROVE  b.rows = m
  <2>1. IsFiniteSet(K) /\ Cardinality(K) \in Nat /\ RETRIEVE_LIMIT \in Nat
    BY Countable, LimitAssumption DEF Keys
  <2>2. Cardinality(S) = Cardinality(K)
    BY <1>4, <1>7, <2>1
  <2>3. S = K
    BY <1>4, <2>1, <2>2, FS_Subset
  <2>4. QED
    BY <1>3, <1>4, <2>3 DEF Only, Keys, RowMap
<1>8. QED
  BY <1>2, <1>4, <1>5, <1>6, <1>7

-----------------------------------------------------------------------------
(* Types *)

LEMMA RemakeType ==
  ASSUME NEW list \in RowMap, NEW k \in BOOLEAN, NEW d \in Connection,
         NEW c \in TryReMakePendingList(list, k, d)
  PROVE  c.list \in RowMap /\ c.consistent \in BOOLEAN /\ c.db \in Connection
<1>1. CASE Keys(list) # {}
  BY <1>1 DEF TryReMakePendingList
<1>2. CASE Keys(list) = {}
  <2>1. PICK b \in GetBatchData(d) :
          c = [list |-> b.rows, consistent |-> Cardinality(Keys(b.rows)) < RETRIEVE_LIMIT,
               db |-> b.db]
    BY <1>2 DEF TryReMakePendingList
  <2>2. (Cardinality(Keys(b.rows)) < RETRIEVE_LIMIT) \in BOOLEAN
    OBVIOUS
  <2>3. QED
    BY <2>1, <2>2, BatchDataType
<1>3. QED
  BY <1>1, <1>2

LEMMA CacheTypes ==
  ASSUME NEW list \in RowMap, NEW k \in BOOLEAN, NEW u \in UUID, NEW r \in ReqData
  PROVE  TrySaveToCache(list, k, u, r) \in RowMap /\ TryToEvict(list) \in RowMap
BY MapTypes DEF TrySaveToCache, TryToEvict

LEMMA OldRowType ==
  ASSUME TypeOK, NEW u \in UUID, NEW old \in OldRow(u)
  PROVE  old.db \in Connection /\ old.row \in ReqData \cup {NoRow}
<1>1. CASE pendingList[u] # NoRow \/ isConsistent
  BY <1>1 DEF OldRow, TypeOK, RowMap
<1>2. CASE ~(pendingList[u] # NoRow \/ isConsistent)
  BY <1>2, GetDataType DEF OldRow, TypeOK
<1>3. QED
  BY <1>1, <1>2

(* The row an update writes is well formed.                                *)
LEMMA NewRowType ==
  ASSUME NEW row \in ReqData \cup {NoRow}, NEW cmd \in Commands
  PROVE  Summed(IF row = NoRow THEN Blank ELSE row, cmd) \in ReqData
BY SummedType, BlankType, CommandAssumption

(* The connection the program starts with.                                 *)
LEMMA FirstConnection ==
  ASSUME NEW t \in [UUID -> StoredRows \cup {NoRow}]
  PROVE  [pool |-> EmptyMap, table |-> t, cleaner |-> FALSE] \in Connection
BY CommandAssumption DEF Connection, RowMap, EmptyMap

LEMMA EmptyMapType == EmptyMap \in RowMap
BY DEF EmptyMap, RowMap

LEMMA InitType == Init => TypeOK
<1> SUFFICES ASSUME Init PROVE TypeOK
  OBVIOUS
<1>1. PICK t \in [UUID -> StoredRows \cup {NoRow}] :
        \E c \in TryReMakePendingList(EmptyMap, FALSE,
                   [pool |-> EmptyMap, table |-> t, cleaner |-> FALSE]) :
          pendingList = c.list /\ isConsistent = c.consistent /\ db = c.db
  BY DEF Init
<1>2. pendingList \in RowMap /\ isConsistent \in BOOLEAN /\ db \in Connection
  BY <1>1, FirstConnection, EmptyMapType, RemakeType
<1>3. QED
  BY <1>2, EmptyMapType DEF Init, TypeOK

LEMMA UpdateType ==
  ASSUME TypeOK, NEW u \in UUID, NEW cmd \in Commands, Update(u, cmd)
  PROVE  TypeOK'
<1>1. PICK old \in OldRow(u) :
        LET req   == Summed(IF old.row = NoRow THEN Blank ELSE old.row, cmd)
            saved == TrySaveToCache(pendingList, isConsistent, u, req)
        IN  /\ db' \in PushDataToDb(old.db, u, req)
            /\ pendingList' = TryToEvict(saved)
            /\ isConsistent' = (isConsistent /\ ~TooLong(saved))
  BY DEF Update
<1> DEFINE req   == Summed(IF old.row = NoRow THEN Blank ELSE old.row, cmd)
           saved == TrySaveToCache(pendingList, isConsistent, u, req)
<1>2. old.db \in Connection /\ req \in ReqData
  BY OldRowType, NewRowType
<1> HIDE DEF req
<1>3. db' \in Connection
  BY <1>1, <1>2, PushType DEF req
<1>4. saved \in RowMap
  BY <1>2, CacheTypes DEF TypeOK
<1> HIDE DEF saved
<1>5. pendingList' \in RowMap
  <2>1. pendingList' = TryToEvict(saved)
    BY <1>1 DEF saved, req
  <2>2. QED
    BY <1>4, <2>1, MapTypes DEF TryToEvict
<1>6. isConsistent' \in BOOLEAN /\ reqNewJournalVersion' \in BOOLEAN /\ batch' \in RowMap
  BY <1>1, EmptyMapType DEF Update, TypeOK
<1>7. QED
  BY <1>3, <1>5, <1>6 DEF TypeOK

LEMMA RecruitType ==
  ASSUME TypeOK, NEW size, Recruit(size)
  PROVE  TypeOK'
<1>1. PICK c \in TryReMakePendingList(pendingList, isConsistent, db) :
        LET S == BatchRows(c.list, size)
        IN  /\ batch' = Only(c.list, S)
            /\ pendingList' = Only(c.list, UUID \ S)
            /\ isConsistent' = c.consistent
            /\ reqNewJournalVersion' = FALSE
            /\ IF S = {}
               THEN db' = c.db
               ELSE \E last \in S : (\A u \in S : u <= last) /\ db' \in NotifyToClearDb(c.db, last)
  BY DEF Recruit
<1>2. c.list \in RowMap /\ c.consistent \in BOOLEAN /\ c.db \in Connection
  BY RemakeType DEF TypeOK
<1>3. pendingList' \in RowMap /\ batch' \in RowMap
  BY <1>1, <1>2, MapTypes
<1>4. db' \in Connection
  BY <1>1, <1>2, ClearType
<1>5. QED
  BY <1>1, <1>2, <1>3, <1>4 DEF TypeOK

LEMMA RestartType ==
  ASSUME TypeOK, Restart
  PROVE  TypeOK'
<1> DEFINE d == [db EXCEPT !.pool = EmptyMap, !.cleaner = FALSE]
<1>1. d \in Connection
  BY EmptyMapType DEF TypeOK, Connection
<1>2. PICK c \in TryReMakePendingList(EmptyMap, FALSE, d) :
        pendingList' = c.list /\ isConsistent' = c.consistent /\ db' = c.db
  BY DEF Restart, Start
<1>3. pendingList' \in RowMap /\ isConsistent' \in BOOLEAN /\ db' \in Connection
  BY <1>1, <1>2, EmptyMapType, RemakeType
<1>4. QED
  BY <1>3, EmptyMapType DEF Restart, Start, TypeOK

LEMMA NextType == TypeOK /\ [Next]_vars => TypeOK'
<1> SUFFICES ASSUME TypeOK, [Next]_vars PROVE TypeOK'
  OBVIOUS
<1>1. CASE UpdateAny
  BY <1>1, UpdateType DEF UpdateAny
<1>2. CASE RecruitAny
  BY <1>2, RecruitType DEF RecruitAny
<1>3. CASE Cron
  BY <1>3, CronType DEF Cron, TypeOK
<1>4. CASE Restart
  BY <1>4, RestartType
<1>5. CASE UNCHANGED vars
  BY <1>5 DEF vars, TypeOK
<1>6. QED
  BY <1>1, <1>2, <1>3, <1>4, <1>5 DEF Next

(* The journal's state keeps its types, and no row ever asks for a feed or *)
(* an image of a deleted uuid, whether or not SQL statements fail.         *)
THEOREM TypeCorrect == Spec => []TypeOK
<1>1. QED
  BY InitType, NextType, PTL DEF Spec

-----------------------------------------------------------------------------
(* The cache *)

(* list caches the journal m: no row differs, none is missing below the    *)
(* greatest, and k is only set for the whole of m.                         *)
Caches(list, k, m) ==
  /\ \A u \in Keys(list) : list[u] = m[u]
  /\ IsPrefixSet(Keys(list), Keys(m))
  /\ k => list = m

LEMMA KeysOfOnly ==
  ASSUME NEW m \in RowMap, NEW S, S \subseteq UUID
  PROVE  /\ Keys(Only(m, S)) = Keys(m) \cap S
         /\ \A u \in S : Only(m, S)[u] = m[u]
         /\ \A u \in UUID \ S : Only(m, S)[u] = NoRow
BY DEF Keys, Only, RowMap

(* Maps that agree on every uuid are equal.                                *)
LEMMA SameMap ==
  ASSUME NEW m \in RowMap, NEW n \in RowMap, \A u \in UUID : m[u] = n[u]
  PROVE  m = n
BY DEF RowMap

LEMMA UUIDOrder ==
  ASSUME NEW u \in UUID, NEW v \in UUID
  PROVE  /\ u < v \/ u = v \/ v < u
         /\ ~(u < v /\ v < u)
         /\ ~(u < u)
         /\ u <= v <=> u < v \/ u = v
         /\ \A w \in UUID : u < v /\ v < w => u < w
BY UUIDAssumption

(* A refill changes no row of the journal, and caches a prefix of it.      *)
LEMMA RemakeCaches ==
  ASSUME Reliable, NEW list \in RowMap, NEW k \in BOOLEAN, NEW d \in Connection,
         Caches(list, k, Content(d)) \/ Keys(list) = {},
         NEW c \in TryReMakePendingList(list, k, d)
  PROVE  /\ Content(c.db) = Content(d)
         /\ c.db.table \in {d.table, Content(d)}
         /\ Caches(c.list, c.consistent, Content(d))
<1>1. CASE Keys(list) # {}
  BY <1>1 DEF TryReMakePendingList
<1>2. CASE Keys(list) = {}
  <2>1. PICK b \in GetBatchData(d) :
          c = [list |-> b.rows, consistent |-> Cardinality(Keys(b.rows)) < RETRIEVE_LIMIT,
               db |-> b.db]
    BY <1>2 DEF TryReMakePendingList
  <2>2. b.db \in Flush(d) /\ Caches(b.rows, Cardinality(Keys(b.rows)) < RETRIEVE_LIMIT, Content(d))
    BY ReliableBatchData DEF Caches
  <2>3. QED
    BY <2>1, <2>2, ReliableFlush
<1>3. QED
  BY <1>1, <1>2

(* Saving a row to the cache and writing it to the journal keeps the two   *)
(* in step: the reason for the "evidence" trySaveToCache asks for.         *)
LEMMA SaveCaches ==
  ASSUME NEW list \in RowMap, NEW k \in BOOLEAN, NEW m \in RowMap, Caches(list, k, m),
         NEW u \in UUID, NEW r \in ReqData
  PROVE  Caches(TrySaveToCache(list, k, u, r), k, [m EXCEPT ![u] = r])
<1> DEFINE new == [list EXCEPT ![u] = r]
           n   == [m EXCEPT ![u] = r]
<1>1. Keys(n) = Keys(m) \cup {u} /\ Keys(new) = Keys(list) \cup {u}
  BY NoReqIsNoRow DEF Keys, RowMap
<1>2. CASE list[u] # NoRow \/ k \/ \E v \in Keys(list) : v > u
  <2>1. \A v \in Keys(new) : new[v] = n[v]
    BY <1>1 DEF Caches, RowMap, Keys
  <2>2. ASSUME NEW v \in Keys(new), NEW w \in Keys(n), w < v
        PROVE  w \in Keys(new)
    <3>1. CASE v \in Keys(list) \/ w = u
      BY <1>1, <2>2, <3>1 DEF Caches, IsPrefixSet
    <3>2. CASE v = u /\ w \in Keys(m)
      <4>1. CASE list[u] # NoRow
        BY <1>1, <2>2, <3>2, <4>1 DEF Caches, IsPrefixSet, Keys
      <4>2. CASE k
        BY <1>1, <3>2, <4>2 DEF Caches
      <4>3. CASE \E x \in Keys(list) : x > u
        <5>1. PICK x \in Keys(list) : u < x
          BY <4>3, UUIDAssumption DEF Keys
        <5>2. w < x
          BY <2>2, <3>2, <5>1, UUIDOrder DEF Keys
        <5>3. QED
          BY <1>1, <3>2, <5>2 DEF Caches, IsPrefixSet
      <4>4. QED
        BY <1>2, <4>1, <4>2, <4>3
    <3>3. QED
      BY <1>1, <3>1, <3>2
  <2>3. IsPrefixSet(Keys(new), Keys(n))
    BY <1>1, <2>2 DEF Caches, IsPrefixSet
  <2>4. k => new = n
    BY DEF Caches
  <2>5. QED
    BY <1>2, <2>1, <2>3, <2>4 DEF Caches, TrySaveToCache
<1>3. CASE ~(list[u] # NoRow \/ k \/ \E v \in Keys(list) : v > u)
  <2>1. \A v \in Keys(list) : v # u /\ ~(u < v) /\ list[v] = n[v]
    BY <1>3, UUIDAssumption DEF Caches, Keys, RowMap
  <2>2. IsPrefixSet(Keys(list), Keys(n))
    BY <1>1, <2>1 DEF Caches, IsPrefixSet
  <2>3. QED
    BY <1>3, <2>1, <2>2 DEF Caches, TrySaveToCache
<1>4. QED
  BY <1>2, <1>3

(* Dropping the greatest row leaves a prefix, no longer known to be whole. *)
LEMMA EvictCaches ==
  ASSUME NEW list \in RowMap, NEW k \in BOOLEAN, NEW m \in RowMap, Caches(list, k, m)
  PROVE  Caches(TryToEvict(list), k /\ ~TooLong(list), m)
<1>1. CASE ~TooLong(list)
  BY <1>1 DEF Caches, TryToEvict
<1>2. CASE TooLong(list)
  <2> DEFINE S == {u \in Keys(list) : \E v \in Keys(list) : v > u}
  <2>1. Keys(Only(list, S)) = S /\ \A u \in S : Only(list, S)[u] = list[u]
    BY KeysOfOnly DEF Keys
  <2>2. ASSUME NEW v \in S, NEW u \in Keys(m), u < v
        PROVE  u \in S
    BY <2>2, UUIDAssumption DEF Caches, IsPrefixSet, Keys
  <2>3. S \subseteq Keys(list)
    OBVIOUS
  <2> HIDE DEF S
  <2>4. IsPrefixSet(S, Keys(m))
    BY <2>2, <2>3 DEF Caches, IsPrefixSet
  <2>5. Caches(Only(list, S), FALSE, m)
    BY <2>1, <2>3, <2>4 DEF Caches
  <2>6. QED
    BY <1>2, <2>5 DEF TryToEvict, S
<1>3. QED
  BY <1>1, <1>2

LEMMA BatchIsPrefix ==
  ASSUME NEW list \in RowMap, NEW size
  PROVE  IsPrefixSet(BatchRows(list, size), Keys(list))
<1> DEFINE UpTo(v) == {u \in Keys(list) : u <= v}
           Fits(v) == /\ ImageBytes(list, UpTo(v), size) <= MAX_BUFFER_IMAGE_SIZE
                      /\ Cardinality(UpTo(v)) <= MAX_MESSAGE_TO_UPDATE
           S == {u \in Keys(list) : \A v \in UpTo(u) : Fits(v)}
<1>1. S = BatchRows(list, size)
  BY DEF BatchRows
<1>2. ASSUME NEW v \in Keys(list), NEW u \in Keys(list), u < v
      PROVE  UpTo(u) \subseteq UpTo(v)
  <2>1. Keys(list) \subseteq Nat
    BY UUIDAssumption DEF Keys
  <2>2. \A w \in Keys(list) : w <= u => w <= v
    BY <1>2, <2>1
  <2>3. QED
    BY <2>2
<1> HIDE DEF Fits, UpTo
<1>3. \A v \in S : \A u \in Keys(list) : u < v => u \in S
  BY <1>2
<1>4. QED
  BY <1>1, <1>3 DEF IsPrefixSet

(* Handing over a batch and deleting the journal up to its last uuid takes *)
(* the same rows from the cache and from the journal.                      *)
LEMMA TakeCaches ==
  ASSUME NEW list \in RowMap, NEW k \in BOOLEAN, NEW m \in RowMap, Caches(list, k, m),
         NEW S, IsPrefixSet(S, Keys(list)), NEW last \in S, \A u \in S : u <= last
  PROVE  /\ Caches(Only(list, UUID \ S), k, Only(m, {u \in UUID : u > last}))
         /\ Only(m, {u \in UUID : u > last}) = Only(m, UUID \ S)
<1> DEFINE G == {u \in UUID : u > last}
<1>1. S \subseteq Keys(list) /\ S \subseteq UUID /\ Keys(list) \subseteq Keys(m)
  BY DEF Caches, IsPrefixSet, Keys
<1>2. \A u \in S : u \notin G
  BY <1>1, UUIDAssumption
<1>3. ASSUME NEW u \in Keys(m)
      PROVE  u \in G \/ u \in S
  <2>1. SUFFICES ASSUME ~(u > last)
                 PROVE  u \in S
    BY DEF Keys
  <2>2. u < last \/ u = last
    BY <1>1, <2>1, UUIDAssumption DEF Keys
  <2>3. u < last => u \in Keys(list)
    BY <1>1 DEF Caches, IsPrefixSet
  <2>4. QED
    BY <2>2, <2>3 DEF IsPrefixSet
<1>4. Only(m, G) = Only(m, UUID \ S)
  <2>1. \A u \in UUID : Only(m, G)[u] = Only(m, UUID \ S)[u]
    BY <1>2, <1>3 DEF Only, Keys
  <2>2. QED
    BY <2>1, MapTypes, SameMap
<1> DEFINE left == Only(list, UUID \ S)
           kept == Only(m, UUID \ S)
<1>5. /\ Keys(left) = Keys(list) \ S /\ Keys(kept) = Keys(m) \ S
      /\ \A u \in Keys(left) : left[u] = kept[u]
  BY DEF Keys, Only, Caches, RowMap
<1>6. IsPrefixSet(Keys(left), Keys(kept))
  BY <1>5 DEF Caches, IsPrefixSet
<1>7. k => left = kept
  BY DEF Caches
<1>8. Caches(left, k, kept)
  BY <1>5, <1>6, <1>7 DEF Caches
<1>9. QED
  BY <1>4, <1>8

-----------------------------------------------------------------------------
(* The cache invariant *)

(* CacheIsPrefix alone is not inductive: trySaveToCache inserts any uuid   *)
(* while isConsistent is set, so what that flag means is part of it, and   *)
(* the types are, for the rows to be comparable.                           *)
CacheInv == TypeOK /\ Caches(pendingList, isConsistent, Content(db))

(* The row update adds to is the journal's, wherever it was found.         *)
LEMMA OldRowSound ==
  ASSUME Reliable, CacheInv, NEW u \in UUID, NEW old \in OldRow(u)
  PROVE  /\ old.row = Content(db)[u]
         /\ Content(old.db) = Content(db)
         /\ old.db.table \in {db.table, Content(db)}
<1>1. CASE pendingList[u] # NoRow \/ isConsistent
  BY <1>1 DEF OldRow, CacheInv, Caches, Keys
<1>2. CASE ~(pendingList[u] # NoRow \/ isConsistent)
  BY <1>2, ReliableGetData, ReliableFlush DEF OldRow, CacheInv, TypeOK
<1>3. QED
  BY <1>1, <1>2

(* What one update does to the journal and to the cache.                   *)
LEMMA UpdateSound ==
  ASSUME Reliable, CacheInv, NEW u \in UUID, NEW cmd \in Commands, Update(u, cmd)
  PROVE  /\ Content(db') = [Content(db) EXCEPT ![u] =
               Summed(IF Content(db)[u] = NoRow THEN Blank ELSE Content(db)[u], cmd)]
         /\ db'.table \in {db.table, Content(db), Content(db')}
         /\ Caches(pendingList', isConsistent', Content(db'))
<1> DEFINE row == Content(db)[u]
           req == Summed(IF row = NoRow THEN Blank ELSE row, cmd)
           saved == TrySaveToCache(pendingList, isConsistent, u, req)
<1>1. PICK old \in OldRow(u) :
        LET r == Summed(IF old.row = NoRow THEN Blank ELSE old.row, cmd)
            s == TrySaveToCache(pendingList, isConsistent, u, r)
        IN  /\ db' \in PushDataToDb(old.db, u, r)
            /\ pendingList' = TryToEvict(s)
            /\ isConsistent' = (isConsistent /\ ~TooLong(s))
  BY DEF Update
<1>2. /\ old.row = row
      /\ Content(old.db) = Content(db)
      /\ old.db.table \in {db.table, Content(db)}
  BY OldRowSound
<1>3. old.db \in Connection /\ req \in ReqData
  BY <1>2, OldRowType, NewRowType DEF CacheInv
<1>4. db' \in PushDataToDb(old.db, u, req)
  BY <1>1, <1>2
<1>5. pendingList' = TryToEvict(saved) /\ isConsistent' = (isConsistent /\ ~TooLong(saved))
  BY <1>1, <1>2
<1> HIDE DEF req
<1>6. /\ Content(db') = [Content(db) EXCEPT ![u] = req]
      /\ db'.table \in {old.db.table, Content(db')}
  BY <1>2, <1>3, <1>4, ReliablePush
<1>7. Content(db) \in RowMap /\ Content(db') \in RowMap
  BY <1>3, <1>4, ContentType, PushType DEF CacheInv, TypeOK
<1>8. Caches(saved, isConsistent, Content(db')) /\ saved \in RowMap
  <2>1. /\ pendingList \in RowMap /\ isConsistent \in BOOLEAN
        /\ Caches(pendingList, isConsistent, Content(db))
    BY DEF CacheInv, TypeOK
  <2>2. Caches(saved, isConsistent, [Content(db) EXCEPT ![u] = req])
    BY <1>3, <1>7, <2>1, SaveCaches
  <2>3. saved \in RowMap
    BY <1>3, <2>1, CacheTypes
  <2>4. QED
    BY <1>6, <2>2, <2>3
<1> HIDE DEF saved
<1>9. Caches(pendingList', isConsistent', Content(db'))
  BY <1>5, <1>7, <1>8, EvictCaches DEF CacheInv, TypeOK
<1>10. QED
  BY <1>2, <1>6, <1>9 DEF req

(* What one recruit does to the journal and to the cache.                  *)
LEMMA RecruitSound ==
  ASSUME Reliable, CacheInv, NEW size, Recruit(size)
  PROVE  \E S \in SUBSET Keys(Content(db)) :
           /\ IsPrefixSet(S, Keys(Content(db)))
           /\ batch' = Only(Content(db), S)
           /\ Content(db') = Only(Content(db), UUID \ S)
           /\ db'.table \in IF S = {} THEN {db.table, Content(db)} ELSE {Content(db')}
           /\ Caches(pendingList', isConsistent', Content(db'))
<1>1. PICK c \in TryReMakePendingList(pendingList, isConsistent, db) :
        LET S == BatchRows(c.list, size)
        IN  /\ batch' = Only(c.list, S)
            /\ pendingList' = Only(c.list, UUID \ S)
            /\ isConsistent' = c.consistent
            /\ IF S = {}
               THEN db' = c.db
               ELSE \E last \in S : (\A u \in S : u <= last) /\ db' \in NotifyToClearDb(c.db, last)
  BY DEF Recruit
<1> DEFINE S == BatchRows(c.list, size)
           m == Content(db)
<1>2. c.list \in RowMap /\ c.consistent \in BOOLEAN /\ c.db \in Connection /\ m \in RowMap
  BY RemakeType, ContentType DEF CacheInv, TypeOK
<1>3. Content(c.db) = m /\ c.db.table \in {db.table, m} /\ Caches(c.list, c.consistent, m)
  BY RemakeCaches DEF CacheInv, TypeOK
<1>4. IsPrefixSet(S, Keys(c.list))
  BY <1>2, BatchIsPrefix
<1>5. /\ batch' = Only(c.list, S)
      /\ pendingList' = Only(c.list, UUID \ S)
      /\ isConsistent' = c.consistent
  BY <1>1
<1>6. S # {} => \E last \in S : (\A u \in S : u <= last) /\ db' \in NotifyToClearDb(c.db, last)
  BY <1>1
<1>7. S = {} => db' = c.db
  BY <1>1
<1> HIDE DEF S, m
<1>8. S \subseteq Keys(m) /\ IsPrefixSet(S, Keys(m)) /\ S \subseteq UUID
  <2>1. S \subseteq Keys(c.list) /\ Keys(c.list) \subseteq Keys(m) /\ Keys(c.list) \subseteq UUID
    BY <1>3, <1>4 DEF Caches, IsPrefixSet, Keys
  <2>2. ASSUME NEW v \in S, NEW u \in Keys(m), u < v
        PROVE  u \in S
    BY <1>3, <1>4, <2>1, <2>2 DEF Caches, IsPrefixSet
  <2>3. QED
    BY <2>1, <2>2 DEF IsPrefixSet
<1>9. batch' = Only(m, S)
  <2>1. \A u \in S : c.list[u] = m[u]
    BY <1>3, <1>4 DEF Caches, IsPrefixSet
  <2>2. QED
    BY <1>5, <2>1 DEF Only
<1>10. CASE S = {}
  <2>1. Only(m, UUID \ S) = m /\ Only(c.list, UUID \ S) = c.list
    BY <1>2, <1>10, SameMap, KeysOfOnly, MapTypes
  <2>2. Content(db') = m /\ db'.table \in {db.table, m}
    BY <1>3, <1>7, <1>10
  <2>3. Caches(pendingList', isConsistent', m)
    BY <1>3, <1>5, <2>1
  <2>4. QED
    BY <1>8, <1>9, <1>10, <2>1, <2>2, <2>3 DEF m
<1>11. CASE S # {}
  <2>1. PICK last \in S : (\A u \in S : u <= last) /\ db' \in NotifyToClearDb(c.db, last)
    BY <1>6, <1>11
  <2>2. /\ Content(db') = Only(m, {u \in UUID : u > last})
        /\ db'.table = Content(db')
    BY <1>2, <1>3, <2>1, ReliableClear
  <2>3. /\ Caches(Only(c.list, UUID \ S), c.consistent, Content(db'))
        /\ Content(db') = Only(m, UUID \ S)
    BY <1>2, <1>3, <1>4, <2>1, <2>2, TakeCaches
  <2>4. QED
    BY <1>5, <1>8, <1>9, <1>11, <2>2, <2>3 DEF m
<1>12. QED
  BY <1>10, <1>11

(* A restart forgets the pool, and caches the table that is left.          *)
LEMMA StartSound ==
  ASSUME Reliable, NEW d \in Connection, d.pool = EmptyMap,
         NEW c \in TryReMakePendingList(EmptyMap, FALSE, d)
  PROVE  /\ Content(c.db) = d.table
         /\ c.db.table = d.table
         /\ Caches(c.list, c.consistent, d.table)
<1>1. d.table \in RowMap /\ Content(d) = d.table
  BY OverlayEmpty DEF Connection, Content
<1>2. EmptyMap \in RowMap /\ Keys(EmptyMap) = {}
  BY EmptyMapType, EmptyHasNoKeys
<1>3. FALSE \in BOOLEAN
  OBVIOUS
<1>4. /\ Content(c.db) = Content(d)
      /\ c.db.table \in {d.table, Content(d)}
      /\ Caches(c.list, c.consistent, Content(d))
  BY <1>2, <1>3, RemakeCaches, Zenon
<1>5. QED
  BY <1>1, <1>4

LEMMA InitCaches == Reliable /\ Init => CacheInv
<1> SUFFICES ASSUME Reliable, Init PROVE CacheInv
  OBVIOUS
<1>1. PICK t \in [UUID -> StoredRows \cup {NoRow}] :
        \E c \in TryReMakePendingList(EmptyMap, FALSE,
                   [pool |-> EmptyMap, table |-> t, cleaner |-> FALSE]) :
          pendingList = c.list /\ isConsistent = c.consistent /\ db = c.db
  BY DEF Init
<1> DEFINE d == [pool |-> EmptyMap, table |-> t, cleaner |-> FALSE]
<1>2. d \in Connection /\ d.pool = EmptyMap
  BY FirstConnection
<1>3. PICK c \in TryReMakePendingList(EmptyMap, FALSE, d) :
        pendingList = c.list /\ isConsistent = c.consistent /\ db = c.db
  BY <1>1
<1> HIDE DEF d
<1>4. Caches(pendingList, isConsistent, Content(db))
  BY <1>2, <1>3, StartSound
<1>5. QED
  BY <1>4, InitType DEF CacheInv

LEMMA RestartSound ==
  ASSUME Reliable, TypeOK, Restart
  PROVE  /\ Content(db') = db.table
         /\ db'.table = db.table
         /\ Caches(pendingList', isConsistent', db.table)
<1> DEFINE d == [db EXCEPT !.pool = EmptyMap, !.cleaner = FALSE]
<1>1. d \in Connection /\ d.pool = EmptyMap /\ d.table = db.table
  BY EmptyMapType DEF TypeOK, Connection
<1>2. PICK c \in TryReMakePendingList(EmptyMap, FALSE, d) :
        pendingList' = c.list /\ isConsistent' = c.consistent /\ db' = c.db
  BY DEF Restart, Start
<1> HIDE DEF d
<1>3. QED
  BY <1>1, <1>2, StartSound

LEMMA NextCaches == Reliable /\ CacheInv /\ [Next]_vars => CacheInv'
<1> SUFFICES ASSUME Reliable, CacheInv, [Next]_vars PROVE CacheInv'
  OBVIOUS
<1>1. TypeOK'
  BY NextType DEF CacheInv
<1>2. CASE UpdateAny
  BY <1>1, <1>2, UpdateSound DEF UpdateAny, CacheInv
<1>3. CASE RecruitAny
  BY <1>1, <1>3, RecruitSound DEF RecruitAny, CacheInv
<1>4. CASE Cron
  BY <1>1, <1>4, ReliableCron DEF Cron, CacheInv, TypeOK
<1>5. CASE Restart
  BY <1>1, <1>5, RestartSound DEF CacheInv
<1>6. CASE UNCHANGED vars
  BY <1>1, <1>6 DEF vars, CacheInv
<1>7. QED
  BY <1>2, <1>3, <1>4, <1>5, <1>6 DEF Next

(* While no statement fails, update and recruit may take the pending list  *)
(* for the start of the journal: no cached row differs from the stored one *)
(* and none is missing below the greatest.                                 *)
THEOREM CacheIsPrefixCorrect ==
  ASSUME Reliable
  PROVE  Spec => []CacheIsPrefix
<1>1. Init => CacheInv
  BY InitCaches
<1>2. CacheInv /\ [Next]_vars => CacheInv'
  BY NextCaches
<1>3. CacheInv => CacheIsPrefix
  BY DEF CacheInv, Caches, CacheIsPrefix
<1>4. QED
  BY <1>1, <1>2, <1>3, PTL DEF Spec

(* While no statement fails, isConsistent is only set when the pending     *)
(* list is the whole journal.                                              *)
THEOREM ConsistentMeansWholeCorrect ==
  ASSUME Reliable
  PROVE  Spec => []ConsistentMeansWhole
<1>1. Init => CacheInv
  BY InitCaches
<1>2. CacheInv /\ [Next]_vars => CacheInv'
  BY NextCaches
<1>3. CacheInv => ConsistentMeansWhole
  BY DEF CacheInv, Caches, ConsistentMeansWhole
<1>4. QED
  BY <1>1, <1>2, <1>3, PTL DEF Spec

(* While no statement fails, the cron thread changes no row: what a reader *)
(* of the journal sees is the same before and after it.                    *)
THEOREM CronKeepsRowsCorrect ==
  ASSUME Reliable
  PROVE  Spec => CronKeepsRows
<1>1. TypeOK /\ [Next]_vars => [Cron => Content(db') = Content(db)]_vars
  BY ReliableCron DEF Cron, TypeOK
<1>2. QED
  BY <1>1, TypeCorrect, PTL DEF Spec, CronKeepsRows

-----------------------------------------------------------------------------
(* The cron thread *)

Armed(d) == Keys(d.pool) # {} => d.cleaner

LEMMA EmptyPoolArmed ==
  ASSUME NEW d, d.pool = EmptyMap
  PROVE  Armed(d)
BY EmptyMapType, EmptyHasNoKeys DEF Armed

LEMMA FlushArmed ==
  ASSUME Reliable, NEW d \in Connection, NEW f \in Flush(d)
  PROVE  Armed(f)
BY ReliableFlush, EmptyPoolArmed

LEMMA PushArmed ==
  ASSUME Reliable, NEW d \in Connection, NEW u \in UUID, NEW r \in ReqData, NEW e \in PushDataToDb(d, u, r)
  PROVE  Armed(e)
<1> DEFINE pooled == [d EXCEPT !.pool[u] = r]
<1>1. pooled \in Connection
  BY MapTypes DEF Connection
<1>2. [pooled EXCEPT !.cleaner = TRUE].cleaner = TRUE
  BY <1>1 DEF Connection
<1>3. QED
  BY <1>1, <1>2, FlushArmed DEF PushDataToDb, Armed

LEMMA RemakeArmed ==
  ASSUME Reliable, NEW list \in RowMap, NEW k \in BOOLEAN, NEW d \in Connection, Armed(d),
         NEW c \in TryReMakePendingList(list, k, d)
  PROVE  Armed(c.db)
<1>1. CASE Keys(list) # {}
  BY <1>1 DEF TryReMakePendingList
<1>2. CASE Keys(list) = {}
  <2>1. PICK b \in GetBatchData(d) : c.db = b.db
    BY <1>2 DEF TryReMakePendingList
  <2>2. b.db \in Flush(d)
    BY DEF GetBatchData
  <2>3. QED
    BY <2>1, <2>2, FlushArmed
<1>3. QED
  BY <1>1, <1>2

LEMMA ClearArmed ==
  ASSUME Reliable, NEW d \in Connection, NEW last, NEW e \in NotifyToClearDb(d, last)
  PROVE  Armed(e)
<1>1. PICK f \in Flush(d), ok \in SqlOk :
        e = [f EXCEPT !.table = IF ok THEN Only(@, {u \in UUID : u > last}) ELSE @]
  BY DEF NotifyToClearDb
<1>2. f \in Connection /\ f.pool = EmptyMap
  BY FlushType, ReliableFlush
<1>3. e.pool = EmptyMap
  BY <1>1, <1>2 DEF Connection
<1>4. QED
  BY <1>3, EmptyPoolArmed

(* While no statement fails, a pooled row always has a cron thread on its  *)
(* way to flush it: no order of pushes, reads, flushes and wake-ups leaves *)
(* rows behind with no thread to write them.                               *)
THEOREM CleanerArmedCorrect ==
  ASSUME Reliable
  PROVE  Spec => []CleanerArmed
<1>1. Init => CleanerArmed
  <2> SUFFICES ASSUME Init PROVE Armed(db)
    BY DEF CleanerArmed, Armed
  <2>1. PICK t \in [UUID -> StoredRows \cup {NoRow}] :
          \E c \in TryReMakePendingList(EmptyMap, FALSE,
                     [pool |-> EmptyMap, table |-> t, cleaner |-> FALSE]) : db = c.db
    BY DEF Init
  <2> DEFINE d == [pool |-> EmptyMap, table |-> t, cleaner |-> FALSE]
  <2>2. d \in Connection /\ Armed(d)
    BY FirstConnection, EmptyPoolArmed
  <2>3. PICK c \in TryReMakePendingList(EmptyMap, FALSE, d) : db = c.db
    BY <2>1
  <2>4. EmptyMap \in RowMap /\ FALSE \in BOOLEAN
    BY EmptyMapType
  <2> HIDE DEF d
  <2>5. QED
    BY <2>2, <2>3, <2>4, RemakeArmed
<1>2. TypeOK /\ CleanerArmed /\ [Next]_vars => CleanerArmed'
  <2> SUFFICES ASSUME TypeOK, Armed(db), [Next]_vars PROVE Armed(db')
    BY DEF CleanerArmed, Armed
  <2>1. ASSUME NEW u \in UUID, NEW cmd \in Commands, Update(u, cmd)
        PROVE  Armed(db')
    <3>1. PICK old \in OldRow(u) :
            db' \in PushDataToDb(old.db, u, Summed(IF old.row = NoRow THEN Blank ELSE old.row, cmd))
      BY <2>1 DEF Update
    <3>2. QED
      BY <3>1, OldRowType, NewRowType, PushArmed
  <2>2. ASSUME NEW size, Recruit(size)
        PROVE  Armed(db')
    <3>1. PICK c \in TryReMakePendingList(pendingList, isConsistent, db) :
            db' = c.db \/ \E last : db' \in NotifyToClearDb(c.db, last)
      BY <2>2 DEF Recruit
    <3>2. c.db \in Connection /\ Armed(c.db)
      BY RemakeType, RemakeArmed DEF TypeOK
    <3>3. QED
      BY <3>1, <3>2, ClearArmed
  <2>3. ASSUME Cron
        PROVE  Armed(db')
    <3>1. PICK f \in Flush(db) : db' = [f EXCEPT !.cleaner = FALSE]
      BY <2>3 DEF Cron, CronJob
    <3>2. f \in Connection /\ f.pool = EmptyMap
      BY FlushType, ReliableFlush DEF TypeOK
    <3>3. QED
      BY <3>1, <3>2, EmptyPoolArmed DEF Connection
  <2>4. ASSUME Restart
        PROVE  Armed(db')
    <3> DEFINE d == [db EXCEPT !.pool = EmptyMap, !.cleaner = FALSE]
    <3>1. d \in Connection /\ d.pool = EmptyMap
      BY EmptyMapType DEF TypeOK, Connection
    <3>2. PICK c \in TryReMakePendingList(EmptyMap, FALSE, d) : db' = c.db
      BY <2>4 DEF Restart, Start
    <3>3. EmptyMap \in RowMap /\ FALSE \in BOOLEAN
      BY EmptyMapType
    <3> HIDE DEF d
    <3>4. QED
      BY <3>1, <3>2, <3>3, EmptyPoolArmed, RemakeArmed
  <2>5. UNCHANGED vars => Armed(db')
    BY DEF vars
  <2>6. QED
    BY <2>1, <2>2, <2>3, <2>4, <2>5 DEF Next, UpdateAny, RecruitAny
<1>3. QED
  BY <1>1, <1>2, TypeCorrect, PTL DEF Spec

-----------------------------------------------------------------------------
(* An empty batch *)

(* No image file is larger than what the images of a batch may take: the   *)
(* code asks so of nobody, and JournalLargeImage shows what becomes of it. *)
ImagesFit == \A n \in ImageSizes : n <= MAX_BUFFER_IMAGE_SIZE

(* The images of at most one row take as much as that row's image.         *)
LEMMA ImageBytesOfOne ==
  ASSUME NEW list, NEW u \in UUID, NEW size \in [UUID -> ImageSizes]
  PROVE  ImageBytes(list, {u}, size) \in {0, size[u]}
<1> DEFINE T == {v \in {u} : list[v].needImage}
           some(s)  == CHOOSE x \in s : TRUE
           Parts(g) == g = [s \in SUBSET T |-> IF s = {} THEN 0 ELSE size[some(s)] + g[s \ {some(s)}]]
           h == CHOOSE g : Parts(g)
           one == [s \in SUBSET T |-> IF s = {} THEN 0 ELSE size[u]]
<1>1. ImageBytes(list, {u}, size) = h[T]
  BY DEF ImageBytes, MapThenSumSet, MapThenFoldSet
<1>2. size[u] \in Nat
  BY BatchAssumption
<1>3. T \in {{}, {u}}
  OBVIOUS
<1> HIDE DEF T
<1>4. \A s \in SUBSET T : s # {} => some(s) = u /\ s \ {some(s)} = {} /\ s = T /\ T = {u}
  <2> SUFFICES ASSUME NEW s \in SUBSET T, s # {}
               PROVE  some(s) = u /\ s \ {some(s)} = {} /\ s = T /\ T = {u}
    OBVIOUS
  <2>1. s = {u} /\ T = {u}
    BY <1>3
  <2>2. some(s) \in s
    OBVIOUS
  <2> HIDE DEF some
  <2>3. QED
    BY <2>1, <2>2
<1> HIDE DEF some
<1>5. {} \in SUBSET T
  OBVIOUS
<1>6. Parts(one)
  <2>1. \A s \in SUBSET T : s # {} => size[some(s)] + one[s \ {some(s)}] = size[u]
    BY <1>2, <1>4, <1>5
  <2> DEFINE two == [s \in SUBSET T |-> IF s = {} THEN 0 ELSE size[some(s)] + one[s \ {some(s)}]]
  <2>2. \A s \in SUBSET T : one[s] = two[s]
    BY <2>1
  <2>3. one = two
    BY <2>2
  <2>4. QED
    BY <2>3
<1> HIDE DEF one
<1>7. Parts(h)
  BY <1>6
<1> HIDE DEF h
<1>8. h[{}] = 0 /\ (T = {u} => h[T] = size[some(T)] + h[T \ {some(T)}])
  BY <1>5, <1>7
<1>9. h[T] \in {0, size[u]}
  <2>1. CASE T = {}
    BY <1>8, <2>1
  <2>2. CASE T = {u}
    <3>1. some(T) = u /\ T \ {some(T)} = {}
      BY <1>4, <2>2
    <3>2. h[T] = size[u] + 0
      BY <1>8, <2>2, <3>1
    <3>3. QED
      BY <1>2, <3>2
  <2>3. QED
    BY <1>3, <2>1, <2>2
<1>10. QED
  BY <1>1, <1>9

(* A set of natural numbers that is not empty has a least one.             *)
LEMMA Least ==
  ASSUME NEW T \in SUBSET Nat, T # {}
  PROVE  \E x \in T : \A y \in T : x <= y
<1>1. PICK x \in T : \A y \in T : <<y, x>> \notin OpToRel(<, Nat)
  BY NatLessThanWellFounded, WFMin
<1>2. \A y \in T : ~(y < x)
  BY <1>1 DEF OpToRel
<1>3. QED
  BY <1>2

(* The first row of a list always fits a batch.                            *)
LEMMA FirstRowFits ==
  ASSUME ImagesFit, NEW list \in RowMap, Keys(list) # {}, NEW size \in [UUID -> ImageSizes]
  PROVE  BatchRows(list, size) # {}
<1>1. PICK u \in Keys(list) : \A v \in Keys(list) : u <= v
  <2>1. Keys(list) \in SUBSET Nat
    BY UUIDAssumption DEF Keys
  <2>2. QED
    BY <2>1, Least
<1>2. {v \in Keys(list) : v <= u} = {u} /\ u \in UUID
  <2>1. Keys(list) \subseteq Nat /\ u \in UUID
    BY UUIDAssumption DEF Keys
  <2>2. \A v \in Keys(list) : v <= u <=> v = u
    BY <1>1, <2>1
  <2>3. QED
    BY <2>1, <2>2
<1>3. ImageBytes(list, {u}, size) <= MAX_BUFFER_IMAGE_SIZE
  <2>1. ImageBytes(list, {u}, size) \in {0, size[u]}
    BY <1>2, ImageBytesOfOne
  <2>2. size[u] \in ImageSizes
    BY <1>2
  <2>3. 0 <= MAX_BUFFER_IMAGE_SIZE
    BY BatchAssumption
  <2>4. size[u] <= MAX_BUFFER_IMAGE_SIZE
    BY <2>2, Zenon DEF ImagesFit
  <2>5. QED
    BY <2>1, <2>3, <2>4
<1>4. Cardinality({u}) <= MAX_MESSAGE_TO_UPDATE
  BY FS_Singleton, BatchAssumption
<1>5. u \in BatchRows(list, size)
  BY <1>2, <1>3, <1>4 DEF BatchRows
<1>6. QED
  BY <1>5

(* A recruit that comes back with nothing has found nothing.               *)
LEMMA EmptyBatch ==
  ASSUME Reliable, ImagesFit, CacheInv, RecruitAny, batch' = EmptyMap
  PROVE  Content(db') = EmptyMap
<1>1. PICK size \in [UUID -> ImageSizes] : Recruit(size)
  BY DEF RecruitAny
<1>2. PICK c \in TryReMakePendingList(pendingList, isConsistent, db) :
        /\ batch' = Only(c.list, BatchRows(c.list, size))
        /\ BatchRows(c.list, size) = {} => db' = c.db
  BY <1>1 DEF Recruit
<1>3. pendingList \in RowMap /\ isConsistent \in BOOLEAN /\ db \in Connection
      /\ Caches(pendingList, isConsistent, Content(db))
  BY DEF CacheInv, TypeOK
<1>4. Content(c.db) = Content(db) /\ Caches(c.list, c.consistent, Content(db))
  BY <1>3, RemakeCaches
<1>5. c.list \in RowMap
  BY <1>3, RemakeType
<1>6. BatchRows(c.list, size) = {}
  <2> DEFINE S == BatchRows(c.list, size)
  <2>1. S \subseteq Keys(c.list)
    BY DEF BatchRows
  <2>2. Only(c.list, S) = EmptyMap
    BY <1>2
  <2> HIDE DEF S
  <2>3. \A u \in S : c.list[u] = NoRow
    BY <2>1, <2>2 DEF Only, EmptyMap, Keys
  <2>4. S = {}
    BY <2>1, <2>3 DEF Keys
  <2>5. QED
    BY <2>4 DEF S
<1>7. Keys(c.list) = {}
  BY <1>5, <1>6, FirstRowFits
<1>8. c.consistent = TRUE
  <2>1. CASE Keys(pendingList) # {}
    BY <1>2, <1>7, <2>1 DEF TryReMakePendingList
  <2>2. CASE Keys(pendingList) = {}
    <3>1. PICK b \in GetBatchData(db) :
            c = [list |-> b.rows, consistent |-> Cardinality(Keys(b.rows)) < RETRIEVE_LIMIT, db |-> b.db]
      BY <1>2, <2>2 DEF TryReMakePendingList
    <3>2. Cardinality(Keys(b.rows)) = 0
      BY <1>7, <3>1, FS_EmptySet
    <3>3. Cardinality(Keys(b.rows)) < RETRIEVE_LIMIT
      BY <3>2, LimitAssumption
    <3>4. c.consistent = (Cardinality(Keys(b.rows)) < RETRIEVE_LIMIT)
      BY <3>1
    <3>5. QED
      BY <3>3, <3>4
  <2>3. QED
    BY <2>1, <2>2
<1>9. Content(db) = c.list
  BY <1>4, <1>8 DEF Caches
<1>10. c.list = EmptyMap
  BY <1>5, <1>7 DEF RowMap, Keys, EmptyMap
<1>11. QED
  BY <1>2, <1>4, <1>6, <1>9, <1>10

(* While no statement fails and no image is too large, a client that stops *)
(* at the first empty answer recruit gave has been handed the journal.     *)
THEOREM EmptyMeansDoneCorrect ==
  ASSUME Reliable, ImagesFit
  PROVE  Spec => EmptyMeansDone
<1>1. CacheInv /\ [Next]_vars => CacheInv'
  BY NextCaches
<1>2. CacheInv /\ [Next]_vars => [batch' = EmptyMap /\ Content(db') # EmptyMap => ~RecruitAny]_vars
  BY EmptyBatch
<1>3. Init => CacheInv
  BY InitCaches
<1>4. QED
  BY <1>1, <1>2, <1>3, PTL DEF Spec, EmptyMeansDone
=============================================================================
