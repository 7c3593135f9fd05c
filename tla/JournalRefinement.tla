-------------------------- MODULE JournalRefinement --------------------------
(***************************************************************************)
(* Journal implements JournalPromise: cache, pool and table, whatever they *)
(* hold each, behave as one map of summed updates.                         *)
(***************************************************************************)
EXTENDS JournalProofs

(* The abstract module's copy of the row vocabulary is the same one.       *)
LEMMA SameVocabulary ==
  /\ Promise!EmptyMap = EmptyMap /\ Promise!Blank = Blank /\ Promise!RowMap = RowMap
  /\ \A m : Promise!Keys(m) = Keys(m)
  /\ \A m, S : Promise!Only(m, S) = Only(m, S)
  /\ \A S, K : Promise!IsPrefixSet(S, K) = IsPrefixSet(S, K)
  /\ \A old, c : Promise!Summed(old, c) = Summed(old, c)
<1>1. Promise!EmptyMap = EmptyMap /\ Promise!Blank = Blank /\ Promise!RowMap = RowMap
  BY DEF EmptyMap, Promise!EmptyMap, Blank, Promise!Blank, RowMap, Promise!RowMap,
         ReqData, Promise!ReqData, ReqRecord, Promise!ReqRecord
<1>2. \A m : Promise!Keys(m) = Keys(m)
  BY DEF Keys, Promise!Keys
<1>3. \A m, S : Promise!Only(m, S) = Only(m, S)
  BY DEF Only, Promise!Only
<1>4. \A S, K : Promise!IsPrefixSet(S, K) = IsPrefixSet(S, K)
  BY DEF IsPrefixSet, Promise!IsPrefixSet
<1>5. \A old, c : Promise!Summed(old, c) = Summed(old, c)
  BY <1>1 DEF Summed, Promise!Summed
<1>6. QED
  BY <1>1, <1>2, <1>3, <1>4, <1>5

LEMMA InitRefines ==
  ASSUME Reliable, Init
  PROVE  Promise!Init
<1>1. PICK t \in [UUID -> StoredRows \cup {NoRow}] :
        \E c \in TryReMakePendingList(EmptyMap, FALSE,
                   [pool |-> EmptyMap, table |-> t, cleaner |-> FALSE]) : db = c.db
  BY DEF Init
<1> DEFINE d == [pool |-> EmptyMap, table |-> t, cleaner |-> FALSE]
<1>2. d \in Connection /\ d.pool = EmptyMap /\ d.table = t
  BY FirstConnection
<1>3. PICK c \in TryReMakePendingList(EmptyMap, FALSE, d) : db = c.db
  BY <1>1
<1> HIDE DEF d
<1>4. Content(db) = t /\ db.table = t
  BY <1>2, <1>3, StartSound
<1>5. Content(db) \in RowMap
  BY InitType, ContentType DEF TypeOK
<1>6. QED
  BY <1>4, <1>5, SameVocabulary DEF Init, Promise!Init

LEMMA UpdateRefines ==
  ASSUME Reliable, CacheInv, NEW u \in UUID, NEW cmd \in Commands, Update(u, cmd)
  PROVE  Promise!Absorb(u, cmd)
<1>1. /\ Content(db') = [Content(db) EXCEPT ![u] =
            Summed(IF Content(db)[u] = NoRow THEN Blank ELSE Content(db)[u], cmd)]
      /\ db'.table \in {db.table, Content(db), Content(db')}
  BY UpdateSound
<1>2. batch' = EmptyMap
  BY DEF Update
<1>3. QED
  BY <1>1, <1>2, SameVocabulary DEF Promise!Absorb

LEMMA RecruitRefines ==
  ASSUME Reliable, CacheInv, NEW size, Recruit(size)
  PROVE  Promise!HandOver
<1>1. PICK S \in SUBSET Keys(Content(db)) :
        /\ IsPrefixSet(S, Keys(Content(db)))
        /\ batch' = Only(Content(db), S)
        /\ Content(db') = Only(Content(db), UUID \ S)
        /\ db'.table \in IF S = {} THEN {db.table, Content(db)} ELSE {Content(db')}
  BY RecruitSound
<1>2. QED
  BY <1>1, SameVocabulary DEF Promise!HandOver

LEMMA CronRefines ==
  ASSUME Reliable, CacheInv, Cron
  PROVE  Promise!Persist
BY ReliableCron DEF Cron, CacheInv, TypeOK, Promise!Persist

LEMMA RestartRefines ==
  ASSUME Reliable, CacheInv, Restart
  PROVE  Promise!Restart
BY RestartSound, SameVocabulary DEF CacheInv, Restart, Start, Promise!Restart

LEMMA NextRefines ==
  ASSUME Reliable, CacheInv, [Next]_vars
  PROVE  [Promise!Next]_(Promise!vars)
<1>1. CASE UpdateAny
  BY <1>1, UpdateRefines DEF UpdateAny, Promise!Next
<1>2. CASE RecruitAny
  BY <1>2, RecruitRefines DEF RecruitAny, Promise!Next
<1>3. CASE Cron
  BY <1>3, CronRefines DEF Promise!Next
<1>4. CASE Restart
  BY <1>4, RestartRefines DEF Promise!Next
<1>5. CASE UNCHANGED vars
  BY <1>5 DEF vars, Promise!vars
<1>6. QED
  BY <1>1, <1>2, <1>3, <1>4, <1>5 DEF Next

(* While no statement fails, the pending list, the transaction pool and    *)
(* the table together are one journal: an update is summed into its row at *)
(* once, a batch is the smallest rows exactly as journalled and takes them *)
(* out, and a restart falls back to a state that was durable.              *)
THEOREM JournalRefines ==
  ASSUME Reliable
  PROVE  Spec => PromiseSpec
<1>1. Init => Promise!Init
  BY InitRefines
<1>2. CacheInv /\ [Next]_vars => [Promise!Next]_(Promise!vars)
  BY NextRefines
<1>3. Init => CacheInv
  BY InitCaches
<1>4. CacheInv /\ [Next]_vars => CacheInv'
  BY NextCaches
<1>5. QED
  BY <1>1, <1>2, <1>3, <1>4, PTL DEF Spec, PromiseSpec, Promise!Spec
=============================================================================
