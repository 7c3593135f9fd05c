------------------------------- MODULE Journal -------------------------------
(***************************************************************************)
(* The journal side of CLIENT (synchronizer/client.cpp): pendingList, a    *)
(* cache of the smallest uuids of the journal table, kept by update and    *)
(* drained by recruit.  Both run under PENDING_MUTEX and the journal's     *)
(* DBMUTEX, so each is one action; the journal's cron thread takes DBMUTEX *)
(* alone and is an action between them.                                    *)
(*                                                                         *)
(* recruit's own half of the work, reading feeds and images, is left to    *)
(* the modules of those parts: here it picks the rows and clears them.     *)
(***************************************************************************)
EXTENDS JournalDb, FiniteSetsExt

CONSTANTS
  MAX_PENDING_LIST_SIZE,   \* rows the pending list may hold after an update
  MAX_MESSAGE_TO_UPDATE,   \* rows in one batch
  MAX_BUFFER_IMAGE_SIZE,   \* image bytes in one batch
  ImageSizes,              \* the sizes an image file may have
  Commands,                \* the commands the HTTP handlers issue
  StoredRows               \* rows the table may hold at the first start

ASSUME BatchAssumption ==
  /\ MAX_PENDING_LIST_SIZE \in Nat
  /\ MAX_MESSAGE_TO_UPDATE \in Nat \ {0}
  /\ MAX_BUFFER_IMAGE_SIZE \in Nat
  /\ ImageSizes \subseteq Nat
ASSUME CommandAssumption == Commands \subseteq Command /\ StoredRows \subseteq ReqData

VARIABLES
  pendingList,            \* rows ready to be handed over, smallest uuids first
  isConsistent,           \* TRUE: pendingList is the whole journal
  reqNewJournalVersion,   \* an update came since the last batch
  db,                     \* the connection to the journal table
  batch                   \* the rows recruit put into a buffer, until the next update

vars == <<pendingList, isConsistent, reqNewJournalVersion, db, batch>>

-----------------------------------------------------------------------------
(* Slip: a full answer of the SELECT counts as the whole journal too.      *)
RemakeWholeAtLimit(list, consistent, d) ==
  IF Keys(list) # {}
  THEN {[list |-> list, consistent |-> consistent, db |-> d]}
  ELSE {[list |-> b.rows, consistent |-> Cardinality(Keys(b.rows)) <= RETRIEVE_LIMIT, db |-> b.db]
          : b \in GetBatchData(d)}

(* tryReMakePendingList: a non-empty list stays as it is; an empty one is  *)
(* refilled, and is the whole journal if fewer rows than the LIMIT came.   *)
TryReMakePendingList(list, consistent, d) ==
  IF Keys(list) # {}
  THEN {[list |-> list, consistent |-> consistent, db |-> d]}
  ELSE {[list |-> b.rows, consistent |-> Cardinality(Keys(b.rows)) < RETRIEVE_LIMIT, db |-> b.db]
          : b \in GetBatchData(d)}

(* Slip: every new row enters the cache.                                   *)
SaveAnyRow(list, consistent, u, req) == [list EXCEPT ![u] = req]

(* trySaveToCache: a new row may only enter the cache where it is certain  *)
(* that no smaller uuid is missing from it.                                *)
TrySaveToCache(list, consistent, u, req) ==
  IF list[u] # NoRow \/ consistent \/ \E v \in Keys(list) : v > u
  THEN [list EXCEPT ![u] = req]
  ELSE list

(* tryToEvict drops the greatest uuid of a list that is too long.          *)
TooLong(list)   == Cardinality(Keys(list)) > MAX_PENDING_LIST_SIZE
TryToEvict(list) ==
  IF TooLong(list) THEN Only(list, {u \in Keys(list) : \E v \in Keys(list) : v > u}) ELSE list

(* The row an update adds to: the cached one, or the stored one if the     *)
(* cache may miss it.                                                      *)
OldRow(u) ==
  IF pendingList[u] # NoRow \/ isConsistent
  THEN {[db |-> db, row |-> pendingList[u]]}
  ELSE GetData(db, u)

(* The rows the first loop of recruit counts before it breaks: size gives  *)
(* the length of each image file.                                          *)
ImageBytes(list, S, size) ==
  MapThenSumSet(LAMBDA u : size[u], {u \in S : list[u].needImage})

(* Slip: a batch of images of exactly the limit does not fit.              *)
BatchRowsBelowLimit(list, size) ==
  LET UpTo(v)  == {u \in Keys(list) : u <= v}
      Fits(v)  == /\ ImageBytes(list, UpTo(v), size) < MAX_BUFFER_IMAGE_SIZE
                  /\ Cardinality(UpTo(v)) <= MAX_MESSAGE_TO_UPDATE
  IN  {u \in Keys(list) : \A v \in UpTo(u) : Fits(v)}

BatchRows(list, size) ==
  LET UpTo(v)  == {u \in Keys(list) : u <= v}
      Fits(v)  == /\ ImageBytes(list, UpTo(v), size) <= MAX_BUFFER_IMAGE_SIZE
                  /\ Cardinality(UpTo(v)) <= MAX_MESSAGE_TO_UPDATE
  IN  {u \in Keys(list) : \A v \in UpTo(u) : Fits(v)}

-----------------------------------------------------------------------------
(* The constructor, on what the table holds.                               *)
Start(d) ==
  /\ reqNewJournalVersion' = TRUE
  /\ batch' = EmptyMap
  /\ \E c \in TryReMakePendingList(EmptyMap, FALSE, d) :
       pendingList' = c.list /\ isConsistent' = c.consistent /\ db' = c.db

Init ==
  /\ reqNewJournalVersion = TRUE
  /\ batch = EmptyMap
  /\ \E t \in [UUID -> StoredRows \cup {NoRow}] :
       \E c \in TryReMakePendingList(EmptyMap, FALSE,
                  [pool |-> EmptyMap, table |-> t, cleaner |-> FALSE]) :
         pendingList = c.list /\ isConsistent = c.consistent /\ db = c.db

Update(u, cmd) ==
  \E old \in OldRow(u) :
    LET req   == Summed(IF old.row = NoRow THEN Blank ELSE old.row, cmd)
        saved == TrySaveToCache(pendingList, isConsistent, u, req)
    IN  /\ db' \in PushDataToDb(old.db, u, req)
        /\ pendingList' = TryToEvict(saved)
        /\ isConsistent' = (isConsistent /\ ~TooLong(saved))
        /\ reqNewJournalVersion' = TRUE
        /\ batch' = EmptyMap

Recruit(size) ==
  \E c \in TryReMakePendingList(pendingList, isConsistent, db) :
    LET S == BatchRows(c.list, size)
    IN  /\ batch' = Only(c.list, S)
        /\ pendingList' = Only(c.list, UUID \ S)
        /\ isConsistent' = c.consistent
        /\ reqNewJournalVersion' = FALSE
        /\ IF S = {}
           THEN db' = c.db
           ELSE \E last \in S : (\A u \in S : u <= last) /\ db' \in NotifyToClearDb(c.db, last)

Cron ==
  /\ db.cleaner
  /\ db' \in CronJob(db)
  /\ UNCHANGED <<pendingList, isConsistent, reqNewJournalVersion, batch>>

(* The server dies, pooled rows with it, and is started again.             *)
Restart == Start([db EXCEPT !.pool = EmptyMap, !.cleaner = FALSE])

UpdateAny  == \E u \in UUID, cmd \in Commands : Update(u, cmd)
RecruitAny == \E size \in [UUID -> ImageSizes] : Recruit(size)

Next ==
  \/ UpdateAny
  \/ RecruitAny
  \/ Cron
  \/ Restart

Spec == Init /\ [][Next]_vars

(* The sleep of a cron thread ends.  Requests are never forced.            *)
FairSpec == Spec /\ WF_vars(Cron)

-----------------------------------------------------------------------------
(* Every variable holds a value of its C++ type, and a journal row never   *)
(* asks for a feed or an image of a deleted uuid: "need feed means we will *)
(* not encouter with deleted id" in recruit rests on it.                   *)
TypeOK ==
  /\ pendingList \in RowMap
  /\ isConsistent \in BOOLEAN
  /\ reqNewJournalVersion \in BOOLEAN
  /\ db \in Connection
  /\ batch \in RowMap

(* What update and recruit take the pending list to be: each cached row is *)
(* the journal's row, and the cache has no hole below its greatest uuid.   *)
(* Recruit deletes every stored row up to the last one it hands over, so a *)
(* hole would be an update that is never sent.                             *)
CacheIsPrefix ==
  /\ \A u \in Keys(pendingList) : pendingList[u] = Content(db)[u]
  /\ IsPrefixSet(Keys(pendingList), Keys(Content(db)))

(* isConsistent lets update insert any uuid without asking the table; it   *)
(* may only be set while the list is the whole journal.                    *)
ConsistentMeansWhole == isConsistent => pendingList = Content(db)

(* A pooled row always has a cron thread on its way to flush it: push only *)
(* starts one when none is asleep, and a flush by a reader does not stop it.*)
CleanerArmed == Keys(db.pool) # {} => db.cleaner

(* The cron thread moves rows to the table and changes none: the comment   *)
(* in ioCtrlJor.h calls it the job "to make sure that message will go to   *)
(* database".                                                              *)
CronKeepsRows == [][Cron => Content(db') = Content(db)]_vars

(* A client stops polling at the first empty answer ("fetch new data from  *)
(* server until there isn't any new data left"): a batch may only be empty *)
(* when the journal is.                                                    *)
EmptyMeansDone == [][batch' = EmptyMap /\ Content(db') # EmptyMap => ~RecruitAny]_vars

(* Every pooled row is flushed in the end, even if no request ever comes   *)
(* again: the promise of the cron thread.                                  *)
PoolIsFlushed == \A u \in UUID : db.pool[u] # NoRow ~> db.pool[u] = NoRow

(* Unless updates go on for ever, a client that goes on polling is given   *)
(* every row.                                                              *)
Drains == WF_vars(RecruitAny) => []<><<UpdateAny>>_vars \/ <>[](Content(db) = EmptyMap)

(* The cache, the pool and the table together behave as one journal.       *)
Promise == INSTANCE JournalPromise WITH
  journal <- Content(db),
  durable <- db.table

PromiseSpec == Promise!Spec
=============================================================================
