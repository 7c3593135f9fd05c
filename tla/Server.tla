------------------------------- MODULE Server -------------------------------
(***************************************************************************)
(* CONTROLLER over its parts: the data pool, the feed table with its pool  *)
(* and cron thread, and the image files.  Every handler, and the recruit   *)
(* of a GET or of runAhead, runs between lockAll and unlockAll and is one  *)
(* action (Dispatch is about these locks).                                 *)
(*                                                                         *)
(* The journal is used as JournalPromise, which JournalRefinement proves   *)
(* the journal's cache, pool and table to implement.                       *)
(***************************************************************************)
EXTENDS FeedDb, DataPool, JournalRows

CONSTANT MayRestart    \* may the server die and be started again?

(* A row of feed_tb, and a live feed with its image.                       *)
FeedRow  == [feed : Feeds \cup {NoData}, isDelete : BOOLEAN]
StoreRow == [feed : Feeds \cup {NoData}, image : Images \cup {NoData}]

ASSUME RestartAssumption == MayRestart \in BOOLEAN
ASSUME RowAssumption == NoRow \notin FeedRow \cup StoreRow

VARIABLES
  dp, feedDb,
  disk,                      \* the image files
  journal, durable, batch,   \* see JournalPromise
  answer,                    \* the code of the latest request or the batch recruited
  wedged                     \* an exception left the mutexes locked, or the process dead

journals == <<journal, durable, batch>>
vars == <<dp, feedDb, disk, journals, answer, wedged>>

Jor == INSTANCE JournalPromise WITH Commands <- Command

Code(c) == [code |-> c, batch |-> EmptyMap]
-----------------------------------------------------------------------------
(* CLIENT::update.  When the journal's rows become durable only matters to *)
(* a server that may die.                                                  *)
Update(u, needFeed, needImage, needDelete, needDeleteImage) ==
  /\ Jor!Absorb(u, [needFeed   |-> needFeed,   needImage       |-> needImage,
                    needDelete |-> needDelete, needDeleteImage |-> needDeleteImage])
  /\ MayRestart \/ durable' = journal'

PushFeed(u, feed, isDelete) ==
  feedDb' \in PushDataToDb(feedDb, u, [feed |-> feed, isDelete |-> isDelete])

Refuse(c) ==
  /\ answer' = Code(c) /\ batch' = EmptyMap
  /\ UNCHANGED <<dp, feedDb, disk, journal, durable, wedged>>

(* postHandler's integrity check, and that of the other two.               *)
MayPost(u) ==
  {IF IsIdExist(dp, u) THEN dp.storage[u].isDelete ELSE dp.consistent \/ ~known
     : known \in AreThereKey(feedDb, u)}

MayChange(u) ==
  {IsIdExistAndNotDeleted(dp, u) \/ (~dp.consistent /\ known) : known \in AreThereKey(feedDb, u)}

(* DISK_CONNECT; std::remove of a file that is not there does nothing.     *)
IsThereFile(u)                == disk[u] # NoData
GetDataFromDisk(u)            == disk[u]
SetDataToDisk(u, image)       == disk' = [disk EXCEPT ![u] = image]
DeleteDataFromDiskIfExist(u)  == disk' = [disk EXCEPT ![u] = NoData]

(* addData of a new image, and the file.                                   *)
WriteImage(d, u, image) ==
  /\ dp' = IF IsIdExist(d, u) THEN AddImage(d, u, image) ELSE d
  /\ SetDataToDisk(u, image)

(* Slip: the file goes, the cached image stays.                            *)
DropImageFile(d, u) == dp' = d /\ DeleteDataFromDiskIfExist(u)

DropImage(d, u) ==
  /\ dp' = IF IsIdExist(d, u) THEN DeleteImage(d, u) ELSE d
  /\ DeleteDataFromDiskIfExist(u)

Post(u, feed, image) ==
  /\ ~wedged
  /\ \/ FALSE \in MayPost(u) /\ Refuse(409)
     \/ /\ TRUE \in MayPost(u)
        /\ \E d \in AddFeed(dp, u, feed, IsThereFile(u)) :
             IF image = NoData THEN dp' = d /\ UNCHANGED disk ELSE WriteImage(d, u, image)
        /\ PushFeed(u, feed, FALSE)
        /\ Update(u, TRUE, image # NoData, FALSE, FALSE)
        /\ answer' = Code(201)
        /\ UNCHANGED wedged

(* A PUT that repeats the cached feed writes it to the pool alone.         *)
Put(u, feed, imageUpdate, image) ==
  /\ ~wedged
  /\ \/ FALSE \in MayChange(u) /\ Refuse(404)
     \/ /\ TRUE \in MayChange(u)
        /\ LET isSameFeed == IsIdExistAndNotDeleted(dp, u) /\ GetFeedData(dp, u) = feed
           IN  /\ IF isSameFeed THEN UNCHANGED feedDb ELSE PushFeed(u, feed, FALSE)
               /\ Update(u, ~isSameFeed, imageUpdate /\ image # NoData,
                         FALSE, imageUpdate /\ image = NoData)
        /\ \E d \in AddFeed(dp, u, feed, IsThereFile(u)) :
             IF ~imageUpdate
             THEN dp' = d /\ UNCHANGED disk
             ELSE IF image = NoData THEN DropImage(d, u) ELSE WriteImage(d, u, image)
        /\ answer' = Code(204)
        /\ UNCHANGED wedged

Delete(u) ==
  /\ ~wedged
  /\ \/ FALSE \in MayChange(u) /\ Refuse(404)
     \/ /\ TRUE \in MayChange(u)
        /\ dp' = IF IsIdExist(dp, u) THEN DeleteData(dp, u) ELSE dp
        /\ PushFeed(u, NoData, TRUE)
        /\ DeleteDataFromDiskIfExist(u)
        /\ Update(u, FALSE, FALSE, TRUE, FALSE)
        /\ answer' = Code(204)
        /\ UNCHANGED wedged

-----------------------------------------------------------------------------
(* recruit, on the rows of b.                                              *)
FromPool(b) ==
  {u \in Keys(b) : b[u].needFeed /\ IsIdExistAndNotDeleted(dp, u) /\ GetFeedData(dp, u) # NoData}
FromDb(b) == {u \in Keys(b) : b[u].needFeed} \ FromPool(b)

ImageOf(u) ==
  IF IsIdExistAndNotDeleted(dp, u) /\ GetImageData(dp, u) # NoData
  THEN GetImageData(dp, u)
  ELSE GetDataFromDisk(u)

Message(b, u, row) ==
  [isDelete      |-> b[u].shouldDeleted,
   isImageDelete |-> b[u].shouldDeleteImage,
   feed          |-> CASE ~b[u].needFeed     -> NoData
                       [] u \in FromPool(b)  -> GetFeedData(dp, u)
                       [] OTHER              -> IF row = NoRow THEN NoData ELSE row.feed,
   image         |-> IF b[u].needImage THEN ImageOf(u) ELSE NoData]

(* A getter of the data pool throws, and nothing releases the mutexes.     *)
Throws(b) ==
  \E u \in Keys(b) : /\ IsIdExistAndNotDeleted(dp, u)
                     /\ \/ b[u].needFeed /\ FeedThrows(dp, u)
                        \/ b[u].needImage /\ ImageThrows(dp, u)

PastTheEnd(b, rows) == \E u \in FromDb(b) : rows[u] = NoRow

(* Past the end of the rows from the database, recruit reads what is not a *)
(* feed anyone posted, if the process survives it.                         *)
Recruit ==
  /\ ~wedged
  /\ Jor!HandOver
  /\ MayRestart \/ durable' = journal'
  /\ ~Throws(batch')
  /\ \E got \in GetDataFromDb(feedDb, FromDb(batch')) :
       /\ feedDb' = got.db
       /\ answer' = [code |-> 0, batch |-> [u \in UUID |->
                       IF batch'[u] = NoRow THEN NoRow ELSE Message(batch', u, got.result[u])]]
  /\ dp' = NotifyToFree(dp, FromPool(batch'), Keys(batch'))
  /\ UNCHANGED <<disk, wedged>>

RecruitFails ==
  /\ ~wedged
  /\ \E S \in SUBSET Keys(journal) :
       /\ IsPrefixSet(S, Keys(journal))
       /\ LET b == Only(journal, S)
          IN  \E got \in GetDataFromDb(feedDb, FromDb(b)) :
                /\ Throws(b) \/ PastTheEnd(b, got.result)
                /\ feedDb' = got.db
  /\ wedged' = TRUE
  /\ UNCHANGED <<dp, disk, journals, answer>>

(* The cron thread of the feed connection, and that of the journal's.      *)
Cron ==
  /\ ~wedged /\ feedDb.cleaner
  /\ feedDb' \in CronJob(feedDb)
  /\ UNCHANGED <<dp, disk, journals, answer, wedged>>

JournalCron ==
  /\ ~wedged /\ durable # journal
  /\ Jor!Persist
  /\ UNCHANGED <<dp, feedDb, disk, answer, wedged>>

-----------------------------------------------------------------------------
(* The operator is asked whether the data pool is consistent, and says yes *)
(* only to an empty feed table.                                            *)
Started(table) ==
  {[storage |-> EmptyMap, amountSize |-> 0, consistent |-> c]
     : c \in {FALSE, \A u \in UUID : ~Live(table[u])}}

Connected(table) == [pool |-> EmptyMap, table |-> table, cleaner |-> FALSE]

Restart ==
  /\ MayRestart
  /\ Jor!Restart
  /\ feedDb' = Connected(feedDb.table)
  /\ dp' \in Started(feedDb.table)
  /\ answer' = Code(0)
  /\ wedged' = FALSE
  /\ UNCHANGED disk

(* A server that finds feeds of earlier days, all of which were sent.      *)
Init ==
  /\ \E table \in [UUID -> [feed : Feeds, isDelete : {FALSE}] \cup {NoRow}] :
       /\ feedDb = Connected(table)
       /\ dp \in Started(table)
       /\ disk \in {d \in [UUID -> Images \cup {NoData}] :
                      \A u \in UUID : d[u] # NoData => table[u] # NoRow}
  /\ journal = EmptyMap /\ durable = EmptyMap /\ batch = EmptyMap
  /\ answer = Code(0)
  /\ wedged = FALSE

Next ==
  \/ \E u \in UUID, feed \in Feeds, image \in Images \cup {NoData} :
       Post(u, feed, image) \/ \E imageUpdate \in BOOLEAN : Put(u, feed, imageUpdate, image)
  \/ \E u \in UUID : Delete(u)
  \/ Recruit
  \/ RecruitFails
  \/ Cron
  \/ JournalCron
  \/ Restart

Spec == Init /\ [][Next]_vars

-----------------------------------------------------------------------------
(* The pool and the connection keep their types.                           *)
TypeOK ==
  /\ dp \in Pool
  /\ feedDb \in [pool : [UUID -> FeedRow \cup {NoRow}], table : [UUID -> FeedRow \cup {NoRow}],
                 cleaner : BOOLEAN]
  /\ disk \in [UUID -> Images \cup {NoData}]
  /\ journal \in RowMap /\ durable \in RowMap /\ batch \in RowMap
  /\ wedged \in BOOLEAN

(* "amountSize: size datapool that dedicate to data", one of the things to *)
(* be concerned about "when change state" (dataPool.cpp): however feeds    *)
(* and images come, are sent, evicted and deleted, it is their size, and   *)
(* the pool stays within its limits.                                       *)
SpaceIsCounted ==
  /\ dp.amountSize = FeedBytes(dp, FeedsIn(dp, {"M", "MS"})) + ImageBytes(dp, ImagesIn(dp))
  /\ dp.amountSize <= LIMITSIZE
  /\ Cardinality(Keys(dp.storage)) <= LIMITKEY

(* An entry of the pool and the feed table and file behind it tell the     *)
(* same: what is cached is what is stored, what was deleted is deleted     *)
(* there, and an entry only counts as without an image if there is no file.*)
CacheIsCurrent ==
  \A u \in Keys(dp.storage) :
    LET e == dp.storage[u]
    IN  /\ Live(Content(feedDb)[u]) <=> ~e.isDelete
        /\ e.feed_state \in {"M", "MS"} => e.feedData = Content(feedDb)[u].feed
        /\ e.feed_state = "U" <=> e.isDelete
        /\ e.image_state = "M" => e.imageData = disk[u]
        /\ e.image_state = "U" <=> disk[u] = NoData

(* A consistent pool answers 404 for a uuid it does not know, and lets a   *)
(* POST of it pass, without asking the database.                           *)
ConsistentKnowsAll == dp.consistent => \A u \in UUID : Live(Content(feedDb)[u]) => IsIdExist(dp, u)

(* A row only asks for a feed that is live, "need feed means we will not   *)
(* encouter with deleted id" (client.cpp).                                 *)
NeedFeedIsLive ==
  \A u \in Keys(journal) : journal[u].needFeed => Live(Content(feedDb)[u])

(* getImageData is only called for an image there is, else it throws:      *)
(* "image is missing" (dataPool.cpp).                                      *)
NeededImageIsThere ==
  \A u \in Keys(journal) :
    journal[u].needImage /\ IsIdExistAndNotDeleted(dp, u) => ~ImageThrows(dp, u)

(* No getter of the pool throws while a handler holds the mutexes, and     *)
(* recruit finds a row for each uuid it asked the database for.            *)
NeverWedged == ~wedged

(* What senders and the client see is what the store and the journal       *)
(* alone would show: no code and no batch depends on what is cached,       *)
(* pooled or flushed.                                                      *)
StoredFeeds ==
  [u \in UUID |-> IF Live(Content(feedDb)[u])
                  THEN [feed |-> Content(feedDb)[u].feed, image |-> disk[u]]
                  ELSE NoRow]

Store == INSTANCE FeedStore WITH store <- StoredFeeds

StoreSpec == Store!Spec
=============================================================================
