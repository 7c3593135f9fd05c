-------------------------- MODULE ServerRefinement --------------------------
(***************************************************************************)
(* Server implements FeedStore while no statement fails and the server     *)
(* runs: no code and no batch depends on what is cached, pooled or flushed.*)
(***************************************************************************)
EXTENDS ServerProofs

(* The abstract module's copy of the row vocabulary is the same one.       *)
LEMMA StoreVocabulary ==
  /\ Store!EmptyMap = EmptyMap /\ Store!Blank = Blank
  /\ \A m : Store!Keys(m) = Keys(m)
  /\ \A m, S : Store!Only(m, S) = Only(m, S)
  /\ \A S, K : Store!IsPrefixSet(S, K) = IsPrefixSet(S, K)
  /\ \A old, c : Store!Summed(old, c) = Summed(old, c)
  /\ \A c : Store!Code(c) = Code(c)
<1>1. Store!EmptyMap = EmptyMap /\ Store!Blank = Blank
  BY DEF EmptyMap, Store!EmptyMap, Blank, Store!Blank
<1>2. \A m : Store!Keys(m) = Keys(m)
  BY DEF Keys, Store!Keys
<1>3. \A m, S : Store!Only(m, S) = Only(m, S)
  BY DEF Only, Store!Only
<1>4. \A S, K : Store!IsPrefixSet(S, K) = IsPrefixSet(S, K)
  BY DEF IsPrefixSet, Store!IsPrefixSet
<1>5. \A old, c : Store!Summed(old, c) = Summed(old, c)
  BY <1>1 DEF Summed, Store!Summed
<1>6. \A c : Store!Code(c) = Code(c)
  BY <1>1 DEF Code, Store!Code
<1>7. QED
  BY <1>1, <1>2, <1>3, <1>4, <1>5, <1>6

-----------------------------------------------------------------------------
(* The store that rows and files stand for                                 *)

Entry(row, image) == IF Live(row) THEN [feed |-> row.feed, image |-> image] ELSE NoRow

LEMMA StoredIs ==
  /\ StoredFeeds \in [UUID -> {Entry(Content(feedDb)[u], disk[u]) : u \in UUID}]
  /\ \A u \in UUID : StoredFeeds[u] = Entry(Content(feedDb)[u], disk[u])
BY DEF StoredFeeds, Entry

(* A live entry is never "no row".                                         *)
LEMMA EntryThere ==
  ASSUME NEW row \in FeedRow \cup {NoRow}, NEW image \in Images \cup {NoData}
  PROVE  Entry(row, image) # NoRow <=> Live(row)
<1>1. CASE ~Live(row)
  BY <1>1 DEF Entry
<1>2. CASE Live(row)
  <2>1. row \in FeedRow
    BY <1>2 DEF Live
  <2>2. Entry(row, image) \in StoreRow
    BY <1>2, <2>1 DEF Entry, StoreRow, FeedRow
  <2>3. QED
    BY <1>2, <2>2, RowAssumption
<1>3. QED
  BY <1>1, <1>2

LEMMA StoredThere ==
  ASSUME CurrentInv, NEW u \in UUID
  PROVE  /\ StoredFeeds[u] # NoRow <=> Live(Content(feedDb)[u])
         /\ Live(Content(feedDb)[u]) =>
              StoredFeeds[u] = [feed |-> Content(feedDb)[u].feed, image |-> disk[u]]
<1>1. Content(feedDb)[u] \in FeedRow \cup {NoRow} /\ disk[u] \in Images \cup {NoData}
  BY ContentType DEF CurrentInv, FeedMap, ImageMap
<1>2. StoredFeeds[u] = Entry(Content(feedDb)[u], disk[u])
  BY StoredIs
<1>3. QED
  BY <1>1, <1>2, EntryThere DEF Entry

LEMMA StoredChanges ==
  ASSUME CurrentInv, NEW u \in UUID, NEW c, NEW r, NEW x, NEW code, Effect(u, c, r, x, code)
  PROVE  StoredFeeds' = [StoredFeeds EXCEPT ![u] = Entry(r, x)]
<1> DEFINE rows == Content(feedDb)
           next == Content(feedDb')
<1>1. rows \in FeedMap /\ disk \in ImageMap /\ next = [rows EXCEPT ![u] = r] /\ disk' = [disk EXCEPT ![u] = x]
  BY ContentType DEF CurrentInv, Effect
<1>2. StoredFeeds = [v \in UUID |-> Entry(rows[v], disk[v])]
  BY DEF StoredFeeds, Entry
<1>3. StoredFeeds' = [v \in UUID |-> Entry(next[v], disk'[v])]
  BY DEF StoredFeeds, Entry
<1> HIDE DEF rows, next
<1>4. \A v \in UUID : /\ next[v] = IF v = u THEN r ELSE rows[v]
                      /\ disk'[v] = IF v = u THEN x ELSE disk[v]
  BY <1>1 DEF FeedMap, ImageMap
<1>5. QED
  BY <1>2, <1>3, <1>4

LEMMA StoredStays ==
  ASSUME Content(feedDb') = Content(feedDb), disk' = disk
  PROVE  StoredFeeds' = StoredFeeds
BY DEF StoredFeeds

-----------------------------------------------------------------------------
(* The integrity checks tell what is live                                  *)

LEMMA ChecksTell ==
  ASSUME Reliable, CurrentInv, NEW u \in UUID
  PROVE  /\ TRUE \in MayPost(u) => ~Live(Content(feedDb)[u])
         /\ FALSE \in MayPost(u) => Live(Content(feedDb)[u])
         /\ TRUE \in MayChange(u) => Live(Content(feedDb)[u])
         /\ FALSE \in MayChange(u) => ~Live(Content(feedDb)[u])
<1> DEFINE live == Live(Content(feedDb)[u])
<1>1. live \in BOOLEAN /\ AreThereKey(feedDb, u) = {live}
  <2>1. AreThereKey(feedDb, u) = {live}
    BY KeyIsKnown DEF CurrentInv
  <2>2. live \in BOOLEAN
    BY ContentType DEF CurrentInv, Live, FeedMap, FeedRow
  <2>3. QED
    BY <2>1, <2>2
<1>2. IsIdExist(dp, u) => (live <=> ~dp.storage[u].isDelete) /\ dp.storage[u].isDelete \in BOOLEAN
  <2>1. ASSUME IsIdExist(dp, u) PROVE dp.storage[u] \in MacroData /\ FeedAgrees(dp.storage[u], Content(feedDb)[u])
    BY <2>1 DEF CurrentInv, Agree, IsIdExist, PoolRecord, Storage
  <2>2. QED
    BY <2>1, EntryType DEF FeedAgrees
<1>3. dp.consistent \in BOOLEAN /\ (dp.consistent /\ live => IsIdExist(dp, u))
  BY DEF CurrentInv, Agree, PoolRecord, Knows, IsIdExist
<1> HIDE DEF live
<1>4. MayPost(u) = {IF IsIdExist(dp, u) THEN dp.storage[u].isDelete ELSE dp.consistent \/ ~live}
  BY <1>1 DEF MayPost
<1>5. MayChange(u) = {IsIdExistAndNotDeleted(dp, u) \/ (~dp.consistent /\ live)}
  BY <1>1 DEF MayChange
<1>6. TRUE \in MayPost(u) => ~live
  BY <1>1, <1>2, <1>3, <1>4
<1>7. FALSE \in MayPost(u) => live
  BY <1>1, <1>2, <1>3, <1>4
<1>8. TRUE \in MayChange(u) => live
  BY <1>1, <1>2, <1>3, <1>5 DEF IsIdExistAndNotDeleted
<1>9. FALSE \in MayChange(u) => ~live
  BY <1>1, <1>2, <1>3, <1>5 DEF IsIdExistAndNotDeleted
<1>10. QED
  BY <1>6, <1>7, <1>8, <1>9 DEF live

-----------------------------------------------------------------------------
(* Every step is one of the store, or a stutter                            *)

LEMMA InitRefines == Init => Store!Init
<1> SUFFICES ASSUME Init PROVE Store!Init
  OBVIOUS
<1>1. PICK table \in [UUID -> [feed : Feeds, isDelete : {FALSE}] \cup {NoRow}] :
        feedDb = Connected(table) /\ dp \in Started(table) /\ disk \in [UUID -> Images \cup {NoData}]
  BY DEF Init
<1>2. table \in FeedMap
  BY DEF FeedMap, FeedRow
<1>3. Content(feedDb) = table
  BY <1>1, <1>2, StartedAgrees
<1>4. ASSUME NEW u \in UUID
      PROVE  Entry(table[u], disk[u]) \in [feed : Feeds, image : Images \cup {NoData}] \cup {NoRow}
  BY <1>1 DEF Entry, Live
<1>5. StoredFeeds \in [UUID -> [feed : Feeds, image : Images \cup {NoData}] \cup {NoRow}]
  BY <1>3, <1>4 DEF StoredFeeds, Entry
<1>6. journal = EmptyMap /\ answer = Code(0)
  BY DEF Init
<1>7. QED
  BY <1>5, <1>6, StoreVocabulary DEF Store!Init

LEMMA RefuseRefines ==
  ASSUME NEW code, Refuse(code)
  PROVE  Store!Refuse(code)
BY StoreVocabulary, StoredStays DEF Refuse, Store!Refuse

LEMMA ToldIsAdded ==
  ASSUME NEW u, NEW a, NEW b, NEW c, NEW d,
         journal' = Added(journal, u, [needFeed |-> a, needImage |-> b, needDelete |-> c, needDeleteImage |-> d])
  PROVE  Store!Told(u, a, b, c, d)
BY StoreVocabulary DEF Added, Store!Told

LEMMA PostRefines ==
  ASSUME Reliable, RunInv, NEW u \in UUID, NEW feed \in Feeds, NEW image \in Images \cup {NoData},
         Post(u, feed, image)
  PROVE  Store!Post(u, feed, image)
<1> DEFINE r == [feed |-> feed, isDelete |-> FALSE]
           x == PutImage(u, image # NoData, image)
<1>1. CurrentInv
  BY DEF RunInv
<1>2. CASE FALSE \in MayPost(u) /\ Refuse(409)
  <2>1. StoredFeeds[u] # NoRow
    BY <1>1, <1>2, ChecksTell, StoredThere
  <2>2. Store!Refuse(409)
    BY <1>2, RefuseRefines
  <2>3. QED
    BY <2>1, <2>2 DEF Store!Post
<1>3. CASE TRUE \in MayPost(u) /\ Effect(u, PostCommand(image), r, x, 201)
  <2>1. ~Live(Content(feedDb)[u]) /\ StoredFeeds[u] = NoRow
    BY <1>1, <1>3, ChecksTell, StoredThere
  <2>2. x = image
    BY <2>1 DEF PutImage, RunInv, Wanted
  <2>3. StoredFeeds' = [StoredFeeds EXCEPT ![u] = Entry(r, x)]
    BY <1>1, <1>3, StoredChanges
  <2>4. Entry(r, x) = [feed |-> feed, image |-> image]
    BY <2>2, LiveRow DEF Entry
  <2>5. Store!Told(u, TRUE, image # NoData, FALSE, FALSE)
    BY <1>3, ToldIsAdded DEF Effect, PostCommand
  <2>6. answer' = Store!Code(201)
    BY <1>3, StoreVocabulary DEF Effect
  <2>7. QED
    BY <2>1, <2>3, <2>4, <2>5, <2>6 DEF Store!Post
<1>4. QED
  BY <1>1, <1>2, <1>3, PostEffect

LEMMA PutRefines ==
  ASSUME Reliable, RunInv, NEW u \in UUID, NEW feed \in Feeds, NEW imageUpdate \in BOOLEAN,
         NEW image \in Images \cup {NoData}, Put(u, feed, imageUpdate, image)
  PROVE  Store!Put(u, feed, imageUpdate, image)
<1> DEFINE r == [feed |-> feed, isDelete |-> FALSE]
           x == PutImage(u, imageUpdate, image)
<1>1. CurrentInv
  BY DEF RunInv
<1>2. CASE FALSE \in MayChange(u) /\ Refuse(404)
  <2>1. StoredFeeds[u] = NoRow
    BY <1>1, <1>2, ChecksTell, StoredThere
  <2>2. Store!Refuse(404)
    BY <1>2, RefuseRefines
  <2>3. QED
    BY <2>1, <2>2 DEF Store!Put
<1>3. ASSUME TRUE \in MayChange(u), NEW needFeed \in BOOLEAN,
             ~needFeed => Content(feedDb)[u] = r,
             Effect(u, PutCommand(needFeed, imageUpdate, image), r, x, 204)
      PROVE  Store!Put(u, feed, imageUpdate, image)
  <2>1. /\ Live(Content(feedDb)[u]) /\ StoredFeeds[u] # NoRow
        /\ StoredFeeds[u] = [feed |-> Content(feedDb)[u].feed, image |-> disk[u]]
    BY <1>1, <1>3, ChecksTell, StoredThere
  <2>2. x = IF imageUpdate THEN image ELSE StoredFeeds[u].image
    BY <2>1 DEF PutImage
  <2>3. StoredFeeds' = [StoredFeeds EXCEPT ![u] = Entry(r, x)]
    BY <1>1, <1>3, StoredChanges
  <2>4. Entry(r, x) = [feed |-> feed, image |-> x]
    BY LiveRow DEF Entry
  <2>5. StoredFeeds' = [StoredFeeds EXCEPT ![u] =
                          [feed  |-> feed,
                           image |-> IF imageUpdate THEN image ELSE StoredFeeds[u].image]]
    BY <2>2, <2>3, <2>4
  <2>6. Store!Told(u, needFeed, imageUpdate /\ image # NoData, FALSE, imageUpdate /\ image = NoData)
    BY <1>3, ToldIsAdded DEF Effect, PutCommand
  <2>7. \E n \in {TRUE, feed # StoredFeeds[u].feed} :
          Store!Told(u, n, imageUpdate /\ image # NoData, FALSE, imageUpdate /\ image = NoData)
    <3>1. CASE needFeed
      BY <2>6, <3>1, Zenon
    <3>2. CASE ~needFeed
      <4>1. needFeed = (feed # StoredFeeds[u].feed)
        BY <1>3, <2>1, <3>2
      <4>2. QED
        BY <2>6, <4>1, Zenon
    <3>3. QED
      BY <3>1, <3>2
  <2>8. answer' = Store!Code(204)
    BY <1>3, StoreVocabulary DEF Effect
  <2>9. QED
    BY <2>1, <2>5, <2>7, <2>8 DEF Store!Put
<1>4. \/ FALSE \in MayChange(u) /\ Refuse(404)
      \/ /\ TRUE \in MayChange(u)
         /\ \E needFeed \in BOOLEAN :
              /\ ~needFeed => Content(feedDb)[u] = r
              /\ Effect(u, PutCommand(needFeed, imageUpdate, image), r, x, 204)
  BY <1>1, PutEffect
<1> HIDE DEF r, x
<1>5. QED
  BY <1>2, <1>3, <1>4

LEMMA DeleteRefines ==
  ASSUME Reliable, RunInv, NEW u \in UUID, Delete(u)
  PROVE  Store!Delete(u)
<1> DEFINE r == [feed |-> NoData, isDelete |-> TRUE]
<1>1. CurrentInv
  BY DEF RunInv
<1>2. CASE FALSE \in MayChange(u) /\ Refuse(404)
  <2>1. StoredFeeds[u] = NoRow
    BY <1>1, <1>2, ChecksTell, StoredThere
  <2>2. Store!Refuse(404)
    BY <1>2, RefuseRefines
  <2>3. QED
    BY <2>1, <2>2 DEF Store!Delete
<1>3. CASE TRUE \in MayChange(u) /\ Effect(u, DeleteCommand, r, NoData, 204)
  <2>1. StoredFeeds[u] # NoRow
    BY <1>1, <1>3, ChecksTell, StoredThere
  <2>2. StoredFeeds' = [StoredFeeds EXCEPT ![u] = Entry(r, NoData)]
    BY <1>1, <1>3, StoredChanges
  <2>3. Entry(r, NoData) = NoRow
    BY DEF Entry, Live
  <2>4. Store!Told(u, FALSE, FALSE, TRUE, FALSE)
    BY <1>3, ToldIsAdded DEF Effect, DeleteCommand
  <2>5. answer' = Store!Code(204)
    BY <1>3, StoreVocabulary DEF Effect
  <2>6. QED
    BY <2>1, <2>2, <2>3, <2>4, <2>5 DEF Store!Delete
<1>4. QED
  BY <1>1, <1>2, <1>3, DeleteEffect

(* What recruit puts into a message, from pool, table and file, is what    *)
(* the store has.                                                          *)
LEMMA MessageIsOfStore ==
  ASSUME RunInv, NEW S, NEW u \in UUID, Only(journal, S)[u] # NoRow, NEW row,
         u \in FromDb(Only(journal, S)) => row = Content(feedDb)[u]
  PROVE  Message(Only(journal, S), u, row) = Store!Message(u)
<1> DEFINE b      == Only(journal, S)
           stored == StoredFeeds[u]
           e      == dp.storage[u]
<1>1. b[u] = journal[u] /\ u \in Keys(b)
  BY DEF Only, Keys
<1>2. /\ journal[u].needFeed => Live(Content(feedDb)[u])
      /\ journal[u].needImage => Live(Content(feedDb)[u]) /\ disk[u] # NoData
  BY <1>1 DEF RunInv, Wanted
<1>3. Live(Content(feedDb)[u]) => stored.feed = Content(feedDb)[u].feed /\ stored.image = disk[u]
  <2>1. u \in UUID /\ CurrentInv
    BY DEF RunInv
  <2>2. Live(Content(feedDb)[u]) => stored = [feed |-> Content(feedDb)[u].feed, image |-> disk[u]]
    BY <2>1, StoredThere
  <2> HIDE DEF stored
  <2>3. QED
    BY <2>2
<1>4. IsIdExistAndNotDeleted(dp, u) =>
        /\ FeedAgrees(e, Content(feedDb)[u]) /\ ImageAgrees(e, disk[u]) /\ e.feed_state \in COH_STATE
  BY EntryType DEF RunInv, CurrentInv, Agree, PoolRecord, Storage, IsIdExistAndNotDeleted, IsIdExist
<1>5. ASSUME journal[u].needFeed
      PROVE  stored.feed = IF u \in FromPool(b) THEN GetFeedData(dp, u)
                           ELSE IF row = NoRow THEN NoData ELSE row.feed
  <2>1. CASE u \in FromPool(b)
    <3>1. IsIdExistAndNotDeleted(dp, u) /\ e.feedData # NoData
      BY <2>1 DEF FromPool, GetFeedData
    <3>2. e.feedData = Content(feedDb)[u].feed
      BY <1>4, <3>1 DEF FeedAgrees, COH_STATE
    <3>3. QED
      BY <1>2, <1>3, <1>5, <2>1, <3>2 DEF GetFeedData
  <2>2. CASE u \notin FromPool(b)
    <3>1. row = Content(feedDb)[u] /\ row # NoRow
      BY <1>1, <1>2, <1>5, <2>2 DEF FromDb, Live
    <3>2. QED
      BY <1>2, <1>3, <1>5, <2>2, <3>1
  <2>3. QED
    BY <2>1, <2>2
<1>6. ASSUME journal[u].needImage
      PROVE  stored.image = ImageOf(u)
  <2>1. ImageOf(u) = disk[u]
    BY <1>4 DEF ImageOf, GetImageData, GetDataFromDisk, ImageAgrees
  <2>2. QED
    BY <1>2, <1>3, <1>6, <2>1
<1>7. Message(b, u, row) =
        [isDelete      |-> journal[u].shouldDeleted,
         isImageDelete |-> journal[u].shouldDeleteImage,
         feed          |-> IF ~journal[u].needFeed THEN NoData
                           ELSE IF u \in FromPool(b) THEN GetFeedData(dp, u)
                           ELSE IF row = NoRow THEN NoData ELSE row.feed,
         image         |-> IF journal[u].needImage THEN ImageOf(u) ELSE NoData]
  <2>1. u \in FromPool(b) => journal[u].needFeed
    BY <1>1 DEF FromPool
  <2> HIDE DEF b
  <2>2. QED
    BY <1>1, <2>1 DEF Message
<1>8. Store!Message(u) =
        [isDelete      |-> journal[u].shouldDeleted,
         isImageDelete |-> journal[u].shouldDeleteImage,
         feed          |-> IF journal[u].needFeed  THEN stored.feed  ELSE NoData,
         image         |-> IF journal[u].needImage THEN stored.image ELSE NoData]
  BY DEF Store!Message
<1> HIDE DEF b, stored, e
<1>9. Message(b, u, row) = Store!Message(u)
  BY <1>5, <1>6, <1>7, <1>8
<1>10. QED
  BY <1>9 DEF b

LEMMA RecruitRefines ==
  ASSUME Reliable, RunInv, Recruit
  PROVE  Store!Recruit
<1>1. PICK S \in SUBSET Keys(journal) :
        /\ IsPrefixSet(S, Keys(journal))
        /\ batch' = Only(journal, S)
        /\ journal' = Only(journal, UUID \ S)
  BY JournalVocabulary DEF Recruit, Jor!HandOver
<1> DEFINE b     == Only(journal, S)
           asked == FromDb(b)
           rows  == Content(feedDb)
<1>2. PICK got \in GetDataFromDb(feedDb, asked) :
        /\ feedDb' = got.db
        /\ answer' = [code |-> 0, batch |-> [u \in UUID |->
                        IF b[u] = NoRow THEN NoRow ELSE Message(b, u, got.result[u])]]
  BY <1>1 DEF Recruit
<1>3. feedDb \in FeedConnection /\ rows \in FeedMap
  BY ContentType DEF RunInv, CurrentInv
<1>4. got.result = Taken(rows, asked, asked) /\ Content(feedDb') = rows
  BY <1>2, <1>3, ReadKeeps
<1>5. asked \in SUBSET Keys(rows)
  BY AskedAreThere DEF RunInv
<1>6. \A u \in asked : got.result[u] = rows[u]
  <2> HIDE DEF asked, rows
  <2>1. QED
    BY <1>3, <1>4, <1>5, TakenIsOwn
<1>7. ASSUME NEW u \in UUID
      PROVE  (IF b[u] = NoRow THEN NoRow ELSE Message(b, u, got.result[u])) =
             (IF u \in S THEN Store!Message(u) ELSE NoRow)
  <2>1. CASE u \in S
    <3>1. b[u] # NoRow
      BY <1>1, <2>1 DEF Only, Keys
    <3>2. Message(b, u, got.result[u]) = Store!Message(u)
      BY <1>6, <3>1, MessageIsOfStore
    <3>3. QED
      BY <2>1, <3>1, <3>2
  <2>2. CASE u \notin S
    BY <2>2 DEF Only
  <2>3. QED
    BY <2>1, <2>2
<1>8. StoredFeeds' = StoredFeeds
  BY <1>4, StoredStays DEF Recruit
<1> DEFINE ours == [u \in UUID |-> IF b[u] = NoRow THEN NoRow ELSE Message(b, u, got.result[u])]
<1>9. ours = [u \in UUID |-> IF u \in S THEN Store!Message(u) ELSE NoRow]
  BY <1>7
<1>10. answer' = [code |-> 0, batch |-> ours]
  BY <1>2
<1> HIDE DEF ours, b, asked
<1>11. QED
  BY <1>1, <1>8, <1>9, <1>10, StoreVocabulary DEF Store!Recruit

LEMMA QuietRefines ==
  ASSUME Content(feedDb') = Content(feedDb), UNCHANGED <<disk, journal, answer>>
  PROVE  UNCHANGED Store!vars
BY StoredStays DEF Store!vars

LEMMA NextRefines == Reliable /\ ~MayRestart /\ RunInv /\ [Next]_vars => [Store!Next]_(Store!vars)
<1> SUFFICES ASSUME Reliable, ~MayRestart, RunInv, [Next]_vars PROVE [Store!Next]_(Store!vars)
  OBVIOUS
<1>1. CASE \E u \in UUID, feed \in Feeds, image \in Images \cup {NoData} : Post(u, feed, image)
  BY <1>1, PostRefines DEF Store!Next
<1>2. CASE \E u \in UUID, feed \in Feeds, image \in Images \cup {NoData} :
             \E imageUpdate \in BOOLEAN : Put(u, feed, imageUpdate, image)
  BY <1>2, PutRefines DEF Store!Next
<1>3. CASE \E u \in UUID : Delete(u)
  BY <1>3, DeleteRefines DEF Store!Next
<1>4. CASE Recruit
  BY <1>4, RecruitRefines DEF Store!Next
<1>5. CASE RecruitFails
  BY <1>5, RecruitSucceeds
<1>6. CASE Cron
  <2>1. Content(feedDb') = Content(feedDb)
    BY <1>6, CronKeeps DEF Cron, RunInv, CurrentInv
  <2>2. QED
    BY <1>6, <2>1, QuietRefines DEF Cron, journals
<1>7. CASE JournalCron
  BY <1>7, QuietRefines DEF JournalCron, Jor!Persist
<1>8. CASE Restart
  BY <1>8 DEF Restart
<1>9. CASE UNCHANGED vars
  BY <1>9, QuietRefines DEF vars, journals
<1>10. QED
  BY <1>1, <1>2, <1>3, <1>4, <1>5, <1>6, <1>7, <1>8, <1>9 DEF Next

(* While no statement fails and the server runs, senders and the client    *)
(* see a store of feeds and the journal of what is still to be sent, for   *)
(* every size of pool, caches and SELECTs.                                 *)
THEOREM StoreRefines == Reliable /\ ~MayRestart => (Spec => StoreSpec)
<1> SUFFICES ASSUME Reliable, ~MayRestart PROVE Spec => StoreSpec
  OBVIOUS
<1>1. RunInv /\ [Next]_vars => RunInv' /\ [Store!Next]_(Store!vars)
  BY NextRunInv, NextRefines
<1>2. QED
  BY <1>1, InitRunInv, InitRefines, PTL DEF Spec, StoreSpec, Store!Spec
=============================================================================
